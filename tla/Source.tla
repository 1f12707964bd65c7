-------------------------------- MODULE Source --------------------------------
(***************************************************************************)
(* What reading promises: texts, one inside the other.  Characters are     *)
(* taken from the front of the innermost text, each of them once, and up   *)
(* to two of them can be put back.  Another text may be put in front of    *)
(* what remains, or be opened, read to its end and closed.                 *)
(***************************************************************************)
EXTENDS Integers, Sequences

CONSTANT Texts   \* everything that can be read: characters without NUL

VARIABLES
  rest,   \* what remains of each open text, innermost last
  read    \* the last characters taken and not put back, two at most
vars == <<rest, read>>

Top == rest[Len(rest)]
SetTop(t) == [rest EXCEPT ![Len(rest)] = t]
Recent(s) == IF Len(s) > 2 THEN SubSeq(s, Len(s) - 1, Len(s)) ELSE s

\* At the end of a text that is read from a file, more may come: nothing is.
Take ==
  IF Top = <<>> THEN read' = Recent(Append(read, "EOF")) /\ UNCHANGED rest
  ELSE read' = Recent(Append(read, Head(Top))) /\ rest' = SetTop(Tail(Top))

PutBack ==
  /\ read # <<>>
  /\ read' = SubSeq(read, 1, Len(read) - 1)
  /\ LET c == read[Len(read)]
     IN rest' = IF c = "EOF" THEN rest ELSE SetTop(<<c>> \o Top)

Insert == \E t \in Texts : rest' = SetTop(t \o Top) /\ UNCHANGED read
Open == \E t \in Texts : rest' = Append(rest, t) /\ read' = <<>>
Close == \E n \in 1 .. Len(rest) - 1 : rest' = SubSeq(rest, 1, n) /\ read' = <<>>

Init == rest \in [1 .. 1 -> Texts] /\ read = <<>>
Next == Take \/ PutBack \/ Insert \/ Open \/ Close
Spec == Init /\ [][Next]_vars
===============================================================================
