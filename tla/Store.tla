--------------------------------- MODULE Store ---------------------------------
(***************************************************************************)
(* What the memory stack promises: texts are kept as they were written     *)
(* until they are given back or the mark that was set before them is       *)
(* popped, and a text that was being written when the mark was set is then *)
(* being written again.  There are no blocks and no pointers.              *)
(***************************************************************************)
EXTENDS Integers, SequencesExt

CONSTANT Sizes

VARIABLES
  texts,     \* the texts that are kept, oldest first
  building,  \* the text that is being written
  marks      \* how many texts were kept before, how many with what was being
             \* written, and that

vars == <<texts, building, marks>>

\* The k-th text, n characters of it: all characters can be told apart.
Text(k, n) == [i \in 1 .. n |-> <<k, i>>]
Number == Len(texts) + 1

Allocate(n) == texts' = Append(texts, Text(Number, n)) /\ building' = <<>> /\ UNCHANGED marks
Begin == building' = <<>> /\ UNCHANGED <<texts, marks>>
Extend(n) == building' = Text(Number, Len(building) + n) /\ UNCHANGED <<texts, marks>>
Keep == texts' = Append(texts, building) /\ building' = <<>> /\ UNCHANGED marks

\* The last text is given back, if no mark is set behind it.
GiveBack ==
  /\ texts # <<>> /\ (marks # <<>> => Last(marks).behind < Len(texts))
  /\ texts' = Front(texts) /\ building' = <<>> /\ UNCHANGED marks

Set ==
  /\ marks' = Append(marks, [kept |-> Len(texts), behind |-> Len(texts), building |-> <<>>])
  /\ building' = <<>> /\ UNCHANGED texts

\* What is being written is kept while the mark is set.
Hold ==
  /\ marks' = Append(marks, [kept |-> Len(texts), behind |-> Len(texts) + 1, building |-> building])
  /\ texts' = Append(texts, building) /\ building' = <<>>

\* A mark is popped, and with it the marks set since, when an exception left
\* the functions that set them.
Pop(k) ==
  /\ texts' = SubSeq(texts, 1, marks[k].kept) /\ building' = marks[k].building
  /\ marks' = SubSeq(marks, 1, k - 1)

Init == texts = <<>> /\ building = <<>> /\ marks = <<>>
Next ==
  \/ Begin \/ Keep \/ GiveBack \/ Set \/ Hold
  \/ \E n \in Sizes : Allocate(n) \/ Extend(n)
  \/ \E k \in DOMAIN marks : Pop(k)
Spec == Init /\ [][Next]_vars
===============================================================================
