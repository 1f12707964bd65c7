--------------------------------- MODULE Pattern ---------------------------------
(***************************************************************************)
(* Patterns: pmatch of expand.c, which finds a match with one place to     *)
(* return to, as case and the expansions that trim a value use it.         *)
(*                                                                         *)
(* A pattern is a sequence of characters in which ESC quotes the next one; *)
(* a string is a sequence of characters.  Places in them are indexes, 0 is *)
(* a null pointer.  Classes as [:alpha:] are left out.                     *)
(*                                                                         *)
(* Definitions with a suffix, such as Failed_start, are faulty variants of  *)
(* the definition that follows them.                                       *)
(***************************************************************************)
EXTENDS Integers, Sequences

ESC == "ESC"       \* CTLESC
Code(c) ==
  CASE c = "!" -> 33 [] c = "*" -> 42 [] c = "-" -> 45 [] c = "?" -> 63 [] c = "[" -> 91
    [] c = "\\" -> 92 [] c = "]" -> 93 [] c = "a" -> 97 [] c = "b" -> 98 [] c = "c" -> 99 [] OTHER -> 0
In(c, from, to) == Code(from) <= Code(c) /\ Code(c) <= Code(to)

\* How to match: a prefix (left) or a suffix (right) of the string, of the
\* greatest length (max) or of the least, or with neither all of it.
Whole == [left |-> FALSE, right |-> FALSE, max |-> FALSE]
Ways == {Whole} \cup [left : {TRUE}, right : {FALSE}, max : BOOLEAN] \cup [left : {FALSE}, right : {TRUE}, max : BOOLEAN]

Unknown == -1      \* what is decided by memory behind the pattern
At(s, i) == IF i <= Len(s) THEN s[i] ELSE IF i = Len(s) + 1 THEN "NUL" ELSE "behind"
\* GETC_CTLESC of a pattern at i: where its character is.
Escaped(pat, i) == IF At(pat, i) = ESC THEN i + 1 ELSE i
Bare(pat, i) == Escaped(pat, IF At(pat, i) = "\\" THEN i + 1 ELSE i)

RECURSIVE Bracket(_, _, _, _)
\* The loop of a bracket expression, from i: whether it has chr in it, or that
\* it has no end and [ is itself; and where the pattern goes on.
Bracket(pat, i, chr, found) ==
  LET c == Bare(pat, i)
      range == At(pat, c + 1) = "-" /\ At(pat, c + 2) # "]"
      c2 == Bare(pat, c + 2)
      next == IF range THEN c2 + 1 ELSE c + 1
      now == found \/ IF range THEN In(chr, At(pat, c), At(pat, c2)) ELSE chr = At(pat, c)
  IN CASE At(pat, i) = "NUL" -> [is |-> "literal", p |-> 0]
       [] At(pat, i) = "behind" -> [is |-> "unknown", p |-> 0]
       [] OTHER -> IF At(pat, next) = "behind" THEN [is |-> "unknown", p |-> 0]
                   ELSE IF At(pat, next) = "]" THEN [is |-> IF now THEN "in" ELSE "out", p |-> next + 1]
                   ELSE Bracket(pat, next, chr, now)

RECURSIVE Run(_, _, _, _)
\* What one character of the string is to the pattern at p: whether it
\* matches, and where the pattern goes on.
One(pat, p, chr) ==
  LET is(c, next) == [ok |-> IF chr = c THEN "yes" ELSE "no", p |-> next]
      invert == At(pat, p + 1) = "!"
      b == Bracket(pat, IF invert THEN p + 2 ELSE p + 1, chr, FALSE)
  IN CASE At(pat, p) = "?" -> [ok |-> IF chr = "NUL" THEN "no" ELSE "yes", p |-> p + 1]
       [] At(pat, p) = "\\" -> IF At(pat, p + 1) = "NUL" THEN is("\\", p + 1)
                               ELSE LET c == Escaped(pat, p + 1) IN is(At(pat, c), c + 1)
       [] At(pat, p) = "[" -> IF chr = "NUL" THEN is("[", p + 1)
                              ELSE CASE b.is = "literal" -> is("[", p + 1)
                                     [] b.is = "unknown" -> [ok |-> "unknown", p |-> p + 1]
                                     [] OTHER -> [ok |-> IF (b.is = "in") # invert THEN "yes" ELSE "no", p |-> b.p]
       [] OTHER -> LET c == Escaped(pat, p) IN is(At(pat, c), c + 1)

\* Where the last * left off: the place is one character further.
Star(m) == [m EXCEPT !.ap = m.p, !.aq = m.q]
Failed_start(pat, str, way, m) ==
  IF m.ap # 0 /\ m.aq <= Len(str)
  THEN Run(pat, str, way, [m EXCEPT !.p = m.ap, !.q = m.aq + 1, !.aq = m.aq + 1])
  ELSE m.r
Failed(pat, str, way, m) ==
  IF m.ap # 0 /\ m.aq <= Len(str)
  THEN Run(pat, str, way, [m EXCEPT !.p = m.ap, !.q = m.aq + 1, !.aq = m.aq + 1, !.s = IF m.ap = 1 THEN m.aq + 1 ELSE @])
  ELSE m.r
Ended(pat, str, way, m) ==
  IF m.q <= Len(str) /\ ~way.left THEN Failed(pat, str, way, m)
  ELSE IF ~way.right /\ ~way.max THEN m.q
  ELSE IF way.left THEN Failed(pat, str, way, [m EXCEPT !.r = m.q])
  ELSE IF way.max \/ m.ap = 1 THEN m.s
  ELSE IF m.s > Len(str) THEN m.s
  ELSE Run(pat, str, way, Star([m EXCEPT !.r = m.s, !.s = @ + 1, !.p = 1, !.q = m.s + 1]))
Run(pat, str, way, m) ==
  LET one == One(pat, m.p, At(str, m.q))
  IN CASE At(pat, m.p) = "NUL" -> Ended(pat, str, way, m)
       [] At(pat, m.p) = "*" -> Run(pat, str, way, Star([m EXCEPT !.p = @ + 1]))
       [] OTHER -> CASE one.ok = "unknown" -> Unknown
                     [] one.ok = "yes" -> Run(pat, str, way, [m EXCEPT !.p = one.p, !.q = @ + 1])
                     [] one.ok = "no" -> Failed(pat, str, way, m)
pmatch(pat, str, way) ==
  LET m == [p |-> 1, q |-> 1, s |-> 1, r |-> 0, ap |-> 0, aq |-> 0]
  IN Run(pat, str, way, IF way.right THEN Star(m) ELSE m)

----------------------------------------------------------------------------
(* What patterns mean: a sequence of elements, each a star or a set of     *)
(* characters.                                                             *)

Any == {"any characters"}
RECURSIVE Units(_), Members(_), Elements(_), Matches(_, _)
\* The characters of a pattern and whether they are quoted.
Units(pat) ==
  IF pat = <<>> THEN <<>>
  ELSE LET n == IF pat[1] = "\\" /\ Len(pat) > 1 THEN Escaped(pat, 2) ELSE Escaped(pat, 1)
       IN <<[c |-> pat[n], quoted |-> n > 1 \/ pat[1] = "\\"]>> \o Units(SubSeq(pat, n + 1, Len(pat)))
Plain(c) == [c |-> c, quoted |-> FALSE]
Alphabet == {"!", "*", "-", "?", "[", "\\", "]", "a", "b", "c"}
Members(u) ==
  IF u = <<>> THEN {}
  ELSE IF Len(u) >= 3 /\ u[2] = Plain("-")
  THEN {c \in Alphabet : In(c, u[1].c, u[3].c)} \cup Members(SubSeq(u, 4, Len(u)))
  ELSE {u[1].c} \cup Members(Tail(u))
Elements(u) ==
  IF u = <<>> THEN <<>>
  ELSE LET first == IF Len(u) > 1 /\ u[2] = Plain("!") THEN 3 ELSE 2
           ends == {j \in first + 1 .. Len(u) : u[j] = Plain("]")}
           end == CHOOSE j \in ends : \A k \in ends : j <= k
           set == Members(SubSeq(u, first, end - 1))
       IN CASE u[1] = Plain("*") -> <<Any>> \o Elements(Tail(u))
            [] u[1] = Plain("?") -> <<Alphabet>> \o Elements(Tail(u))
            [] u[1] = Plain("[") /\ ends # {} ->
                 <<IF first = 3 THEN Alphabet \ set ELSE set>> \o Elements(SubSeq(u, end + 1, Len(u)))
            [] OTHER -> <<{u[1].c}>> \o Elements(Tail(u))
Matches(e, str) ==
  IF e = <<>> THEN str = <<>>
  ELSE IF e[1] = Any THEN \E k \in 0 .. Len(str) : Matches(Tail(e), SubSeq(str, k + 1, Len(str)))
  ELSE str # <<>> /\ str[1] \in e[1] /\ Matches(Tail(e), Tail(str))

\* pmatch finds what the pattern means: all of the string, or where the
\* shortest or the longest prefix ends, or where the suffix begins.
Finds(pat, str, way) ==
  LET e == Elements(Units(pat))
      n == Len(str)
      places == IF way.left THEN {i \in 1 .. n + 1 : Matches(e, SubSeq(str, 1, i - 1))}
                ELSE IF way.right THEN {i \in 1 .. n + 1 : Matches(e, SubSeq(str, i, n))}
                ELSE {i \in {n + 1} : Matches(e, str)}
      last == way.left = way.max
      is == pmatch(pat, str, way)
  IN is # Unknown =>
       IF places = {} THEN is = 0
       ELSE is \in places /\ \A i \in places : IF last THEN i <= is ELSE is <= i
=================================================================================
