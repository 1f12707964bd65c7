--------------------------------- MODULE Options ---------------------------------
(***************************************************************************)
(* Options of options.c: the builtin getopts, which keeps its place between*)
(* calls in shoptind and shoptoff and, for local, with the text of OPTIND; *)
(* and nextopt, by which the other builtins read theirs.  A word is a      *)
(* sequence of characters.                                                 *)
(*                                                                         *)
(* Definitions with a suffix, such as getoptsreset_off, are faulty         *)
(* variants of the definition that follows them.                           *)
(***************************************************************************)
EXTENDS Integers, Sequences

CONSTANT NULL      \* no word, no value

Word(args, i) == IF i \in 1 .. Len(args) THEN args[i] ELSE NULL
\* Whether c is an option of optstr, and whether it has an argument.
Silent(optstr) == optstr # <<>> /\ optstr[1] = ":"
At(optstr, c) == {i \in DOMAIN optstr : optstr[i] = c /\ c # ":"}
Takes(optstr, c) == \E i \in At(optstr, c) : i < Len(optstr) /\ optstr[i + 1] = ":"
IsOption(p) == p # NULL /\ Len(p) > 1 /\ p[1] = "-"
DashDash(p) == p = <<"-", "-">>

----------------------------------------------------------------------------
(* getopts.  The variable OPTIND is its number and, if getopts has set it, *)
(* the place behind its text; o is what a call leaves in the variables.    *)

Fresh == [ind |-> 1, off |-> -1, OPTIND |-> [num |-> 1, private |-> FALSE, ind |-> 0, off |-> 0],
          opt |-> "none", OPTARG |-> NULL, done |-> FALSE]
\* The function of the variable: after an assignment and at the end of local.
getoptsreset_off(s) ==
  IF s.OPTIND.private THEN [s EXCEPT !.ind = s.OPTIND.ind, !.off = -1] ELSE [s EXCEPT !.ind = -1, !.off = -1]
getoptsreset(s) ==
  IF s.OPTIND.private THEN [s EXCEPT !.ind = s.OPTIND.ind, !.off = s.OPTIND.off]
  ELSE [s EXCEPT !.ind = -1, !.off = -1]
Assigned(s, n) == getoptsreset([s EXCEPT !.OPTIND = [num |-> n, private |-> FALSE, ind |-> 0, off |-> 0]])
Restored(s, saved) == getoptsreset([s EXCEPT !.OPTIND = saved])

\* The end of a call: it is at p of the word before optnext, or at no place.
Out(s, optnext, p, word, opt, arg, done) ==
  LET off == IF p = NULL THEN -1 ELSE Len(word) - Len(p)
  IN getoptsreset([s EXCEPT !.OPTIND = [num |-> optnext, private |-> TRUE, ind |-> optnext, off |-> off],
                            !.opt = opt, !.OPTARG = arg, !.done = done])
getopts(s, optstr, args) ==
  LET word == Word(args, s.ind - 1)
      within == s.ind > 1 /\ s.off >= 0 /\ Len(word) >= s.off /\ s.off # Len(word)
      next == Word(args, s.ind)
      optnext == IF within THEN s.ind ELSE s.ind + 1
      cur == IF within THEN word ELSE next
      p == IF within THEN SubSeq(word, s.off + 1, Len(word)) ELSE SubSeq(next, 2, Len(next))
      c == p[1]
      rest == Tail(p)
      arg == Word(args, optnext)
  IN CASE ~within /\ ~IsOption(next) -> Out(s, s.ind, NULL, cur, "?", s.OPTARG, TRUE)
       [] ~within /\ IsOption(next) /\ DashDash(next) -> Out(s, optnext, NULL, cur, "?", s.OPTARG, TRUE)
       [] OTHER ->
            IF At(optstr, c) = {} THEN Out(s, optnext, rest, cur, "?", IF Silent(optstr) THEN <<c>> ELSE NULL, FALSE)
            ELSE IF ~Takes(optstr, c) THEN Out(s, optnext, rest, cur, c, NULL, FALSE)
            ELSE IF rest # <<>> THEN Out(s, optnext, NULL, cur, c, rest, FALSE)
            ELSE IF arg # NULL THEN Out(s, optnext + 1, NULL, cur, c, arg, FALSE)
            ELSE IF Silent(optstr) THEN Out(s, optnext, NULL, cur, ":", <<c>>, FALSE)
            ELSE Out(s, optnext, NULL, cur, "?", NULL, FALSE)
getoptscmd(s, optstr, args) ==
  LET r == IF s.ind < 0 THEN [s EXCEPT !.ind = s.OPTIND.num, !.off = -1] ELSE s
  IN getopts(IF r.ind - 1 \in 0 .. Len(args) THEN r ELSE [r EXCEPT !.ind = 1, !.off = -1], optstr, args)

RECURSIVE Loop(_, _, _, _), Inner(_, _, _, _)
\* while getopts ...: what the calls found, and the number of the last.
Result(s) == [opt |-> s.opt, arg |-> s.OPTARG]
Inner(s, optstr, args, n) ==
  IF n = 0 THEN s ELSE Inner(getoptscmd(s, optstr, args), optstr, args, n - 1)
\* After each call a function with local OPTIND=1 makes n calls with the
\* arguments of its own.
Loop(s, optstr, args, inner) ==
  LET r == getoptscmd(s, optstr, args)
      f == IF inner.n = 0 THEN r
           ELSE Restored(Inner(Assigned(r, 1), optstr, inner.args, inner.n), r.OPTIND)
  IN IF r.done THEN [found |-> <<>>, ind |-> r.OPTIND.num]
     ELSE LET l == Loop(f, optstr, args, inner) IN [l EXCEPT !.found = <<Result(r)>> \o @]

----------------------------------------------------------------------------
(* nextopt: argptr is the index of the next word and optptr the rest of    *)
(* the current one; the first error ends the command.                      *)

RECURSIVE Options(_, _, _, _)
Options(optstr, args, argptr, optptr) ==
  LET start == optptr = NULL \/ optptr = <<>>
      word == Word(args, argptr)
      after == IF start THEN argptr + 1 ELSE argptr
      p == IF start THEN Tail(word) ELSE optptr
      c == p[1]
      arg == Word(args, after)
      more(o, a, i, q) == LET r == Options(optstr, args, i, q) IN [r EXCEPT !.found = <<[opt |-> o, arg |-> a]>> \o @]
  IN CASE start /\ ~IsOption(word) -> [found |-> <<>>, ind |-> argptr, error |-> FALSE]
       [] start /\ IsOption(word) /\ DashDash(word) -> [found |-> <<>>, ind |-> after, error |-> FALSE]
       [] OTHER -> IF At(optstr, c) = {} \/ (Takes(optstr, c) /\ Tail(p) = <<>> /\ arg = NULL)
                   THEN [found |-> <<>>, ind |-> after, error |-> TRUE]
                   ELSE IF ~Takes(optstr, c) THEN more(c, NULL, after, Tail(p))
                   ELSE IF Tail(p) # <<>> THEN more(c, Tail(p), after, NULL)
                   ELSE more(c, arg, after + 1, NULL)

----------------------------------------------------------------------------
(* The options in a list of arguments, by the guidelines of POSIX for them *)

RECURSIVE Given(_, _, _)
OfWord(optstr, args, i, k) ==
  LET w == args[i]
      c == w[k]
      err(o, silent) == <<[opt |-> IF Silent(optstr) THEN silent ELSE "?", arg |-> IF Silent(optstr) THEN <<c>> ELSE NULL]>>
      is(a) == <<[opt |-> c, arg |-> a]>>
  IN CASE At(optstr, c) = {} -> [o |-> err(c, "?"), i |-> i, k |-> k + 1]
       [] At(optstr, c) # {} /\ ~Takes(optstr, c) -> [o |-> is(NULL), i |-> i, k |-> k + 1]
       [] Takes(optstr, c) /\ k < Len(w) -> [o |-> is(SubSeq(w, k + 1, Len(w))), i |-> i + 1, k |-> 1]
       [] Takes(optstr, c) /\ k = Len(w) /\ i < Len(args) -> [o |-> is(args[i + 1]), i |-> i + 2, k |-> 1]
       [] OTHER -> [o |-> err(c, ":"), i |-> i + 1, k |-> 1]
\* The options from character k of word i on, and the first operand.
Given(optstr, args, at) ==
  LET i == at.i
      w == Word(args, i)
      step == OfWord(optstr, args, i, IF at.k = 1 THEN 2 ELSE at.k)
      r == Given(optstr, args, IF step.i = i /\ step.k > Len(w) THEN [i |-> i + 1, k |-> 1] ELSE [i |-> step.i, k |-> step.k])
  IN IF at.k = 1 /\ ~IsOption(w) THEN [found |-> <<>>, ind |-> i]
     ELSE IF at.k = 1 /\ DashDash(w) THEN [found |-> <<>>, ind |-> i + 1]
     ELSE [r EXCEPT !.found = step.o \o @]

\* A loop of getopts finds the options and their arguments, whatever loop of
\* its own a function with a local OPTIND runs in between, and leaves OPTIND at
\* the first operand.
Parses(optstr, args, inner) == Loop(Fresh, optstr, args, inner) = Given(optstr, args, [i |-> 1, k |-> 1])
\* nextopt finds the same options as getopts, up to the first that is wrong.
Agrees(optstr, args) ==
  LET n == Options(optstr, args, 1, NULL)
      g == Given(optstr, args, [i |-> 1, k |-> 1])
      wrong == {k \in DOMAIN g.found : g.found[k].opt \in {"?", ":"}}
  IN IF wrong = {} THEN ~n.error /\ n.found = g.found /\ n.ind = g.ind
     ELSE n.error /\ \A k \in wrong : Len(n.found) < k
===============================================================================
