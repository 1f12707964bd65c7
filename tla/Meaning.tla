-------------------------------- MODULE Meaning --------------------------------
(***************************************************************************)
(* What programs mean: the rules of the manual page for lists, loops,      *)
(* functions, break, continue, return, exit and set -e, stated one         *)
(* construct at a time.  A command ends with a status and in a way: it     *)
(* goes on to the next command, or leaves loops, a function, the shell.    *)
(***************************************************************************)
EXTENDS Integers, Sequences

CONSTANTS
  Fuel,    \* bound: simple commands that a program runs
  Ticks    \* bound: how often the command tick succeeds

(* Programs are trees.  A simple command is a leaf.                        *)

Cmd(c) == [k |-> "cmd", c |-> c]
Not(a) == [k |-> "not", a |-> a]
And(a, b) == [k |-> "and", a |-> a, b |-> b]
Or(a, b) == [k |-> "or", a |-> a, b |-> b]
Semi(a, b) == [k |-> "semi", a |-> a, b |-> b]
If(a, b, c) == [k |-> "if", a |-> a, b |-> b, c |-> c]
While(a, b) == [k |-> "while", a |-> a, b |-> b]
Until(a, b) == [k |-> "until", a |-> a, b |-> b]
For(a) == [k |-> "for", a |-> a]               \* of two words
Case(a, ft, b) == [k |-> "case", a |-> a, ft |-> ft, b |-> b]  \* a's pattern matches
Subshell(a) == [k |-> "sub", a |-> a]
Redir(a, fails) == [k |-> "redir", a |-> a, fails |-> fails]
Function(a) == [k |-> "function", a |-> a]     \* a call of a function with body a
Eval(a) == [k |-> "eval", a |-> a]
Dot(a) == [k |-> "dot", a |-> a]
None == [k |-> "none"]                         \* no else part

Occurs(c, trace) == Len(SelectSeq(trace, LAMBDA d : d = c))
Least(a, b) == IF a < b THEN a ELSE b

----------------------------------------------------------------------------
(* ctx: whether the status is tested, how many loops are around, whether   *)
(* set -e is on, and whether the shell is interactive.                     *)

Done(trace, st) == [trace |-> trace, st |-> st, how |-> "next", n |-> 0]
Leaves(r, st, how, n) == [r EXCEPT !.st = st, !.how = how, !.n = n]
Tested(ctx) == [ctx EXCEPT !.tested = TRUE]

Loops(r, ctx, how, n) ==
  LET m == Least(n, ctx.loops)
  IN IF m = 0 THEN Leaves(r, 0, "next", 0) ELSE Leaves(r, 0, how, m)

Simple(c, ctx, r0) ==
  LET r == Done(Append(r0.trace, c), r0.st)
  IN IF Len(r.trace) > Fuel THEN Leaves(r, 0, "killed", 0)
     ELSE CASE c = "true" -> Leaves(r, 0, "next", 0)
            [] c = "false" -> Leaves(r, 1, "next", 0)
            [] c = "tick" -> Leaves(r, IF Occurs(c, r.trace) <= Ticks THEN 0 ELSE 1, "next", 0)
            [] c = "break" -> Loops(r, ctx, "break", 1)
            [] c = "break 2" -> Loops(r, ctx, "break", 2)
            [] c = "continue" -> Loops(r, ctx, "continue", 1)
            [] c = "continue 2" -> Loops(r, ctx, "continue", 2)
            [] c = "return" -> Leaves(r, r.st, "return", 0)
            [] c = "return 3" -> Leaves(r, 3, "return", 0)
            [] c = "exit" -> Leaves(r, r.st, "exit", 0)
            [] c = "expansion error" -> Leaves(r, 2, "error", 0)
            \* Of a special built-in, unless it is run by command.
            [] c = "special error" -> Leaves(r, 2, IF ctx.interactive THEN "next" ELSE "error", 0)
            [] c = "error" -> Leaves(r, 2, "next", 0)

\* A command that fails and is not tested ends the shell that has set -e.
Checked(r, ctx) ==
  IF ctx.errexit /\ ~ctx.tested /\ r.st # 0 /\ r.how \in {"next", "break", "continue", "return"}
  THEN Leaves(r, r.st, "exit", 0) ELSE r

Returned(r) == IF r.how = "return" THEN Leaves(r, r.st, "next", 0) ELSE r

RECURSIVE M(_, _, _), Loop(_, _, _, _), Words(_, _, _, _)

\* What a loop makes of a way its test or body ended: TRUE if it goes around.
Again(r) == r.how = "next" \/ (r.how = "continue" /\ r.n = 1)
Ended(r, st) ==
  IF r.how \in {"break", "continue"}
  THEN IF r.n > 1 THEN Leaves(r, st, r.how, r.n - 1) ELSE Leaves(r, st, "next", 0)
  ELSE r

\* last is the status of the body that was run last, or 0.
Loop(n, ctx, r, last) ==
  LET in == [ctx EXCEPT !.loops = @ + 1]
      t == M(n.a, Tested(in), r)
  IN IF t.how = "continue" /\ t.n = 1 THEN Loop(n, ctx, Leaves(t, t.st, "next", 0), last)
     ELSE IF t.how # "next" THEN Ended(t, last)
     ELSE IF (t.st = 0) # (n.k = "while") THEN Leaves(t, last, "next", 0)
     ELSE LET b == M(n.b, in, t)
          IN IF Again(b) THEN Loop(n, ctx, Leaves(b, b.st, "next", 0), b.st) ELSE Ended(b, b.st)

\* The body of for, for each of m more words.
Words(n, ctx, r, m) ==
  LET b == M(n.a, [ctx EXCEPT !.loops = @ + 1], r)
  IN IF m > 1 /\ Again(b) THEN Words(n, ctx, Leaves(b, b.st, "next", 0), m - 1) ELSE Ended(b, b.st)

M(n, ctx, r) ==
  CASE n.k = "cmd" -> Checked(Simple(n.c, ctx, r), ctx)
    [] n.k = "not" ->
         LET a == M(n.a, Tested(ctx), r)
         IN IF a.how \in {"next", "break", "continue"} THEN Leaves(a, IF a.st = 0 THEN 1 ELSE 0, a.how, a.n) ELSE a
    [] n.k = "and" ->
         LET a == M(n.a, Tested(ctx), r) IN IF a.how = "next" /\ a.st = 0 THEN M(n.b, ctx, a) ELSE a
    [] n.k = "or" ->
         LET a == M(n.a, Tested(ctx), r) IN IF a.how = "next" /\ a.st # 0 THEN M(n.b, ctx, a) ELSE a
    [] n.k = "semi" ->
         LET a == M(n.a, ctx, r) IN IF a.how = "next" THEN M(n.b, ctx, a) ELSE a
    [] n.k = "if" ->
         LET t == M(n.a, Tested(ctx), r)
         IN IF t.how # "next" THEN t
            ELSE IF t.st = 0 THEN M(n.b, ctx, t)
            ELSE IF n.c = None THEN Leaves(t, 0, "next", 0) ELSE M(n.c, ctx, t)
    [] n.k \in {"while", "until"} -> Loop(n, ctx, r, 0)
    [] n.k = "for" -> Words(n, ctx, r, 2)
    [] n.k = "case" ->
         LET a == M(n.a, ctx, r) IN IF n.ft /\ a.how = "next" THEN M(n.b, ctx, a) ELSE a
    [] n.k = "sub" ->
         LET a == M(n.a, [ctx EXCEPT !.loops = 0, !.interactive = FALSE], r)
         IN IF a.how = "killed" THEN a ELSE Checked(Leaves(a, a.st, "next", 0), ctx)
    [] n.k = "redir" ->
         Checked(IF n.fails THEN Simple("error", ctx, r) ELSE M(n.a, ctx, r), ctx)
    [] n.k = "function" -> Checked(Returned(M(n.a, [ctx EXCEPT !.loops = 0], r)), ctx)
    [] n.k = "eval" -> Checked(M(n.a, ctx, r), ctx)
    [] n.k = "dot" -> Checked(Returned(M(n.a, [ctx EXCEPT !.tested = FALSE], r)), ctx)

\* A line of a program: the commands it runs, its status, and whether the
\* shell stays to read another.
Means(n, errexit, interactive, st) ==
  LET r == M(n, [tested |-> FALSE, loops |-> 0, errexit |-> errexit, interactive |-> interactive], Done(<<>>, st))
  IN [trace |-> r.trace, st |-> r.st, lines |-> 1,
      stays |-> r.how = "next" \/ (r.how = "error" /\ interactive)]
===============================================================================
