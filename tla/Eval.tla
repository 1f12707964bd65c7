---------------------------------- MODULE Eval ----------------------------------
(***************************************************************************)
(* The evaluation of parse trees, as eval.c does it: with global variables *)
(* for what is skipped, flags for what is tested and what comes last, and  *)
(* exceptions that leave everything.  Each operator takes the state of the *)
(* shell and returns the state after the call; an exception is a state     *)
(* that every caller but the handlers passes on.                           *)
(*                                                                         *)
(* Definitions with a suffix, such as skiploop_late, are faulty variants   *)
(* of the definition that follows them.                                    *)
(***************************************************************************)
EXTENDS Meaning

CONSTANTS
  Programs,  \* what the first line may be
  Lines      \* what a line after it may be

VARIABLES
  shell,     \* the state of the shell after a line
  said       \* what the meaning of the line says of it

vars == <<shell, said>>

(* A state: exitstatus, evalskip with skipcount, the depths of loops and   *)
(* functions, the options -e and -i, the exception that is on its way, and *)
(* the commands run so far.                                                *)
NoSkip == ""
SkipFunc == {"SKIPFUNCR", "SKIPFUNCNR"}
SkipLoop == {"SKIPBREAK", "SKIPCONT"}
Sub(s) == [s EXCEPT !.evalskip = NoSkip, !.loopnest = 0, !.iflag = FALSE]
Status(s, st) == [s EXCEPT !.exitstatus = st]
Raise(s, e) == [s EXCEPT !.exception = e]
Raised(s) == s.exception # ""

----------------------------------------------------------------------------
(* Built-in commands. *)

breakcmd(s, skip, n) ==
  LET m == Least(n, s.loopnest)
  IN IF m > 0 THEN [s EXCEPT !.evalskip = skip, !.skipcount = m, !.exitstatus = 0] ELSE Status(s, 0)
returncmd(s, st) == [s EXCEPT !.evalskip = "SKIPFUNCR", !.exitstatus = st]

\* evalcommand of a simple command; special built-ins have no handler but
\* in an interactive shell.
Command(c, s0) ==
  LET s == [s0 EXCEPT !.trace = Append(@, c)]
  IN IF Len(s.trace) > Fuel THEN Raise(Status(s, 0), "KILLED")
     ELSE CASE c = "true" -> Status(s, 0)
            [] c = "false" -> Status(s, 1)
            [] c = "tick" -> Status(s, IF Occurs(c, s.trace) <= Ticks THEN 0 ELSE 1)
            [] c = "break" -> breakcmd(s, "SKIPBREAK", 1)
            [] c = "break 2" -> breakcmd(s, "SKIPBREAK", 2)
            [] c = "continue" -> breakcmd(s, "SKIPCONT", 1)
            [] c = "continue 2" -> breakcmd(s, "SKIPCONT", 2)
            [] c = "return" -> [s EXCEPT !.evalskip = "SKIPFUNCNR"]
            [] c = "return 3" -> returncmd(s, 3)
            [] c = "exit" -> Raise(s, "EXEXIT")
            [] c = "expansion error" -> Raise(Status(s, 2), "EXERROR")
            [] c = "special error" -> IF s.iflag THEN Status(s, 2) ELSE Raise(Status(s, 2), "EXERROR")
            [] c = "error" -> Status(s, 2)

----------------------------------------------------------------------------
(* Skipping out of loops: skiploop returns what the loop is to do, and     *)
(* leaves in evalskip what the loops around it are to do.                  *)

skiploop_late(s) ==
  IF s.evalskip \in SkipLoop
  THEN LET n == s.skipcount - 1
       IN IF n < 0 THEN [skip |-> s.evalskip, s |-> [s EXCEPT !.skipcount = n, !.evalskip = NoSkip]]
          ELSE [skip |-> "SKIPBREAK", s |-> [s EXCEPT !.skipcount = n]]
  ELSE [skip |-> s.evalskip, s |-> s]
skiploop(s) ==
  IF s.evalskip \in SkipLoop
  THEN LET n == s.skipcount - 1
       IN IF n <= 0 THEN [skip |-> s.evalskip, s |-> [s EXCEPT !.skipcount = n, !.evalskip = NoSkip]]
          ELSE [skip |-> "SKIPBREAK", s |-> [s EXCEPT !.skipcount = n]]
  ELSE [skip |-> s.evalskip, s |-> s]

Flags(exit, tested) == [exit |-> exit, tested |-> tested]
NoExit(fl) == Flags(FALSE, fl.tested)
EV_TESTED(fl) == Flags(FALSE, TRUE)

RECURSIVE evaltree(_, _, _), While_(_, _, _, _), For_(_, _, _, _)

\* One turn of evalloop's do: status is its local variable.
While_(n, fl, s, status) ==
  LET t == evaltree(n.a, EV_TESTED(fl), s)
      ts == skiploop(t)
      b == evaltree(n.b, fl, ts.s)
      bs == skiploop(b)
  IN IF Raised(t) THEN t
     ELSE IF ts.skip \in SkipFunc \cup {"SKIPBREAK"}
     THEN Status(ts.s, IF ts.skip \in SkipFunc THEN t.exitstatus ELSE status)
     ELSE IF ts.skip = "SKIPCONT" THEN While_(n, fl, ts.s, status)
     ELSE IF (t.exitstatus = 0) # (n.k = "while") THEN Status(ts.s, status)
     ELSE IF Raised(b) THEN b
     ELSE IF bs.skip \in {NoSkip, "SKIPCONT"} THEN While_(n, fl, bs.s, b.exitstatus)
     ELSE bs.s

\* One word of evalfor, and m - 1 after it.
For_(n, fl, s, m) ==
  LET b == evaltree(n.a, fl, s)
      bs == skiploop(b)
  IN IF Raised(b) THEN b
     ELSE IF m > 1 /\ bs.skip \in {NoSkip, "SKIPCONT"} THEN For_(n, fl, bs.s, m - 1)
     ELSE bs.s

\* evalloop and evalfor count the loop; an exception leaves the count to reset.
InLoop(n, fl, s) ==
  LET in == [s EXCEPT !.loopnest = @ + 1]
      r == IF n.k = "for" THEN For_(n, NoExit(fl), in, 2) ELSE While_(n, NoExit(fl), in, 0)
  IN IF Raised(r) THEN r ELSE [r EXCEPT !.loopnest = @ - 1]

\* evalfun: its handler restores the depths, whatever the body did.
evalfun_nest(n, fl, s) ==
  LET r == evaltree(n.a, fl, [s EXCEPT !.funcnest = @ + 1])
  IN [r EXCEPT !.funcnest = s.funcnest, !.loopnest = s.loopnest,
               !.evalskip = IF @ \in SkipFunc THEN NoSkip ELSE @]
evalfun(n, fl, s) ==
  LET r == evaltree(n.a, fl, [s EXCEPT !.funcnest = @ + 1, !.loopnest = 0])
  IN [r EXCEPT !.funcnest = s.funcnest, !.loopnest = s.loopnest,
               !.evalskip = IF @ \in SkipFunc THEN NoSkip ELSE @]

\* dot reads commands of its own, which nothing tests.
dotcmd(n, s) ==
  LET r == evaltree(n.a, Flags(FALSE, FALSE), s)
  IN IF Raised(r) THEN r ELSE [r EXCEPT !.evalskip = IF @ \in SkipFunc THEN NoSkip ELSE @]

\* With EV_EXIT there is nothing left to do in this shell: it becomes the
\* subshell.  The parent goes on with the status of its child.
evalsubshell(n, fl, s) ==
  LET child == evaltree(n.a, Flags(TRUE, fl.tested), Sub(s))
  IN IF fl.exit \/ child.exception = "KILLED" THEN child
     ELSE [s EXCEPT !.exitstatus = child.exitstatus, !.trace = child.trace]

evalcase(n, fl, s) ==
  LET a == evaltree(n.a, IF n.ft THEN NoExit(fl) ELSE fl, s)
  IN IF n.ft /\ ~Raised(a) /\ a.evalskip = NoSkip THEN evaltree(n.b, fl, a) ELSE a

Simple_(n, fl, s) ==
  CASE n.k = "cmd" -> Command(n.c, s)
    [] n.k = "function" -> evalfun(n, fl, s)
    [] n.k = "eval" -> evaltree(n.a, NoExit(fl), s)
    [] n.k = "dot" -> dotcmd(n, s)
    [] n.k = "sub" -> evalsubshell(n, fl, s)
    [] n.k = "redir" -> IF n.fails THEN Command("error", s) ELSE evaltree(n.a, NoExit(fl), s)

\* The flags for the operands of lists, !, and if.
Tests_semi(n, fl) == Flags(FALSE, TRUE)
Tests(n, fl) == Flags(FALSE, fl.tested \/ n.k # "semi")
Node(n, fl, s) ==
  LET t == evaltree(n.a, Tests(n, fl), s)
      skips == t.evalskip # NoSkip
  IN CASE n.k = "not" ->
            IF Raised(t) \/ t.evalskip \in SkipFunc THEN t ELSE Status(t, IF t.exitstatus = 0 THEN 1 ELSE 0)
       [] n.k = "and" -> IF Raised(t) \/ skips \/ t.exitstatus # 0 THEN t ELSE evaltree(n.b, fl, t)
       [] n.k = "or" -> IF Raised(t) \/ skips \/ t.exitstatus = 0 THEN t ELSE evaltree(n.b, fl, t)
       [] n.k = "semi" -> IF Raised(t) \/ skips THEN t ELSE evaltree(n.b, fl, t)
       [] n.k = "if" ->
            IF Raised(t) \/ skips THEN t
            ELSE IF t.exitstatus = 0 THEN evaltree(n.b, fl, t)
            ELSE IF n.c # None THEN evaltree(n.c, fl, t)
            ELSE Status(t, 0)

\* The end of evaltree: set -e after commands, then EV_EXIT after anything.
checkexit_tested(n, fl, s) ==
  IF Raised(s) THEN s
  ELSE IF n.k \in {"cmd", "function", "eval", "dot", "sub", "redir"} /\ s.exitstatus # 0 /\ s.eflag
  THEN Raise(s, "EXEXIT")
  ELSE IF fl.exit THEN Raise(s, "EXEXIT") ELSE s
checkexit(n, fl, s) ==
  IF Raised(s) THEN s
  ELSE IF n.k \in {"cmd", "function", "eval", "dot", "sub", "redir"} /\ ~fl.tested /\ s.exitstatus # 0 /\ s.eflag
  THEN Raise(s, "EXEXIT")
  ELSE IF fl.exit THEN Raise(s, "EXEXIT") ELSE s

evaltree(n, fl, s) ==
  checkexit(n, fl,
    IF n.k \in {"while", "until", "for"} THEN InLoop(n, fl, s)
    ELSE IF n.k \in {"not", "and", "or", "semi", "if"} THEN Node(n, fl, s)
    ELSE IF n.k = "case" THEN evalcase(n, fl, s)
    ELSE Simple_(n, fl, s))

----------------------------------------------------------------------------
(* cmdloop, and main's handler. *)

reset_loops(s) == [s EXCEPT !.exception = "", !.evalskip = NoSkip]
reset(s) == [s EXCEPT !.exception = "", !.evalskip = NoSkip, !.loopnest = 0]

\* cmdloop goes on unless something is skipped; after an error an interactive
\* shell starts it anew.
Stays(s) == ~Raised(s) /\ s.evalskip = NoSkip
Run(n, s) ==
  LET r == evaltree(n, Flags(FALSE, FALSE), [s EXCEPT !.trace = <<>>])
  IN IF r.exception = "EXERROR" /\ r.iflag THEN reset(r) ELSE r

Init ==
  /\ \E e \in BOOLEAN, i \in BOOLEAN :
       shell = [exitstatus |-> 0, evalskip |-> NoSkip, skipcount |-> 0, loopnest |-> 0, funcnest |-> 0,
                eflag |-> e, iflag |-> i, exception |-> "", trace |-> <<>>]
  /\ said = [lines |-> 0]

cmdloop ==
  /\ Stays(shell) /\ said.lines < 2
  /\ \E n \in IF said.lines = 0 THEN Programs ELSE Lines :
       /\ shell' = Run(n, shell)
       /\ said' = [Means(n, shell.eflag, shell.iflag, shell.exitstatus) EXCEPT !.lines = said.lines + 1]

Next == cmdloop
Spec == Init /\ [][Next]_vars

----------------------------------------------------------------------------
(* Properties *)

\* With evalskip, skipcount and flags, eval.c runs the commands that the
\* program says, and no others, and ends with its status; the shell stays for
\* the next line exactly when it should.
Evaluates ==
  said.lines > 0 =>
    /\ shell.trace = said.trace
    /\ shell.exception # "KILLED" => shell.exitstatus = said.st
    /\ Stays(shell) <=> said.stays

\* Whatever way a line ended, nothing is left of it that could make the next
\* one skip commands, or count loops or functions that it is not in.
Clean ==
  Stays(shell) => shell.loopnest = 0 /\ shell.funcnest = 0
===============================================================================
