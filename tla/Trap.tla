-------------------------------- MODULE Trap --------------------------------
(***************************************************************************)
(* Traps and signals of one shell process: trap.c, with the places of      *)
(* eval.c (evaltree), main.c and jobs.c (forkchild) that call into it.     *)
(*                                                                         *)
(* A signal handler (onsig) runs between any two steps of the              *)
(* interpreter.  The interpreter is abstracted to the points where it      *)
(* touches the trap state: evaltree calls dotrap before and after every    *)
(* command, and the command itself is chosen nondeterministically.  The    *)
(* text of a trap action is a member of Action: running it runs arbitrary  *)
(* commands, which may again change traps, fork, fail, return or exit.     *)
(* After a fork the model follows either the parent (whose state the fork  *)
(* leaves alone) or the child.                                             *)
(*                                                                         *)
(* Definitions with a suffix, such as setsignal_blind, are faulty variants *)
(* of the definition that follows them: replacing it breaks a property.    *)
(***************************************************************************)
EXTENDS Integers, Sequences, FiniteSets

CONSTANTS
  NSIG,          \* signals are 1 .. NSIG-1; condition 0 is EXIT
  Kind,          \* which signals setsignal treats specially
  EntryIgnored,  \* signals that were ignored on entry to the shell
  Action,        \* non-empty texts of trap actions
  Interactive,   \* bound: the values of iflag of the initial shell
  MaxDepth,      \* bound: no signal arrives with this many active dotraps
  MaxLevel       \* bound: nesting of subshells

Signals == 1 .. (NSIG - 1)
EXIT == 0
Conditions == 0 .. (NSIG - 1)
Kinds == {"plain", "int", "quit", "term", "stop", "chld"}

ASSUME TrapAssumption ==
  /\ NSIG \in Nat \ {0}
  /\ Kind \in [Signals -> Kinds]
  /\ EntryIgnored \subseteq Signals
  /\ Action \cap {"null", "empty"} = {}
  /\ Interactive \subseteq BOOLEAN
  /\ MaxDepth \in Nat
  /\ MaxLevel \in Nat

Status == {0, 1}                           \* success and failure
Texts == {"null", "empty"} \cup Action     \* NULL, '' and the rest
Modes == {"unknown", "S_DFL", "S_CATCH", "S_IGN"}
Skips == {"none", "break", "funcnr", "funcr"}

\* Where an activation of evalstring was started from: dotrap called on
\* entry to or exit from evaltree or by exitshell, or exitshell itself.
Places == {"entry", "tail", "exit", "EXIT"}

\* Where the interpreter is.  One command goes through eval (before the first
\* dotrap of evaltree), body, operands (of trapcmd), tail (before the second
\* dotrap) and next; loop is the loop of dotrap; exitshell goes through exit,
\* exittrap and out.
Points == {"eval", "body", "operands", "tail", "next", "loop",
           "exit", "exittrap", "out", "dead", "crashed"}

Frames == [at : Places, i : Nat, saved : Status \cup {-1}, entry : Status]

VARIABLES
  trap,         \* trap[c]: the action for condition c
  trapcnt,      \* number of non-empty traps; negative in a subshell that
                \* still shows, but does not run, its parent's traps
  sigmode,      \* what setsignal last asked of the kernel
  gotsig,       \* signals flagged by the handler
  pending_sig,  \* last flagged signal, or 0
  evalskip,
  exitstatus,
  savestatus,   \* exit status outside traps, or -1
  iflag, mflag,
  handler,      \* "main" until exitshell installs its own, "loc"
  intoff,       \* suppressint > 0 (an exception was raised and not cleared)
  intpending,   \* an interrupt arrived meanwhile
  level,        \* nesting of subshells
  stack,        \* active dotrap loops and EXIT action, innermost last
  targ,         \* trapcmd's variable action
  pc

vars == <<trap, trapcnt, sigmode, gotsig, pending_sig, evalskip, exitstatus,
          savestatus, iflag, mflag, handler, intoff, intpending, level, stack,
          targ, pc>>

trapVars == <<trap, trapcnt, sigmode>>
sigVars  == <<gotsig, pending_sig>>
modeVars == <<iflag, mflag, level>>
excVars  == <<handler, intoff, intpending>>
-----------------------------------------------------------------------------
(* Signal dispositions.                                                    *)

NonEmpty(t) == {c \in Conditions : t[c] \in Action}
have_traps == trapcnt > 0

\* The action setsignal computes for a signal.
Wanted(t, cnt, i, m, s, subshell) ==
  LET asked == IF t[s] = "empty" THEN "S_IGN"
               ELSE IF t[s] # "null" /\ cnt > 0 THEN "S_CATCH"
               ELSE "S_DFL"
  IN  IF Kind[s] = "chld" THEN "S_CATCH"
      ELSE IF asked # "S_DFL" \/ subshell THEN asked
      ELSE IF i /\ Kind[s] = "int" THEN "S_CATCH"
      ELSE IF i /\ Kind[s] \in {"quit", "term"} THEN "S_IGN"
      ELSE IF m /\ Kind[s] = "stop" THEN "S_IGN"
      ELSE "S_DFL"

\* setsignal finds a signal ignored on entry ignored, and leaves it alone.
\* It never stores S_HARD_IGN: the mode of such a signal stays unknown.
HardIgnored(sm, s) == sm[s] = "unknown" /\ s \in EntryIgnored

\* setsignal for every signal in S.
setsignal_blind(S, t, cnt, i, m, subshell, sm) ==
  [s \in Signals |-> IF s \in S THEN Wanted(t, cnt, i, m, s, subshell) ELSE sm[s]]
setsignal(S, t, cnt, i, m, subshell, sm) ==
  [s \in Signals |-> IF s \in S /\ ~HardIgnored(sm, s)
                     THEN Wanted(t, cnt, i, m, s, subshell)
                     ELSE sm[s]]

OfKind(K) == {s \in Signals : Kind[s] \in K}

\* What the kernel does with a signal.
Disposition(s) ==
  IF sigmode[s] = "S_CATCH" THEN "onsig"
  ELSE IF sigmode[s] = "S_IGN" \/ HardIgnored(sigmode, s) THEN "SIG_IGN"
  ELSE "SIG_DFL"

\* ignoresig for every signal in S.
ignoresig(S, sm) == [s \in Signals |-> IF s \in S THEN "S_IGN" ELSE sm[s]]

\* optschanged after iflag and mflag became i and m.
optschanged(t, cnt, i, m, sm) ==
  LET changed == OfKind((IF i # iflag THEN {"int", "quit", "term"} ELSE {})
                        \cup (IF m # mflag THEN {"stop"} ELSE {}))
  IN  setsignal(changed, t, cnt, i, m, FALSE, sm)

\* clear_traps: its effect on trap, trapcnt and sigmode.
ClearedCnt == IF trapcnt <= 0 THEN 0 ELSE -1
ClearedTrap ==
  IF trapcnt <= 0
  THEN [c \in Conditions |-> IF trap[c] \in Action THEN "null" ELSE trap[c]]
  ELSE trap
ClearedModes_early(i, m, sm) ==
  setsignal(NonEmpty(trap) \ {EXIT}, trap, trapcnt, i, m, FALSE, sm)
ClearedModes(i, m, sm) ==
  IF trapcnt <= 0 THEN sm
  ELSE setsignal(NonEmpty(trap) \ {EXIT}, trap, -1, i, m, FALSE, sm)

Init ==
  /\ trap = [c \in Conditions |-> "null"]
  /\ trapcnt = 0
  /\ gotsig = {} /\ pending_sig = 0
  /\ evalskip = "none"
  /\ exitstatus = 0 /\ savestatus = -1
  /\ iflag \in Interactive /\ mflag \in BOOLEAN
  /\ sigmode = [s \in Signals |->
                  IF Kind[s] = "chld" THEN "S_CATCH"
                  ELSE IF s \in EntryIgnored THEN "unknown"
                  ELSE IF iflag /\ Kind[s] = "int" THEN "S_CATCH"
                  ELSE IF iflag /\ Kind[s] \in {"quit", "term"} THEN "S_IGN"
                  ELSE IF mflag /\ Kind[s] = "stop" THEN "S_IGN"
                  ELSE "unknown"]
  /\ handler = "main" /\ intoff = FALSE /\ intpending = FALSE /\ level = 0
  /\ stack = <<>> /\ targ = "null" /\ pc = "eval"
-----------------------------------------------------------------------------
(* dotrap.                                                                 *)

Top == stack[Len(stack)]
Pop == SubSeq(stack, 1, Len(stack) - 1)
Flagged == {s \in gotsig : s >= Top.i}
Lowest(S) == CHOOSE s \in S : \A r \in S : s <= r

\* dotrap up to its loop, called from place at; cont is what follows it.
DotrapEnter(at, cont) ==
  /\ IF pending_sig = 0
     THEN /\ pc' = cont
          /\ UNCHANGED <<stack, savestatus, pending_sig>>
     ELSE /\ pc' = "loop"
          /\ stack' = Append(stack, [at |-> at, i |-> 1,
                                     saved |-> savestatus,
                                     entry |-> exitstatus])
          /\ savestatus' = exitstatus
          /\ pending_sig' = 0
  /\ UNCHANGED <<trapVars, gotsig, evalskip, exitstatus, modeVars, excVars, targ>>

\* One turn of the loop that finds a flagged signal and evaluates its trap.
\* evalstring of a NULL pointer reads through it.
DotrapRun ==
  /\ pc = "loop" /\ evalskip = "none" /\ Flagged # {}
  /\ LET s == Lowest(Flagged) IN
       /\ gotsig' = gotsig \ {s}
       /\ stack' = [stack EXCEPT ![Len(stack)] =
                      [at |-> Top.at, i |-> s + 1,
                       saved |-> Top.saved, entry |-> Top.entry]]
       /\ \/ trap[s] = "null"  /\ pc' = "crashed" /\ UNCHANGED exitstatus
          \/ trap[s] = "empty" /\ pc' = "loop" /\ exitstatus' = savestatus
          \/ trap[s] \in Action /\ pc' = "eval" /\ UNCHANGED exitstatus
  /\ UNCHANGED <<trapVars, pending_sig, evalskip, savestatus, modeVars, excVars, targ>>

\* The loop ends: nothing more is flagged, or commands are being skipped.
DotrapReturn_unset ==
  /\ pc = "loop"
  /\ evalskip # "none" \/ Flagged = {}
  /\ pending_sig' = IF Flagged = {} THEN pending_sig ELSE Lowest(Flagged)
  /\ savestatus' = -1
  /\ stack' = Pop
  /\ pc' = IF Top.at = "entry" THEN "body"
           ELSE IF Top.at = "tail" THEN "next" ELSE "exittrap"
  /\ UNCHANGED <<trapVars, gotsig, evalskip, exitstatus, modeVars, excVars, targ>>
DotrapReturn_forgets ==
  /\ pc = "loop"
  /\ evalskip # "none" \/ Flagged = {}
  /\ savestatus' = Top.saved
  /\ stack' = Pop
  /\ pc' = IF Top.at = "entry" THEN "body"
           ELSE IF Top.at = "tail" THEN "next" ELSE "exittrap"
  /\ UNCHANGED <<trapVars, sigVars, evalskip, exitstatus, modeVars, excVars, targ>>
DotrapReturn ==
  /\ pc = "loop"
  /\ evalskip # "none" \/ Flagged = {}
  /\ pending_sig' = IF Flagged = {} THEN pending_sig ELSE Lowest(Flagged)
  /\ savestatus' = Top.saved
  /\ stack' = Pop
  /\ pc' = IF Top.at = "entry" THEN "body"
           ELSE IF Top.at = "tail" THEN "next" ELSE "exittrap"
  /\ UNCHANGED <<trapVars, gotsig, evalskip, exitstatus, modeVars, excVars, targ>>

\* evalstring returns to the loop in dotrap, or to exitshell.
ActionEnds ==
  /\ pc = "next" /\ stack # <<>>
  /\ IF Top.at = "EXIT"
     THEN pc' = "out" /\ stack' = Pop /\ UNCHANGED exitstatus
     ELSE /\ pc' = "loop"
          /\ exitstatus' = IF evalskip = "funcr" THEN exitstatus
                           ELSE savestatus
          /\ UNCHANGED stack
  /\ UNCHANGED <<trapVars, sigVars, evalskip, savestatus, modeVars, excVars, targ>>
-----------------------------------------------------------------------------
(* Exceptions.                                                             *)

\* exitshell called with status st, or the longjmp to its handler.
ExitWith(st) ==
  /\ exitstatus' = st /\ savestatus' = st
  /\ stack' = <<>>
  /\ IF handler = "main"
     THEN pc' = "exit" /\ handler' = "loc" /\ evalskip' = "none"
     ELSE pc' = "out" /\ UNCHANGED <<handler, evalskip>>

\* An exception.  In an interactive shell main's handler goes on with the
\* command loop, after FORCEINTON; else the shell exits, and the INTOFF of
\* exraise stays in force.
Raise(st) ==
  IF handler = "main" /\ iflag
  THEN /\ exitstatus' = st /\ savestatus' = -1
       /\ evalskip' = "none" /\ intoff' = FALSE
       /\ stack' = <<>> /\ pc' = "eval"
       /\ UNCHANGED handler
  ELSE ExitWith(st) /\ intoff' = TRUE

\* onint: EXINT, or death by SIGINT of a shell that is not interactive.
onint ==
  /\ intpending' = FALSE
  /\ targ' = "null"
  /\ IF iflag THEN Raise(1)
     ELSE /\ pc' = "dead"
          /\ UNCHANGED <<exitstatus, savestatus, evalskip, handler, intoff,
                         stack>>

\* The end of a command with status st: FORCEINTON delivers an interrupt
\* that was held.
Finish_held(st, skip) ==
  /\ pc' = "tail"
  /\ exitstatus' = st /\ evalskip' = skip
  /\ intoff' = FALSE /\ targ' = "null"
  /\ UNCHANGED <<savestatus, handler, intpending, stack>>
Finish(st, skip) ==
  IF intpending THEN onint
  ELSE /\ pc' = "tail"
       /\ exitstatus' = st /\ evalskip' = skip
       /\ intoff' = FALSE /\ targ' = "null"
       /\ UNCHANGED <<savestatus, handler, intpending, stack>>
-----------------------------------------------------------------------------
(* evaltree: dotrap, the command, dotrap.                                  *)

EvalEntry == pc = "eval" /\ DotrapEnter("entry", "body")
EvalTail  == pc = "tail" /\ DotrapEnter("tail", "next")

\* A command that leaves the trap state alone.
Command ==
  /\ pc = "body"
  /\ \E st \in Status : Finish(st, evalskip)
  /\ UNCHANGED <<trapVars, sigVars, modeVars>>

\* break, continue or return that leaves the action or command list it is
\* part of; return without an argument keeps the status.
Skip ==
  /\ pc = "body"
  /\ \/ Finish(exitstatus, "funcnr")
     \/ Finish(0, "break")
     \/ \E st \in Status : Finish(st, "funcr")
  /\ UNCHANGED <<trapVars, sigVars, modeVars>>

\* trapcmd up to its operands.  The action "null" stands for - and for an
\* omitted action.
TrapCommand ==
  /\ pc = "body" /\ pc' = "operands"
  /\ targ' \in Texts
  /\ IF trapcnt < 0
     THEN trap' = ClearedTrap /\ trapcnt' = ClearedCnt
     ELSE UNCHANGED <<trap, trapcnt>>
  /\ UNCHANGED <<sigmode, sigVars, evalskip, exitstatus, savestatus, modeVars,
                 excVars, stack>>

\* One operand of trapcmd; signals are blocked meanwhile.
TrapOperand_ignored(c) ==
  /\ pc = "operands"
  /\ trap' = [trap EXCEPT ![c] = targ]
  /\ trapcnt' = trapcnt + (IF targ \in Action THEN 1 ELSE 0)
                        - (IF trap[c] # "null" THEN 1 ELSE 0)
  /\ sigmode' = setsignal({c} \ {EXIT}, trap', trapcnt', iflag, mflag, FALSE,
                          sigmode)
  /\ UNCHANGED <<sigVars, evalskip, exitstatus, savestatus, modeVars, excVars,
                 stack, targ, pc>>
TrapOperand_late(c) ==
  /\ pc = "operands"
  /\ trap' = [trap EXCEPT ![c] = targ]
  /\ trapcnt' = trapcnt + (IF targ \in Action THEN 1 ELSE 0)
                        - (IF trap[c] \in Action THEN 1 ELSE 0)
  /\ sigmode' = setsignal({c} \ {EXIT}, trap', trapcnt, iflag, mflag, FALSE,
                          sigmode)
  /\ UNCHANGED <<sigVars, evalskip, exitstatus, savestatus, modeVars, excVars,
                 stack, targ, pc>>
TrapOperand(c) ==
  /\ pc = "operands"
  /\ trap' = [trap EXCEPT ![c] = targ]
  /\ trapcnt' = trapcnt + (IF targ \in Action THEN 1 ELSE 0)
                        - (IF trap[c] \in Action THEN 1 ELSE 0)
  /\ sigmode' = setsignal({c} \ {EXIT}, trap', trapcnt', iflag, mflag, FALSE,
                          sigmode)
  /\ UNCHANGED <<sigVars, evalskip, exitstatus, savestatus, modeVars, excVars,
                 stack, targ, pc>>

\* trapcmd returns; a bad condition makes its status 1.
TrapReturn ==
  /\ pc = "operands"
  /\ \E st \in Status : Finish(st, evalskip)
  /\ UNCHANGED <<trapVars, sigVars, modeVars>>

\* set -m and set +m.
SetMonitor ==
  /\ pc = "body"
  /\ mflag' = ~mflag
  /\ sigmode' = optschanged(trap, trapcnt, iflag, mflag', sigmode)
  /\ Finish(0, evalskip)
  /\ UNCHANGED <<trap, trapcnt, sigVars, iflag, level>>

\* The child's side of a fork: forkchild, which ends in reset(1).  In a job
\* of a shell with job control the stop signals get their default action;
\* otherwise a background child ignores interrupts.  Nothing here clears
\* what the handler has flagged.  Only evalbackcmd's child does FORCEINTON.
ForkModes == {"FORK_FG", "FORK_BG", "FORK_NOJOB"}
forkchild(mode) ==
  /\ pc = "body"
  /\ level < MaxLevel /\ level' = level + 1
  /\ LET jobctl == mode # "FORK_NOJOB" /\ mflag
         sm1 == IF jobctl
                THEN setsignal(OfKind({"stop"}), trap, trapcnt, iflag, mflag,
                               TRUE, sigmode)
                ELSE IF mode = "FORK_BG"
                THEN ignoresig(OfKind({"int", "quit"}), sigmode)
                ELSE sigmode
         sm2 == IF iflag
                THEN setsignal(OfKind({"int", "quit", "term"}), trap, trapcnt,
                               iflag, mflag, TRUE, sm1)
                ELSE sm1
         sm3 == optschanged(trap, trapcnt, FALSE, FALSE, sm2)
     IN sigmode' = ClearedModes(FALSE, FALSE, sm3)
  /\ iflag' = FALSE /\ mflag' = FALSE
  /\ trap' = ClearedTrap /\ trapcnt' = ClearedCnt
  /\ evalskip' = "none" /\ savestatus' = -1
  /\ handler' = "main"
  /\ IF mode = "FORK_NOJOB"
     THEN /\ intoff' = FALSE /\ intpending' = FALSE
          /\ pc' = IF intpending THEN "dead" ELSE "eval"
     ELSE UNCHANGED <<intoff, intpending>> /\ pc' = "eval"
  /\ stack' = <<>>
  /\ UNCHANGED <<sigVars, exitstatus, targ>>

\* evalsubshell of the last command of a shell without traps or job control
\* does not fork: the shell itself becomes the subshell.
SubshellInPlace ==
  /\ pc = "body" /\ pc' = "eval"
  /\ stack = <<>> /\ ~have_traps /\ ~mflag
  /\ level < MaxLevel /\ level' = level + 1
  /\ iflag' = FALSE /\ mflag' = FALSE
  /\ sigmode' = ClearedModes(FALSE, FALSE,
                  optschanged(trap, trapcnt, FALSE, FALSE, sigmode))
  /\ trap' = ClearedTrap /\ trapcnt' = ClearedCnt
  /\ evalskip' = "none" /\ savestatus' = -1
  /\ UNCHANGED <<sigVars, exitstatus, excVars, stack, targ>>

\* After a command: the list goes on, or the loop, function or file that a
\* skip was aimed at takes it up.
NextCommand ==
  /\ pc = "next" /\ evalskip = "none" /\ pc' = "eval"
  /\ UNCHANGED <<trapVars, sigVars, evalskip, exitstatus, savestatus,
                 modeVars, excVars, stack, targ>>
SkipEnds ==
  /\ pc = "next" /\ stack = <<>> /\ evalskip # "none"
  /\ evalskip' = "none"
  /\ UNCHANGED <<trapVars, sigVars, exitstatus, savestatus, modeVars, excVars,
                 stack, targ, pc>>
-----------------------------------------------------------------------------
(* The end of the shell.                                                   *)

\* exitcmd: without an argument it exits with the status outside traps.
Exit_unset ==
  /\ pc = "body"
  /\ ExitWith(savestatus)
  /\ intoff' = TRUE
  /\ UNCHANGED <<trapVars, sigVars, modeVars, intpending, targ>>
Exit ==
  /\ pc = "body"
  /\ \/ \E st \in Status : ExitWith(st)
     \/ ExitWith(IF savestatus >= 0 THEN savestatus ELSE exitstatus)
  /\ intoff' = TRUE
  /\ UNCHANGED <<trapVars, sigVars, modeVars, intpending, targ>>

\* EXERROR that no builtin catches.
Error ==
  /\ pc = "body"
  /\ Raise(1)
  /\ UNCHANGED <<trapVars, sigVars, modeVars, intpending, targ>>

\* End of input, or EV_EXIT after the last command (which raises EXEXIT).
LastCommand ==
  /\ pc = "next" /\ stack = <<>> /\ evalskip = "none"
  /\ ExitWith(exitstatus)
  /\ intoff' \in {TRUE, intoff}
  /\ UNCHANGED <<trapVars, sigVars, modeVars, intpending, targ>>

\* exitshell: pending traps, then the EXIT trap.
ExitPending ==
  /\ pc = "exit"
  /\ IF have_traps
     THEN DotrapEnter("exit", "exittrap")
     ELSE /\ pc' = "out"
          /\ UNCHANGED <<trapVars, sigVars, evalskip, exitstatus, savestatus,
                         modeVars, excVars, stack, targ>>
ExitTrap ==
  /\ pc = "exittrap"
  /\ evalskip' = IF trap[EXIT] = "null" THEN evalskip ELSE "none"
  /\ IF trap[EXIT] \in Action
     THEN /\ pc' = "eval"
          /\ stack' = Append(stack, [at |-> "EXIT", i |-> NSIG,
                                     saved |-> savestatus,
                                     entry |-> savestatus])
     ELSE pc' = "out" /\ UNCHANGED stack
  /\ UNCHANGED <<trapVars, sigVars, exitstatus, savestatus, modeVars, excVars,
                 targ>>
ExitOut ==
  /\ pc = "out" /\ pc' = "dead"
  /\ UNCHANGED <<trapVars, sigVars, evalskip, exitstatus, savestatus,
                 modeVars, excVars, stack, targ>>
-----------------------------------------------------------------------------
(* The handler.                                                            *)

Alive == pc \notin {"dead", "crashed"}
Trapped(s) == have_traps /\ trap[s] # "null"

\* onsig sets the flag of a trapped signal.  An untrapped SIGCHLD only tells
\* dowait, which is not part of this module.
onsig(s) ==
  /\ Alive /\ Disposition(s) = "onsig" /\ Len(stack) < MaxDepth
  /\ Trapped(s) \/ Kind[s] \notin {"int", "chld"}
  /\ gotsig' = gotsig \cup {s}
  /\ pending_sig' = s
  /\ UNCHANGED <<trapVars, evalskip, exitstatus, savestatus, modeVars,
                 excVars, stack, targ, pc>>

\* onsig for an untrapped SIGINT: onint, unless interrupts are off.
Interrupt(s) ==
  /\ Alive /\ Disposition(s) = "onsig" /\ Kind[s] = "int" /\ ~Trapped(s)
  /\ IF intoff
     THEN /\ intpending' = TRUE
          /\ UNCHANGED <<evalskip, exitstatus, savestatus, handler, intoff,
                         stack, targ, pc>>
     ELSE onint
  /\ UNCHANGED <<trapVars, sigVars, modeVars>>
-----------------------------------------------------------------------------
Evaltree == EvalEntry \/ EvalTail \/ NextCommand \/ SkipEnds
Dotrap == DotrapRun \/ DotrapReturn \/ ActionEnds
Commands ==
  \/ Command \/ Skip \/ TrapCommand \/ TrapReturn \/ SetMonitor
  \/ \E c \in Conditions : TrapOperand(c)
  \/ \E mode \in ForkModes : forkchild(mode)
  \/ SubshellInPlace
  \/ Exit \/ Error
Exitshell == LastCommand \/ ExitPending \/ ExitTrap \/ ExitOut
Shell == Evaltree \/ Dotrap \/ Commands \/ Exitshell
Signal == \E s \in Signals : onsig(s) \/ Interrupt(s)

Next == Shell \/ Signal

Spec == Init /\ [][Next]_vars

\* The interpreter makes progress and the list of commands of a trap action
\* comes to an end; signals and new commands are not bound to come.
FairSpec == Spec /\ WF_vars(Shell) /\ WF_vars(TrapReturn) /\ SF_vars(ActionEnds)
-----------------------------------------------------------------------------
(* Properties.                                                             *)

TypeOK ==
  /\ trap \in [Conditions -> Texts]
  /\ trapcnt \in Int
  /\ sigmode \in [Signals -> Modes]
  /\ gotsig \subseteq Signals /\ pending_sig \in 0 .. (NSIG - 1)
  /\ evalskip \in Skips
  /\ exitstatus \in Status /\ savestatus \in Status \cup {-1}
  /\ iflag \in BOOLEAN /\ mflag \in BOOLEAN
  /\ handler \in {"main", "loc"} /\ intoff \in BOOLEAN
  /\ intpending \in BOOLEAN
  /\ level \in Nat
  /\ stack \in Seq(Frames)
  /\ targ \in Texts
  /\ pc \in Points

\* The counter that have_traps tests tells the truth: it is the number of
\* conditions with a non-empty action, or negative in a subshell that still
\* remembers actions of its parent.  It is maintained piecemeal by trapcmd
\* (before and after the old action is looked at) and by clear_traps.
CountInv ==
  \/ trapcnt >= 0 /\ trapcnt = Cardinality(NonEmpty(trap))
  \/ trapcnt = -1 /\ NonEmpty(trap) # {}

\* Whatever the order in which traps are set, options changed and subshells
\* forked, the kernel has been asked for the action that the traps and
\* options call for.  The exceptions are signals ignored on entry, and
\* interrupts that a background child ignores.
Called(s) == Wanted(trap, trapcnt, iflag, mflag, s, FALSE)
SigmodeInv ==
  \A s \in Signals :
    \/ s \in EntryIgnored
    \/ sigmode[s] = Called(s)
    \/ sigmode[s] = "unknown" /\ Called(s) = "S_DFL"
    \/ /\ sigmode[s] = "S_IGN" /\ Called(s) = "S_DFL"
       /\ level > 0 /\ Kind[s] \in {"int", "quit"} /\ trap[s] = "null"

\* dotrap keeps the status of the command it interrupted: while an action
\* runs savestatus is the status outside, nested activations chain, and the
\* interrupted command list sees its own $? again unless the action returned
\* with a status.
StatusInv ==
  /\ stack # <<>> => savestatus = Top.entry
  /\ \A k \in 1 .. Len(stack) - 1 : stack[k + 1].saved = stack[k].entry
  /\ pc = "loop" => exitstatus = savestatus \/ evalskip = "funcr"

\* A trapped signal is not forgotten: as long as it is flagged, pending_sig
\* asks for a dotrap or an active dotrap will still come to it.  A shell that
\* is not interactive and has not begun to exit keeps this.
PendingInv ==
  level = 0 /\ ~iflag /\ handler = "main" /\ Alive =>
    \A s \in gotsig :
      pending_sig # 0 \/ \E k \in 1 .. Len(stack) : stack[k].i <= s

\* gwsh.1: "When the shell forks off a subshell, it resets trapped (but not
\* ignored) signals to the default action."
SubshellResets ==
  [][level' > level =>
       \A s \in Signals :
         /\ trap[s] \in Action /\ Kind[s] # "chld" => (Disposition(s) # "onsig")'
         /\ trap[s] = "empty" /\ Kind[s] # "chld" =>
              (Disposition(s) = "SIG_IGN")']_vars

\* gwsh.1: the trap command has no effect on signals that were ignored on
\* entry to the shell.  True of the shell itself.
EntryIgnoredKept ==
  level = 0 => \A s \in EntryIgnored : Kind[s] # "chld" => Disposition(s) = "SIG_IGN"

\* error.h: an interrupt that arrives between INTOFF and INTON is held, and
\* never outlives the section: with interrupts on again it was delivered.
HeldInv == intpending => intoff

\* gwsh.1: trap makes the shell "parse and execute action when any of the
\* specified signals are received".  Once signals stop arriving, every
\* flagged signal gets its dotrap, unless the shell exits.  (A signal that
\* keeps coming, whose action always returns, can starve the others.)
TrapsRun ==
  (<>[][~\E s \in Signals : onsig(s)]_vars) =>
    \A s \in Signals :
      [](level = 0 /\ s \in gotsig =>
           <>(s \notin gotsig \/ level > 0 \/ handler = "loc" \/ ~Alive))

\* gwsh.1: the action for EXIT "is executed when the shell exits".
ExitTrapRuns ==
  [][pc \notin {"out", "dead"} /\ pc' = "out" /\ have_traps /\ trap[EXIT] \in Action
     => stack # <<>> /\ stack[1].at = "EXIT"]_vars
=============================================================================
