--------------------------- MODULE JobsKernelProofs --------------------------
(***************************************************************************)
(* Theorems about what Jobs knows of its processes: the table agrees with  *)
(* the kernel, no job is lost, and wait neither sleeps too long nor        *)
(* returns too early.                                                      *)
(***************************************************************************)
EXTENDS JobsProofs

Undelivered == \E p \in children : proc[p] = "zombie"

\* What comes before and after the steps of waitproc.
LEMMA OtherPoints ==
  ASSUME TableInv, Idle \/ Fork \/ After
  PROVE  pc \in {"idle", "fork", "after"} /\ pc' \in {"idle", "fork", "clear", "after"}
<1>1. CASE Fork
  BY <1>1 DEF Fork, forkshell, ForkFails, PipeFails, Return, Dowait
<1>2. CASE Idle
  <2>1. CASE \E j \in Used(jobtab) : WaitJobTurn(j) /\ pc = "idle"
    BY <2>1 DEF WaitJobTurn, Return, Dowait
  <2>2. CASE WaitAllTurn /\ pc = "idle"
    BY <2>2 DEF WaitAllTurn, Return, Dowait
  <2>3. CASE StartJob \/ CollectStart \/ ShowOne \/ killcmd \/ SetMonitor \/ Subshell
             \/ SubshellInPlace \/ Dotrap
    BY <2>3 DEF StartJob, CollectStart, ShowOne, killcmd, SetMonitor, Subshell, SubshellInPlace,
                Dotrap, Return, Dowait
  <2>4. CASE pc = "idle" /\ (showjobs \/ Leaving)
    BY <2>4 DEF showjobs, Leaving, stoppedjobs, CommandLine, Return, Dowait
  <2>5. CASE Restart
    BY <2>5 DEF Restart, restartjob, Return, Dowait
  <2> QED BY <1>2, <2>1, <2>2, <2>3, <2>4, <2>5 DEF Idle, WaitStart
<1>3. CASE After
  <2>1. CASE Interrupted \/ waitforjob \/ CollectNext \/ WaitSigout
    BY <2>1 DEF Interrupted, waitforjob, CollectNext, WaitSigout, Return, Dowait
  <2>2. CASE pc = "after" /\ (showjobs \/ Leaving)
    BY <2>2 DEF showjobs, Leaving, stoppedjobs, CommandLine, Return, Dowait
  <2>3. CASE WaitNext
    BY <2>3 DEF WaitNext, WaitAllTurn, WaitJobTurn, Return, Dowait
  <2> QED BY <1>3, <2>1, <2>2, <2>3 DEF After
<1> QED BY <1>1, <1>2, <1>3

-----------------------------------------------------------------------------
(* Children that end, stop or continue.                                    *)

\* What no step of the kernel or of the shell may do to a process behind the
\* back of wait3, and the signals that come of what they do.
Moves ==
  /\ \A q \in Pids :
       \/ proc'[q] = proc[q] /\ exit'[q] = exit[q]
       \/ proc[q] \in {"run", "stop"} /\ proc'[q] \in {"run", "stop", "zombie"}
  /\ \A q \in Pids : proc'[q] = "stop" /\ proc[q] # "stop" => CanStop
  /\ \A q \in news' : proc'[q] = "stop"
  /\ \A q \in children : proc'[q] = "zombie" /\ proc[q] # "zombie" => sigchld'
  /\ sigchld => sigchld'
  /\ sigchld' => \/ sigchld \/ \E q \in children : proc'[q] = "zombie"
                 \/ \E q \in Pids : proc[q] = "stop" \/ proc'[q] = "stop"

\* Processes that have stopped are the only news, and children were born.
KernelInv ==
  /\ \A p \in news : proc[p] = "stop"
  /\ \A p \in children : proc[p] # "unborn"
  /\ ~CanStop => \A p \in Pids : proc[p] # "stop"

LEMMA ContinueMoves ==
  ASSUME KernelOK, KernelInv, NEW S, Continue(S), exit' = exit
  PROVE  Moves
<1>1. /\ proc \in [Pids -> {"unborn", "run", "stop", "zombie", "gone"}]
      /\ news \subseteq Pids /\ children \subseteq Pids /\ sigchld \in BOOLEAN
  BY DEF KernelOK
<1>2. /\ \A q \in Pids : proc'[q] = IF q \in S /\ proc[q] = "stop" THEN "run" ELSE proc[q]
      /\ news' = news \ S
      /\ sigchld' = (sigchld \/ \E p \in S \cap children : proc[p] = "stop")
  BY DEF Continue
<1> QED BY <1>1, <1>2 DEF Moves, KernelInv

LEMMA KernelMoves ==
  ASSUME KernelOK, KernelInv, Kernel
  PROVE  Moves /\ UNCHANGED shellVars /\ UNCHANGED <<group, children>>
<1>1. PICK p \in Pids : (Exit(p) \/ Stop(p) \/ Cont(p)) /\ UNCHANGED shellVars
  BY DEF Kernel, Ends
<1>2. /\ proc \in [Pids -> {"unborn", "run", "stop", "zombie", "gone"}] /\ exit \in [Pids -> Exits]
      /\ news \subseteq Pids /\ children \subseteq Pids /\ sigchld \in BOOLEAN
  BY DEF KernelOK
<1>3. CASE Exit(p)
  <2>1. PICK x \in Exits : exit' = [exit EXCEPT ![p] = x]
    BY <1>3 DEF Exit
  <2>2. /\ proc[p] \in {"run", "stop"} /\ proc' = [proc EXCEPT ![p] = "zombie"]
        /\ news' = news \ {p} /\ sigchld' = (sigchld \/ p \in children)
        /\ UNCHANGED <<group, children>>
    BY <1>3 DEF Exit
  <2> QED BY <1>1, <1>2, <2>1, <2>2 DEF Moves, KernelInv
<1>4. CASE Stop(p)
  <2>1. /\ CanStop /\ proc[p] = "run" /\ proc' = [proc EXCEPT ![p] = "stop"]
        /\ news' = news \cup {p} /\ sigchld' = (sigchld \/ p \in children)
        /\ UNCHANGED <<exit, group, children>>
    BY <1>4 DEF Stop
  <2> QED BY <1>1, <1>2, <2>1 DEF Moves, KernelInv
<1>5. CASE Cont(p)
  BY <1>1, <1>5, ContinueMoves DEF Cont
<1> QED BY <1>1, <1>3, <1>4, <1>5

LEMMA KillMoves ==
  ASSUME KernelOK, KernelInv, killcmd
  PROVE  Moves /\ UNCHANGED <<group, children, tableVars>>
<1>1. PICK j \in Used(jobtab), x \in Exits :
       LET hit == {p \in Targets(jobtab[j]) : proc[p] \in {"run", "stop"}} IN
         /\ proc' = [p \in Pids |-> IF p \in hit THEN "zombie" ELSE proc[p]]
         /\ exit' = [p \in Pids |-> IF p \in hit THEN x ELSE exit[p]]
         /\ news' = news \ hit
         /\ sigchld' = (sigchld \/ hit \cap children # {})
  BY DEF killcmd
<1> DEFINE hit == {p \in Targets(jobtab[j]) : proc[p] \in {"run", "stop"}}
<1>2. /\ proc' = [p \in Pids |-> IF p \in hit THEN "zombie" ELSE proc[p]]
      /\ exit' = [p \in Pids |-> IF p \in hit THEN x ELSE exit[p]]
      /\ news' = news \ hit
      /\ sigchld' = (sigchld \/ hit \cap children # {})
  BY <1>1
<1>3. \A p \in hit : proc[p] \in {"run", "stop"}
  OBVIOUS
<1> HIDE DEF hit
<1>4. /\ news \subseteq Pids /\ children \subseteq Pids /\ sigchld \in BOOLEAN
  BY DEF KernelOK
<1>5. /\ \A q \in Pids :
            \/ proc'[q] = proc[q] /\ exit'[q] = exit[q]
            \/ proc[q] \in {"run", "stop"} /\ proc'[q] \in {"run", "stop", "zombie"}
      /\ \A q \in Pids : proc'[q] = "stop" /\ proc[q] # "stop" => CanStop
  BY <1>2, <1>3
<1>6. \A q \in news' : proc'[q] = "stop"
  BY <1>2, <1>4 DEF KernelInv
<1>7. /\ \A q \in children : proc'[q] = "zombie" /\ proc[q] # "zombie" => sigchld'
      /\ sigchld => sigchld'
      /\ sigchld' => sigchld \/ \E q \in children : proc'[q] = "zombie"
  BY <1>2, <1>4
<1> QED BY <1>5, <1>6, <1>7 DEF Moves, killcmd

\* The process that a fork starts was not there before.
LEMMA ForkOne ==
  ASSUME forkshell
  PROVE  /\ pc = "fork"
         /\ \E p \in Pids : /\ proc[p] = "unborn" /\ proc' = [proc EXCEPT ![p] = "run"]
                            /\ children' = children \cup {p} /\ forkparent(p)
         /\ UNCHANGED <<exit, news, sigchld>>
<1> DEFINE p == CHOOSE q \in Unborn : \A r \in Unborn : q <= r
<1>1. p \in Unborn
  <2>1. Unborn \in SUBSET Nat /\ Unborn # {}
    BY DEF Unborn, Pids, forkshell
  <2> QED BY <2>1, Least
<1>2. pc = "fork" /\ forkparent(p) /\ proc' = [proc EXCEPT ![p] = "run"]
      /\ children' = children \cup {p} /\ UNCHANGED <<exit, news, sigchld>>
  BY DEF forkshell
<1> HIDE DEF p
<1> QED BY <1>1, <1>2 DEF Unborn

\* The process that wait3 reports is a child that has ended or stopped.
LEMMA FoundOne ==
  ASSUME KernelInv, Wait3Found
  PROVE  /\ sigchld' = FALSE /\ UNCHANGED <<exit, children>> /\ news' \subseteq news
         /\ \E p \in Pids :
              /\ p \in children
              /\ \/ /\ proc[p] = "zombie" /\ proc' = [proc EXCEPT ![p] = "gone"]
                    /\ Record(p, exit[p])
                 \/ /\ proc[p] = "stop" /\ proc' = proc /\ Record(p, "stopped")
<1>1. PICK p \in Pids :
       /\ Reportable(p)
       /\ IF proc[p] = "zombie"
          THEN proc' = [proc EXCEPT ![p] = "gone"] /\ Record(p, exit[p])
          ELSE Record(p, "stopped") /\ UNCHANGED proc
       /\ news' = news \ {p}
  BY DEF Wait3Found
<1>2. sigchld' = FALSE /\ UNCHANGED <<exit, children>>
  BY DEF Wait3Found, Deliver
<1>3. p \in children /\ (proc[p] = "zombie" \/ proc[p] = "stop")
  BY <1>1 DEF Reportable, KernelInv
<1> QED BY <1>1, <1>2, <1>3

\* Every other step: a fork, a status that wait3 reports, a subshell, or none.
LEMMA Kernels ==
  ASSUME TableInv, KernelInv, [Next]_vars
  PROVE  \/ Moves /\ children' = children
         \/ /\ forkshell
            /\ \E p \in Pids : /\ proc[p] = "unborn" /\ proc' = [proc EXCEPT ![p] = "run"]
                               /\ children' = children \cup {p} /\ forkparent(p)
            /\ UNCHANGED <<exit, news, sigchld>>
         \/ /\ Wait3Found /\ sigchld' = FALSE /\ UNCHANGED <<exit, children>> /\ news' \subseteq news
            /\ \E p \in Pids :
                 /\ p \in children
                 /\ \/ /\ proc[p] = "zombie" /\ proc' = [proc EXCEPT ![p] = "gone"]
                       /\ Record(p, exit[p])
                    \/ /\ proc[p] = "stop" /\ proc' = proc /\ Record(p, "stopped")
         \/ /\ UNCHANGED <<proc, exit, news>> /\ children' \in {children, {}} /\ sigchld' = FALSE
            /\ children' = children \/ Subshell
<1>1. KernelOK
  BY DEF TableInv
<1>2. CASE UNCHANGED <<proc, exit, news, children, sigchld>>
  BY <1>1, <1>2 DEF Moves, KernelInv, KernelOK
<1>3. CASE Idle
  <2>1. CASE Restart
    <3>1. PICK j \in Used(jobtab), m \in {"FORK_FG", "FORK_BG"} : restartjob(j, m)
      BY <2>1 DEF Restart
    <3>2. (UNCHANGED <<proc, news, sigchld>> \/ Continue(Members(j))) /\ UNCHANGED <<exit, children>>
      BY <3>1 DEF restartjob
    <3> QED BY <1>1, <1>2, <3>2, ContinueMoves
  <2>2. CASE killcmd
    BY <1>1, <2>2, KillMoves
  <2>3. CASE Subshell
    BY <2>3 DEF Subshell
  <2>4. CASE StartJob \/ CollectStart \/ WaitStart \/ showjobs \/ Leaving \/ ShowOne \/ SetMonitor
             \/ SubshellInPlace \/ Dotrap
    BY <1>2, <2>4 DEF StartJob, CollectStart, WaitStart, showjobs, Leaving, ShowOne, SetMonitor,
                      SubshellInPlace, Dotrap, kernelVars
  <2> QED BY <1>3, <2>1, <2>2, <2>3, <2>4 DEF Idle
<1>4. CASE Fork
  <2>1. CASE forkshell
    BY <2>1, ForkOne
  <2>2. CASE ForkFails \/ PipeFails
    BY <1>2, <2>2 DEF ForkFails, PipeFails, kernelVars
  <2> QED BY <1>4, <2>1, <2>2 DEF Fork
<1>5. CASE Waitproc
  <2>1. CASE Wait3Found
    BY <2>1, FoundOne
  <2>2. CASE WaitClear \/ WaitCheck \/ WaitSuspend \/ WaitTest
    BY <1>2, <2>2 DEF WaitClear, WaitCheck, WaitSuspend, WaitTest, kernelVars
  <2>3. CASE Wait3None \/ WaitMask \/ WaitUnmask
    BY <2>3 DEF Wait3None, WaitMask, WaitUnmask, Deliver
  <2> QED BY <1>5, <2>1, <2>2, <2>3 DEF Waitproc
<1>6. CASE After
  BY <1>2, <1>6 DEF After, Interrupted, waitforjob, CollectNext, WaitNext, WaitSigout, showjobs,
                    Leaving, kernelVars
<1>7. CASE Handlers
  BY <1>2, <1>7 DEF Handlers, OnSigchld, OnTrapped, OnInterrupt, kernelVars
<1>8. CASE Kernel
  BY <1>1, <1>8, KernelMoves
<1>9. CASE UNCHANGED vars
  BY <1>2, <1>9 DEF vars, kernelVars
<1> QED BY <1>3, <1>4, <1>5, <1>6, <1>7, <1>8, <1>9 DEF Next

LEMMA KernelInvInit == Init => KernelInv
BY DEF Init, KernelInv

LEMMA KernelInvNext == TableInv /\ KernelInv /\ [Next]_vars => KernelInv'
<1> SUFFICES ASSUME TableInv, KernelInv, [Next]_vars PROVE KernelInv'
  OBVIOUS
<1>1. /\ proc \in [Pids -> {"unborn", "run", "stop", "zombie", "gone"}]
      /\ news \subseteq Pids /\ children \subseteq Pids
  BY DEF TableInv, KernelOK
<1>2. CASE Moves /\ children' = children
  BY <1>1, <1>2 DEF Moves, KernelInv
<1>3. CASE /\ \E p \in Pids : /\ proc[p] = "unborn" /\ proc' = [proc EXCEPT ![p] = "run"]
                              /\ children' = children \cup {p}
           /\ UNCHANGED <<exit, news, sigchld>>
  BY <1>1, <1>3 DEF KernelInv
<1>4. CASE /\ UNCHANGED <<exit, children>> /\ news' \subseteq news
           /\ \E p \in Pids : \/ proc[p] = "zombie" /\ proc' = [proc EXCEPT ![p] = "gone"]
                              \/ proc' = proc
  BY <1>1, <1>4 DEF KernelInv
<1>5. CASE UNCHANGED <<proc, exit, news>> /\ children' \in {children, {}}
  BY <1>5 DEF KernelInv
<1> QED BY <1>2, <1>3, <1>4, <1>5, Kernels

-----------------------------------------------------------------------------
(* Sleeping.                                                               *)

\* A child that ended behind wait3's back is announced: by a signal that is
\* still to come, or by the flag that is tested before going to sleep.
Awaited ==
  Undelivered =>
    /\ pc \in {"suspend", "asleep"} => sigchld
    /\ pc \in {"mask", "check"} => sigchld \/ gotsigchld

LEMMA AwaitedNext == TableInv /\ KernelInv /\ Awaited /\ [Next]_vars => Awaited'
<1> SUFFICES ASSUME TableInv, KernelInv, Awaited, [Next]_vars, Undelivered',
                    pc' \in {"mask", "check", "suspend", "asleep"}
             PROVE  /\ pc' \in {"suspend", "asleep"} => sigchld'
                    /\ pc' \in {"mask", "check"} => sigchld' \/ gotsigchld'
  BY DEF Awaited
<1>1. children \subseteq Pids
  BY DEF TableInv, KernelOK
<1>2. CASE Kernel
  <2>1. Moves /\ UNCHANGED shellVars /\ children' = children
    BY <1>2, KernelMoves DEF TableInv
  <2>2. pc' = pc /\ gotsigchld' = gotsigchld
    BY <2>1 DEF shellVars, flagVars
  <2>3. PICK p \in children : proc'[p] = "zombie"
    BY <2>1 DEF Undelivered
  <2>4. CASE proc[p] = "zombie"
    <3>1. Undelivered
      BY <2>3, <2>4 DEF Undelivered
    <3> QED BY <2>1, <2>2, <3>1 DEF Awaited, Moves
  <2>5. CASE proc[p] # "zombie"
    BY <2>1, <2>3, <2>5 DEF Moves
  <2> QED BY <2>4, <2>5
<1>3. CASE Handlers
  <2>1. UNCHANGED <<proc, children>> /\ Undelivered
    BY <1>3 DEF Handlers, OnSigchld, OnTrapped, OnInterrupt, kernelVars, Undelivered
  <2>2. CASE OnSigchld
    <3>1. gotsigchld' = TRUE /\ ~Masked /\ pc' \in Woken
      BY <2>2 DEF OnSigchld
    <3>2. pc' \in {"mask", "check"}
      BY <3>1 DEF Woken, Masked
    <3> QED BY <3>1, <3>2
  <2>3. CASE OnTrapped \/ OnInterrupt
    <3>1. pc' \in Woken /\ ~Masked /\ sigchld' = sigchld /\ gotsigchld' = gotsigchld
      BY <2>3 DEF OnTrapped, OnInterrupt, kernelVars, flagVars
    <3>2. (pc' = pc /\ pc = "mask") \/ (pc = "asleep" /\ pc' = "check")
      BY <3>1 DEF Woken, Masked
    <3> QED BY <2>1, <3>1, <3>2 DEF Awaited
  <2> QED BY <1>3, <2>2, <2>3 DEF Handlers
<1>4. CASE Waitproc
  <2>1. CASE Wait3None
    <3>1. \A p \in children : proc'[p] # "zombie"
      BY <1>1, <2>1 DEF Wait3None, Reportable
    <3> QED BY <2>1, <3>1 DEF Wait3None, Undelivered
  <2>2. CASE WaitMask
    <3>1. Undelivered /\ gotsigchld' = (gotsigchld \/ sigchld) /\ pc = "mask" /\ pc' = "check"
      BY <2>2 DEF WaitMask, Deliver, Undelivered
    <3> QED BY <3>1 DEF Awaited
  <2>3. CASE WaitCheck \/ WaitSuspend
    <3>1. Undelivered /\ UNCHANGED <<gotsigchld, sigchld>>
      BY <2>3 DEF WaitCheck, WaitSuspend, kernelVars, flagVars, Undelivered
    <3> QED BY <2>3, <3>1 DEF Awaited, WaitCheck, WaitSuspend
  <2>4. CASE WaitClear \/ Wait3Found \/ WaitUnmask \/ WaitTest
    BY <2>4 DEF WaitClear, Wait3Found, WaitUnmask, WaitTest
  <2> QED BY <1>4, <2>1, <2>2, <2>3, <2>4 DEF Waitproc
<1>5. CASE Idle \/ Fork \/ After
  BY <1>5, OtherPoints
<1>6. CASE UNCHANGED vars
  BY <1>6 DEF vars, kernelVars, flagVars, Awaited, Undelivered
<1> QED BY <1>2, <1>3, <1>4, <1>5, <1>6 DEF Next

LEMMA KernelAlways == Spec => [](TableInv /\ KernelInv /\ Awaited)
<1>1. Init => TableInv /\ KernelInv /\ Awaited
  BY TableInit, KernelInvInit DEF Init, Awaited, Undelivered
<1>2. TableInv /\ KernelInv /\ Awaited /\ [Next]_vars => (TableInv /\ KernelInv /\ Awaited)'
  BY TableNext, KernelInvNext, AwaitedNext
<1> QED BY <1>1, <1>2, PTL DEF Spec

\* A shell that sleeps in sigsuspend is woken when a child has ended, for any
\* interleaving of children, handlers and the steps of waitproc.
THEOREM NoWakeupIsLost == Spec => []NoLostWakeup
<1>1. Awaited => NoLostWakeup
  BY DEF Awaited, NoLostWakeup, Undelivered
<1> QED BY <1>1, KernelAlways, PTL

-----------------------------------------------------------------------------
(* What a step leaves of the jobs.                                         *)

\* The processes of a job are the same, and those that were stopped may run.
Alike(a, b) ==
  /\ DOMAIN b.ps = DOMAIN a.ps
  /\ \A k \in DOMAIN a.ps :
       /\ b.ps[k].pid = a.ps[k].pid
       /\ \/ b.ps[k].status = a.ps[k].status
          \/ a.ps[k].status = "stopped" /\ b.ps[k].status = "running"

\* No job comes with processes, and none leaves that is not finished.
Shrinks ==
  \A j \in Used(jobtab') : \/ jobtab'[j].ps = <<>> /\ op' = "fork" /\ job' = j
                           \/ j \in Used(jobtab) /\ Alike(jobtab[j], jobtab'[j])
Remains(j) ==
  /\ jobtab'[j].used
  /\ \A k \in DOMAIN jobtab[j].ps : jobtab'[j].ps[k].pid = jobtab[j].ps[k].pid
Stays ==
  ~parjob => \A j \in Used(jobtab) :
    jobtab[j].state # "JOBDONE" =>
      Remains(j) \/ (pc = "fork" /\ job = j /\ pc' = "idle") \/ level' > level

LEMMA SameJobs ==
  ASSUME jobtab' = jobtab
  PROVE  Shrinks /\ Stays
BY DEF Shrinks, Stays, Alike, Remains, Used

\* The processes of every job stay the same.
LEMMA SameProcesses ==
  ASSUME Used(jobtab') \subseteq Used(jobtab),
         \A j \in Used(jobtab') : jobtab'[j].ps = jobtab[j].ps,
         \A j \in Used(jobtab) \ Used(jobtab') :
           jobtab[j].state = "JOBDONE" \/ (pc = "fork" /\ job = j /\ pc' = "idle")
  PROVE  Shrinks /\ Stays
<1>1. Shrinks
  BY DEF Shrinks, Alike
<1>2. ASSUME NEW j \in Used(jobtab), jobtab[j].state # "JOBDONE",
             ~(pc = "fork" /\ job = j /\ pc' = "idle")
      PROVE  Remains(j)
  <2>1. j \in Used(jobtab')
    BY <1>2
  <2>2. jobtab'[j].used
    BY <2>1 DEF Used
  <2> QED BY <2>1, <2>2 DEF Remains
<1> QED BY <1>1, <1>2 DEF Stays

LEMMA StartLeaves == TableInv /\ StartJob => Shrinks /\ Stays /\ (parjob => \A j \in Used(jobtab') : jobtab'[j].ps = <<>>)
<1> SUFFICES ASSUME TableInv, StartJob
             PROVE  Shrinks /\ Stays /\ (parjob => \A j \in Used(jobtab') : jobtab'[j].ps = <<>>)
  OBVIOUS
<1>1. PICK pipefail \in Pipefail : makejob(pipefail)
  BY DEF StartJob
<1> DEFINE j == Slot(Kept)
           t == IF Free(Kept) = {} THEN growjobtab(Kept) ELSE Kept
           new == NewJob(pipefail)
<1>2. jobtab' = [t EXCEPT ![j] = new]
  BY <1>1 DEF makejob
<1>3. Table(jobtab, curjob) /\ Table(Kept, List) /\ Kept \in Seq(Job)
  BY KeptTable DEF TableInv, Table
<1>4. /\ j \in DOMAIN t /\ Used(t) = Used(Kept)
      /\ \A k \in DOMAIN Kept : k \in DOMAIN t /\ t[k] = Kept[k]
      /\ Free(Kept) # {} => j \in Free(Kept)
      /\ Free(Kept) = {} => j \notin DOMAIN Kept
  <2>1. CASE Free(Kept) = {}
    <3>1. j = Len(Kept) + 1
      BY <1>3, <2>1, SlotFacts
    <3> QED BY <1>3, <2>1, <3>1, GrownTable
  <2>2. CASE Free(Kept) # {}
    BY <1>3, <2>2, SlotFacts
  <2> QED BY <2>1, <2>2
<1>5. op' = "fork" /\ job' = j
  BY <1>1 DEF StartJob, makejob
<1>6. new.ps = <<>> /\ new.used
  <2>1. pipefail \in BOOLEAN /\ mflag \in BOOLEAN
    BY JobsAssumption DEF TableInv, FlagsOK
  <2> QED BY <2>1, NewTypes
<1> HIDE DEF j, t, new
<1>7. /\ jobtab'[j] = new /\ DOMAIN jobtab' = DOMAIN t
      /\ \A k \in DOMAIN t : k # j => jobtab'[k] = t[k]
  BY <1>2, <1>4
<1>8. \A k \in Used(jobtab') : k # j => k \in Used(Kept) /\ jobtab'[k] = Kept[k]
  <2> SUFFICES ASSUME NEW k \in Used(jobtab'), k # j PROVE k \in Used(Kept) /\ jobtab'[k] = Kept[k]
    OBVIOUS
  <2>1. k \in DOMAIN t /\ jobtab'[k] = t[k]
    BY <1>7 DEF Used
  <2>2. k \in Used(t)
    BY <2>1 DEF Used
  <2> QED BY <1>4, <2>1, <2>2 DEF Used
<1>9. CASE parjob
  <2>1. Used(Kept) = {}
    BY <1>3, <1>9, KeptTable
  <2>2. \A k \in Used(jobtab') : jobtab'[k].ps = <<>> /\ k = j
    BY <1>6, <1>7, <1>8, <2>1
  <2> QED BY <1>9, <1>5, <2>2 DEF Shrinks, Stays
<1>10. CASE ~parjob
  <2>1. Kept = jobtab
    BY <1>10 DEF Kept
  <2>2. Shrinks
    BY <1>6, <1>7, <1>8, <1>5, <2>1 DEF Shrinks, Alike
  <2>3. ASSUME NEW k \in Used(jobtab), jobtab[k].state # "JOBDONE" PROVE Remains(k)
    <3>1. k \in DOMAIN jobtab /\ jobtab[k].used
      BY DEF Used
    <3>2. k # j
      BY <1>4, <2>1, <2>3, <3>1 DEF Free
    <3>3. jobtab'[k] = jobtab[k]
      BY <1>4, <1>7, <2>1, <3>1, <3>2
    <3> QED BY <3>1, <3>3 DEF Remains
  <2> QED BY <1>10, <2>2, <2>3 DEF Stays
<1> QED BY <1>9, <1>10

\* A shell that takes its table for its own again has nothing of another in it.
Fresh == parjob' \/ ~parjob \/ \A j \in Used(jobtab') : jobtab'[j].ps = <<>>

LEMMA RestartLeaves == TableInv /\ Restart => Shrinks /\ Stays
<1> SUFFICES ASSUME TableInv, Restart PROVE Shrinks /\ Stays
  OBVIOUS
<1>1. PICK j \in Used(jobtab), m \in {"FORK_FG", "FORK_BG"} : restartjob(j, m)
  BY DEF Restart
<1>2. Table(jobtab, curjob)
  BY DEF TableInv
<1>3. /\ Used(jobtab') = Used(jobtab)
      /\ \A k \in DOMAIN jobtab : k # j => jobtab'[k] = jobtab[k]
      /\ \/ jobtab'[j] = jobtab[j]
         \/ /\ jobtab'[j] = Restarted(jobtab[j])
            /\ jobtab[j].state # "JOBDONE" /\ jobtab[j].ps # <<>>
         \/ /\ jobtab'[j] = [jobtab[j] EXCEPT !.state = "JOBRUNNING"]
            /\ jobtab[j].state # "JOBDONE" /\ "tty" \in Faults
  BY <1>1, <1>2, RestartTable
<1>4. jobtab[j] \in Job /\ Sound(jobtab[j]) /\ jobtab[j].used
  BY <1>2, LenProperties, ElementOfSeq DEF Table, Used
<1>5. Alike(jobtab[j], jobtab'[j])
  <2>1. CASE jobtab'[j] = jobtab[j]
    BY <2>1 DEF Alike
  <2>2. CASE jobtab'[j] = Restarted(jobtab[j]) /\ jobtab[j].state # "JOBDONE" /\ jobtab[j].ps # <<>>
    <3>1. /\ DOMAIN jobtab'[j].ps = DOMAIN jobtab[j].ps
          /\ \A k \in DOMAIN jobtab[j].ps : jobtab'[j].ps[k].pid = jobtab[j].ps[k].pid
          /\ \A k \in DOMAIN jobtab[j].ps :
               jobtab'[j].ps[k].status = IF jobtab[j].ps[k].status = "stopped" THEN "running"
                                         ELSE jobtab[j].ps[k].status
      BY <1>4, <2>2, RestartedJob DEF SamePids
    <3> QED BY <3>1 DEF Alike
  <2>3. CASE jobtab'[j] = [jobtab[j] EXCEPT !.state = "JOBRUNNING"]
             /\ jobtab[j].state # "JOBDONE" /\ "tty" \in Faults
    BY <1>4, <2>3, MarkedJob DEF Alike
  <2> QED BY <1>3, <2>1, <2>2, <2>3
<1>6. \A k \in Used(jobtab) : Alike(jobtab[k], jobtab'[k]) /\ jobtab'[k].used
  <2>1. \A k \in Used(jobtab) : jobtab'[k].used
    BY <1>3 DEF Used
  <2>2. \A k \in Used(jobtab) : k # j => jobtab'[k] = jobtab[k]
    BY <1>3 DEF Used
  <2> QED BY <1>5, <2>1, <2>2 DEF Alike
<1> QED BY <1>3, <1>6 DEF Shrinks, Stays, Remains, Alike

LEMMA SubshellLeaves ==
  TableInv /\ (Subshell \/ SubshellInPlace) => Shrinks /\ Stays /\ Fresh
<1> SUFFICES ASSUME TableInv, Subshell \/ SubshellInPlace PROVE Shrinks /\ Stays /\ Fresh
  OBVIOUS
<1>1. Table(jobtab, curjob) /\ level \in 0 .. MaxLevel
  BY DEF TableInv, FlagsOK
<1>2. Stays
  <2>1. level' = level + 1
    BY DEF Subshell, SubshellInPlace
  <2>2. level' > level
    BY <1>1, <2>1, JobsAssumption
  <2> QED BY <2>2 DEF Stays
<1>3. Table(Kept, List) /\ Kept \in Seq(Job) /\ (parjob => Used(Kept) = {})
      /\ (~parjob => Kept = jobtab)
  BY <1>1, KeptTable DEF Table
<1>4. \A j \in Used(Kept) : j \in Used(jobtab) /\ Kept[j] = jobtab[j]
  BY <1>3
<1>5. CASE Subshell
  <2> DEFINE j == Slot(Kept)
  <2>1. jobtab' = IF Free(Kept) # {} THEN [Kept EXCEPT ![j] = Unused] ELSE growjobtab(Kept)
    BY <1>5 DEF Subshell
  <2>2. \A k \in Used(jobtab') : k \in Used(Kept) /\ jobtab'[k] = Kept[k]
    <3>1. CASE Free(Kept) # {}
      <4>1. jobtab' = [Kept EXCEPT ![j] = Unused] /\ j \in DOMAIN Kept
        BY <1>3, <2>1, <3>1, SlotFacts
      <4> HIDE DEF j
      <4> QED BY <4>1, NewTypes DEF Used
    <3>2. CASE Free(Kept) = {}
      <4>1. /\ jobtab' = growjobtab(Kept) /\ Used(growjobtab(Kept)) = Used(Kept)
            /\ \A k \in DOMAIN Kept : growjobtab(Kept)[k] = Kept[k]
        BY <1>3, <2>1, <3>2, GrownTable
      <4> QED BY <4>1 DEF Used
    <3> QED BY <3>1, <3>2
  <2> HIDE DEF j
  <2>3. Shrinks
    BY <1>4, <2>2 DEF Shrinks, Alike
  <2>4. parjob'
    BY <1>5 DEF Subshell
  <2> QED BY <1>2, <2>3, <2>4 DEF Fresh
<1>6. CASE SubshellInPlace
  <2>1. jobtab' = Kept
    BY <1>6 DEF SubshellInPlace
  <2>2. Shrinks
    BY <1>4, <2>1 DEF Shrinks, Alike
  <2>3. Fresh
    BY <1>3, <2>1 DEF Fresh
  <2> QED BY <1>2, <2>2, <2>3
<1> QED BY <1>5, <1>6

\* waitforjob frees its job when it is done, and a fork that fails whatever
\* was started of it.
LEMMA FreeLeaves == TableInv /\ (ForkFails \/ waitforjob) => Shrinks /\ Stays
<1> SUFFICES ASSUME TableInv, ForkFails \/ waitforjob PROVE Shrinks /\ Stays
  OBVIOUS
<1>1. Table(jobtab, curjob) /\ job \in Used(jobtab)
  BY DEF TableInv, CallOK, Control, ForkFails, waitforjob
<1>2. CASE freejob(job)
  <2>1. Used(jobtab') = Used(jobtab) \ {job}
    BY <1>1, <1>2, FreedTable
  <2>2. \A j \in Used(jobtab') : jobtab'[j].ps = jobtab[j].ps
    <3>1. jobtab' = [jobtab EXCEPT ![job] = Unused]
      BY <1>2 DEF freejob
    <3> QED BY <2>1, <3>1 DEF Used
  <2>3. jobtab[job].state = "JOBDONE" \/ (pc = "fork" /\ pc' = "idle")
    <3>1. CASE ForkFails
      BY <3>1 DEF ForkFails, Return
    <3>2. CASE waitforjob /\ jobtab' # jobtab
      BY <3>2 DEF waitforjob
    <3>3. CASE jobtab' = jobtab
      BY <1>1, <2>1, <3>3
    <3> QED BY <3>1, <3>2, <3>3
  <2> QED BY <2>1, <2>2, <2>3, SameProcesses
<1>3. CASE jobtab' = jobtab
  BY <1>3, SameJobs
<1> QED BY <1>2, <1>3 DEF ForkFails, waitforjob

LEMMA WaitLeaves == TableInv /\ (WaitStart \/ WaitNext) => Shrinks /\ Stays
<1> SUFFICES ASSUME TableInv, WaitStart \/ WaitNext PROVE Shrinks /\ Stays
  OBVIOUS
<1>1. Table(jobtab, curjob)
  BY DEF TableInv
<1>2. \/ WaitAllTurn
      \/ \E j \in Used(jobtab) : WaitJobTurn(j)
  BY DEF WaitStart, WaitNext, TableInv, CallOK
<1>3. CASE WaitAllTurn
  <2> DEFINE S == {curjob[i] : i \in {k \in DOMAIN curjob : \A r \in Running(jobtab) : k < r}}
  <2>1. jobtab' = [j \in DOMAIN jobtab |-> IF j \in S THEN [jobtab[j] EXCEPT !.waited = TRUE]
                                           ELSE jobtab[j]]
    BY <1>3 DEF WaitAllTurn
  <2> HIDE DEF S
  <2>2. Used(jobtab') = Used(jobtab) /\ \A j \in DOMAIN jobtab : jobtab'[j].ps = jobtab[j].ps
    BY <1>1, <2>1, WaitedTable
  <2> QED BY <2>2, SameProcesses DEF Used
<1>4. CASE \E j \in Used(jobtab) : WaitJobTurn(j)
  <2>1. PICK j \in Used(jobtab) : WaitJobTurn(j)
    BY <1>4
  <2>2. jobtab' = jobtab \/ jobtab' = [jobtab EXCEPT ![j].waited = TRUE]
    BY <2>1 DEF WaitJobTurn
  <2>3. CASE jobtab' = [jobtab EXCEPT ![j].waited = TRUE]
    <3>1. \A k \in DOMAIN jobtab : jobtab[k] \in Job
      BY <1>1, LenProperties, ElementOfSeq DEF Table
    <3>2. DOMAIN jobtab' = DOMAIN jobtab
          /\ \A k \in DOMAIN jobtab : jobtab'[k].used = jobtab[k].used /\ jobtab'[k].ps = jobtab[k].ps
      BY <2>3, <3>1 DEF Job
    <3>3. Used(jobtab') = Used(jobtab)
      BY <3>2 DEF Used
    <3> QED BY <3>2, <3>3, SameProcesses DEF Used
  <2> QED BY <2>2, <2>3, SameJobs
<1> QED BY <1>2, <1>3, <1>4

LEMMA ShowLeaves == TableInv /\ (showjobs \/ ShowOne) => Shrinks /\ Stays
<1> SUFFICES ASSUME TableInv, showjobs \/ ShowOne PROVE Shrinks /\ Stays
  OBVIOUS
<1>1. Table(jobtab, curjob)
  BY DEF TableInv
<1>2. jobtab' = jobtab \/ \E S \in SUBSET Used(jobtab) : showjob(S)
  <2>1. \A m : Shown(m) \in SUBSET Used(jobtab)
    BY DEF Shown
  <2> QED BY <2>1 DEF showjobs, ShowOne, tableVars
<1>3. ASSUME NEW S \in SUBSET Used(jobtab), showjob(S) PROVE Shrinks /\ Stays
  <2>1. /\ Used(jobtab') = Used(jobtab) \ {j \in S : jobtab[j].state = "JOBDONE"}
        /\ \A j \in Used(jobtab') : jobtab'[j].ps = jobtab[j].ps
    BY <1>1, <1>3, ShownTable
  <2> QED BY <2>1, SameProcesses
<1> QED BY <1>2, <1>3, SameJobs

LEMMA Leaves ==
  ASSUME TableInv, [Next]_vars, ~forkshell, ~Wait3Found
  PROVE  Shrinks /\ Stays /\ Fresh
<1>1. CASE UNCHANGED tableVars
  BY <1>1, SameJobs DEF tableVars, Fresh
<1>2. CASE UNCHANGED parjob /\ (Restart \/ ForkFails \/ waitforjob \/ WaitStart \/ WaitNext
                                \/ showjobs \/ ShowOne)
  BY <1>2, RestartLeaves, FreeLeaves, WaitLeaves, ShowLeaves DEF Fresh
<1>3. CASE Idle
  <2>1. CASE StartJob
    BY <2>1, StartLeaves DEF Fresh
  <2>2. CASE CollectStart \/ Leaving \/ killcmd \/ SetMonitor \/ Dotrap
    BY <1>1, <2>2 DEF CollectStart, Leaving, killcmd, SetMonitor, Dotrap
  <2>3. CASE WaitStart \/ showjobs \/ ShowOne \/ Restart
    BY <1>2, <2>3 DEF WaitStart, showjobs, ShowOne, Restart, restartjob, tableVars
  <2>4. CASE Subshell \/ SubshellInPlace
    BY <2>4, SubshellLeaves
  <2> QED BY <1>3, <2>1, <2>2, <2>3, <2>4 DEF Idle
<1>4. CASE Fork
  BY <1>1, <1>2, <1>4 DEF Fork, ForkFails, PipeFails
<1>5. CASE Waitproc
  BY <1>1, <1>5 DEF Waitproc, WaitClear, Wait3None, WaitMask, WaitCheck, WaitSuspend, WaitUnmask, WaitTest
<1>6. CASE After
  <2>1. CASE Interrupted \/ CollectNext \/ WaitSigout \/ Leaving
    BY <1>1, <2>1 DEF Interrupted, CollectNext, WaitSigout, Leaving
  <2>2. CASE waitforjob \/ WaitNext \/ showjobs
    BY <1>2, <2>2 DEF waitforjob, WaitNext, showjobs, tableVars
  <2> QED BY <1>6, <2>1, <2>2 DEF After
<1>7. CASE Handlers
  BY <1>1, <1>7 DEF Handlers, OnSigchld, OnTrapped, OnInterrupt
<1>8. CASE Kernel
  BY <1>1, <1>8 DEF Kernel, Ends, shellVars
<1>9. CASE UNCHANGED vars
  BY <1>1, <1>9 DEF vars
<1> QED BY <1>3, <1>4, <1>5, <1>6, <1>7, <1>8, <1>9 DEF Next

\* A fork adds one process to its job and leaves the others.
LEMMA ForkLeaves ==
  ASSUME TableInv, pc = "fork", NEW p \in Pids, forkparent(p)
  PROVE  /\ job \in Used(jobtab) /\ Used(jobtab') = Used(jobtab) /\ Stays
         /\ \A j \in Used(jobtab) : j # job => jobtab'[j] = jobtab[j]
         /\ LET n == Len(jobtab[job].ps) + 1 IN
              /\ DOMAIN jobtab'[job].ps = DOMAIN jobtab[job].ps \cup {n}
              /\ n \notin DOMAIN jobtab[job].ps
              /\ jobtab'[job].ps[n] = [pid |-> p, status |-> "running"]
         /\ \A k \in DOMAIN jobtab[job].ps : jobtab'[job].ps[k] = jobtab[job].ps[k]
<1> DEFINE new == [jobtab[job] EXCEPT !.ps = Append(@, [pid |-> p, status |-> "running"])]
<1>1. /\ job \in Used(jobtab) /\ Used(jobtab') = Used(jobtab)
  BY ForkedTable
<1>2. job \in DOMAIN jobtab /\ jobtab[job] \in Job /\ jobtab[job].state = "JOBRUNNING"
  BY <1>1, LenProperties, ElementOfSeq DEF Used, TableInv, Table, Control
<1>3. jobtab' = [jobtab EXCEPT ![job] = new]
  BY DEF forkparent
<1>4. /\ DOMAIN new.ps = DOMAIN jobtab[job].ps \cup {Len(jobtab[job].ps) + 1}
      /\ Len(jobtab[job].ps) + 1 \notin DOMAIN jobtab[job].ps
      /\ new.ps[Len(jobtab[job].ps) + 1] = [pid |-> p, status |-> "running"]
      /\ \A k \in DOMAIN jobtab[job].ps : new.ps[k] = jobtab[job].ps[k]
  BY <1>2, AppendedJob
<1> HIDE DEF new
<1>5. jobtab'[job] = new /\ \A j \in DOMAIN jobtab : j # job => jobtab'[j] = jobtab[j]
  BY <1>2, <1>3
<1>6. \A j \in Used(jobtab) : Remains(j)
  <2> SUFFICES ASSUME NEW j \in Used(jobtab) PROVE Remains(j)
    OBVIOUS
  <2>1. jobtab'[j].used
    BY <1>1 DEF Used
  <2>2. \A k \in DOMAIN jobtab[j].ps : jobtab'[j].ps[k].pid = jobtab[j].ps[k].pid
    BY <1>4, <1>5 DEF Used
  <2> QED BY <2>1, <2>2 DEF Remains
<1>7. \A j \in Used(jobtab) : j # job => jobtab'[j] = jobtab[j]
  BY <1>5 DEF Used
<1> QED BY <1>1, <1>4, <1>5, <1>6, <1>7 DEF Stays

\* What is recorded of a process is a status, in every place of a job.
LEMMA RecordLeaves ==
  ASSUME TableInv, NEW p \in Pids, NEW st \in Statuses \ {"running"}, Record(p, st)
  PROVE  /\ Used(jobtab') = Used(jobtab) /\ Stays
         /\ \A j \in Used(jobtab) :
              /\ DOMAIN jobtab'[j].ps = DOMAIN jobtab[j].ps
              /\ \A k \in DOMAIN jobtab[j].ps :
                   /\ jobtab'[j].ps[k].pid = jobtab[j].ps[k].pid
                   /\ \/ jobtab'[j].ps[k].status = jobtab[j].ps[k].status
                      \/ jobtab[j].ps[k].pid = p /\ jobtab'[j].ps[k].status = st
         /\ \A h \in Holders(p) : \E j \in Used(jobtab) :
              /\ p \in PidsOf(jobtab[j])
              /\ \A k \in DOMAIN jobtab[j].ps :
                   jobtab[j].ps[k].pid = p => jobtab'[j].ps[k].status = st
<1>1. Table(jobtab, curjob) /\ \A j \in Used(jobtab) : jobtab[j] \in Job /\ Sound(jobtab[j])
  BY LenProperties, ElementOfSeq DEF TableInv, Table, Used
<1>2. /\ Used(jobtab') = Used(jobtab)
      /\ \/ Holders(p) = {} /\ jobtab' = jobtab
         \/ \E i \in Holders(p) :
              jobtab' = [jobtab EXCEPT ![curjob[i]] = Recorded(jobtab[curjob[i]], p, st)]
  BY <1>1, RecordTable
<1>3. CASE Holders(p) = {} /\ jobtab' = jobtab
  BY <1>2, <1>3, SameJobs
<1>4. CASE \E i \in Holders(p) :
             jobtab' = [jobtab EXCEPT ![curjob[i]] = Recorded(jobtab[curjob[i]], p, st)]
  <2>1. PICK i \in Holders(p) :
          jobtab' = [jobtab EXCEPT ![curjob[i]] = Recorded(jobtab[curjob[i]], p, st)]
    BY <1>4
  <2> DEFINE h == curjob[i]
             nb == Recorded(jobtab[h], p, st)
  <2>2. h \in Used(jobtab) /\ h \in DOMAIN jobtab /\ p \in PidsOf(jobtab[h])
    BY <1>1, <2>1 DEF Holders, Elems, Table, Listed, Used
  <2> HIDE DEF h
  <2>3. jobtab[h] \in Job /\ Sound(jobtab[h])
    BY <1>1, <2>2
  <2>4. /\ DOMAIN nb.ps = DOMAIN jobtab[h].ps
        /\ \A k \in DOMAIN jobtab[h].ps : nb.ps[k].pid = jobtab[h].ps[k].pid
        /\ \A k \in DOMAIN jobtab[h].ps :
             nb.ps[k].status = IF jobtab[h].ps[k].pid = p THEN st ELSE jobtab[h].ps[k].status
    BY <2>2, <2>3, RecordedJob DEF SamePids
  <2>5. jobtab' = [jobtab EXCEPT ![h] = nb]
    BY <2>1 DEF h
  <2> HIDE DEF nb
  <2>6. jobtab'[h] = nb /\ \A j \in Used(jobtab) : j # h => jobtab'[j] = jobtab[j]
    BY <2>2, <2>5 DEF Used
  <2>7. \A j \in Used(jobtab) :
          /\ DOMAIN jobtab'[j].ps = DOMAIN jobtab[j].ps
          /\ \A k \in DOMAIN jobtab[j].ps :
               /\ jobtab'[j].ps[k].pid = jobtab[j].ps[k].pid
               /\ \/ jobtab'[j].ps[k].status = jobtab[j].ps[k].status
                  \/ jobtab[j].ps[k].pid = p /\ jobtab'[j].ps[k].status = st
    BY <2>4, <2>6
  <2>8. Stays
    BY <1>2, <2>7 DEF Stays, Remains, Used
  <2>9. \A k \in DOMAIN jobtab[h].ps : jobtab[h].ps[k].pid = p => jobtab'[h].ps[k].status = st
    BY <2>4, <2>6
  <2> QED BY <1>2, <2>2, <2>7, <2>8, <2>9
<1> QED BY <1>2, <1>3, <1>4

\* What wait3 reports can be recorded.
LEMMA Reported ==
  ASSUME TableInv
  PROVE  "stopped" \in Statuses \ {"running"} /\ \A p \in Pids : exit[p] \in Statuses \ {"running"}
<1>1. \A p \in Pids : exit[p] \in Exits
  BY DEF TableInv, KernelOK
<1> QED BY <1>1, JobsAssumption DEF Statuses

LEMMA EveryStep == TableInv /\ KernelInv /\ [Next]_vars => Stays
<1> SUFFICES ASSUME TableInv, KernelInv, [Next]_vars PROVE Stays
  OBVIOUS
<1>1. CASE forkshell
  BY <1>1, ForkOne, ForkLeaves
<1>2. CASE Wait3Found
  <2>1. PICK p \in Pids : Record(p, exit[p]) \/ Record(p, "stopped")
    BY <1>2, FoundOne
  <2> QED BY <2>1, Reported, RecordLeaves
<1>3. CASE ~forkshell /\ ~Wait3Found
  BY <1>3, Leaves
<1> QED BY <1>1, <1>2, <1>3

\* No step of the shell discards a job whose processes are still to be waited
\* for, except where fork failed or a subshell starts.
THEOREM NoJobIsLost == Spec => JobKept
<1>1. TableInv /\ KernelInv /\ [Next]_vars =>
        [~parjob => \A j \in Used(jobtab) :
           jobtab[j].state # "JOBDONE" =>
             \/ jobtab'[j].used /\ \A k \in DOMAIN jobtab[j].ps :
                                     jobtab'[j].ps[k].pid = jobtab[j].ps[k].pid
             \/ pc = "fork" /\ job = j /\ pc' = "idle"
             \/ level' > level]_vars
  BY EveryStep DEF Stays, Remains
<1> QED BY <1>1, KernelAlways, PTL DEF Spec, JobKept

-----------------------------------------------------------------------------
(* The table and the kernel.                                               *)

\* Whatever a job says of a finished process is what became of it.  In a
\* shell whose jobs are its own the processes are its children, none is in
\* two jobs, and none that is gone is missed.
Agree ==
  /\ \A j \in Used(jobtab) : \A k \in DOMAIN jobtab[j].ps :
       jobtab[j].ps[k].status \in Exits =>
         /\ proc[jobtab[j].ps[k].pid] = "gone"
         /\ jobtab[j].ps[k].status = exit[jobtab[j].ps[k].pid]
  /\ ~parjob => \A j \in Used(jobtab) : \A k \in DOMAIN jobtab[j].ps :
       /\ jobtab[j].ps[k].pid \in children
       /\ proc[jobtab[j].ps[k].pid] = "gone" => jobtab[j].ps[k].status \in Exits
  /\ ~parjob => \A i, j \in Used(jobtab) :
       PidsOf(jobtab[i]) \cap PidsOf(jobtab[j]) # {} => i = j

LEMMA PidTypes ==
  ASSUME Table(jobtab, curjob), NEW j \in Used(jobtab), NEW k \in DOMAIN jobtab[j].ps
  PROVE  jobtab[j].ps[k].pid \in Pids /\ jobtab[j].ps[k].status \in Statuses
<1>1. jobtab[j] \in Job
  BY LenProperties, ElementOfSeq DEF Table, Used
<1> QED BY <1>1, JobType

\* Steps that leave what is gone alone.
LEMMA AgreeShrunk ==
  ASSUME TableInv, Agree, Shrinks, Fresh,
         \A q \in Pids : proc[q] = "gone" <=> proc'[q] = "gone",
         \A q \in Pids : proc[q] = "gone" => exit'[q] = exit[q],
         children' = children \/ parjob'
  PROVE  Agree'
<1>1. ASSUME NEW j \in Used(jobtab'), jobtab'[j].ps # <<>>
      PROVE  j \in Used(jobtab) /\ Alike(jobtab[j], jobtab'[j])
  BY <1>1 DEF Shrinks
<1>2. \A j \in Used(jobtab') : jobtab'[j].ps = <<>> => DOMAIN jobtab'[j].ps = {} /\ PidsOf(jobtab'[j]) = {}
  BY DEF PidsOf
<1>3. ASSUME NEW j \in Used(jobtab'), NEW k \in DOMAIN jobtab'[j].ps
      PROVE  /\ j \in Used(jobtab) /\ k \in DOMAIN jobtab[j].ps
             /\ jobtab'[j].ps[k].pid = jobtab[j].ps[k].pid /\ jobtab[j].ps[k].pid \in Pids
             /\ \/ jobtab'[j].ps[k].status = jobtab[j].ps[k].status
                \/ jobtab'[j].ps[k].status \notin Exits /\ jobtab[j].ps[k].status \notin Exits
  <2>1. j \in Used(jobtab) /\ Alike(jobtab[j], jobtab'[j])
    BY <1>1, <1>2
  <2>2. jobtab[j].ps[k].pid \in Pids /\ k \in DOMAIN jobtab[j].ps
    BY <2>1, PidTypes DEF TableInv, Alike
  <2>3. "stopped" \notin Exits /\ "running" \notin Exits
    BY JobsAssumption
  <2> QED BY <2>1, <2>2, <2>3 DEF Alike
<1>4. ASSUME NEW j \in Used(jobtab'), NEW k \in DOMAIN jobtab'[j].ps, jobtab'[j].ps[k].status \in Exits
      PROVE  /\ proc'[jobtab'[j].ps[k].pid] = "gone"
             /\ jobtab'[j].ps[k].status = exit'[jobtab'[j].ps[k].pid]
  BY <1>3, <1>4 DEF Agree
<1>5. ASSUME NEW j \in Used(jobtab'), NEW k \in DOMAIN jobtab'[j].ps, ~parjob'
      PROVE  /\ ~parjob /\ jobtab'[j].ps[k].pid \in children'
             /\ proc'[jobtab'[j].ps[k].pid] = "gone" => jobtab'[j].ps[k].status \in Exits
  <2>1. ~parjob
    BY <1>2, <1>5 DEF Fresh
  <2> QED BY <1>3, <1>5, <2>1 DEF Agree
<1>6. ASSUME NEW i \in Used(jobtab'), NEW j \in Used(jobtab'), ~parjob',
             PidsOf(jobtab'[i]) \cap PidsOf(jobtab'[j]) # {}
      PROVE  i = j
  <2>1. PICK p \in PidsOf(jobtab'[i]) : p \in PidsOf(jobtab'[j])
    BY <1>6
  <2>2. PICK k \in DOMAIN jobtab'[i].ps : jobtab'[i].ps[k].pid = p
    BY <2>1 DEF PidsOf
  <2>3. PICK m \in DOMAIN jobtab'[j].ps : jobtab'[j].ps[m].pid = p
    BY <2>1 DEF PidsOf
  <2>4. /\ i \in Used(jobtab) /\ k \in DOMAIN jobtab[i].ps /\ jobtab[i].ps[k].pid = p
        /\ j \in Used(jobtab) /\ m \in DOMAIN jobtab[j].ps /\ jobtab[j].ps[m].pid = p
    BY <1>3, <2>2, <2>3
  <2>5. p \in PidsOf(jobtab[i]) /\ p \in PidsOf(jobtab[j]) /\ ~parjob
    BY <1>5, <1>6, <2>2, <2>4 DEF PidsOf
  <2> QED BY <2>4, <2>5 DEF Agree
<1> QED BY <1>4, <1>5, <1>6 DEF Agree

\* A fork adds a process that no job had.
LEMMA AgreeForked ==
  ASSUME TableInv, KernelInv, Agree, forkshell
  PROVE  Agree'
<1>1. PICK p \in Pids : /\ proc[p] = "unborn" /\ proc' = [proc EXCEPT ![p] = "run"]
                        /\ children' = children \cup {p} /\ forkparent(p)
  BY ForkOne
<1>2. pc = "fork" /\ exit' = exit /\ parjob' = parjob /\ ~parjob
  BY ForkOne DEF forkshell, TableInv, Control
<1> DEFINE n == Len(jobtab[job].ps) + 1
<1>3. /\ job \in Used(jobtab) /\ Used(jobtab') = Used(jobtab)
      /\ \A j \in Used(jobtab) : j # job => jobtab'[j] = jobtab[j]
      /\ DOMAIN jobtab'[job].ps = DOMAIN jobtab[job].ps \cup {n}
      /\ n \notin DOMAIN jobtab[job].ps
      /\ jobtab'[job].ps[n] = [pid |-> p, status |-> "running"]
      /\ \A k \in DOMAIN jobtab[job].ps : jobtab'[job].ps[k] = jobtab[job].ps[k]
  BY <1>1, <1>2, ForkLeaves
<1> HIDE DEF n
<1>4. p \notin children /\ children \subseteq Pids /\ DOMAIN proc = Pids
  BY <1>1 DEF KernelInv, TableInv, KernelOK
<1>5. \A j \in Used(jobtab) : \A k \in DOMAIN jobtab[j].ps : jobtab[j].ps[k].pid \in children
  BY <1>2 DEF Agree
<1>6. ASSUME NEW j \in Used(jobtab'), NEW k \in DOMAIN jobtab'[j].ps
      PROVE  \/ /\ j \in Used(jobtab) /\ k \in DOMAIN jobtab[j].ps
                /\ jobtab'[j].ps[k] = jobtab[j].ps[k]
             \/ j = job /\ jobtab'[j].ps[k] = [pid |-> p, status |-> "running"]
  BY <1>3
<1>7. "running" \notin Exits
  BY JobsAssumption
<1>8. \A j \in Used(jobtab') : \A k \in DOMAIN jobtab'[j].ps :
        /\ jobtab'[j].ps[k].status \in Exits =>
             /\ proc'[jobtab'[j].ps[k].pid] = "gone"
             /\ jobtab'[j].ps[k].status = exit'[jobtab'[j].ps[k].pid]
        /\ jobtab'[j].ps[k].pid \in children'
        /\ proc'[jobtab'[j].ps[k].pid] = "gone" => jobtab'[j].ps[k].status \in Exits
  <2> SUFFICES ASSUME NEW j \in Used(jobtab'), NEW k \in DOMAIN jobtab'[j].ps
               PROVE  /\ jobtab'[j].ps[k].status \in Exits =>
                           /\ proc'[jobtab'[j].ps[k].pid] = "gone"
                           /\ jobtab'[j].ps[k].status = exit'[jobtab'[j].ps[k].pid]
                      /\ jobtab'[j].ps[k].pid \in children'
                      /\ proc'[jobtab'[j].ps[k].pid] = "gone" => jobtab'[j].ps[k].status \in Exits
    OBVIOUS
  <2>1. CASE /\ j \in Used(jobtab) /\ k \in DOMAIN jobtab[j].ps
             /\ jobtab'[j].ps[k] = jobtab[j].ps[k]
    <3>1. jobtab[j].ps[k].pid \in children /\ jobtab[j].ps[k].pid # p
      BY <1>4, <1>5, <2>1
    <3>2. proc'[jobtab[j].ps[k].pid] = proc[jobtab[j].ps[k].pid]
      BY <1>1, <1>4, <3>1
    <3> QED BY <1>1, <1>2, <2>1, <3>1, <3>2 DEF Agree
  <2>2. CASE jobtab'[j].ps[k] = [pid |-> p, status |-> "running"]
    BY <1>1, <1>4, <1>7, <2>2
  <2> QED BY <1>6, <2>1, <2>2
<1>9. ASSUME NEW i \in Used(jobtab'), NEW j \in Used(jobtab'),
             PidsOf(jobtab'[i]) \cap PidsOf(jobtab'[j]) # {}
      PROVE  i = j
  <2>1. PICK q \in PidsOf(jobtab'[i]) : q \in PidsOf(jobtab'[j])
    BY <1>9
  <2>2. PICK k \in DOMAIN jobtab'[i].ps : jobtab'[i].ps[k].pid = q
    BY <2>1 DEF PidsOf
  <2>3. PICK m \in DOMAIN jobtab'[j].ps : jobtab'[j].ps[m].pid = q
    BY <2>1 DEF PidsOf
  <2>4. CASE q = p
    <3>1. ASSUME NEW h \in Used(jobtab'), NEW l \in DOMAIN jobtab'[h].ps, jobtab'[h].ps[l].pid = p
          PROVE  h = job
      BY <1>4, <1>5, <1>6, <3>1
    <3> QED BY <2>2, <2>3, <2>4, <3>1
  <2>5. CASE q # p
    <3>1. /\ i \in Used(jobtab) /\ k \in DOMAIN jobtab[i].ps /\ jobtab[i].ps[k].pid = q
          /\ j \in Used(jobtab) /\ m \in DOMAIN jobtab[j].ps /\ jobtab[j].ps[m].pid = q
      BY <1>6, <2>2, <2>3, <2>5
    <3>2. q \in PidsOf(jobtab[i]) /\ q \in PidsOf(jobtab[j])
      BY <3>1 DEF PidsOf
    <3> QED BY <1>2, <3>1, <3>2 DEF Agree
  <2> QED BY <2>4, <2>5
<1> QED BY <1>8, <1>9 DEF Agree

\* A process that is still to be reported is in a job that is not done.
LEMMA HolderThere ==
  ASSUME TableInv, Agree, NEW j \in Used(jobtab), NEW p \in PidsOf(jobtab[j]), proc[p] # "gone"
  PROVE  Holders(p) # {}
<1>1. PICK k \in DOMAIN jobtab[j].ps : jobtab[j].ps[k].pid = p
  BY DEF PidsOf
<1>2. jobtab[j].ps[k].status \notin Exits /\ jobtab[j].ps[k].status \in Statuses
  BY <1>1, PidTypes DEF Agree, TableInv
<1>3. "running" \in StatusesOf(jobtab[j]) \/ "stopped" \in StatusesOf(jobtab[j])
  BY <1>2 DEF Statuses, StatusesOf
<1>4. jobtab[j].state # "JOBDONE"
  BY <1>3 DEF TableInv, Table, Sound
<1>5. PICK i \in DOMAIN curjob : curjob[i] = j
  BY DEF TableInv, Table, Listed, Elems
<1> QED BY <1>4, <1>5 DEF Holders

\* wait3 reports a process, and its job has the status.
LEMMA AgreeFound ==
  ASSUME TableInv, KernelInv, Agree, Wait3Found
  PROVE  Agree'
<1>1. PICK p \in Pids :
        /\ p \in children
        /\ \/ /\ proc[p] = "zombie" /\ proc' = [proc EXCEPT ![p] = "gone"]
              /\ Record(p, exit[p])
           \/ /\ proc[p] = "stop" /\ proc' = proc /\ Record(p, "stopped")
  BY FoundOne
<1> DEFINE st == IF proc[p] = "zombie" THEN exit[p] ELSE "stopped"
<1>2. /\ exit' = exit /\ children' = children /\ parjob' = parjob
      /\ DOMAIN proc = Pids /\ "stopped" \notin Exits /\ exit[p] \in Exits
  BY FoundOne, JobsAssumption DEF Wait3Found, TableInv, KernelOK
<1>3. Record(p, st) /\ st \in Statuses \ {"running"}
  BY <1>1, Reported
<1>4. /\ proc[p] # "gone" /\ (st \in Exits => proc'[p] = "gone" /\ st = exit[p])
      /\ (proc'[p] = "gone" => st \in Exits)
      /\ \A q \in Pids : q # p => proc'[q] = proc[q]
  BY <1>1, <1>2
<1> HIDE DEF st
<1>5. /\ Used(jobtab') = Used(jobtab)
      /\ \A j \in Used(jobtab) :
           /\ DOMAIN jobtab'[j].ps = DOMAIN jobtab[j].ps
           /\ \A k \in DOMAIN jobtab[j].ps :
                /\ jobtab'[j].ps[k].pid = jobtab[j].ps[k].pid
                /\ \/ jobtab'[j].ps[k].status = jobtab[j].ps[k].status
                   \/ jobtab[j].ps[k].pid = p /\ jobtab'[j].ps[k].status = st
      /\ \A h \in Holders(p) : \E j \in Used(jobtab) :
           /\ p \in PidsOf(jobtab[j])
           /\ \A k \in DOMAIN jobtab[j].ps :
                jobtab[j].ps[k].pid = p => jobtab'[j].ps[k].status = st
  BY <1>3, RecordLeaves
<1>6. \A j \in Used(jobtab') : PidsOf(jobtab'[j]) = PidsOf(jobtab[j])
  BY <1>5 DEF PidsOf
<1>7. ASSUME NEW j \in Used(jobtab'), NEW k \in DOMAIN jobtab'[j].ps
      PROVE  /\ jobtab'[j].ps[k].status \in Exits =>
                  /\ proc'[jobtab'[j].ps[k].pid] = "gone"
                  /\ jobtab'[j].ps[k].status = exit'[jobtab'[j].ps[k].pid]
             /\ ~parjob' => jobtab'[j].ps[k].pid \in children'
             /\ ~parjob' => (proc'[jobtab'[j].ps[k].pid] = "gone" =>
                               jobtab'[j].ps[k].status \in Exits)
  <2>1. /\ j \in Used(jobtab) /\ k \in DOMAIN jobtab[j].ps
        /\ jobtab'[j].ps[k].pid = jobtab[j].ps[k].pid /\ jobtab[j].ps[k].pid \in Pids
        /\ \/ jobtab'[j].ps[k].status = jobtab[j].ps[k].status
           \/ jobtab[j].ps[k].pid = p /\ jobtab'[j].ps[k].status = st
    BY <1>5, PidTypes DEF TableInv
  <2>2. CASE jobtab[j].ps[k].pid # p
    BY <1>2, <1>4, <2>1, <2>2 DEF Agree
  <2>3. CASE jobtab[j].ps[k].pid = p
    <3>1. jobtab[j].ps[k].status \notin Exits
      BY <1>4, <2>1, <2>3 DEF Agree
    <3>2. ~parjob => jobtab'[j].ps[k].status = st
      <4> SUFFICES ASSUME ~parjob PROVE jobtab'[j].ps[k].status = st
        OBVIOUS
      <4>1. p \in PidsOf(jobtab[j])
        BY <2>1, <2>3 DEF PidsOf
      <4>2. PICK h \in Used(jobtab) :
              /\ p \in PidsOf(jobtab[h])
              /\ \A m \in DOMAIN jobtab[h].ps :
                   jobtab[h].ps[m].pid = p => jobtab'[h].ps[m].status = st
        BY <1>4, <1>5, <2>1, <4>1, HolderThere
      <4>3. h = j
        BY <2>1, <4>1, <4>2 DEF Agree
      <4> QED BY <2>1, <2>3, <4>2, <4>3
    <3> QED BY <1>1, <1>2, <1>4, <2>1, <2>3, <3>1, <3>2
  <2> QED BY <2>2, <2>3
<1>8. \A i, j \in Used(jobtab') :
        ~parjob' /\ PidsOf(jobtab'[i]) \cap PidsOf(jobtab'[j]) # {} => i = j
  BY <1>2, <1>5, <1>6 DEF Agree
<1> QED BY <1>7, <1>8 DEF Agree

LEMMA AgreeNext == TableInv /\ KernelInv /\ Agree /\ [Next]_vars => Agree'
<1> SUFFICES ASSUME TableInv, KernelInv, Agree, [Next]_vars PROVE Agree'
  OBVIOUS
<1>1. CASE forkshell
  BY <1>1, AgreeForked
<1>2. CASE Wait3Found
  BY <1>2, AgreeFound
<1>3. CASE ~forkshell /\ ~Wait3Found
  <2>1. Shrinks /\ Fresh
    BY <1>3, Leaves
  <2>2. \/ Moves /\ children' = children
        \/ UNCHANGED <<proc, exit>> /\ (children' = children \/ Subshell)
    BY <1>3, Kernels
  <2>3. /\ \A q \in Pids : proc[q] = "gone" <=> proc'[q] = "gone"
        /\ \A q \in Pids : proc[q] = "gone" => exit'[q] = exit[q]
    BY <2>2 DEF Moves
  <2>4. children' = children \/ parjob'
    BY <2>2 DEF Subshell
  <2> QED BY <2>1, <2>3, <2>4, AgreeShrunk
<1> QED BY <1>1, <1>2, <1>3

LEMMA AgreeAlways == Spec => [](TableInv /\ KernelInv /\ Agree)
<1>1. Init => Agree
  BY DEF Init, Agree, Used
<1>2. TableInv /\ KernelInv /\ Agree /\ [Next]_vars => Agree'
  BY AgreeNext
<1> QED BY <1>1, <1>2, KernelAlways, PTL DEF Spec

\* In a shell whose jobs are its own, a process is recorded as finished, with
\* the status it ended with, exactly when wait3 has reported it.
THEOREM TableIsTrue == Spec => []TableTrue
<1>1. Agree => TableTrue
  BY DEF Agree, TableTrue
<1> QED BY <1>1, AgreeAlways, PTL

-----------------------------------------------------------------------------
(* What wait returns.                                                      *)

\* While an operation goes on it has not returned anything.
Called == op # "none" => ret = "none"

LEMMA CalledNext == TableInv /\ Called /\ [Next]_vars => Called'
<1> SUFFICES ASSUME TableInv, Called, [Next]_vars PROVE Called'
  OBVIOUS
<1> USE DEF Called
<1>1. CASE op' = "none" \/ ret' = "none" \/ (op' = op /\ ret' = ret)
  BY <1>1
<1>2. CASE Idle
  <2>1. CASE WaitStart
    BY <1>1, <2>1 DEF WaitStart, WaitAllTurn, WaitJobTurn, Return, Dowait
  <2>2. CASE StartJob \/ CollectStart \/ ShowOne \/ killcmd \/ SetMonitor \/ Subshell
             \/ SubshellInPlace \/ Dotrap
    BY <1>1, <2>2 DEF StartJob, CollectStart, ShowOne, killcmd, SetMonitor, Subshell,
                      SubshellInPlace, Dotrap, Return, Dowait, callVars
  <2>3. CASE pc = "idle" /\ (showjobs \/ Leaving)
    BY <1>1, <2>3 DEF showjobs, Leaving, stoppedjobs, CommandLine, Return, Dowait, callVars
  <2>4. CASE Restart
    BY <1>1, <2>4 DEF Restart, restartjob, Return, Dowait
  <2> QED BY <1>2, <2>1, <2>2, <2>3, <2>4 DEF Idle
<1>3. CASE Fork
  BY <1>1, <1>3 DEF Fork, forkshell, ForkFails, PipeFails, Return, Dowait
<1>4. CASE After
  <2>1. CASE Interrupted \/ waitforjob \/ CollectNext \/ WaitSigout
    BY <1>1, <2>1 DEF Interrupted, waitforjob, CollectNext, WaitSigout, Return, Dowait
  <2>2. CASE pc = "after" /\ (showjobs \/ Leaving)
    BY <1>1, <2>2 DEF showjobs, Leaving, stoppedjobs, CommandLine, Return, Dowait, callVars
  <2>3. CASE WaitNext
    BY <1>1, <2>3 DEF WaitNext, WaitAllTurn, WaitJobTurn, Return, Dowait
  <2> QED BY <1>4, <2>1, <2>2, <2>3 DEF After
<1>5. CASE Waitproc \/ Handlers
  BY <1>1, <1>5 DEF Waitproc, WaitClear, Wait3Found, Wait3None, WaitMask, WaitCheck, WaitSuspend,
                    WaitUnmask, WaitTest, Handlers, OnSigchld, OnTrapped, OnInterrupt, callVars
<1>6. CASE Kernel \/ UNCHANGED vars
  BY <1>1, <1>6 DEF Kernel, Ends, shellVars, vars, callVars
<1> QED BY <1>2, <1>3, <1>4, <1>5, <1>6 DEF Next

\* Where nothing can be stopped, nothing is recorded as stopped.
Unstopped == \A j \in Used(jobtab) : "stopped" \notin StatusesOf(jobtab[j])

LEMMA UnstoppedNext ==
  ASSUME TableInv, KernelInv, ~CanStop, Unstopped, [Next]_vars
  PROVE  Unstopped'
<1>1. CASE forkshell
  <2>1. PICK p \in Pids : pc = "fork" /\ forkparent(p)
    BY <1>1, ForkOne
  <2> DEFINE n == Len(jobtab[job].ps) + 1
  <2>2. /\ job \in Used(jobtab) /\ Used(jobtab') = Used(jobtab)
        /\ \A j \in Used(jobtab) : j # job => jobtab'[j] = jobtab[j]
        /\ DOMAIN jobtab'[job].ps = DOMAIN jobtab[job].ps \cup {n}
        /\ jobtab'[job].ps[n] = [pid |-> p, status |-> "running"]
        /\ \A k \in DOMAIN jobtab[job].ps : jobtab'[job].ps[k] = jobtab[job].ps[k]
    BY <2>1, ForkLeaves
  <2> HIDE DEF n
  <2> QED BY <2>2 DEF Unstopped, StatusesOf
<1>2. CASE Wait3Found
  <2>1. PICK p \in Pids : Record(p, exit[p])
    BY <1>2, FoundOne DEF KernelInv
  <2>2. exit[p] \in Statuses \ {"running"} /\ exit[p] # "stopped"
    BY Reported, JobsAssumption DEF TableInv, KernelOK
  <2>3. /\ Used(jobtab') = Used(jobtab)
        /\ \A j \in Used(jobtab) :
             /\ DOMAIN jobtab'[j].ps = DOMAIN jobtab[j].ps
             /\ \A k \in DOMAIN jobtab[j].ps :
                  \/ jobtab'[j].ps[k].status = jobtab[j].ps[k].status
                  \/ jobtab'[j].ps[k].status = exit[p]
    BY <2>1, <2>2, RecordLeaves
  <2> QED BY <2>2, <2>3 DEF Unstopped, StatusesOf
<1>3. CASE ~forkshell /\ ~Wait3Found
  <2>1. Shrinks
    BY <1>3, Leaves
  <2> QED BY <2>1 DEF Shrinks, Alike, Unstopped, StatusesOf
<1> QED BY <1>1, <1>2, <1>3

\* A job that does not run has nothing left that runs, and every process of
\* it is gone.
LEMMA AllGone ==
  ASSUME TableInv, Agree, Unstopped, NEW j \in Used(jobtab), jobtab[j].state # "JOBRUNNING"
  PROVE  \A p \in PidsOf(jobtab[j]) : proc[p] = "gone"
<1> SUFFICES ASSUME NEW k \in DOMAIN jobtab[j].ps PROVE proc[jobtab[j].ps[k].pid] = "gone"
  BY DEF PidsOf
<1>1. jobtab[j].ps[k].status \in StatusesOf(jobtab[j])
  BY DEF StatusesOf
<1>2. jobtab[j].ps[k].status \notin {"running", "stopped"}
  BY <1>1 DEF Unstopped, TableInv, Table, Sound
<1>3. jobtab[j].ps[k].status \in Exits
  BY <1>2, PidTypes DEF TableInv, Statuses
<1> QED BY <1>3 DEF Agree

\* The wait command is the only one that returns what wait returns.
LEMMA WaitAllReturns ==
  ASSUME TableInv, Called, [Next]_vars, op = "waitall", pc = "after", ret' = "exit0"
  PROVE  Running(jobtab) = {}
<1>1. ret = "none"
  BY DEF Called
<1>2. CASE Idle \/ Fork \/ Waitproc
  BY <1>2 DEF Idle, Fork, Waitproc, StartJob, CollectStart, WaitStart, ShowOne, Restart, restartjob,
              killcmd, SetMonitor, Subshell, SubshellInPlace, Dotrap, forkshell, ForkFails, PipeFails,
              WaitClear, Wait3Found, Wait3None, WaitMask, WaitCheck, WaitSuspend, WaitUnmask, WaitTest
<1>3. CASE Handlers \/ Kernel \/ UNCHANGED vars
  BY <1>1, <1>3 DEF Handlers, OnSigchld, OnTrapped, OnInterrupt, Kernel, Ends, shellVars, vars
<1>4. CASE After
  <2>1. ~waitforjob /\ ~CollectNext /\ ~showjobs /\ ~Leaving
    <3>1. pc # "idle"
      OBVIOUS
    <3> QED BY <3>1 DEF waitforjob, CollectNext, showjobs, Leaving, stoppedjobs, CommandLine
  <2>2. ~Interrupted /\ ~WaitSigout
    BY <1>1 DEF Interrupted, WaitSigout, Return
  <2>3. WaitNext
    BY <1>4, <2>1, <2>2 DEF After
  <2> QED BY <2>3 DEF WaitNext, WaitAllTurn, Dowait
<1> QED BY <1>2, <1>3, <1>4 DEF Next

\* Where children cannot be stopped, wait without operands returns 0 only
\* when every process of every job has ended and was collected.
THEOREM WaitIsForAll == ~CanStop => (Spec => WaitAllDone)
<1> SUFFICES ASSUME ~CanStop PROVE Spec => WaitAllDone
  OBVIOUS
<1>1. Init => Called /\ Unstopped
  BY DEF Init, Called, Unstopped, Used
<1>2. TableInv /\ KernelInv /\ Called /\ Unstopped /\ [Next]_vars => (Called /\ Unstopped)'
  BY CalledNext, UnstoppedNext
<1>3. TableInv /\ Agree /\ Called /\ Unstopped /\ [Next]_vars =>
        [op = "waitall" /\ pc = "after" /\ ret' = "exit0" =>
           \A j \in Used(jobtab) : \A p \in PidsOf(jobtab[j]) : proc[p] = "gone"]_vars
  <2> SUFFICES ASSUME TableInv, Agree, Called, Unstopped, [Next]_vars,
                      op = "waitall", pc = "after", ret' = "exit0", NEW j \in Used(jobtab)
               PROVE  \A p \in PidsOf(jobtab[j]) : proc[p] = "gone"
    OBVIOUS
  <2>1. PICK i \in DOMAIN curjob : curjob[i] = j
    BY DEF TableInv, Table, Listed, Elems
  <2>2. jobtab[j].state # "JOBRUNNING"
    BY <2>1, WaitAllReturns DEF Running
  <2> QED BY <2>2, AllGone
<1> QED BY <1>1, <1>2, <1>3, KernelAlways, AgreeAlways, PTL DEF Spec, WaitAllDone

-----------------------------------------------------------------------------
(* When wait ends.                                                         *)

WaitOps == {"waitall", "waitjob"}

\* An operation of the wait command begins a turn, or goes on with it.
LEMMA Turns ==
  ASSUME TableInv, [Next]_vars, op' \in WaitOps
  PROVE  \/ /\ pc' = "clear" /\ block' = "DOWAIT_WAITCMD" /\ found' = FALSE
            /\ ~Waitproc /\ ~Handlers /\ ~Kernel
            /\ UNCHANGED <<parjob, proc, children>>
            /\ \E j \in Used(jobtab) : /\ jobtab[j].state = "JOBRUNNING"
                                       /\ j \in Used(jobtab') /\ jobtab'[j].ps = jobtab[j].ps
         \/ op' = op /\ parjob' = parjob /\ (Waitproc \/ Handlers \/ Kernel \/ UNCHANGED vars)
<1> USE DEF WaitOps
<1>1. pc = "idle" => op = "none"
  BY DEF TableInv, Control
<1>2. Table(jobtab, curjob)
  BY DEF TableInv
<1>3. ASSUME WaitAllTurn, UNCHANGED <<kernelVars, parjob, mflag, flagVars, curjob, job_warning, level>>
      PROVE  \/ op' = "none"
             \/ /\ pc' = "clear" /\ block' = "DOWAIT_WAITCMD" /\ found' = FALSE
                /\ UNCHANGED <<parjob, proc, children>>
                /\ \E j \in Used(jobtab) : /\ jobtab[j].state = "JOBRUNNING"
                                           /\ j \in Used(jobtab') /\ jobtab'[j].ps = jobtab[j].ps
  <2> DEFINE S == {curjob[i] : i \in {k \in DOMAIN curjob : \A r \in Running(jobtab) : k < r}}
  <2>1. jobtab' = [j \in DOMAIN jobtab |-> IF j \in S THEN [jobtab[j] EXCEPT !.waited = TRUE]
                                           ELSE jobtab[j]]
    BY <1>3 DEF WaitAllTurn
  <2> HIDE DEF S
  <2>2. Used(jobtab') = Used(jobtab) /\ \A j \in DOMAIN jobtab : jobtab'[j].ps = jobtab[j].ps
    BY <1>2, <2>1, WaitedTable
  <2>3. CASE Running(jobtab) = {}
    BY <1>3, <2>3 DEF WaitAllTurn, Return
  <2>4. CASE Running(jobtab) # {}
    <3>1. PICK i \in DOMAIN curjob : jobtab[curjob[i]].state = "JOBRUNNING"
      BY <2>4 DEF Running
    <3>2. curjob[i] \in Used(jobtab)
      BY <1>2 DEF Table, Listed, Elems
    <3>3. Dowait("waitall", 0, "none", "DOWAIT_WAITCMD")
      BY <1>3, <2>4 DEF WaitAllTurn
    <3> QED BY <1>3, <2>2, <3>1, <3>2, <3>3 DEF Dowait, kernelVars, Used
  <2> QED BY <2>3, <2>4
<1>4. ASSUME NEW j \in Used(jobtab), WaitJobTurn(j),
             UNCHANGED <<kernelVars, parjob, mflag, flagVars, curjob, job_warning, level>>
      PROVE  \/ op' = "none"
             \/ /\ pc' = "clear" /\ block' = "DOWAIT_WAITCMD" /\ found' = FALSE
                /\ UNCHANGED <<parjob, proc, children>>
                /\ jobtab[j].state = "JOBRUNNING"
                /\ j \in Used(jobtab') /\ jobtab'[j].ps = jobtab[j].ps
  BY <1>4 DEF WaitJobTurn, Return, Dowait, kernelVars
<1>5. CASE WaitStart \/ WaitNext
  <2>1. UNCHANGED <<kernelVars, parjob, mflag, flagVars, curjob, job_warning, level>>
    BY <1>5 DEF WaitStart, WaitNext
  <2>2. WaitAllTurn \/ \E j \in Used(jobtab) : WaitJobTurn(j)
    BY <1>5 DEF WaitStart, WaitNext, TableInv, CallOK
  <2>3. /\ pc' = "clear" /\ block' = "DOWAIT_WAITCMD" /\ found' = FALSE
        /\ UNCHANGED <<parjob, proc, children>>
        /\ \E j \in Used(jobtab) : /\ jobtab[j].state = "JOBRUNNING"
                                   /\ j \in Used(jobtab') /\ jobtab'[j].ps = jobtab[j].ps
    BY <1>3, <1>4, <2>1, <2>2
  <2>4. pc \in {"idle", "after"}
    BY <1>5 DEF WaitStart, WaitNext
  <2>5. ~Waitproc
    BY <2>4 DEF Waitproc, WaitClear, Wait3Found, Wait3None, WaitMask, WaitCheck, WaitSuspend,
                WaitUnmask, WaitTest
  <2>6. ~Handlers
    <3>1. Woken = {pc}
      BY <2>4 DEF Woken
    <3>2. pc' # pc
      BY <2>3, <2>4
    <3> QED BY <3>1, <3>2 DEF Handlers, OnSigchld, OnTrapped, OnInterrupt
  <2>7. ~Kernel
    BY <2>3, <2>4 DEF Kernel, Ends, shellVars
  <2> QED BY <2>3, <2>5, <2>6, <2>7
<1>6. CASE Idle
  <2>1. CASE StartJob \/ CollectStart \/ ShowOne \/ killcmd \/ SetMonitor \/ Subshell
             \/ SubshellInPlace \/ Dotrap
    BY <1>1, <2>1 DEF StartJob, CollectStart, ShowOne, killcmd, SetMonitor, Subshell,
                      SubshellInPlace, Dotrap, Return, Dowait, callVars
  <2>2. CASE pc = "idle" /\ (showjobs \/ Leaving)
    BY <1>1, <2>2 DEF showjobs, Leaving, stoppedjobs, CommandLine, Return, Dowait, callVars
  <2>3. CASE Restart
    BY <1>1, <2>3 DEF Restart, restartjob, Return, Dowait
  <2> QED BY <1>5, <1>6, <2>1, <2>2, <2>3 DEF Idle
<1>7. CASE Fork
  <2>1. op = "fork"
    BY <1>7 DEF Fork, forkshell, ForkFails, PipeFails, TableInv, Control
  <2> QED BY <1>7, <2>1 DEF Fork, forkshell, ForkFails, PipeFails, Return, Dowait
<1>8. CASE After
  <2>1. CASE Interrupted \/ waitforjob \/ CollectNext \/ WaitSigout
    BY <2>1 DEF Interrupted, waitforjob, CollectNext, WaitSigout, Return, Dowait
  <2>2. CASE pc = "after" /\ (showjobs \/ Leaving)
    BY <2>2 DEF showjobs, Leaving, stoppedjobs, CommandLine, Return, Dowait, callVars
  <2> QED BY <1>5, <1>8, <2>1, <2>2 DEF After
<1>9. CASE Waitproc \/ Handlers \/ Kernel \/ UNCHANGED vars
  BY <1>9 DEF Waitproc, WaitClear, Wait3Found, Wait3None, WaitMask, WaitCheck, WaitSuspend,
              WaitUnmask, WaitTest, Handlers, OnSigchld, OnTrapped, OnInterrupt, callVars,
              Kernel, Ends, shellVars, vars, tableVars
<1> QED BY <1>6, <1>7, <1>8, <1>9 DEF Next

\* No job is without a process but the one that is being started.
Begun == \A j \in Used(jobtab) : jobtab[j].ps = <<>> => op = "fork" /\ job = j

LEMMA BegunNext ==
  ASSUME TableInv, "pipe" \notin Faults, Begun, [Next]_vars
  PROVE  Begun'
<1>1. Table(jobtab, curjob) /\ Table(jobtab', curjob')
  BY TableNext DEF TableInv
<1>2. \A j \in Used(jobtab) : jobtab[j] \in Job
  BY <1>1, LenProperties, ElementOfSeq DEF Table, Used
<1>3. ASSUME NEW j \in Used(jobtab), DOMAIN jobtab[j].ps = {}
      PROVE  op = "fork" /\ job = j
  <2>1. jobtab[j].ps = <<>>
    <3>1. /\ Len(jobtab[j].ps) \in Nat /\ DOMAIN jobtab[j].ps = 1 .. Len(jobtab[j].ps)
          /\ jobtab[j].ps = <<>> <=> Len(jobtab[j].ps) = 0
      BY <1>2, JobType
    <3>2. Len(jobtab[j].ps) # 0 => 1 \in 1 .. Len(jobtab[j].ps)
      BY <3>1
    <3> QED BY <1>3, <3>1, <3>2
  <2> QED BY <2>1 DEF Begun
<1>4. ASSUME Shrinks, op = "fork" => op' = "fork" /\ job' = job
      PROVE  Begun'
  <2> SUFFICES ASSUME NEW j \in Used(jobtab'), jobtab'[j].ps = <<>>
               PROVE  op' = "fork" /\ job' = j
    BY DEF Begun
  <2>1. CASE j \in Used(jobtab) /\ Alike(jobtab[j], jobtab'[j])
    <3>1. DOMAIN jobtab[j].ps = {}
      BY <2>1 DEF Alike
    <3> QED BY <1>3, <1>4, <2>1, <3>1
  <2> QED BY <1>4, <2>1 DEF Shrinks
<1>5. CASE forkshell
  <2>1. PICK p \in Pids : pc = "fork" /\ forkparent(p)
    BY <1>5, ForkOne
  <2>2. op = "fork"
    BY <2>1 DEF TableInv, Control
  <2> DEFINE n == Len(jobtab[job].ps) + 1
  <2>3. /\ Used(jobtab') = Used(jobtab)
        /\ \A j \in Used(jobtab) : j # job => jobtab'[j] = jobtab[j]
        /\ n \in DOMAIN jobtab'[job].ps
    BY <2>1, ForkLeaves
  <2> HIDE DEF n
  <2>4. ASSUME NEW j \in Used(jobtab') PROVE jobtab'[j].ps # <<>>
    <3>1. CASE j = job
      BY <2>3, <3>1
    <3>2. CASE j # job
      BY <2>3, <3>2 DEF Begun
    <3> QED BY <3>1, <3>2
  <2> QED BY <2>4 DEF Begun
<1>6. CASE ForkFails
  <2>1. op = "fork" /\ job \in Used(jobtab) /\ freejob(job)
    BY <1>6 DEF ForkFails, TableInv, Control, CallOK
  <2>2. Used(jobtab') = Used(jobtab) \ {job}
    BY <1>1, <2>1, FreedTable
  <2>3. ASSUME NEW j \in Used(jobtab') PROVE jobtab'[j].ps # <<>>
    <3>1. j \in Used(jobtab) /\ j # job
      BY <2>2
    <3>2. jobtab'[j] = jobtab[j]
      BY <2>1, <3>1 DEF freejob, Used
    <3> QED BY <3>1, <3>2 DEF Begun
  <2> QED BY <2>3 DEF Begun
<1>7. CASE Wait3Found
  <2>1. op # "fork"
    BY <1>7 DEF Wait3Found, TableInv, Control
  <2>2. PICK p \in Pids : Record(p, exit[p]) \/ Record(p, "stopped")
    BY <1>7 DEF Wait3Found
  <2>3. Used(jobtab') = Used(jobtab) /\ \A j \in Used(jobtab) : DOMAIN jobtab'[j].ps = DOMAIN jobtab[j].ps
    BY <2>2, Reported, RecordLeaves
  <2>4. ASSUME NEW j \in Used(jobtab') PROVE jobtab'[j].ps # <<>>
    BY <1>3, <2>1, <2>3
  <2> QED BY <2>4 DEF Begun
<1>8. CASE Idle \/ Waitproc \/ After
  <2>1. pc # "fork"
    BY <1>8 DEF Idle, StartJob, CollectStart, WaitStart, ShowOne, Restart, restartjob,
              killcmd, SetMonitor, Subshell, SubshellInPlace, Dotrap,
              Waitproc, WaitClear, Wait3Found, Wait3None, WaitMask, WaitCheck, WaitSuspend,
              WaitUnmask, WaitTest, After, Interrupted, waitforjob, CollectNext, WaitNext, WaitSigout
  <2>2. op # "fork" /\ ~forkshell
    BY <2>1 DEF TableInv, Control, forkshell
  <2> QED BY <1>4, <1>7, <2>2, Leaves
<1>9. CASE Handlers \/ Kernel \/ UNCHANGED vars
  BY <1>9 DEF Handlers, OnSigchld, OnTrapped, OnInterrupt, Kernel, Ends, shellVars, vars, callVars,
              tableVars, Begun
<1> QED BY <1>5, <1>6, <1>8, <1>9 DEF Next, Fork, PipeFails

\* Where nothing can be stopped, SIGCHLD means that a child has ended, and so
\* does the flag for as long as waitproc goes round.
Looping == {"wait3", "mask", "check", "suspend", "asleep", "unmask", "test"}
FlagInv ==
  /\ sigchld => Undelivered
  /\ gotsigchld /\ pc \in Looping => Undelivered
  /\ pc \in {"unmask", "test"} => gotsigchld \/ pending_sig \/ intpending

LEMMA StillUndelivered ==
  ASSUME TableInv, Undelivered, Moves, children' = children
  PROVE  Undelivered'
<1>1. PICK p \in children : proc[p] = "zombie"
  BY DEF Undelivered
<1>2. p \in Pids
  BY DEF TableInv, KernelOK
<1> QED BY <1>1, <1>2 DEF Moves, Undelivered

LEMMA SignalMeans ==
  ASSUME TableInv, KernelInv, ~CanStop, FlagInv, [Next]_vars
  PROVE  sigchld' => Undelivered'
<1>1. children \subseteq Pids
  BY DEF TableInv, KernelOK
<1>2. CASE Moves /\ children' = children
  <2>1. \A q \in Pids : proc[q] # "stop" /\ proc'[q] # "stop"
    BY KernelInvNext DEF KernelInv
  <2>2. sigchld' => sigchld \/ Undelivered'
    BY <1>2, <2>1 DEF Moves, Undelivered
  <2> QED BY <1>2, <2>2, StillUndelivered DEF FlagInv
<1>3. CASE forkshell
  <2>1. PICK p \in Pids : /\ proc[p] = "unborn" /\ proc' = [proc EXCEPT ![p] = "run"]
                          /\ children' = children \cup {p}
    BY <1>3, ForkOne
  <2>2. sigchld' = sigchld
    BY <1>3, ForkOne
  <2>3. Undelivered => Undelivered'
    <3>1. ASSUME NEW q \in children, proc[q] = "zombie" PROVE q \in children' /\ proc'[q] = "zombie"
      <4>1. DOMAIN proc = Pids
        BY DEF TableInv, KernelOK
      <4> QED BY <1>1, <2>1, <3>1, <4>1
    <3> QED BY <3>1 DEF Undelivered
  <2> QED BY <2>2, <2>3 DEF FlagInv
<1>4. CASE sigchld' = FALSE
  BY <1>4
<1> QED BY <1>2, <1>3, <1>4, Kernels

LEMMA FlagInvNext ==
  ASSUME TableInv, KernelInv, ~CanStop, FlagInv, [Next]_vars
  PROVE  FlagInv'
<1>1. sigchld' => Undelivered'
  BY SignalMeans
<1> DEFINE Rest == /\ gotsigchld' /\ pc' \in Looping => Undelivered'
                   /\ pc' \in {"unmask", "test"} => gotsigchld' \/ pending_sig' \/ intpending'
<1>2. CASE Idle \/ Fork \/ After
  <2>1. pc' \in {"idle", "fork", "clear", "after"}
    BY <1>2, OtherPoints
  <2> QED BY <1>1, <2>1 DEF FlagInv, Looping
<1>3. CASE Waitproc
  <2>1. CASE Wait3Found \/ WaitTest
    <3>1. pc' \in {"clear", "after"}
      BY <2>1 DEF Wait3Found, WaitTest
    <3> QED BY <1>1, <3>1 DEF FlagInv, Looping
  <2>2. CASE WaitClear
    <3>1. gotsigchld' = FALSE /\ pc' = "wait3"
      BY <2>2 DEF WaitClear
    <3> QED BY <1>1, <3>1 DEF FlagInv
  <2>3. CASE Wait3None \/ WaitMask \/ WaitUnmask
    <3>1. /\ gotsigchld' = (gotsigchld \/ sigchld) /\ proc' = proc /\ children' = children
          /\ pc \in Looping /\ (pc' \in {"unmask", "test"} => pc = "unmask")
          /\ UNCHANGED <<pending_sig, intpending>>
      BY <2>3 DEF Wait3None, WaitMask, WaitUnmask, Deliver, Looping
    <3>2. gotsigchld' => Undelivered'
      BY <3>1 DEF FlagInv, Undelivered
    <3>3. pc' \in {"unmask", "test"} => gotsigchld' \/ pending_sig' \/ intpending'
      BY <3>1 DEF FlagInv
    <3> QED BY <1>1, <3>2, <3>3 DEF FlagInv
  <2>4. CASE WaitCheck \/ WaitSuspend
    <3>1. /\ UNCHANGED <<gotsigchld, pending_sig, intpending, proc, children>> /\ pc \in Looping
          /\ pc' \in {"unmask", "test"} => gotsigchld \/ pending_sig \/ intpending
      BY <2>4 DEF WaitCheck, WaitSuspend, kernelVars, flagVars, Looping
    <3> QED BY <1>1, <3>1 DEF FlagInv, Undelivered
  <2> QED BY <1>3, <2>1, <2>2, <2>3, <2>4 DEF Waitproc
<1>4. CASE Handlers
  <2>1. UNCHANGED <<proc, children>> /\ pc' \in Woken
    BY <1>4 DEF Handlers, OnSigchld, OnTrapped, OnInterrupt, kernelVars
  <2>2. /\ pc' \in Looping => pc \in Looping
        /\ pc' \in {"unmask", "test"} => pc' = pc
    BY <2>1 DEF Woken, Looping
  <2>3. gotsigchld' => gotsigchld \/ sigchld
    BY <1>4 DEF Handlers, OnSigchld, OnTrapped, OnInterrupt, flagVars
  <2>4. /\ gotsigchld => gotsigchld'
        /\ pending_sig => pending_sig'
        /\ intpending => intpending'
    BY <1>4 DEF Handlers, OnSigchld, OnTrapped, OnInterrupt, flagVars
  <2>5. Undelivered => Undelivered'
    BY <2>1 DEF Undelivered
  <2> QED BY <1>1, <2>2, <2>3, <2>4, <2>5 DEF FlagInv
<1>5. CASE Kernel
  <2>1. Moves /\ UNCHANGED shellVars /\ children' = children
    BY <1>5, KernelMoves DEF TableInv
  <2>2. UNCHANGED <<pc, gotsigchld, pending_sig, intpending>>
    BY <2>1 DEF shellVars, flagVars
  <2> QED BY <1>1, <2>1, <2>2, StillUndelivered DEF FlagInv
<1>6. CASE UNCHANGED vars
  BY <1>1, <1>6 DEF vars, kernelVars, flagVars, FlagInv, Undelivered
<1> QED BY <1>2, <1>3, <1>4, <1>5, <1>6 DEF Next

\* In a turn of the wait command there is a process that runs and one to wait
\* for; a second call of wait3 finds it; and what ends the turn without one
\* is a signal.
Runs == \E j \in Used(jobtab) : "running" \in StatusesOf(jobtab[j])
WaitInv ==
  op \in WaitOps =>
    /\ block \in {"DOWAIT_NORMAL", "DOWAIT_WAITCMD"}
    /\ found => pc = "after"
    /\ block = "DOWAIT_NORMAL" /\ pc \in {"clear", "wait3"} => Undelivered
    /\ ~parjob /\ ~found => Runs
    /\ ~parjob /\ pc = "after" /\ ~found => pending_sig \/ intpending

LEMMA RunsAlive ==
  ASSUME TableInv, Agree, ~parjob, Runs
  PROVE  Alive # {}
<1>1. PICK j \in Used(jobtab) : "running" \in StatusesOf(jobtab[j])
  BY DEF Runs
<1>2. PICK k \in DOMAIN jobtab[j].ps : jobtab[j].ps[k].status = "running"
  BY <1>1 DEF StatusesOf
<1>3. "running" \notin Exits
  BY JobsAssumption
<1>4. jobtab[j].ps[k].pid \in children /\ proc[jobtab[j].ps[k].pid] # "gone"
  BY <1>2, <1>3 DEF Agree
<1> QED BY <1>4 DEF Alive

LEMMA TurnBegins ==
  ASSUME TableInv, Unstopped, Begun, op # "fork", NEW j \in Used(jobtab),
         jobtab[j].state = "JOBRUNNING"
  PROVE  "running" \in StatusesOf(jobtab[j])
<1>1. jobtab[j].ps # <<>> /\ "stopped" \notin StatusesOf(jobtab[j])
  BY DEF Begun, Unstopped
<1> QED BY <1>1 DEF TableInv, Table, Sound

LEMMA WaitInvNext ==
  ASSUME TableInv, KernelInv, Agree, Unstopped, Begun, FlagInv, WaitInv, [Next]_vars
  PROVE  WaitInv'
<1> SUFFICES ASSUME op' \in WaitOps
             PROVE  /\ block' \in {"DOWAIT_NORMAL", "DOWAIT_WAITCMD"}
                    /\ found' => pc' = "after"
                    /\ block' = "DOWAIT_NORMAL" /\ pc' \in {"clear", "wait3"} => Undelivered'
                    /\ ~parjob' /\ ~found' => Runs'
                    /\ ~parjob' /\ pc' = "after" /\ ~found' => pending_sig' \/ intpending'
  BY DEF WaitInv
<1>1. CASE /\ pc' = "clear" /\ block' = "DOWAIT_WAITCMD" /\ found' = FALSE
           /\ ~Waitproc /\ ~Handlers /\ ~Kernel
           /\ \E j \in Used(jobtab) : /\ jobtab[j].state = "JOBRUNNING"
                                      /\ j \in Used(jobtab') /\ jobtab'[j].ps = jobtab[j].ps
  <2>1. PICK j \in Used(jobtab) : /\ jobtab[j].state = "JOBRUNNING"
                                  /\ j \in Used(jobtab') /\ jobtab'[j].ps = jobtab[j].ps
    BY <1>1
  <2>2. op # "fork"
    <3>1. ASSUME op = "fork" PROVE FALSE
      <4>1. pc = "fork"
        BY <3>1 DEF TableInv, Control
      <4>2. Fork \/ UNCHANGED vars
        BY <1>1, <4>1 DEF Next, Idle, StartJob, CollectStart, WaitStart, ShowOne, Restart, restartjob,
              killcmd, SetMonitor, Subshell, SubshellInPlace, Dotrap, After, Interrupted,
              waitforjob, CollectNext, WaitNext, WaitSigout
      <4>3. op' \in {"fork", "none", "forjob"}
        BY <3>1, <4>2 DEF Fork, forkshell, ForkFails, PipeFails, Return, Dowait, vars, callVars
      <4> QED BY <4>3 DEF WaitOps
    <3> QED BY <3>1
  <2>3. "running" \in StatusesOf(jobtab'[j])
    BY <2>1, <2>2, TurnBegins DEF StatusesOf
  <2> QED BY <1>1, <2>1, <2>3 DEF Runs
<1>2. CASE op' = op /\ parjob' = parjob /\ (Waitproc \/ Handlers \/ Kernel \/ UNCHANGED vars)
  <2>1. /\ block \in {"DOWAIT_NORMAL", "DOWAIT_WAITCMD"}
        /\ found => pc = "after"
        /\ block = "DOWAIT_NORMAL" /\ pc \in {"clear", "wait3"} => Undelivered
        /\ ~parjob /\ ~found => Runs
        /\ ~parjob /\ pc = "after" /\ ~found => pending_sig \/ intpending
    BY <1>2 DEF WaitInv
  <2>2. CASE Waitproc
    <3>1. CASE Wait3Found
      BY <2>1, <3>1 DEF Wait3Found
    <3>2. CASE Wait3None
      <4>1. found' = found /\ UNCHANGED <<jobtab, proc, children, parjob>> /\ pc' \in {"mask", "after"}
            /\ block' \in {block, "DOWAIT_NORMAL"} /\ pc = "wait3"
        BY <3>2 DEF Wait3None, tableVars
      <4>2. ~Undelivered
        BY <3>2 DEF Wait3None, Reportable, Undelivered, TableInv, KernelOK
      <4>3. ~parjob /\ ~found => Alive # {}
        BY <2>1, RunsAlive
      <4>4. ~parjob /\ ~found => pc' = "mask"
        BY <2>1, <3>2, <4>1, <4>2, <4>3 DEF Wait3None
      <4> QED BY <2>1, <4>1, <4>4 DEF Runs
    <3>3. CASE WaitClear
      BY <2>1, <3>3 DEF WaitClear, kernelVars, tableVars, Runs, Undelivered
    <3>4. CASE WaitMask \/ WaitCheck \/ WaitSuspend \/ WaitUnmask
      <4>1. UNCHANGED <<jobtab, block, found>> /\ pc # "after" /\ pc' \notin {"clear", "wait3", "after"}
        BY <3>4 DEF WaitMask, WaitCheck, WaitSuspend, WaitUnmask, tableVars
      <4> QED BY <1>2, <2>1, <4>1 DEF Runs
    <3>5. CASE WaitTest
      <4>1. /\ pc = "test" /\ UNCHANGED <<jobtab, block, found, proc, children, pending_sig, intpending>>
            /\ pc' = IF gotsigchld THEN "clear" ELSE "after"
        BY <3>5 DEF WaitTest, tableVars, kernelVars, flagVars
      <4>2. (gotsigchld => Undelivered) /\ (~gotsigchld => pending_sig \/ intpending)
        BY <4>1 DEF FlagInv, Looping
      <4> QED BY <1>2, <2>1, <4>1, <4>2 DEF Runs, Undelivered
    <3> QED BY <2>2, <3>1, <3>2, <3>3, <3>4, <3>5 DEF Waitproc
  <2>3. CASE Handlers
    <3>1. UNCHANGED <<jobtab, block, found, proc, children>> /\ pc' \in Woken
      BY <2>3 DEF Handlers, OnSigchld, OnTrapped, OnInterrupt, kernelVars, tableVars
    <3>2. (pending_sig => pending_sig') /\ (intpending => intpending')
      BY <2>3 DEF Handlers, OnSigchld, OnTrapped, OnInterrupt, flagVars
    <3>3. pc' = pc \/ (pc = "asleep" /\ pc' = "check")
      BY <2>1, <3>1 DEF Woken
    <3> QED BY <1>2, <2>1, <3>1, <3>2, <3>3 DEF Runs, Undelivered
  <2>4. CASE Kernel
    <3>1. Moves /\ UNCHANGED shellVars /\ children' = children
      BY <2>4, KernelMoves DEF TableInv
    <3>2. UNCHANGED <<jobtab, block, found, pc, pending_sig, intpending>>
      BY <3>1 DEF shellVars, flagVars, tableVars
    <3> QED BY <1>2, <2>1, <3>1, <3>2, StillUndelivered DEF Runs
  <2>5. CASE UNCHANGED vars
    BY <1>2, <2>1, <2>5 DEF vars, kernelVars, tableVars, flagVars, Runs, Undelivered
  <2> QED BY <1>2, <2>2, <2>3, <2>4, <2>5
<1> QED BY <1>1, <1>2, Turns

\* Only the end of a turn that found no process returns the status of a signal.
LEMMA SignalReturns ==
  ASSUME TableInv, Called, [Next]_vars, op \in WaitOps, ret' = "signal"
  PROVE  WaitSigout
<1>1. ret = "none" /\ pc \notin {"idle", "fork"} /\ op \notin {"none", "fork", "forjob", "loop", "show", "stopped"}
  BY DEF Called, WaitOps, TableInv, Control
<1>2. "signal" \notin Statuses
  BY JobsAssumption DEF Statuses
<1>3. CASE Idle \/ Fork
  BY <1>1, <1>3 DEF Idle, StartJob, CollectStart, WaitStart, ShowOne, Restart, restartjob, killcmd,
              SetMonitor, Subshell, SubshellInPlace, Dotrap, Fork, forkshell, ForkFails, PipeFails
<1>4. CASE Waitproc \/ Handlers \/ Kernel \/ UNCHANGED vars
  BY <1>1, <1>4 DEF Waitproc, WaitClear, Wait3Found, Wait3None, WaitMask, WaitCheck, WaitSuspend,
              WaitUnmask, WaitTest, Handlers, OnSigchld, OnTrapped, OnInterrupt, Kernel, Ends,
              shellVars, vars
<1>5. CASE After
  <2>1. ~waitforjob /\ ~CollectNext /\ ~showjobs /\ ~Leaving
    BY <1>1 DEF waitforjob, CollectNext, showjobs, Leaving, stoppedjobs, CommandLine
  <2>2. ~Interrupted
    BY DEF Interrupted, Return
  <2>3. ~WaitNext
    <3> SUFFICES ASSUME WaitNext PROVE FALSE
      OBVIOUS
    <3>1. CASE op = "waitall"
      BY <3>1 DEF WaitNext, WaitAllTurn, Return, Dowait
    <3>2. CASE op = "waitjob"
      <4>1. job \in Used(jobtab) /\ WaitJobTurn(job) /\ ~intpending
        BY <3>2 DEF WaitNext, TableInv, CallOK
      <4>2. jobtab[job].state # "JOBRUNNING" /\ Return(getstatus(jobtab[job]))
        BY <4>1 DEF WaitJobTurn, Dowait
      <4>3. jobtab[job] \in Job /\ jobtab[job].ps # <<>>
        BY <4>1, <4>2, LenProperties, ElementOfSeq DEF TableInv, Table, Used, Sound
      <4>4. getstatus(jobtab[job]) \in Statuses
        BY <4>3, GetstatusType
      <4> QED BY <1>2, <4>1, <4>2, <4>4 DEF Return
    <3> QED BY <3>1, <3>2 DEF WaitOps
  <2> QED BY <1>5, <2>1, <2>2, <2>3 DEF After
<1> QED BY <1>3, <1>4, <1>5 DEF Next

\* Where children cannot be stopped and a pipeline is started whole, wait ends
\* with the status of a signal only when a trapped signal came.
THEOREM WaitEndsBySignal ==
  ~CanStop /\ "pipe" \notin Faults => (Spec => WaitCompletes)
<1> SUFFICES ASSUME ~CanStop, "pipe" \notin Faults PROVE Spec => WaitCompletes
  OBVIOUS
<1> DEFINE Inv == TableInv /\ KernelInv /\ Agree /\ Called /\ Unstopped /\ Begun /\ FlagInv /\ WaitInv
<1>1. Init => Inv
  BY TableInit, KernelInvInit DEF Init, Agree, Called, Unstopped, Begun, FlagInv, WaitInv, WaitOps,
                                  Used, Undelivered
<1>2. Inv /\ [Next]_vars => Inv'
  <2> SUFFICES ASSUME Inv, [Next]_vars PROVE Inv'
    OBVIOUS
  <2>1. TableInv' /\ KernelInv' /\ Agree' /\ Called'
    BY TableNext, KernelInvNext, AgreeNext, CalledNext
  <2>2. Unstopped' /\ Begun'
    BY UnstoppedNext, BegunNext
  <2>3. FlagInv' /\ WaitInv'
    BY FlagInvNext, WaitInvNext
  <2> QED BY <2>1, <2>2, <2>3
<1>3. Inv /\ [Next]_vars =>
        [ret' = "signal" /\ op \in {"waitall", "waitjob"} /\ ~parjob => pending_sig]_vars
  <2> SUFFICES ASSUME Inv, [Next]_vars, ret' = "signal", op \in WaitOps, ~parjob
               PROVE  pending_sig
    BY DEF WaitOps
  <2>1. WaitSigout
    BY SignalReturns
  <2> QED BY <2>1 DEF WaitSigout, WaitInv
<1> HIDE DEF Inv
<1> QED BY <1>1, <1>2, <1>3, PTL DEF Spec, WaitCompletes

=============================================================================
