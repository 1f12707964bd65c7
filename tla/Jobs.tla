-------------------------------- MODULE Jobs --------------------------------
(***************************************************************************)
(* The job table of one shell process and the collection of its children:  *)
(* jobs.c.                                                                 *)
(*                                                                         *)
(* The kernel's side (processes that run, stop and exit, the SIGCHLD that  *)
(* announces it, and wait3) is external and modelled from how jobs.c uses  *)
(* it.  Children change state between any two steps of the shell.  The     *)
(* shell's side keeps every system call of waitproc a step of its own,     *)
(* because the order of clearing gotsigchld, asking wait3, blocking        *)
(* signals and sleeping is what makes wait correct.                        *)
(***************************************************************************)
EXTENDS Integers, Sequences, FiniteSets

CONSTANTS
  NPids,     \* bound: processes are 1 .. NPids and are not used again
  JobGrow,   \* growjobtab adds this many entries
  PipeLen,   \* bound: processes of a job
  MaxJobs,   \* bound: jobs in the table
  Faults,    \* system calls that may fail: "fork", "pipe", "tty"
  CanStop,   \* children may be stopped and continued from outside
  Exits,     \* bound: how processes end, of "exit0", "exit1" and "sigint"
  Signals,   \* bound: signals to the shell, of "trapped" and "int"
  Monitor,   \* bound: the values of mflag that are tried
  Pipefail,  \* bound: the values of optpipefail that are tried
  Interactive,  \* iflag: leaving asks for stoppedjobs
  MaxLevel   \* bound: nesting of subshells

ASSUME JobsAssumption ==
  /\ NPids \in Nat /\ JobGrow \in Nat \ {0} /\ PipeLen \in Nat \ {0}
  /\ MaxJobs \in Nat
  /\ Faults \subseteq {"fork", "pipe", "tty"}
  /\ CanStop \in BOOLEAN /\ Interactive \in BOOLEAN /\ MaxLevel \in Nat
  /\ "exit0" \in Exits /\ Exits \subseteq {"exit0", "exit1", "sigint"}
  /\ Signals \subseteq {"trapped", "int"}
  /\ Monitor \subseteq BOOLEAN /\ Monitor # {}
  /\ Pipefail \subseteq BOOLEAN /\ Pipefail # {}

Pids == 1 .. NPids
Statuses == Exits \cup {"running", "stopped"}  \* "running" is status -1
States == {"JOBRUNNING", "JOBSTOPPED", "JOBDONE"}
ForkModes == {"FORK_FG", "FORK_BG", "FORK_NOJOB"}
ShowModes == {"ALL", "SHOW_CHANGED", "SHOW_PGID"}

Procstat == [pid : Pids, status : Statuses]
Job == [used : BOOLEAN, state : States, ps : Seq(Procstat), waited : BOOLEAN,
        changed : BOOLEAN, jobctl : BOOLEAN, pipefail : BOOLEAN]

Unused == [used |-> FALSE, state |-> "JOBDONE", ps |-> <<>>, waited |-> FALSE,
           changed |-> FALSE, jobctl |-> FALSE, pipefail |-> FALSE]

VARIABLES
  proc,         \* kernel: state of every process
  exit,         \* kernel: how it ended
  news,         \* kernel: stops that wait3 has not reported
  group,        \* kernel: process group, 0 for the shell's own
  children,     \* kernel: the children of this shell
  sigchld,      \* kernel: SIGCHLD is pending
  jobtab,       \* the table
  curjob,       \* the list through prev_job, as entry numbers
  parjob,       \* the jobs were inherited from the parent shell
  mflag,
  gotsigchld,
  pending_sig,  \* some trapped signal is pending
  intpending,
  job_warning,
  level,
  op, job, left, mode, block,  \* what is being done: the operation, its job,
                               \* processes left to fork, mode, dowait's block
  found,        \* dowait returned a process
  ret,          \* what the last operation returned
  pc

kernelVars == <<proc, exit, news, group, children, sigchld>>
tableVars  == <<jobtab, curjob, parjob>>
flagVars   == <<gotsigchld, pending_sig>>
callVars   == <<op, job, left, mode>>
vars == <<kernelVars, tableVars, mflag, flagVars, intpending, job_warning,
          level, callVars, block, found, ret, pc>>
shellVars == <<tableVars, mflag, flagVars, intpending, job_warning, level,
               callVars, block, found, ret, pc>>

Ops == {"none", "fork", "forjob", "loop", "waitall", "waitjob", "show", "stopped"}
Blocks == {"DOWAIT_NORMAL", "DOWAIT_BLOCK", "DOWAIT_WAITCMD"}
\* waitproc goes through clear, wait3, mask, check, suspend, asleep, unmask and
\* test; after is the end of dowait.
Points == {"idle", "fork", "clear", "wait3", "mask", "check", "suspend",
           "asleep", "unmask", "test", "after"}

Init ==
  /\ proc = [p \in Pids |-> "unborn"] /\ exit = [p \in Pids |-> "exit0"]
  /\ news = {} /\ group = [p \in Pids |-> 0] /\ children = {}
  /\ sigchld = FALSE
  /\ jobtab = <<>> /\ curjob = <<>> /\ parjob = FALSE
  /\ mflag \in Monitor
  /\ gotsigchld = FALSE /\ pending_sig = FALSE /\ intpending = FALSE
  /\ job_warning = 0 /\ level = 0
  /\ op = "none" /\ job = 0 /\ left = 0 /\ mode = "none"
  /\ block = "DOWAIT_NORMAL" /\ found = FALSE
  /\ ret = "none" /\ pc = "idle"
-----------------------------------------------------------------------------
(* The table.                                                              *)
(*                                                                         *)
(* Definitions with a suffix, such as freejob_linked, are faulty variants  *)
(* of the definition that follows them: replacing it breaks a property.    *)

Used(t) == {j \in DOMAIN t : t[j].used}
PidsOf(jb) == {jb.ps[k].pid : k \in DOMAIN jb.ps}
StatusesOf(jb) == {jb.ps[k].status : k \in DOMAIN jb.ps}

\* set_curjob: q without j, and j put back in front or after all the stopped
\* jobs in front.
Unlink(q, S) ==
  LET rest[i \in 0 .. Len(q)] ==
        IF i = 0 THEN <<>>
        ELSE IF q[i] \in S THEN rest[i - 1] ELSE Append(rest[i - 1], q[i])
  IN  rest[Len(q)]
Without(q, j) == Unlink(q, {j})
Leading(q, t) ==
  CHOOSE n \in 0 .. Len(q) :
    /\ \A i \in 1 .. n : t[q[i]].state = "JOBSTOPPED"
    /\ n < Len(q) => t[q[n + 1]].state # "JOBSTOPPED"
CurDelete(q, j) == Without(q, j)
CurStopped(q, j) == <<j>> \o Without(q, j)
CurRunning(q, j, t) ==
  LET r == Without(q, j)
      n == Leading(r, t)
  IN  SubSeq(r, 1, n) \o <<j>> \o SubSeq(r, n + 1, Len(r))

\* freejob.
freejob_linked(j) == jobtab' = [jobtab EXCEPT ![j] = Unused] /\ UNCHANGED curjob
freejob(j) ==
  /\ jobtab' = [jobtab EXCEPT ![j] = Unused]
  /\ curjob' = CurDelete(curjob, j)

\* freejobs: the table without the jobs of a parent shell.
Kept_stale == jobtab
Kept == IF parjob THEN [j \in DOMAIN jobtab |-> Unused] ELSE jobtab

\* makejob takes the first entry that is free, or that holds a job whose
\* status wait has already returned (never under job control); else it lets
\* growjobtab add some.
Free(t) == {j \in DOMAIN t : \/ ~t[j].used
                             \/ t[j].state = "JOBDONE" /\ t[j].waited /\ ~mflag}
Slot(t) == IF Free(t) = {} THEN Len(t) + 1
           ELSE CHOOSE j \in Free(t) : \A k \in Free(t) : j <= k
growjobtab(t) == t \o [k \in 1 .. JobGrow |-> Unused]
NewJob(pipefail) == [Unused EXCEPT !.used = TRUE, !.state = "JOBRUNNING",
                                   !.jobctl = mflag, !.pipefail = pipefail]
makejob(pipefail) ==
  LET j == Slot(Kept)
      t == IF Free(Kept) = {} THEN growjobtab(Kept) ELSE Kept
      q == IF parjob THEN <<>> ELSE curjob
  IN  /\ jobtab' = [t EXCEPT ![j] = NewJob(pipefail)]
      /\ curjob' = <<j>> \o Without(q, j)
      /\ parjob' = FALSE
      /\ job' = j

\* The status of a job that is not running.
Failed(jb) == {k \in DOMAIN jb.ps : jb.ps[k].status # "exit0"}
getstatus(jb) ==
  IF jb.pipefail /\ Failed(jb) # {}
  THEN jb.ps[CHOOSE k \in Failed(jb) : \A i \in Failed(jb) : i <= k].status
  ELSE jb.ps[Len(jb.ps)].status

\* The job is killed by SIGINT as far as getstatus looks.
Sigint(jb) == getstatus(jb) = "sigint"

\* dowait finds the job of a process among those not done, in the order of
\* the list, stores the status and computes the state of the job.
Holders(p) == {i \in DOMAIN curjob : /\ jobtab[curjob[i]].state # "JOBDONE"
                                     /\ p \in PidsOf(jobtab[curjob[i]])}
StateOf_last(jb) ==
  IF jb.ps[Len(jb.ps)].status = "running" THEN "JOBRUNNING"
  ELSE IF "stopped" \in StatusesOf(jb) THEN "JOBSTOPPED"
  ELSE "JOBDONE"
StateOf(jb) == IF "running" \in StatusesOf(jb) THEN "JOBRUNNING"
               ELSE IF "stopped" \in StatusesOf(jb) THEN "JOBSTOPPED"
               ELSE "JOBDONE"
NewStatus_all(jb, p, st) ==
  [jb EXCEPT !.ps = [k \in DOMAIN jb.ps |-> [jb.ps[k] EXCEPT !.status = st]]]
NewStatus(jb, p, st) ==
  [jb EXCEPT !.ps = [k \in DOMAIN jb.ps |->
                       IF jb.ps[k].pid = p THEN [pid |-> p, status |-> st]
                       ELSE jb.ps[k]]]
Record(p, st) ==
  IF Holders(p) = {} THEN UNCHANGED <<jobtab, curjob>>
  ELSE LET j  == curjob[CHOOSE i \in Holders(p) : \A k \in Holders(p) : i <= k]
           jb == NewStatus(jobtab[j], p, st)
           s  == StateOf(jb)
       IN  /\ jobtab' = [jobtab EXCEPT ![j] =
                IF s = "JOBRUNNING" THEN jb
                ELSE [jb EXCEPT !.changed = TRUE, !.state = s]]
           /\ curjob' = IF s = "JOBSTOPPED" /\ jobtab[j].state # s
                        THEN CurStopped(curjob, j) ELSE curjob
-----------------------------------------------------------------------------
(* An operation returns to the interpreter, which delivers an interrupt    *)
(* that was held (INTON).                                                  *)

Return(r) ==
  /\ pc' = "idle" /\ op' = "none" /\ job' = 0 /\ left' = 0 /\ mode' = "none"
  /\ block' = "DOWAIT_NORMAL" /\ found' = FALSE /\ intpending' = FALSE
  /\ ret' = IF intpending THEN "EXINT" ELSE r

\* dowait is called for the operation o.
Dowait(o, j, m, b) ==
  /\ pc' = "clear" /\ op' = o /\ job' = j /\ mode' = m /\ left' = 0
  /\ block' = b /\ found' = FALSE
  /\ ret' = "none" /\ UNCHANGED intpending
-----------------------------------------------------------------------------
(* Starting jobs: evalsubshell, evalpipe, evalbackcmd, evalcommand.        *)

StartJob ==
  /\ pc = "idle" /\ pc' = "fork"
  /\ Cardinality(Used(jobtab)) < MaxJobs
  /\ op' = "fork" /\ mode' \in ForkModes
  /\ left' \in 1 .. (IF mode' = "FORK_NOJOB" THEN 1 ELSE PipeLen)
  /\ \E pipefail \in Pipefail : makejob(pipefail)
  /\ ret' = "none"
  /\ UNCHANGED <<kernelVars, mflag, flagVars, intpending, job_warning, level,
                 block, found>>

\* forkshell and forkparent; signals are blocked.  A job under job control
\* has its own process group, led by its first process.
forkparent(p) ==
  LET jb  == jobtab[job]
      new == [jb EXCEPT !.ps = Append(@, [pid |-> p, status |-> "running"])]
  IN  /\ jobtab' = [jobtab EXCEPT ![job] = new]
      /\ curjob' = IF mode = "FORK_BG" THEN CurRunning(curjob, job, jobtab)
                   ELSE curjob
      /\ group' = [group EXCEPT ![p] =
           IF mode = "FORK_NOJOB" \/ ~jb.jobctl THEN 0 ELSE new.ps[1].pid]
Unborn == {p \in Pids : proc[p] = "unborn"}
forkshell ==
  /\ pc = "fork" /\ Unborn # {}
  /\ LET p == CHOOSE q \in Unborn : \A r \in Unborn : q <= r IN
       /\ forkparent(p)
       /\ proc' = [proc EXCEPT ![p] = "run"] /\ children' = children \cup {p}
  /\ IF left > 1
     THEN left' = left - 1 /\ UNCHANGED <<op, job, mode, block, found, ret, intpending, pc>>
     ELSE IF mode = "FORK_BG" THEN Return("exit0")
     ELSE Dowait("forjob", job, mode, "DOWAIT_BLOCK")
  /\ UNCHANGED <<exit, news, sigchld, parjob, mflag, flagVars, job_warning,
                 level>>

\* fork fails: the job is freed, whatever was started of it.
ForkFails ==
  /\ pc = "fork" /\ ("fork" \in Faults \/ Unborn = {})
  /\ freejob(job) /\ Return("error")
  /\ UNCHANGED <<kernelVars, parjob, mflag, flagVars, job_warning, level>>

\* pipe fails: evalpipe leaves the job as it is.
PipeFails ==
  /\ pc = "fork" /\ left > 1 /\ "pipe" \in Faults
  /\ Return("error")
  /\ UNCHANGED <<kernelVars, tableVars, mflag, flagVars, job_warning, level>>
-----------------------------------------------------------------------------
(* waitproc.                                                               *)

Reportable(p) == /\ p \in children
                 /\ proc[p] = "zombie" \/ (mflag /\ p \in news)
Alive == {p \in children : proc[p] # "gone"}

WaitClear ==
  /\ pc = "clear" /\ pc' = "wait3"
  /\ gotsigchld' = FALSE
  /\ UNCHANGED <<kernelVars, tableVars, mflag, pending_sig, intpending,
                 job_warning, level, callVars, block, found, ret>>

\* A signal that is not blocked is delivered at the latest when a system call
\* returns.
Deliver == gotsigchld' = (gotsigchld \/ sigchld) /\ sigchld' = FALSE

\* wait3 reports a process, and dowait records it.
Wait3Found ==
  /\ pc = "wait3" /\ pc' = "after" /\ found' = TRUE
  /\ \E p \in Pids :
       /\ Reportable(p)
       /\ IF proc[p] = "zombie"
          THEN proc' = [proc EXCEPT ![p] = "gone"] /\ Record(p, exit[p])
          ELSE Record(p, "stopped") /\ UNCHANGED proc
       /\ news' = news \ {p}
  /\ Deliver
  /\ UNCHANGED <<exit, group, children, parjob, mflag, pending_sig,
                 intpending, job_warning, level, callVars, block, ret>>

\* wait3 has nothing to report: it fails without children, blocks if it may,
\* and else returns 0.
Wait3None ==
  /\ pc = "wait3" /\ \A p \in Pids : ~Reportable(p)
  /\ \/ /\ Alive = {} \/ block = "DOWAIT_NORMAL"
        /\ pc' = "after" /\ UNCHANGED block
     \/ /\ Alive # {} /\ block = "DOWAIT_WAITCMD"
        /\ pc' = "mask" /\ block' = "DOWAIT_NORMAL"
  /\ Deliver
  /\ UNCHANGED <<proc, exit, news, group, children, tableVars, mflag,
                 pending_sig, intpending, job_warning, level, callVars, found, ret>>

\* The wait command sleeps until a handler has run.  It tests the flags and
\* calls sigsuspend with signals blocked.
WaitMask ==
  /\ pc = "mask" /\ pc' = "check"
  /\ Deliver
  /\ UNCHANGED <<proc, exit, news, group, children, tableVars, mflag,
                 pending_sig, intpending, job_warning, level, callVars, block,
                 found, ret>>
WaitCheck ==
  /\ pc = "check"
  /\ pc' = IF gotsigchld \/ pending_sig \/ intpending THEN "unmask" ELSE "suspend"
  /\ UNCHANGED <<kernelVars, tableVars, mflag, flagVars, intpending,
                 job_warning, level, callVars, block, found, ret>>
WaitSuspend ==
  /\ pc = "suspend" /\ pc' = "asleep"
  /\ UNCHANGED <<kernelVars, tableVars, mflag, flagVars, intpending,
                 job_warning, level, callVars, block, found, ret>>

\* Signals that came meanwhile are delivered before sigprocmask returns.
WaitUnmask ==
  /\ pc = "unmask" /\ pc' = "test"
  /\ Deliver
  /\ UNCHANGED <<proc, exit, news, group, children, tableVars, mflag,
                 pending_sig, intpending, job_warning, level, callVars, block,
                 found, ret>>

WaitTest_once ==
  /\ pc = "test" /\ pc' = "after"
  /\ UNCHANGED <<kernelVars, tableVars, mflag, flagVars, intpending,
                 job_warning, level, callVars, block, found, ret>>
WaitTest ==
  /\ pc = "test"
  /\ pc' = IF gotsigchld THEN "clear" ELSE "after"
  /\ UNCHANGED <<kernelVars, tableVars, mflag, flagVars, intpending,
                 job_warning, level, callVars, block, found, ret>>

Waitproc == WaitClear \/ Wait3Found \/ Wait3None \/ WaitMask \/ WaitCheck
            \/ WaitSuspend \/ WaitUnmask \/ WaitTest
-----------------------------------------------------------------------------
(* What becomes of the result of dowait.  An interrupt that was held is    *)
(* delivered when dowait returns, except to waitforjob, whose callers keep *)
(* interrupts off.                                                         *)

Interrupted ==
  /\ pc = "after" /\ intpending /\ op # "forjob"
  /\ Return("EXINT")
  /\ UNCHANGED <<kernelVars, tableVars, mflag, flagVars, job_warning, level>>

\* waitforjob: again until the job is not running; then its status.  The
\* terminal is taken back, which may fail, and a finished job is freed.
waitforjob ==
  /\ pc = "after" /\ op = "forjob"
  /\ LET jb == jobtab[job] IN
       \/ /\ jb.state = "JOBRUNNING"
          /\ Dowait(op, job, mode, "DOWAIT_BLOCK") /\ UNCHANGED <<jobtab, curjob>>
       \/ /\ jb.state # "JOBRUNNING"
          /\ IF jb.state = "JOBDONE" THEN freejob(job) ELSE UNCHANGED <<jobtab, curjob>>
          /\ Return(IF jb.jobctl /\ Sigint(jb) THEN "EXINT" ELSE getstatus(jb))
       \/ /\ jb.state # "JOBRUNNING" /\ jb.jobctl /\ "tty" \in Faults
          /\ Return("error") /\ UNCHANGED <<jobtab, curjob>>
  /\ UNCHANGED <<kernelVars, parjob, mflag, flagVars, job_warning, level>>

\* waitforjob(NULL), after every command: collect what has changed.
CollectStart ==
  /\ pc = "idle" /\ gotsigchld
  /\ Dowait("loop", 0, "none", "DOWAIT_NORMAL")
  /\ UNCHANGED <<kernelVars, tableVars, mflag, flagVars, job_warning, level>>
CollectNext ==
  /\ pc = "after" /\ op = "loop" /\ ~intpending
  /\ IF found THEN Dowait("loop", 0, "none", "DOWAIT_NORMAL") ELSE Return("none")
  /\ UNCHANGED <<kernelVars, tableVars, mflag, flagVars, job_warning, level>>

\* waitcmd without operands: the jobs in front of the first running one are
\* marked; without a running one it is done.
Running_current(t) == {i \in DOMAIN curjob : i = 1 /\ t[curjob[i]].state = "JOBRUNNING"}
Running(t) == {i \in DOMAIN curjob : t[curjob[i]].state = "JOBRUNNING"}
WaitAllTurn ==
  LET passed == {curjob[i] : i \in {k \in DOMAIN curjob :
                                     \A r \in Running(jobtab) : k < r}}
  IN  /\ jobtab' = [j \in DOMAIN jobtab |->
                      IF j \in passed THEN [jobtab[j] EXCEPT !.waited = TRUE]
                      ELSE jobtab[j]]
      /\ IF Running(jobtab) = {} THEN Return("exit0")
         ELSE Dowait("waitall", 0, "none", "DOWAIT_WAITCMD")
WaitJobTurn(j) ==
  IF jobtab[j].state = "JOBRUNNING"
  THEN Dowait("waitjob", j, "none", "DOWAIT_WAITCMD") /\ UNCHANGED jobtab
  ELSE /\ jobtab' = [jobtab EXCEPT ![j].waited = TRUE]
       /\ Return(getstatus(jobtab[j]))
WaitStart ==
  /\ pc = "idle"
  /\ WaitAllTurn \/ \E j \in Used(jobtab) : WaitJobTurn(j)
  /\ UNCHANGED <<kernelVars, curjob, parjob, mflag, flagVars, job_warning, level>>
WaitNext ==
  /\ pc = "after" /\ op \in {"waitall", "waitjob"} /\ ~intpending /\ found
  /\ IF op = "waitall" THEN WaitAllTurn ELSE WaitJobTurn(job)
  /\ UNCHANGED <<kernelVars, curjob, parjob, mflag, flagVars, job_warning, level>>
\* sigout: dowait came back without a process.
WaitSigout ==
  /\ pc = "after" /\ op \in {"waitall", "waitjob"} /\ ~intpending /\ ~found
  /\ Return("signal")
  /\ UNCHANGED <<kernelVars, tableVars, mflag, flagVars, job_warning, level>>
-----------------------------------------------------------------------------
(* The other commands.                                                     *)

\* showjob: a finished job that was shown is freed.
Shown(m) == {j \in Used(jobtab) : m = "ALL" \/ jobtab[j].changed}
showjob_frees(S) ==
  /\ jobtab' = [j \in DOMAIN jobtab |-> IF j \in S THEN Unused ELSE jobtab[j]]
  /\ curjob' = Unlink(curjob, S)
showjob(S) ==
  /\ jobtab' = [j \in DOMAIN jobtab |->
                  IF j \notin S THEN jobtab[j]
                  ELSE IF jobtab[j].state = "JOBDONE" THEN Unused
                  ELSE [jobtab[j] EXCEPT !.changed = FALSE]]
  /\ curjob' = Unlink(curjob, {j \in S : jobtab[j].state = "JOBDONE"})

showjobs ==
  \/ /\ pc = "idle"
     /\ \E m \in ShowModes : Dowait("show", 0, m, "DOWAIT_NORMAL")
     /\ UNCHANGED <<kernelVars, tableVars, mflag, flagVars, job_warning, level>>
  \/ /\ pc = "after" /\ op = "show" /\ ~intpending
     /\ IF found
        THEN Dowait("show", 0, mode, "DOWAIT_NORMAL") /\ UNCHANGED <<jobtab, curjob>>
        ELSE /\ IF mode = "SHOW_PGID" THEN UNCHANGED <<jobtab, curjob>>
                ELSE showjob(Shown(mode))
             /\ Return("exit0")
     /\ UNCHANGED <<kernelVars, parjob, mflag, flagVars, job_warning, level>>
\* jobs with an operand does not collect first.
ShowOne ==
  /\ pc = "idle"
  /\ \E j \in Used(jobtab) : showjob({j})
  /\ Return("exit0")
  /\ UNCHANGED <<kernelVars, parjob, mflag, flagVars, job_warning, level>>

\* fgcmd, bgcmd and restartjob: killpg continues the job's process group,
\* and the statuses of stopped processes are forgotten.  Taking the terminal
\* for the job comes before that and may fail.
Members(j) == {p \in Pids : group[p] = jobtab[j].ps[1].pid}
Restarted(jb) ==
  [jb EXCEPT !.state = "JOBRUNNING",
             !.ps = [k \in DOMAIN jb.ps |->
                       IF jb.ps[k].status = "stopped"
                       THEN [jb.ps[k] EXCEPT !.status = "running"]
                       ELSE jb.ps[k]]]
Continue(S) ==
  /\ proc' = [p \in Pids |-> IF p \in S /\ proc[p] = "stop" THEN "run" ELSE proc[p]]
  /\ news' = news \ S
  /\ sigchld' = (sigchld \/ \E p \in S \cap children : proc[p] = "stop")
restartjob(j, m) ==
  /\ pc = "idle" /\ mflag
  /\ curjob' = IF m = "FORK_BG" THEN CurRunning(curjob, j, jobtab) ELSE curjob
  /\ LET jb == jobtab[j] IN
       \/ /\ jb.state = "JOBDONE"
          /\ UNCHANGED <<jobtab, proc, news, sigchld>>
          /\ IF m = "FORK_FG" THEN /\ pc' = "after" /\ op' = "forjob" /\ job' = j
                                   /\ ret' = "none"
                                   /\ UNCHANGED <<left, mode, block, found, intpending>>
             ELSE Return("exit0")
       \/ /\ jb.state # "JOBDONE" /\ jb.ps # <<>>
          /\ jobtab' = [jobtab EXCEPT ![j] = Restarted(jb)]
          /\ Continue(Members(j))
          /\ IF m = "FORK_FG" THEN Dowait("forjob", j, "FORK_FG", "DOWAIT_BLOCK")
             ELSE Return("exit0")
       \/ /\ jb.state # "JOBDONE" /\ m = "FORK_FG" /\ "tty" \in Faults
          /\ jobtab' = [jobtab EXCEPT ![j].state = "JOBRUNNING"]
          /\ UNCHANGED <<proc, news, sigchld>>
          /\ Return("error")
  /\ UNCHANGED <<exit, group, children, parjob, mflag, flagVars, job_warning,
                 level>>

\* kill %job: the process group of a job under job control, else each
\* process whose status is not 0, up to the first that does not exist.  The
\* signal is one that ends them; they may catch it and exit with any status.
Targets(jb) ==
  LET tried == {k \in DOMAIN jb.ps : jb.ps[k].status # "exit0"}
      gone  == {k \in tried : proc[jb.ps[k].pid] = "gone"}
  IN  IF jb.jobctl THEN {p \in Pids : group[p] = jb.ps[1].pid /\ proc[p] # "gone"}
      ELSE {jb.ps[k].pid : k \in {i \in tried : \A g \in gone : i <= g}}
killcmd ==
  /\ pc = "idle"
  /\ \E j \in Used(jobtab), x \in Exits :
       LET hit == {p \in Targets(jobtab[j]) : proc[p] \in {"run", "stop"}} IN
         /\ jobtab[j].ps # <<>>
         /\ proc' = [p \in Pids |-> IF p \in hit THEN "zombie" ELSE proc[p]]
         /\ exit' = [p \in Pids |-> IF p \in hit THEN x ELSE exit[p]]
         /\ news' = news \ hit
         /\ sigchld' = (sigchld \/ hit \cap children # {})
  /\ Return("exit0")
  /\ UNCHANGED <<group, children, tableVars, mflag, flagVars, job_warning, level>>

\* stoppedjobs, when the user asks to leave; cmdloop ages the warning with
\* every command line.  (Under -I the shell goes on after an end of file.)
stoppedjobs ==
  \/ /\ pc = "idle"
     /\ IF job_warning # 0 THEN Return("leave")
        ELSE Dowait("stopped", 0, "none", "DOWAIT_NORMAL")
     /\ UNCHANGED job_warning
  \/ /\ pc = "after" /\ op = "stopped" /\ ~intpending
     /\ IF found THEN Dowait("stopped", 0, "none", "DOWAIT_NORMAL") /\ UNCHANGED job_warning
        ELSE IF curjob # <<>> /\ jobtab[curjob[1]].state = "JOBSTOPPED"
        THEN Return("stay") /\ job_warning' = 2
        ELSE Return("leave") /\ UNCHANGED job_warning
CommandLine ==
  /\ pc = "idle" /\ job_warning # 0
  /\ job_warning' = IF job_warning = 2 THEN 1 ELSE 0
  /\ UNCHANGED <<intpending, callVars, block, found, ret, pc>>
Leaving ==
  /\ Interactive /\ level = 0
  /\ stoppedjobs \/ CommandLine
  /\ UNCHANGED <<kernelVars, tableVars, mflag, flagVars, level>>

SetMonitor ==
  /\ pc = "idle" /\ mflag' = ~mflag /\ mflag' \in Monitor
  /\ UNCHANGED <<kernelVars, tableVars, flagVars, intpending, job_warning,
                 level, callVars, block, found, ret, pc>>

\* The child's side of a fork: it has its parent's table without the job it
\* belongs to, and no children.
Subshell ==
  /\ pc = "idle" /\ level < MaxLevel /\ level' = level + 1
  /\ LET j == Slot(Kept)
         reused == Free(Kept) # {}
     IN  /\ jobtab' = IF reused THEN [Kept EXCEPT ![j] = Unused] ELSE growjobtab(Kept)
         /\ curjob' = IF parjob THEN <<>> ELSE Without(curjob, j)
  /\ parjob' = TRUE /\ mflag' = FALSE
  /\ children' = {} /\ sigchld' = FALSE
  /\ UNCHANGED <<proc, exit, news, group, flagVars, intpending, job_warning,
                 callVars, block, found, ret, pc>>

\* evalsubshell without a fork: reset(1) and resetjobs in the shell itself.
SubshellInPlace ==
  /\ pc = "idle" /\ ~mflag /\ level < MaxLevel /\ level' = level + 1
  /\ jobtab' = Kept
  /\ curjob' = IF parjob THEN <<>> ELSE curjob
  /\ parjob' = ~parjob
  /\ UNCHANGED <<kernelVars, mflag, flagVars, intpending, job_warning,
                 callVars, block, found, ret, pc>>

\* dotrap, between commands.
Dotrap ==
  /\ pc = "idle" /\ pending_sig /\ pending_sig' = FALSE
  /\ UNCHANGED <<kernelVars, tableVars, mflag, gotsigchld, intpending,
                 job_warning, level, callVars, block, found, ret, pc>>
-----------------------------------------------------------------------------
(* Signal handlers.  Signals are blocked between the two sigprocmask calls, *)
(* except while sigsuspend sleeps.  A handler *)
(* ends sigsuspend and a wait3 that blocks.                                *)

Masked_never == FALSE
Masked == pc \in {"check", "suspend", "unmask"}
Woken == IF pc = "asleep" THEN {"check"}
         ELSE IF pc = "wait3" /\ block = "DOWAIT_BLOCK" THEN {pc, "after"}
         ELSE {pc}

OnSigchld ==
  /\ sigchld /\ ~Masked
  /\ sigchld' = FALSE /\ gotsigchld' = TRUE
  /\ pc' \in Woken
  /\ UNCHANGED <<proc, exit, news, group, children, tableVars, mflag,
                 pending_sig, intpending, job_warning, level, callVars, block,
                 found, ret>>
OnTrapped ==
  /\ "trapped" \in Signals /\ ~Masked /\ ~pending_sig /\ pending_sig' = TRUE
  /\ pc' \in Woken
  /\ UNCHANGED <<kernelVars, tableVars, mflag, gotsigchld, intpending,
                 job_warning, level, callVars, block, found, ret>>
\* SIGINT while an operation keeps interrupts off.  (Between operations it is
\* not held, and changes nothing here.)
OnInterrupt ==
  /\ "int" \in Signals /\ ~Masked /\ pc # "idle" /\ ~intpending /\ intpending' = TRUE
  /\ pc' \in Woken
  /\ UNCHANGED <<kernelVars, tableVars, mflag, flagVars, job_warning, level,
                 callVars, block, found, ret>>
-----------------------------------------------------------------------------
(* The kernel and the children.                                            *)

Exit(p) ==
  /\ proc[p] \in {"run", "stop"}
  /\ proc' = [proc EXCEPT ![p] = "zombie"]
  /\ exit' \in {[exit EXCEPT ![p] = x] : x \in Exits}
  /\ news' = news \ {p}
  /\ sigchld' = (sigchld \/ p \in children)
  /\ UNCHANGED <<group, children>>
Stop(p) ==
  /\ CanStop /\ proc[p] = "run"
  /\ proc' = [proc EXCEPT ![p] = "stop"] /\ news' = news \cup {p}
  /\ sigchld' = (sigchld \/ p \in children)
  /\ UNCHANGED <<exit, group, children>>
Cont(p) ==
  /\ CanStop /\ proc[p] = "stop" /\ Continue({p})
  /\ UNCHANGED <<exit, group, children>>

Ends(p) == Exit(p) /\ UNCHANGED shellVars
Kernel == \E p \in Pids : Ends(p) \/ ((Stop(p) \/ Cont(p)) /\ UNCHANGED shellVars)
-----------------------------------------------------------------------------
Handlers == OnSigchld \/ OnTrapped \/ OnInterrupt
After == Interrupted \/ waitforjob \/ CollectNext \/ WaitNext \/ WaitSigout
         \/ (pc = "after" /\ (showjobs \/ Leaving))
Fork == forkshell \/ ForkFails \/ PipeFails
Restart == \E j \in Used(jobtab), m \in {"FORK_FG", "FORK_BG"} : restartjob(j, m)
Idle == StartJob \/ CollectStart \/ WaitStart \/ (pc = "idle" /\ (showjobs \/ Leaving))
        \/ ShowOne \/ Restart \/ killcmd \/ SetMonitor \/ Subshell
        \/ SubshellInPlace \/ Dotrap
Next == Idle \/ Fork \/ Waitproc \/ After \/ Handlers \/ Kernel

Spec == Init /\ [][Next]_vars

\* The shell goes on with an operation it has begun, pending signals are
\* delivered and processes end.
FairSpec ==
  /\ Spec
  /\ WF_vars(Fork) /\ WF_vars(Waitproc) /\ WF_vars(After) /\ WF_vars(OnSigchld)
  /\ \A p \in Pids : WF_vars(Ends(p))
-----------------------------------------------------------------------------
(* Properties.                                                             *)

TypeOK ==
  /\ proc \in [Pids -> {"unborn", "run", "stop", "zombie", "gone"}]
  /\ exit \in [Pids -> Exits]
  /\ news \subseteq Pids /\ children \subseteq Pids
  /\ group \in [Pids -> Pids \cup {0}]
  /\ sigchld \in BOOLEAN
  /\ jobtab \in Seq(Job) /\ curjob \in Seq(DOMAIN jobtab) /\ parjob \in BOOLEAN
  /\ mflag \in BOOLEAN /\ gotsigchld \in BOOLEAN /\ pending_sig \in BOOLEAN
  /\ intpending \in BOOLEAN /\ job_warning \in 0 .. 2 /\ level \in 0 .. MaxLevel
  /\ op \in Ops /\ job \in {0} \cup DOMAIN jobtab
  /\ op \in {"fork", "forjob", "waitjob"} => job \in Used(jobtab)
  /\ left \in 0 .. PipeLen
  /\ mode \in ForkModes \cup ShowModes \cup {"none"}
  /\ block \in Blocks /\ found \in BOOLEAN
  /\ ret \in Statuses \cup {"none", "error", "signal", "EXINT", "stay", "leave"}
  /\ pc \in Points

\* The list through prev_job holds every used entry of the table exactly
\* once, so that set_curjob, which does not test for the end of the list,
\* finds the job it is to move, and no job is freed twice.
ListInv ==
  /\ TypeOK
  /\ \A i \in DOMAIN curjob : curjob[i] \in Used(jobtab)
  /\ \A j \in Used(jobtab) : \E i \in DOMAIN curjob : curjob[i] = j
  /\ \A i, k \in DOMAIN curjob : curjob[i] = curjob[k] => i = k

\* The state that is kept with a job, and that wait, jobs and the order of the
\* list go by, agrees with the statuses of its processes, across stops,
\* restarts and pipelines of which only a part is started or collected.  (A
\* job that is being started has no process yet.)
StateInv ==
  \A j \in Used(jobtab) :
    LET running == "running" \in StatusesOf(jobtab[j])
        stopped == "stopped" \in StatusesOf(jobtab[j])
    IN  jobtab[j].ps # <<>> =>
          /\ jobtab[j].state = "JOBRUNNING" <=> running
          /\ jobtab[j].state = "JOBDONE" <=> ~running /\ ~stopped

\* The table agrees with the kernel: a process of a job that was not
\* inherited is recorded as finished, with the status it ended with, exactly
\* when it was reaped; no status is lost or stored twice.
TableTrue ==
  ~parjob =>
    \A j \in Used(jobtab) : \A k \in DOMAIN jobtab[j].ps :
      LET p  == jobtab[j].ps[k].pid
          st == jobtab[j].ps[k].status
      IN  /\ p \in children
          /\ st \in Exits <=> proc[p] = "gone"
          /\ st \in Exits => st = exit[p]

\* A shell that sleeps in sigsuspend is woken: if a child has something to
\* report, SIGCHLD is still to be delivered.  This is the race between the
\* last wait3 and going to sleep.
NoLostWakeup ==
  pc = "asleep" /\ (\E p \in children : proc[p] = "zombie") => sigchld

\* A job leaves the table only when it is finished, unless it is the parent's
\* or could not be started: nothing discards a job whose processes are still
\* to be waited for.
JobKept ==
  [][~parjob => \A j \in Used(jobtab) :
       jobtab[j].state # "JOBDONE" =>
         \/ jobtab'[j].used /\ \A k \in DOMAIN jobtab[j].ps :
                                 jobtab'[j].ps[k].pid = jobtab[j].ps[k].pid
         \/ pc = "fork" /\ job = j /\ pc' = "idle"
         \/ level' > level]_vars

\* wait without operands returns 0 only when every process of every job has
\* ended and was collected, however children, handlers and dowait interleave
\* (and nothing is stopped).
WaitAllDone ==
  [][op = "waitall" /\ pc = "after" /\ ret' = "exit0" =>
       \A j \in Used(jobtab) : \A p \in PidsOf(jobtab[j]) : proc[p] = "gone"]_vars

\* wait ends early, with the status of a signal, only when a trapped signal
\* came: a SIGCHLD whose child another wait3 took does not end it.  (It does
\* end it where a job was inherited or stops: then no wait3 finds it running.)
WaitCompletes ==
  [][ret' = "signal" /\ op \in {"waitall", "waitjob"} /\ ~parjob => pending_sig]_vars

\* Every operation comes to an end: wait and foreground jobs return once the
\* processes have ended, in a shell that has no jobs of another.
OperationsEnd == pc # "idle" /\ ~parjob ~> pc = "idle"
=============================================================================
