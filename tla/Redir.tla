-------------------------------- MODULE Redir --------------------------------
(***************************************************************************)
(* Redirections: redir.c, and what eval.c, input.c, main.c and jobs.c do   *)
(* with descriptors.                                                       *)
(*                                                                         *)
(* Descriptors below 10 are the user's; the shell keeps its own from 10    *)
(* up: the saved ones of redirections, the files commands are read from,   *)
(* the terminal.  An error or an interrupt leaves commands half way by     *)
(* longjmp, so the depth of redirlist and that of the C stack have to be   *)
(* brought together again by whoever catches it.                           *)
(*                                                                         *)
(* Definitions with a suffix, such as popredir_leak, are faulty variants   *)
(* of the definition that follows them: replacing it breaks a property.    *)
(***************************************************************************)
EXTENDS Integers, Sequences, FiniteSets

CONSTANTS
  NUser,        \* the user's descriptors are 0 .. NUser-1; in the code 10
  NInternal,    \* the shell's own; NUser + NInternal is the limit on open files
  Files,        \* bound: files a user opens
  Interactive,  \* iflag of the shell that starts
  MaxDepth,     \* bound: nesting of commands
  MaxLevel      \* bound: nesting of subshells

ASSUME RedirAssumption ==
  /\ NUser \in Nat \ {0} /\ NInternal \in Nat
  /\ {"closed", "null", "script", "tty"} \cap Files = {}
  /\ Interactive \in BOOLEAN /\ MaxDepth \in Nat /\ MaxLevel \in Nat

User == 0 .. NUser - 1
Internal == NUser .. NUser + NInternal - 1
Fds == User \cup Internal
Values == Files \cup {"closed", "null", "script", "tty"}

EMPTY == -2
CLOSED == -1

VARIABLES
  fdtab,      \* kernel: what each descriptor refers to
  redirlist,  \* the saved descriptors, innermost last
  parsefile,  \* descriptors of the files being read, innermost last; -1 is a string
  ttyfd,
  iflag,
  level,
  ctx,        \* the commands on the C stack, innermost last
  entry,      \* ghost: what the commands on the C stack found, and what exec changed
  pc

vars == <<fdtab, redirlist, parsefile, ttyfd, iflag, level, ctx, entry, pc>>
shellVars == <<ttyfd, iflag, level>>

Last(s) == s[Len(s)]
Front(s) == SubSeq(s, 1, Len(s) - 1)
View == [fd \in User |-> fdtab[fd]]

Kinds == {"compound", "simple", "eval", "dot", "function"}
\* redirs is redir_stop and files file_stop, as depths; special is
\* spclbltin > 0 and exec is execcmd.
Frame == [kind : Kinds, pushed : BOOLEAN, redirs : Nat, files : Nat,
          special : BOOLEAN, exec : BOOLEAN]
\* A command goes redir, located or failed, run (its body) and out; an error
\* goes unwind or leave; a subshell starts with drop and child.
Points == {"run", "redir", "failed", "located", "out", "unwind", "leave",
           "drop", "child", "exit"}

Init ==
  /\ \E base \in {0} \cup (Internal \cap {NUser}) :
       /\ parsefile = <<base>>
       /\ fdtab \in {[fd \in Fds |-> IF fd \in User THEN v[fd]
                                     ELSE IF fd = base THEN "script" ELSE "closed"] :
                       v \in [User -> Files \cup {"closed"}]}
  /\ redirlist = <<>> /\ ttyfd = -1 /\ iflag = Interactive /\ level = 0
  /\ ctx = <<>> /\ entry = <<>> /\ pc = "run"
-----------------------------------------------------------------------------
(* The kernel: open and pipe take the lowest descriptors that are free, and *)
(* F_DUPFD the lowest of the shell's own.                                  *)

FreeIn(S, t) == {fd \in S : t[fd] = "closed"}
Lowest(S) == CHOOSE fd \in S : \A d \in S : fd <= d

\* savefd(from, -1): the copy is one of the shell's own; CLOSED if from is
\* not open.  It fails when descriptors have run out.
savefd(t, from) ==
  IF t[from] = "closed" THEN CLOSED ELSE Lowest(FreeIn(Internal, t))
CanSave(t, from) == t[from] = "closed" \/ FreeIn(Internal, t) # {}

\* A file that the shell opens for itself passes through the lowest free
\* descriptor.  setinputfile moves that one up only if it is the user's, gettty
\* always: the descriptors that can become the shell's.
ForInput(t) == FreeIn(Internal, t)
ForTty(t) == FreeIn(Internal, t) \ {Lowest(FreeIn(Fds, t))}
-----------------------------------------------------------------------------
(* redir.c                                                                 *)

Empty == [fd \in User |-> EMPTY]
Table == [User -> {EMPTY, CLOSED} \cup Internal]
pushredir == redirlist' = Append(redirlist, Empty)

\* popredir, the descriptors that are left and the table that is popped.
popredir_leak(t, renamed, drop) ==
  [fd \in Fds |->
     IF fd \in User /\ ~drop /\ renamed[fd] # EMPTY
     THEN IF renamed[fd] = CLOSED THEN "closed" ELSE t[renamed[fd]]
     ELSE IF ~drop /\ \E u \in User : renamed[u] = fd THEN "closed" ELSE t[fd]]
popredir_closed(t, renamed, drop) ==
  [fd \in Fds |->
     IF fd \in User /\ ~drop /\ renamed[fd] \notin {EMPTY, CLOSED} THEN t[renamed[fd]]
     ELSE IF \E u \in User : renamed[u] = fd THEN "closed" ELSE t[fd]]
popredir(t, renamed, drop) ==
  [fd \in Fds |->
     IF fd \in User /\ ~drop /\ renamed[fd] # EMPTY
     THEN IF renamed[fd] = CLOSED THEN "closed" ELSE t[renamed[fd]]
     ELSE IF \E u \in User : renamed[u] = fd THEN "closed" ELSE t[fd]]
Pop(drop) ==
  /\ fdtab' = popredir(fdtab, Last(redirlist), drop)
  /\ redirlist' = Front(redirlist)

\* One redirection of redirect, REDIR_PUSH or not.  First fd is saved, unless
\* it was saved in this list before.
Saves_again(fd) == TRUE
Saves(fd) == Last(redirlist)[fd] = EMPTY
Save(fd) ==
  IF ~Saves(fd) THEN UNCHANGED redirlist
  ELSE redirlist' = [redirlist EXCEPT ![Len(redirlist)][fd] = savefd(fdtab, fd)]
Saved(push, fd) ==
  IF push /\ Saves(fd) /\ fdtab[fd] # "closed"
  THEN [fdtab EXCEPT ![savefd(fdtab, fd)] = fdtab[fd]]
  ELSE fdtab

\* openredirect and dupredirect, the values fd can get: a file or a here
\* document passes through the lowest free descriptors, one or two; what is
\* duplicated has to be open and is the user's.
Opened(t) == IF FreeIn(Fds, t) = {} THEN {} ELSE Files
Duplicated(t) == {t[src] : src \in User} \ {"closed"}
Redirected(t) == Opened(t) \cup Duplicated(t) \cup {"closed"}

RedirStep(push, fd) ==
  /\ push => CanSave(fdtab, fd)
  /\ LET t == Saved(push, fd) IN
       \E v \in Redirected(t) : fdtab' = [t EXCEPT ![fd] = v]
  /\ IF push THEN Save(fd) ELSE UNCHANGED redirlist

\* A redirection fails: descriptors have run out, or fd was saved and there
\* is no such file or descriptor.
RedirFails(push, fd) ==
  \/ push /\ Saves(fd) /\ ~CanSave(fdtab, fd) /\ UNCHANGED <<fdtab, redirlist>>
  \/ /\ push => CanSave(fdtab, fd)
     /\ fdtab' = Saved(push, fd)
     /\ IF push THEN Save(fd) ELSE UNCHANGED redirlist

-----------------------------------------------------------------------------
(* Commands begin: NREDIR of evaltree, and evalcommand.                    *)

NewFrame(kind, pushed) ==
  [kind |-> kind, pushed |-> pushed, redirs |-> Len(redirlist),
   files |-> Len(parsefile), special |-> FALSE, exec |-> FALSE]
Begin ==
  /\ pc = "run" /\ Len(ctx) < MaxDepth
  /\ \E kind \in {"compound", "simple"}, redirects \in BOOLEAN :
       /\ kind = "compound" => redirects
       /\ ctx' = Append(ctx, NewFrame(kind, redirects))
       /\ IF redirects THEN pushredir /\ pc' = "redir"
          ELSE UNCHANGED redirlist /\ pc' = "located"
  /\ entry' = Append(entry, [view |-> View, execd |-> {}])
  /\ UNCHANGED <<fdtab, parsefile, shellVars>>

\* redirectsafe.
Redirect ==
  /\ pc = "redir"
  /\ \/ \E fd \in User : RedirStep(TRUE, fd) /\ UNCHANGED pc
     \/ \E fd \in User : RedirFails(TRUE, fd) /\ pc' = "failed"
     \/ /\ pc' = IF Last(ctx).kind = "compound" THEN "run" ELSE "located"
        /\ UNCHANGED <<fdtab, redirlist>>
  /\ UNCHANGED <<parsefile, shellVars, ctx, entry>>
-----------------------------------------------------------------------------
(* Exceptions.  evalbltin catches an error of its builtin, but passes on   *)
(* (EXEXT) what comes from a command that the builtin reads: then another  *)
(* file is being read than when it began.  Everything else reaches main.   *)

Catches_blind(k, e) ==
  /\ ctx[k].kind \in {"eval", "dot"} /\ e = "EXERROR"
  /\ ctx[k].special => iflag
Catches(k, e) ==
  /\ ctx[k].kind \in {"eval", "dot"} /\ e = "EXERROR"
  /\ Len(parsefile) = ctx[k].files
  /\ ctx[k].special => iflag

\* popallfiles and closescript: the files that are closed.
Files_of(n) == {parsefile[k] : k \in n + 1 .. Len(parsefile)}
Without(S) == [fd \in Fds |-> IF fd \in S THEN "closed" ELSE fdtab[fd]]

exraise(e) ==
  LET C == {k \in DOMAIN ctx : Catches(k, e)}
      k == CHOOSE c \in C : \A d \in C : d <= c
  IN  IF C # {}
      THEN /\ ctx' = SubSeq(ctx, 1, k) /\ entry' = SubSeq(entry, 1, k)
           /\ pc' = "out"
           /\ UNCHANGED <<fdtab, parsefile>>
      ELSE /\ ctx' = <<>> /\ UNCHANGED entry
           /\ pc' = IF e = "EXEXIT" \/ ~iflag THEN "leave" ELSE "unwind"
           /\ fdtab' = Without(Files_of(1)) /\ parsefile' = <<parsefile[1]>>

\* An error outside of a builtin (in an expansion, say), the exit command, or
\* an interrupt.
Raise ==
  /\ pc \in {"run", "located"}
  /\ \E e \in {"EXERROR", "EXEXIT", "EXINT"} : (e = "EXINT" => iflag) /\ exraise(e)
  /\ UNCHANGED <<redirlist, shellVars>>

\* main: reset(0).
Unwind ==
  /\ pc \in {"unwind", "leave"}
  /\ IF redirlist # <<>> THEN Pop(FALSE) /\ UNCHANGED <<entry, pc>>
     ELSE /\ pc' = IF pc = "unwind" THEN "run" ELSE "exit"
          /\ entry' = <<>>
          /\ UNCHANGED <<fdtab, redirlist>>
  /\ UNCHANGED <<parsefile, shellVars, ctx>>
-----------------------------------------------------------------------------
(* evalcommand, after the redirections.                                    *)

Become(kind, special, exec) ==
  ctx' = [ctx EXCEPT ![Len(ctx)].kind = kind, ![Len(ctx)].special = special,
                     ![Len(ctx)].exec = exec]

\* A redirection failed.  A special builtin is an error of the shell, but not
\* behind command, where exec still is exec.
Failed ==
  /\ pc = "failed"
  /\ IF Last(ctx).kind = "compound"
     THEN /\ Pop(FALSE) /\ ctx' = Front(ctx) /\ entry' = Front(entry)
          /\ pc' = "run"
          /\ UNCHANGED parsefile
     ELSE \/ exraise("EXERROR") /\ UNCHANGED redirlist
          \/ /\ \E exec \in BOOLEAN : Become("simple", FALSE, exec)
             /\ pc' = "out"
             /\ UNCHANGED <<fdtab, redirlist, parsefile, entry>>
  /\ UNCHANGED shellVars

\* A command that runs none of others: a program, a builtin, or exec without
\* operands.
Leaf ==
  /\ pc = "located" /\ pc' = "out"
  /\ \E exec \in BOOLEAN : Become("simple", FALSE, exec)
  /\ UNCHANGED <<fdtab, redirlist, parsefile, shellVars, entry>>

\* An error of a builtin that evalbltin catches, and one it does not.
LeafFails ==
  /\ pc = "located"
  /\ \E special \in BOOLEAN :
       IF special => iflag
       THEN /\ Become("simple", FALSE, FALSE) /\ pc' = "out"
            /\ UNCHANGED <<fdtab, parsefile, entry>>
       ELSE exraise("EXERROR")
  /\ UNCHANGED <<redirlist, shellVars>>

\* evalfun, evalstring and dotcmd; setinputfile.
Enter ==
  /\ pc = "located" /\ pc' = "run"
  /\ \/ /\ Become("function", FALSE, FALSE)
        /\ UNCHANGED <<fdtab, parsefile>>
     \/ /\ \E special \in BOOLEAN : Become("eval", special, FALSE)
        /\ parsefile' = Append(parsefile, -1)
        /\ UNCHANGED fdtab
     \/ /\ ForInput(fdtab) # {}
        /\ \E special \in BOOLEAN : Become("dot", special, FALSE)
        /\ parsefile' = Append(parsefile, Lowest(ForInput(fdtab)))
        /\ fdtab' = [fdtab EXCEPT ![Lowest(ForInput(fdtab))] = "script"]
  /\ UNCHANGED <<redirlist, shellVars, entry>>

\* A body ends.
EndBody ==
  /\ pc = "run" /\ ctx # <<>>
  /\ IF Last(ctx).kind = "compound"
     THEN /\ Pop(FALSE) /\ ctx' = Front(ctx) /\ entry' = Front(entry)
          /\ UNCHANGED <<parsefile, pc>>
     ELSE /\ pc' = "out"
          /\ IF Last(ctx).kind = "function" THEN UNCHANGED <<fdtab, parsefile>>
             ELSE /\ fdtab' = Without({Last(parsefile)})
                  /\ parsefile' = Front(parsefile)
          /\ UNCHANGED <<redirlist, ctx, entry>>
  /\ UNCHANGED shellVars

\* out: popredir(execcmd), unwindredir and unwindfiles.  What exec keeps, it
\* changes for every command around it.
Out ==
  /\ pc = "out"
  /\ LET f == Last(ctx)
         drop == f.pushed /\ f.exec
         kept == {fd \in User : Last(redirlist)[fd] # EMPTY}
     IN  IF Len(redirlist) > f.redirs
         THEN /\ Pop(drop)
              /\ ctx' = [ctx EXCEPT ![Len(ctx)].pushed = FALSE]
              /\ entry' = IF ~drop THEN entry
                          ELSE [k \in DOMAIN entry |->
                                 [entry[k] EXCEPT !.execd = @ \cup kept]]
              /\ UNCHANGED <<parsefile, pc>>
         ELSE /\ fdtab' = Without(Files_of(f.files))
              /\ parsefile' = SubSeq(parsefile, 1, f.files)
              /\ ctx' = Front(ctx) /\ entry' = Front(entry)
              /\ pc' = "run"
              /\ UNCHANGED redirlist
  /\ UNCHANGED shellVars
-----------------------------------------------------------------------------
(* Subshells: forkchild and evalsubshell.  reset(1) leaves the handlers,   *)
(* the files and the saved descriptors of the parent behind.               *)

\* In the background, in a shell without job control, standard input is
\* /dev/null.  A fork may happen inside a redirection (a here document).
Subshell ==
  /\ pc \in {"run", "redir", "located"} /\ level < MaxLevel
  /\ \E background \in BOOLEAN :
       LET t == Without(Files_of(0) \ {0, -1})
       IN  fdtab' = IF background THEN [t EXCEPT ![0] = "null"] ELSE t
  /\ parsefile' = <<0>>
  /\ iflag' = FALSE /\ level' = level + 1
  /\ ctx' = <<>> /\ entry' = <<>>
  /\ pc' = "drop"
  /\ UNCHANGED <<redirlist, ttyfd>>
Dropped_restore == FALSE
Dropped == TRUE
Drop ==
  /\ pc = "drop"
  /\ IF redirlist # <<>> THEN Pop(Dropped) /\ UNCHANGED pc
     ELSE pc' = "child" /\ UNCHANGED <<fdtab, redirlist>>
  /\ UNCHANGED <<parsefile, shellVars, ctx, entry>>

\* The redirections of the subshell itself are for good.
ChildRedirect ==
  /\ pc = "child"
  /\ \/ \E fd \in User : RedirStep(FALSE, fd) /\ UNCHANGED pc
     \/ pc' \in {"run", "leave"} /\ UNCHANGED <<fdtab, redirlist>>
  /\ UNCHANGED <<parsefile, shellVars, ctx, entry>>

\* gettty, before a job under job control; without descriptors an error.
gettty ==
  /\ pc = "run" /\ ttyfd = -1 /\ FreeIn(Fds, fdtab) # {}
  /\ IF ForTty(fdtab) # {}
     THEN /\ ttyfd' = Lowest(ForTty(fdtab))
          /\ fdtab' = [fdtab EXCEPT ![Lowest(ForTty(fdtab))] = "tty"]
          /\ UNCHANGED <<parsefile, ctx, entry, pc>>
     ELSE exraise("EXERROR") /\ UNCHANGED ttyfd
  /\ UNCHANGED <<redirlist, iflag, level>>
-----------------------------------------------------------------------------
Command == Begin \/ Redirect \/ Failed \/ Leaf \/ LeafFails \/ Enter
           \/ EndBody \/ Out
Next == Command \/ Raise \/ Unwind \/ Subshell \/ Drop \/ ChildRedirect \/ gettty

Spec == Init /\ [][Next]_vars
-----------------------------------------------------------------------------
(* Properties.                                                             *)

TypeOK ==
  /\ fdtab \in [Fds -> Values]
  /\ redirlist \in Seq(Table)
  /\ parsefile \in Seq({-1, 0} \cup Internal)
  /\ ttyfd \in {-1} \cup Internal
  /\ iflag \in BOOLEAN /\ level \in 0 .. MaxLevel
  /\ ctx \in Seq(Frame)
  /\ entry \in Seq([view : [User -> Values], execd : SUBSET User])
  /\ pc \in Points

\* Every descriptor of the shell's own that is open is held once, by a saved
\* descriptor, a file being read or the terminal: none leaks, whichever way a
\* command ends, and none is closed by two, where a second close would hit
\* what was opened in between.
Held(fd) ==
  /\ \A k, l \in DOMAIN redirlist, u, v \in User :
       redirlist[k][u] = fd /\ redirlist[l][v] = fd => k = l /\ u = v
  /\ \A k, l \in DOMAIN parsefile : parsefile[k] = fd /\ parsefile[l] = fd => k = l
SavedFds == {redirlist[k][u] : k \in DOMAIN redirlist, u \in User}
InputFds == {parsefile[k] : k \in DOMAIN parsefile}
Owned ==
  /\ TypeOK
  /\ \A fd \in Internal :
       /\ fdtab[fd] # "closed" <=> fd \in SavedFds \cup InputFds \cup {ttyfd}
       /\ Held(fd)
  /\ SavedFds \cap InputFds \subseteq {EMPTY, CLOSED}
  /\ ttyfd # -1 => ttyfd \notin SavedFds \cup InputFds

\* redirlist and the C stack agree: each command on the stack that has
\* redirections has its own table at the depth it noted, so that the
\* popredir at its end undoes its redirections and no other's, after errors
\* that left any number of commands half way; and what it reads is its own.
Running == pc \notin {"unwind", "leave", "drop", "exit"}
Matched ==
  Running =>
    LET pushed(n) == Cardinality({k \in 1 .. n : ctx[k].pushed}) IN
      /\ Len(redirlist) = pushed(Len(ctx))
      /\ \A k \in DOMAIN ctx : ctx[k].redirs = pushed(k - 1)
      /\ Len(entry) = Len(ctx)

\* A command leaves the user's descriptors as it found them, except for those
\* that an exec inside of it redirected: whether it ends well, its
\* redirections fail half way, or an error takes the shell back to main.
Undone ==
  [][Len(entry') < Len(entry) /\ level' = level =>
       LET e == entry[Len(entry') + 1] IN
         \A fd \in User \ e.execd : fdtab'[fd] = e.view[fd]]_vars

\* A subshell begins with the descriptors its parent had, the redirections
\* of the commands around it included; only standard input may be /dev/null.
ChildView ==
  [][level' > level \/ pc = "drop" =>
       \A fd \in User :
         fdtab'[fd] = fdtab[fd] \/ (level' > level /\ fd = 0 /\ fdtab'[fd] = "null")]_vars

\* Saved descriptors are remembered values: Redir implements Scopes.
SavedIn(r) == {fd \in User : r[fd] # EMPTY}
SavedValue(r, fd) == IF r[fd] = CLOSED THEN "closed" ELSE fdtab[r[fd]]
SavedScopes ==
  [k \in DOMAIN redirlist |->
     [fd \in SavedIn(redirlist[k]) |-> SavedValue(redirlist[k], fd)]]
Abstract == INSTANCE Scopes WITH view <- View, scopes <- SavedScopes
Refines == Abstract!Spec
=============================================================================
