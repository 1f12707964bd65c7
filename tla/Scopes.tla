------------------------------- MODULE Scopes -------------------------------
(***************************************************************************)
(* What redirections promise: descriptors as values.                       *)
(*                                                                         *)
(* A command with redirections opens a scope.  The scope remembers what    *)
(* its descriptors held, by value: there is no second descriptor to run    *)
(* out of, to leak or to confuse with another one.  Redir implements this  *)
(* with descriptors from 10 up.                                            *)
(***************************************************************************)
EXTENDS Integers, Sequences

CONSTANTS
  NUser,   \* the descriptors of the user are 0 .. NUser-1
  Values   \* what a descriptor can hold, "closed" and "null" among them

VARIABLES view, scopes
vars == <<view, scopes>>

User == 0 .. NUser - 1
Top == scopes[Len(scopes)]
Front == SubSeq(scopes, 1, Len(scopes) - 1)

Init ==
  /\ view \in [User -> Values]
  /\ scopes = <<>>

\* A command with redirections begins.
Open == scopes' = Append(scopes, [fd \in {} |-> "closed"]) /\ UNCHANGED view

\* A redirection: the first one of a descriptor in a scope remembers what it
\* held.  It may go no further, where the redirection fails.
Remember(fd) ==
  scopes' = IF fd \in DOMAIN Top THEN scopes
            ELSE [scopes EXCEPT ![Len(scopes)] =
                    [d \in DOMAIN Top \cup {fd} |->
                       IF d = fd THEN view[fd] ELSE Top[d]]]
Redirect(fd, v) ==
  /\ view' = [view EXCEPT ![fd] = v]
  /\ IF scopes = <<>> THEN UNCHANGED scopes ELSE Remember(fd)

\* The end of a scope: its descriptors hold what they held, or exec keeps them.
Restore ==
  /\ scopes # <<>> /\ scopes' = Front
  /\ view' = [fd \in User |-> IF fd \in DOMAIN Top THEN Top[fd] ELSE view[fd]]
Keep == scopes # <<>> /\ scopes' = Front /\ UNCHANGED view

\* A background child has no standard input.
Background == view' = [view EXCEPT ![0] = "null"] /\ UNCHANGED scopes

Next ==
  \/ Open \/ Restore \/ Keep \/ Background
  \/ \E fd \in User, v \in Values : Redirect(fd, v)

Spec == Init /\ [][Next]_vars
=============================================================================
