--------------------------------- MODULE Env ---------------------------------
(***************************************************************************)
(* What variables promise: values by name, and scopes that remember them.  *)
(*                                                                         *)
(* Every simple command has a scope, and so has every call of a function.  *)
(* A variable that is made local in a scope gets back its value, and       *)
(* whether it is exported and read only, when the scope is left; a special *)
(* builtin keeps what was assigned in front of it.  Var implements this    *)
(* with flags, texts that are shared between a variable and its saved      *)
(* copies, and entries that are created and freed.                         *)
(***************************************************************************)
EXTENDS Integers, Sequences

CONSTANTS Names, Values

VARIABLES view,    \* the variables
          options, \* the options of the shell, which local can save too
          scopes   \* what each scope saved
vars == <<view, options, scopes>>

Variable == [val : Values \cup {"unset"}, export : BOOLEAN, readonly : BOOLEAN]
Unset == [val |-> "unset", export |-> FALSE, readonly |-> FALSE]
Nothing == [vars |-> [n \in {} |-> Unset], options |-> {}]

Init ==
  /\ view \in [Names -> Variable]
  /\ options \in BOOLEAN
  /\ scopes = <<>>

Depth == Len(scopes)
Top == scopes[Depth]
Saved(n) ==
  IF n \in DOMAIN Top.vars THEN Top.vars
  ELSE [m \in DOMAIN Top.vars \cup {n} |-> IF m = n THEN view[n] ELSE Top.vars[m]]

Enter == scopes' = Append(scopes, Nothing) /\ UNCHANGED <<view, options>>

\* A variable is made local, and keeps its value.
SaveVar(n) == scopes # <<>> /\ scopes' = [scopes EXCEPT ![Depth].vars = Saved(n)]
SaveOptions ==
  /\ scopes # <<>>
  /\ scopes' = [scopes EXCEPT ![Depth].options = IF @ = {} THEN {options} ELSE @]
  /\ UNCHANGED <<view, options>>

\* A variable gets a value or is marked; one that is read only can only be
\* marked.
Assign(n) ==
  \E v \in Values \cup {"unset"}, e, r \in BOOLEAN :
    /\ view[n].readonly => v = view[n].val
    /\ view' = [view EXCEPT ![n] = [val |-> v, export |-> @.export \/ e,
                                    readonly |-> @.readonly \/ r]]
Clear(n) == ~view[n].readonly /\ view' = [view EXCEPT ![n] = Unset]

Local(n) == SaveVar(n) /\ (Assign(n) \/ UNCHANGED view) /\ UNCHANGED options
Change(n) == (Assign(n) \/ Clear(n)) /\ UNCHANGED <<options, scopes>>

\* A scope is left.
Leave ==
  /\ scopes # <<>> /\ scopes' = SubSeq(scopes, 1, Depth - 1)
  /\ view' = [n \in Names |-> IF n \in DOMAIN Top.vars THEN Top.vars[n] ELSE view[n]]
  /\ options' = IF Top.options = {} THEN options ELSE CHOOSE o \in Top.options : TRUE
Keep ==
  /\ scopes # <<>> /\ scopes' = SubSeq(scopes, 1, Depth - 1)
  /\ UNCHANGED <<view, options>>

Option == options' \in BOOLEAN /\ UNCHANGED <<view, scopes>>

Next == Enter \/ SaveOptions \/ Leave \/ Keep \/ Option
        \/ \E n \in Names : Local(n) \/ Change(n)

Spec == Init /\ [][Next]_vars
=============================================================================
