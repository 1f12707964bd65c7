-------------------------------- MODULE Lookup --------------------------------
(***************************************************************************)
(* What looking up a command promises, without a table of locations: a     *)
(* name is a function, else a builtin, else the first executable along     *)
(* PATH, else a function of a file along FPATH, at the time it is used.    *)
(* Only when files were made or removed behind the shell's back since it   *)
(* last forgot its locations may an answer be an old one.                  *)
(***************************************************************************)
EXTENDS Integers, SequencesExt

CONSTANTS Names, Builtins, Special, Bodies, Paths, DefPath, FPath, Locs, Cwds, Kinds

VARIABLES
  path,     \* PATH: a sequence of directories, "." for the current one
  cwd,
  fs,       \* what is at each place under each name
  funcs,    \* the body of each name's function, 0 when it has none
  calls,    \* the calls in progress, innermost last
  found,    \* what the last command turned out to be
  touched   \* names for which files changed since locations were forgotten

vars == <<path, cwd, fs, funcs, calls, found, touched>>

Here == {".", ""}
Place(d) == IF d \in Here THEN cwd ELSE d
Kind(d, n) == fs[Place(d), n]
Regular == {"plain", "exec"}

Ran(l) == [type |-> "ran", at |-> l]
Function(b) == [type |-> "function", body |-> b]
Builtin == [type |-> "builtin"]
Failed(s) == [type |-> "failed", status |-> s]
Outcomes ==
  {Ran(l) : l \in Locs} \cup {Function(b) : b \in Bodies} \cup {Builtin} \cup {Failed(2), Failed(126), Failed(127)}

Executables(p, n) == {i \in DOMAIN p : Kind(p[i], n) = "exec"}
FunctionFile(n) == \E i \in DOMAIN FPath : Kind(FPath[i], n) \in Regular
Allocated == {funcs[n] : n \in Names} \cup {calls[i].body : i \in DOMAIN calls}

(* The right answers for a name along p.  A function file is read; it      *)
(* defines the function, as a body not in use, or the lookup fails.        *)
Right(n, nofunc, p, r) ==
  IF ~nofunc /\ funcs[n] # 0 THEN r = Function(funcs[n]) /\ UNCHANGED funcs
  ELSE IF n \in Builtins THEN r = Builtin /\ UNCHANGED funcs
  ELSE IF Executables(p, n) # {}
       THEN r = Ran(Place(p[Min(Executables(p, n))])) /\ UNCHANGED funcs
  ELSE IF FunctionFile(n)
       THEN \/ /\ r.type = "function"
               /\ r.body \notin Allocated \/ r.body = funcs[n]
               /\ funcs' = [funcs EXCEPT ![n] = r.body]
            \/ r = Failed(2) /\ UNCHANGED funcs
  ELSE r = Failed(127) /\ UNCHANGED funcs

Answer(n, nofunc, alt, p, r) ==
  \/ Right(n, nofunc, p, r)
  \/ /\ touched[n] /\ ~alt
     /\ \/ r.type # "function" /\ UNCHANGED funcs
        \/ r.type = "function" /\ funcs' = [funcs EXCEPT ![n] = r.body]

(* A command is looked up and executed.  PATH=q before it is the path it   *)
(* is looked up along and holds as long as a function runs; a special      *)
(* builtin keeps it.                                                       *)
Evaluate(n, nofunc, stdpath, with) ==
  LET assigned == with # {}
      q == IF assigned THEN CHOOSE x \in with : TRUE ELSE path
      p == IF stdpath THEN DefPath ELSE q
      r == found'
  IN /\ UNCHANGED <<cwd, fs>>
     /\ path' = IF r.type = "function" \/ (r = Builtin /\ n \in Special /\ ~nofunc)
                THEN q ELSE path
     /\ calls' = IF r.type = "function"
                 THEN Append(calls, [body |-> r.body, saved |-> IF assigned THEN {path} ELSE {}])
                 ELSE calls
     /\ touched' = IF assigned THEN [m \in Names |-> FALSE] ELSE touched
     /\ Answer(n, nofunc, assigned \/ stdpath, p, r)
     /\ found' \in Outcomes

(* A name is only located, which may read its function file.               *)
Locate(n) ==
  /\ UNCHANGED <<path, cwd, fs, calls, found>>
  /\ \E t \in BOOLEAN : touched' = [touched EXCEPT ![n] = t /\ touched[n]]
  /\ \E r \in Outcomes : Answer(n, FALSE, FALSE, path, r)

Return ==
  /\ calls # <<>>
  /\ LET saved == Last(calls).saved
     IN /\ path' = IF saved = {} THEN path ELSE CHOOSE x \in saved : TRUE
        /\ touched' = IF saved = {} THEN touched ELSE [m \in Names |-> FALSE]
  /\ calls' = Front(calls)
  /\ UNCHANGED <<cwd, fs, funcs, found>>

Define(n, b) ==
  /\ b \notin Allocated
  /\ funcs' = [funcs EXCEPT ![n] = b]
  /\ UNCHANGED <<path, cwd, fs, calls, found, touched>>

Undefine(n) ==
  /\ funcs' = [funcs EXCEPT ![n] = 0]
  /\ UNCHANGED <<path, cwd, fs, calls, found, touched>>

Forget(p) ==
  /\ path' = p
  /\ touched' = [m \in Names |-> FALSE]
  /\ UNCHANGED <<cwd, fs, funcs, calls, found>>

Cd(d) == cwd' = d /\ UNCHANGED <<path, fs, funcs, calls, found, touched>>

FilesChange(l, n, k) ==
  /\ UNCHANGED <<path, cwd, funcs, calls, found>>
  /\ fs' = [fs EXCEPT ![<<l, n>>] = k]
  /\ touched' = [touched EXCEPT ![n] = TRUE]

Init ==
  /\ path \in Paths /\ cwd \in Cwds
  /\ fs \in [Locs \X Names -> Kinds]
  /\ funcs = [n \in Names |-> 0] /\ calls = <<>>
  /\ found = Builtin
  /\ touched = [n \in Names |-> FALSE]

Next ==
  \/ \E p \in Paths : Forget(p)
  \/ \E d \in Cwds : Cd(d)
  \/ Return
  \/ \E n \in Names : Undefine(n) \/ (\E b \in Bodies : Define(n, b)) \/ Locate(n)
  \/ \E n \in Names, nofunc, stdpath \in BOOLEAN, with \in {{}} \cup {{q} : q \in Paths} :
       Evaluate(n, nofunc, stdpath, with)
  \/ \E l \in Locs, n \in Names, k \in Kinds : FilesChange(l, n, k)

Spec == Init /\ [][Next]_vars
===============================================================================
