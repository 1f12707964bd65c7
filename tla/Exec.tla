--------------------------------- MODULE Exec ---------------------------------
(***************************************************************************)
(* Finding commands: exec.c, and what eval.c, cd.c and var.c do with it.   *)
(*                                                                         *)
(* The command table remembers where a command was found.  cd marks its    *)
(* locations for a shortened search, a change of PATH throws them away,    *)
(* PATH=q cmd and command search past the table.  It also holds the        *)
(* functions: their bodies are counted, as a function can be redefined or  *)
(* removed by a command of its own body.                                   *)
(*                                                                         *)
(* Definitions with a suffix, such as find_command_keepall, are faulty     *)
(* variants of the definition that follows them.                           *)
(***************************************************************************)
EXTENDS Integers, SequencesExt

CONSTANTS
  Names,      \* command names, none with a slash
  Builtins,   \* those that are builtins
  Special,    \* and the special ones of them
  Bodies,     \* bound: function bodies allocated at a time
  Paths,      \* values PATH takes: sequences of directories, "." or "" for
              \* the current one
  DefPath,    \* the value command -p searches
  FPath,      \* the value of FPATH, absolute directories
  Cwds,       \* current directories
  Locs,       \* all directories
  Kinds,      \* what can be found: "none", "dir", "plain", "exec"
  InitFiles,  \* file systems a shell starts in: [Locs \X Names -> Kinds]
  Changes,    \* what others may make of it: <<place, name, kind>>
  MaxChange,  \* bound: changes of the file system by others
  MaxDepth    \* bound: nesting of function calls

ASSUME ExecAssumption ==
  /\ Special \subseteq Builtins /\ Builtins \subseteq Names
  /\ Bodies \subseteq Nat \ {0} /\ DefPath \in Paths
  /\ Cwds \subseteq Locs
  /\ Paths \subseteq Seq(Locs \cup {".", ""}) /\ FPath \in Seq(Locs)
  /\ InitFiles \subseteq [Locs \X Names -> Kinds]
  /\ Changes \subseteq Locs \X Names \X Kinds
  /\ MaxChange \in Nat /\ MaxDepth \in Nat

VARIABLES
  cmdtable,  \* an entry for every name, CMDUNKNOWN where the code has none
  count,     \* funcnode.count, -1 for memory that is free
  path,      \* vpath
  cwd,
  fs,        \* kernel: the files
  calls,     \* evalfun's frames: the body, and PATH as it has to be restored
  found,     \* what the last command turned out to be
  touched,   \* history: names for which files changed since locations were forgotten
  changes    \* how often fs was changed

vars == <<cmdtable, count, path, cwd, fs, calls, found, touched, changes>>

Untouched == [n \in Names |-> FALSE]

Entry(t, i, f, r) == [cmdtype |-> t, index |-> i, func |-> f, rehash |-> r]
NoEntry == Entry("unknown", 0, 0, FALSE)

----------------------------------------------------------------------------
(* Directories. *)

Here == {".", ""}
Place(d) == IF d \in Here THEN cwd ELSE d
Kind(d, n) == fs[Place(d), n]
Absolute(d) == d \notin Here

(* find_command walks PATH and goes back to the test of *path whenever     *)
(* stat fails: an empty last entry is then no entry any more.              *)
Walked(p, n) ==
  IF p # <<>> /\ Last(p) = "" /\ (Len(p) = 1 \/ Kind(p[Len(p) - 1], n) = "none")
  THEN Front(p) ELSE p

(* Whether the search ends at entry i of w: along PATH, the first k, at an *)
(* executable file, along FPATH at a regular one.  A stale location, the   *)
(* one at prev, is looked for again: absolute directories up to it are     *)
(* taken to be as they were.                                               *)
StopsAt_relative(w, k, n, prev, i) ==
  IF i <= prev THEN i = prev
  ELSE Kind(w[i], n) \in IF i <= k THEN {"exec"} ELSE {"plain", "exec"}

StopsAt(w, k, n, prev, i) ==
  IF Absolute(w[i]) /\ i <= prev THEN i = prev
  ELSE Kind(w[i], n) \in IF i <= k THEN {"exec"} ELSE {"plain", "exec"}

Search(p, n, prev) ==
  LET w == Walked(p, n) \o FPath
      stops == {i \in DOMAIN w : StopsAt(w, Len(Walked(p, n)), n, prev, i)}
  IN IF stops = {} THEN 0 ELSE Min(stops)

----------------------------------------------------------------------------
(* The table. *)

clearcmdentry(t) == [n \in Names |-> IF t[n].cmdtype \in {"normal", "builtin"} THEN NoEntry ELSE t[n]]

freefunc(c, f) == IF f = 0 THEN c ELSE [c EXCEPT ![f] = c[f] - 1]

\* addcmdentry with the body copyfunc made, whose count starts at 0.
addcmdentry(t, n, b) == [t EXCEPT ![n] = Entry("function", 0, b, FALSE)]
Counts_leak(t, n, b) == [count EXCEPT ![b] = 0]
Counts(t, n, b) == [freefunc(count, t[n].func) EXCEPT ![b] = 0]

\* Memory malloc can hand out.  Which piece it chooses makes no difference.
Free == {b \in Bodies : count[b] = -1}
NewBody == {b \in Free : b = Min(Free)}

\* An entry that does not answer: one for another path, or a function where
\* command wants none.  Nothing is entered then either.
Passed(e, nofunc, alt) == (alt /\ e.cmdtype = "normal") \/ (nofunc /\ e.cmdtype = "function")

Updates_alt(e, nofunc, alt) == ~Passed(e, nofunc, alt)
Updates(e, nofunc, alt) == ~alt /\ ~Passed(e, nofunc, alt)

(* What find_command makes of a name: the entry it gives, and the table it *)
(* leaves of t.  load is the body that the function file defines, if one   *)
(* is read, 0 when it does not define the function.                        *)
find_command(t, n, nofunc, alt, p, load) ==
  LET old == t[n]
      cmdp == IF Passed(old, nofunc, alt) THEN NoEntry ELSE old
      i == Search(p, n, IF cmdp.rehash /\ cmdp.cmdtype = "normal" THEN cmdp.index ELSE 0)
      Given(e) == [entry |-> e, table |-> t, loaded |-> FALSE]
      Entered(e) == [Given(e) EXCEPT
                       !.table = IF Updates(old, nofunc, alt) THEN [t EXCEPT ![n] = e] ELSE t]
      new == addcmdentry(t, n, load)
  IN IF cmdp.cmdtype # "unknown" /\ ~cmdp.rehash THEN Given(cmdp)
     ELSE IF n \in Builtins THEN Entered(Entry("builtin", 0, 0, FALSE))
     ELSE IF i = 0 THEN Entered(NoEntry)
     ELSE IF i = cmdp.index \/ i <= Len(Walked(p, n)) THEN Entered(Entry("normal", i, 0, FALSE))
     ELSE IF load # 0 THEN [entry |-> new[n], table |-> new, loaded |-> TRUE]
     ELSE IF old.cmdtype = "function" THEN Given(old)
     ELSE Given([NoEntry EXCEPT !.cmdtype = "error"])

----------------------------------------------------------------------------
(* Executing. *)

Ran(l) == [type |-> "ran", at |-> l]
Function(b) == [type |-> "function", body |-> b]
Builtin == [type |-> "builtin"]
Failed(s) == [type |-> "failed", status |-> s]

(* The child tries the directories from the one that was found.            *)
shellexec(p, n, idx) ==
  LET tried == {i \in idx .. Len(p) : Kind(p[i], n) # "none"}
      runs == {i \in tried : Kind(p[i], n) = "exec"}
  IN IF runs # {} THEN Ran(Place(p[Min(runs)]))
     ELSE Failed(IF tried # {} THEN 126 ELSE 127)

Outcome(e, p, n) ==
  CASE e.cmdtype = "function" -> Function(e.func)
    [] e.cmdtype = "builtin" -> Builtin
    [] e.cmdtype = "normal" -> shellexec(p, n, e.index)
    [] e.cmdtype = "error" -> Failed(2)
    [] OTHER -> Failed(127)

(* evalcommand, for a name after command and command -p too.  PATH=q is    *)
(* made local before the lookup, undone after an external command or a     *)
(* builtin, kept by a special builtin, and lasts until a function ends.    *)
evalcommand(n, nofunc, stdpath, with) ==
  LET assigned == with # {}
      q == IF assigned THEN CHOOSE x \in with : TRUE ELSE path
      p == IF stdpath THEN DefPath ELSE q
      t == IF assigned THEN clearcmdentry(cmdtable) ELSE cmdtable
  IN \E load \in {0} \cup NewBody :
     LET res == find_command(t, n, nofunc, assigned \/ stdpath, p, load)
         e == res.entry
         c == IF res.loaded THEN Counts(t, n, load) ELSE count
         keeps == e.cmdtype = "function" \/ (e.cmdtype = "builtin" /\ n \in Special /\ ~nofunc)
     IN /\ load # 0 => res.loaded
        /\ e.cmdtype = "function" => Len(calls) < MaxDepth
        /\ found' = Outcome(e, p, n)
        /\ cmdtable' = IF assigned /\ ~keeps THEN clearcmdentry(res.table) ELSE res.table
        /\ path' = IF keeps THEN q ELSE path
        /\ IF e.cmdtype = "function"
           THEN /\ count' = [c EXCEPT ![e.func] = @ + 1]
                /\ calls' = Append(calls, [body |-> e.func, saved |-> IF assigned THEN {path} ELSE {}])
           ELSE count' = c /\ UNCHANGED calls
        /\ touched' = IF assigned THEN Untouched ELSE touched
        /\ UNCHANGED <<cwd, fs, changes>>

(* evalfun's end, by itself or by longjmp: the body is let go and PATH is  *)
(* what it was.                                                            *)
Return_forget ==
  /\ calls # <<>>
  /\ count' = freefunc(count, Last(calls).body)
  /\ calls' = Front(calls)
  /\ UNCHANGED cmdtable
  /\ path' = IF Last(calls).saved = {} THEN path ELSE CHOOSE x \in Last(calls).saved : TRUE
  /\ touched' = IF Last(calls).saved = {} THEN touched ELSE Untouched
  /\ UNCHANGED <<cwd, fs, found, changes>>

Return ==
  /\ calls # <<>>
  /\ count' = freefunc(count, Last(calls).body)
  /\ calls' = Front(calls)
  /\ IF Last(calls).saved = {} THEN UNCHANGED <<path, cmdtable>>
     ELSE path' \in Last(calls).saved /\ cmdtable' = clearcmdentry(cmdtable)
  /\ touched' = IF Last(calls).saved = {} THEN touched ELSE Untouched
  /\ UNCHANGED <<cwd, fs, found, changes>>

----------------------------------------------------------------------------
(* The builtins and the rest. *)

(* A lookup that executes nothing, in a table t: type, command -v, hash    *)
(* and the commands of a pipeline before it forks.                         *)
Locate(t, n) ==
  /\ \E load \in {0} \cup NewBody :
       LET res == find_command(t, n, FALSE, FALSE, path, load)
       IN /\ load # 0 => res.loaded
          /\ cmdtable' = res.table
          /\ count' = IF res.loaded THEN Counts(t, n, load) ELSE count
  /\ UNCHANGED <<path, cwd, fs, calls, found, changes>>

describe_command(n) == cmdtable[n] = NoEntry /\ Locate(cmdtable, n) /\ UNCHANGED touched
prehash(n) == Locate(cmdtable, n) /\ UNCHANGED touched
hashcmd(n) ==
  /\ Locate(IF cmdtable[n].cmdtype = "normal" THEN [cmdtable EXCEPT ![n] = NoEntry] ELSE cmdtable, n)
  /\ touched' = [touched EXCEPT ![n] = FALSE]

(* An interrupt is taken at the INTON of find_command: the entry is made,  *)
(* but rehash is not reset yet, and in a new entry not set at all.         *)
Interrupted(n) ==
  LET res == find_command(cmdtable, n, FALSE, FALSE, path, 0)
      old == cmdtable[n]
  IN /\ old = NoEntry \/ old.rehash
     /\ res.entry.cmdtype \in {"normal", "builtin"}
     /\ \E r \in IF old = NoEntry THEN BOOLEAN ELSE {old.rehash} :
          cmdtable' = [res.table EXCEPT ![n].rehash = r]
     /\ UNCHANGED <<count, path, cwd, fs, calls, found, touched, changes>>

hashr ==
  /\ cmdtable' = clearcmdentry(cmdtable) /\ touched' = Untouched
  /\ UNCHANGED <<count, path, cwd, fs, calls, found, changes>>

\* PATH is assigned or unset, for good.
changepath(p) ==
  /\ path' = p /\ cmdtable' = clearcmdentry(cmdtable) /\ touched' = Untouched
  /\ UNCHANGED <<count, cwd, fs, calls, found, changes>>

hashcd_missing(d) ==
  /\ cwd' = d /\ UNCHANGED cmdtable
  /\ UNCHANGED <<count, path, fs, calls, found, touched, changes>>

hashcd(d) ==
  /\ cwd' = d
  /\ cmdtable' = [n \in Names |-> IF cmdtable[n].cmdtype = "normal"
                                  THEN [cmdtable[n] EXCEPT !.rehash = TRUE] ELSE cmdtable[n]]
  /\ UNCHANGED <<count, path, fs, calls, found, touched, changes>>

defun(n) ==
  /\ \E b \in NewBody : cmdtable' = addcmdentry(cmdtable, n, b) /\ count' = Counts(cmdtable, n, b)
  /\ UNCHANGED <<path, cwd, fs, calls, found, touched, changes>>

unsetfunc(n) ==
  /\ cmdtable[n].cmdtype = "function"
  /\ cmdtable' = [cmdtable EXCEPT ![n] = NoEntry]
  /\ count' = freefunc(count, cmdtable[n].func)
  /\ UNCHANGED <<path, cwd, fs, calls, found, touched, changes>>

FilesChange(l, n, k) ==
  /\ changes < MaxChange /\ changes' = changes + 1
  /\ fs' = [fs EXCEPT ![<<l, n>>] = k] /\ touched' = [touched EXCEPT ![n] = TRUE]
  /\ UNCHANGED <<cmdtable, count, path, cwd, calls, found>>

Init ==
  /\ cmdtable = [n \in Names |-> NoEntry]
  /\ count = [b \in Bodies |-> -1]
  /\ path \in Paths /\ cwd \in Cwds /\ fs \in InitFiles
  /\ calls = <<>> /\ found = Builtin
  /\ touched = Untouched /\ changes = 0

Next ==
  \/ \E n \in Names, nofunc, stdpath \in BOOLEAN, with \in {{}} \cup {{q} : q \in Paths} :
       (stdpath => nofunc) /\ evalcommand(n, nofunc, stdpath, with)
  \/ Return \/ hashr
  \/ \E n \in Names :
       describe_command(n) \/ prehash(n) \/ hashcmd(n) \/ Interrupted(n) \/ defun(n) \/ unsetfunc(n)
  \/ \E p \in Paths : changepath(p)
  \/ \E d \in Cwds : hashcd(d)
  \/ \E c \in Changes : FilesChange(c[1], c[2], c[3])

Spec == Init /\ [][Next]_vars
----------------------------------------------------------------------------
(* Properties. *)

(* Every variable has its type. *)
TypeOK ==
  /\ cmdtable \in [Names -> [cmdtype : {"unknown", "normal", "function", "builtin"},
                             index : Nat, func : Bodies \cup {0}, rehash : BOOLEAN]]
  /\ count \in [Bodies -> -1 .. MaxDepth]
  /\ path \in Paths /\ cwd \in Cwds /\ fs \in [Locs \X Names -> Kinds]
  /\ calls \in Seq([body : Bodies, saved : {{}} \cup {{p} : p \in Paths}]) /\ Len(calls) <= MaxDepth
  /\ touched \in [Names -> BOOLEAN] /\ changes \in 0 .. MaxChange

(* The body of a function is freed when it is neither in the table nor     *)
(* being executed, and not before: whatever the function does to its own   *)
(* definition, and however its calls end.                                  *)
Users(b) ==
  Cardinality({n \in Names : cmdtable[n].func = b}) + Cardinality({i \in DOMAIN calls : calls[i].body = b})
Counted == TypeOK /\ \A b \in Bodies : count[b] = Users(b) - 1

(* With its table of locations the shell finds what it would find without  *)
(* one: a name is the function, builtin or file it is by a search made at  *)
(* that time.  Only files changed by others since locations were last      *)
(* forgotten may be missed.                                                *)
Table == INSTANCE Lookup WITH funcs <- [n \in Names |-> cmdtable[n].func]
Finds == Table!Spec
===============================================================================
