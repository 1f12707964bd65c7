--------------------------------- MODULE Var ---------------------------------
(***************************************************************************)
(* Variables and their scopes: var.c, and how evalcommand, functions and   *)
(* subshells use them.                                                     *)
(*                                                                         *)
(* A text (name=value) is a cell of the heap, shared by pointer between a  *)
(* variable and what saved it; the flag VTEXTFIXED says that somebody else *)
(* frees it.  Every simple command has an entry of localvar_stack: plain   *)
(* assignments and those in front of special builtins are made in it and   *)
(* kept, other ones are undone.  Names do not interact but in the entries  *)
(* of a scope, so that a script with few names is enough.                  *)
(*                                                                         *)
(* Definitions with a suffix, such as PopVar_free, are faulty variants of  *)
(* the definition that follows them: replacing it breaks a property.       *)
(***************************************************************************)
EXTENDS Integers, FiniteSets, SequencesExt

CONSTANTS
  Plain,     \* bound: names of ordinary variables
  Special,   \* bound: names of varinit with a function to call, such as PATH
  Bad,       \* bound: operands of local that are not names
  Values,    \* bound: what variables are set to
  MaxNames,  \* bound: how many names the script uses
  Heap,      \* bound: the texts that can be allocated
  MaxDepth,  \* bound: nesting of commands
  MaxLocals  \* bound: entries of all scopes

ASSUME VarAssumption ==
  /\ Plain \cap Special = {} /\ (Plain \cup Special) \cap Bad = {}
  /\ {"", "unset", "free"} \cap Values = {}
  /\ {"-", "uninitialised"} \cap (Plain \cup Special \cup Bad) = {}
  /\ IsFiniteSet(Plain \cup Special \cup Bad)
  /\ "static" \notin Heap /\ IsFiniteSet(Heap)
  /\ Cardinality(Heap) >= MaxNames * (MaxDepth + 1)
  /\ MaxNames \in Nat /\ MaxDepth \in Nat /\ MaxLocals \in Nat

Names == Plain \cup Special \cup Bad
Texts == Values \cup {""}
Flags == {"export", "readonly", "strfixed", "textfixed", "unset"}
Cells == Heap \cup {"static"}  \* "static" is a text in varinit, never freed

VARIABLES
  names,          \* the names that the script uses
  vartab,         \* name -> [flags, text, local]; local is a depth of localvar_stack
  heap,           \* the value that a text holds, or "free"
  localvar_stack, \* of [kind, lv]: the command it is for, and its entries, newest first
  aflag,          \* the option that stands for optlist
  inherited,      \* a subshell of a function: funcnest stays positive
  told,           \* what the function of a variable was called with last
  pc

vars == <<names, vartab, heap, localvar_stack, inherited, aflag, told, pc>>

Var == [flags : SUBSET Flags, text : Cells, local : 0 .. MaxDepth]
Saved == [vp : Names \cup {"-", "uninitialised"}, flags : SUBSET Flags,
          text : Cells, local : 0 .. MaxDepth, opts : BOOLEAN]
Kinds == {"command", "builtin", "function"}

Init ==
  /\ names \in {s \in SUBSET Names : Cardinality(s) = MaxNames}
  /\ vartab = [n \in Special |-> [flags |-> {"strfixed", "textfixed"},
                                  text |-> "static", local |-> 0]]
  /\ heap = [c \in Cells |-> IF c = "static" THEN "" ELSE "free"]
  /\ localvar_stack = <<>>
  /\ aflag = FALSE /\ inherited = FALSE
  /\ told = [n \in Special |-> ""]
  /\ pc = "run"
-----------------------------------------------------------------------------
(* The functions of var.c work on a state [tab, heap, stack, aflag, told,  *)
(* err]; err is "none", "error" (sh_error was called, and nothing after it *)
(* is done) or "crash".                                                    *)

State == [tab |-> vartab, heap |-> heap, stack |-> localvar_stack, opts |-> aflag,
          told |-> told, err |-> "none"]
Become(s) ==
  /\ vartab' = s.tab /\ heap' = s.heap /\ localvar_stack' = s.stack
  /\ aflag' = s.opts /\ told' = s.told /\ UNCHANGED names

NewCell(s) == CHOOSE c \in Heap : s.heap[c] = "free"
ckfree(s, cell) == [s EXCEPT !.heap[cell] = "free"]
FreeText(s, v) == IF "textfixed" \in v.flags THEN s ELSE ckfree(s, v.text)
Tell(s, n, value) == IF n \in Special THEN [s EXCEPT !.told[n] = value] ELSE s
Error(s) == [s EXCEPT !.err = "error"]

\* The variable n gets a text of its own.
Put(s, n, value, flags, local) ==
  LET c == NewCell(s) IN
    [s EXCEPT !.heap[c] = value,
              !.tab = [m \in DOMAIN @ \cup {n} |->
                         IF m = n THEN [flags |-> flags, text |-> c, local |-> local] ELSE @[m]]]
Forget(s, n) == [s EXCEPT !.tab = [m \in DOMAIN @ \ {n} |-> @[m]]]

\* setvareq: unsetting removes a variable, unless an entry of varinit or a
\* scope refers to it; then it stays, without being exported or read only.
Marks == {"export", "readonly", "unset"}
With(s, flags) ==
  flags \cup (IF s.opts /\ "unset" \notin flags THEN {"export"} ELSE {})
Replaced(s, n, value, flags) ==
  LET old    == s.tab[n]
      freed  == FreeText(Tell(s, n, value), old)
      new    == With(s, flags) \cup (old.flags \ {"textfixed", "unset"})
      unsets == flags \cap Marks = {"unset"}
  IN  IF unsets /\ "strfixed" \notin new THEN Forget(freed, n)
      ELSE Put(freed, n, value, IF unsets THEN new \ {"export", "readonly"} ELSE new,
               old.local)
setvareq(s, n, value, flags) ==
  IF n \in DOMAIN s.tab
  THEN IF "readonly" \in s.tab[n].flags THEN Error(s) ELSE Replaced(s, n, value, flags)
  ELSE IF flags \cap (Marks \cup {"strfixed"}) = {"unset"} THEN s
  ELSE Put(s, n, value, With(s, flags), 0)

\* setvar looks at the name first.
setvar(s, n, value, flags) ==
  IF n \in Bad THEN Error(s) ELSE setvareq(s, n, value, flags)
unsetvar(s, n) == setvar(s, n, "", {"unset"})
-----------------------------------------------------------------------------
(* Scopes.                                                                 *)

\* mklocal: the entry is linked before the variable is created, which may fail.
Link(s, l) == [s EXCEPT !.stack[Len(s.stack)].lv = <<l>> \o @]
NewEntry(s, n) ==
  [vp |-> n, flags |-> {"unset"}, text |-> "static", local |-> 0, opts |-> s.opts]
Entry(s, n) ==
  [vp |-> n, flags |-> s.tab[n].flags, text |-> s.tab[n].text,
   local |-> s.tab[n].local, opts |-> s.opts]
Create(s, n, values) ==
  LET t == IF values = {} THEN setvar(s, n, "", {"strfixed", "unset"})
           ELSE setvareq(s, n, CHOOSE v \in values : TRUE, {"strfixed"})
  IN  IF t.err = "error"
      THEN Error(Link(s, [NewEntry(s, n) EXCEPT !.vp = "uninitialised"]))
      ELSE Link([t EXCEPT !.tab[n].local = Len(s.stack)], NewEntry(s, n))
Attach_removable(s, n) ==
  Link([s EXCEPT !.tab[n].flags = @ \cup {"textfixed"}, !.tab[n].local = Len(s.stack)],
       Entry(s, n))
Attach(s, n) ==
  Link([s EXCEPT !.tab[n].flags = @ \cup {"strfixed", "textfixed"},
                 !.tab[n].local = Len(s.stack)],
       Entry(s, n))

\* values holds the value of name=value, or nothing.
mklocal(s, n, values) ==
  LET vpl == IF n \in DOMAIN s.tab THEN s.tab[n].local ELSE 0 IN
    IF vpl # Len(s.stack) /\ n \notin DOMAIN s.tab THEN Create(s, n, values)
    ELSE LET t == IF vpl = Len(s.stack) THEN s ELSE Attach(s, n) IN
           IF values = {} THEN t ELSE setvareq(t, n, CHOOSE v \in values : TRUE, {})
mklocalopts(s) == IF s.stack = <<>> THEN s ELSE Link(s, NewEntry(s, "-"))

\* poplocalvars, one entry: what was assigned is kept, or undone.  With keep,
\* an entry of "local -" is taken for one of a variable.
Crash(s) == [s EXCEPT !.err = "crash"]
KeepVar(s, l) ==
  LET v     == s.tab[l.vp]
      fresh == l.flags = {"unset"}
      bits  == {"strfixed"} \cup (IF ~fresh /\ v.text = l.text THEN {"textfixed"} ELSE {})
      t     == IF fresh \/ v.text = l.text THEN s ELSE FreeText(s, l)
      flags == (v.flags \ bits) \cup (l.flags \cap bits)
      u     == [t EXCEPT !.tab[l.vp].flags = flags, !.tab[l.vp].local = l.local]
  IN  IF flags \cap (Marks \cup {"strfixed"}) = {"unset"} THEN unsetvar(u, l.vp) ELSE u
PopFresh_readonly(s, l) ==
  unsetvar([s EXCEPT !.tab[l.vp].flags = @ \ {"strfixed"},
                     !.tab[l.vp].local = l.local], l.vp)
PopFresh(s, l) ==
  unsetvar([s EXCEPT !.tab[l.vp].flags = @ \ {"strfixed", "readonly"},
                     !.tab[l.vp].local = l.local], l.vp)
Restore(s, l) ==
  [s EXCEPT !.tab[l.vp] = [flags |-> l.flags, text |-> l.text, local |-> l.local]]
PopVar_free(s, l) ==
  IF l.flags = {"unset"} THEN PopFresh(s, l)
  ELSE Restore(Tell(s, l.vp, s.heap[l.text]), l)
PopVar_silent(s, l) ==
  IF l.flags = {"unset"} THEN PopFresh(s, l)
  ELSE Restore(FreeText(s, s.tab[l.vp]), l)
PopVar(s, l) ==
  IF l.flags = {"unset"} THEN PopFresh(s, l)
  ELSE Restore(FreeText(Tell(s, l.vp, s.heap[l.text]), s.tab[l.vp]), l)
PopEntry(s, l, keep) ==
  IF s.err # "none" THEN s
  ELSE IF l.vp = "uninitialised" \/ (keep /\ l.vp = "-") THEN Crash(s)
  ELSE IF l.vp = "-" THEN [s EXCEPT !.opts = l.opts]
  ELSE IF keep THEN KeepVar(s, l) ELSE PopVar(s, l)
poplocalvars(s, keep) ==
  LET lv == Last(s.stack).lv
      popped[i \in 0 .. Len(lv)] ==
        IF i = 0 THEN [s EXCEPT !.stack = SubSeq(@, 1, Len(@) - 1)]
        ELSE PopEntry(popped[i - 1], lv[i], keep)
  IN  popped[Len(lv)]
-----------------------------------------------------------------------------
(* Commands.                                                               *)

Depth == Len(localvar_stack)
Kind == localvar_stack[Depth].kind
Locals == UNION {{<<k, i>> : i \in DOMAIN localvar_stack[k].lv} : k \in 1 .. Depth}
Space(n) ==  \* bound
  Depth = 0 \/ Cardinality(Locals) < MaxLocals \/ (n \in DOMAIN vartab /\ vartab[n].local = Depth)
Good == names \ Bad

\* A function of var.c is called; if it calls sh_error, Raise may follow, or
\* a builtin that catches the error.
Run(s) ==
  /\ Become(s) /\ pc' = IF s.err = "crash" THEN "crash" ELSE pc
  /\ UNCHANGED inherited

\* evalcommand begins, and makes the assignments in front of its command.
pushlocalvars ==
  /\ pc = "run" /\ Depth < MaxDepth
  /\ Depth > 0 => Kind # "command"
  /\ localvar_stack' = Append(localvar_stack, [kind |-> "command", lv |-> <<>>])
  /\ UNCHANGED <<names, vartab, heap, inherited, aflag, told, pc>>
Assignment ==
  /\ pc = "run" /\ Depth > 0 /\ Kind = "command"
  /\ \E n \in Good, v \in Values : Space(n) /\ Run(mklocal(State, n, {v}))

\* The assignments of a special builtin, or of no command, are kept; a function
\* or another builtin (command eval) runs commands in the scope.
SpecialBuiltin ==
  /\ pc = "run" /\ Depth > 0 /\ Kind = "command"
  /\ Run(poplocalvars(State, TRUE))
Body ==
  /\ pc = "run" /\ Depth > 0 /\ Kind = "command"
  /\ \E k \in {"function", "builtin"} :
       localvar_stack' = [localvar_stack EXCEPT ![Depth].kind = k]
  /\ UNCHANGED <<names, vartab, heap, inherited, aflag, told, pc>>

\* unwindlocalvars at the end of evalcommand.
EndCommand ==
  /\ pc = "run" /\ Depth > 0 /\ Run(poplocalvars(State, FALSE))

\* An error reaches main: reset(0).
Raise ==
  /\ pc = "run" /\ Depth > 0 /\ pc' = "unwind"
  /\ UNCHANGED <<names, vartab, heap, localvar_stack, inherited, aflag, told>>
Unwind ==
  /\ pc = "unwind"
  /\ IF Depth > 0
     THEN Run(poplocalvars(State, FALSE))
     ELSE pc' = "run" /\ UNCHANGED <<names, vartab, heap, localvar_stack, inherited, aflag, told>>

\* The builtins.  (Their own scope is gone when they run, as that of local.)
Idle == pc = "run" /\ (Depth > 0 => Kind # "command")
InFunction ==  \* funcnest
  inherited \/ \E k \in 1 .. Depth : localvar_stack[k].kind = "function"
exportcmd ==
  /\ Idle
  /\ \E n \in Good, flag \in {"export", "readonly"} :
       \/ \E v \in Values : Run(setvar(State, n, v, {flag}))
       \/ Run(IF n \in DOMAIN vartab THEN [State EXCEPT !.tab[n].flags = @ \cup {flag}]
              ELSE setvar(State, n, "", {flag, "unset"}))
unsetcmd ==
  /\ Idle /\ \E n \in Good : Run(unsetvar(State, n))
\* read, for, getopts and arithmetic.
Sets ==
  /\ Idle
  /\ \E n \in Good, v \in Values : Run(setvar(State, n, v, {}))
localcmd ==
  /\ Idle /\ InFunction
  /\ \/ \E n \in names, values \in {{}} \cup {{v} : v \in Values} :
          Space(n) /\ Run(mklocal(State, n, values))
     \/ Space("-") /\ Run(mklocalopts(State))
SetOption == Idle /\ Run([State EXCEPT !.opts = ~@])

\* reset(1) in a subshell keeps what is assigned.
Subshell ==
  /\ Idle /\ pc' = "child" /\ inherited' = InFunction
  /\ UNCHANGED <<names, vartab, heap, localvar_stack, aflag, told>>
Drop ==
  /\ pc = "child"
  /\ IF Depth > 0
     THEN Run(poplocalvars(State, TRUE))
     ELSE pc' = "run" /\ UNCHANGED <<names, vartab, heap, localvar_stack, inherited, aflag, told>>

Scopes == pushlocalvars \/ Assignment \/ SpecialBuiltin \/ Body \/ EndCommand
          \/ Raise \/ Unwind \/ Subshell \/ Drop
Builtins == exportcmd \/ unsetcmd \/ Sets \/ localcmd \/ SetOption
Next == Scopes \/ Builtins

Spec == Init /\ [][Next]_vars
-----------------------------------------------------------------------------
(* Properties.                                                             *)

\* The types of the variables; no function is called with a text that is free.
TypeOK ==
  /\ names \subseteq Names /\ DOMAIN vartab \subseteq Names
  /\ \A n \in DOMAIN vartab : vartab[n] \in Var
  /\ heap \in [Cells -> Texts \cup {"free"}]
  /\ localvar_stack \in Seq([kind : Kinds, lv : Seq(Saved)])
  /\ aflag \in BOOLEAN /\ inherited \in BOOLEAN /\ told \in [Special -> Texts]
  /\ pc \in {"run", "unwind", "child", "crash"}

EntryAt(e) == localvar_stack[e[1]].lv[e[2]]
SavesText(l) == l.vp \in Names /\ l.flags # {"unset"}
Owners(c) ==
  {n \in DOMAIN vartab : vartab[n].text = c /\ "textfixed" \notin vartab[n].flags}
  \cup {e \in Locals : SavesText(EntryAt(e)) /\ EntryAt(e).text = c
                        /\ "textfixed" \notin EntryAt(e).flags}
Pointers == {vartab[n].text : n \in DOMAIN vartab}
            \cup {EntryAt(e).text : e \in {f \in Locals : SavesText(EntryAt(f))}}
\* setvareq, mklocal, poplocalvars: every text on the heap is owned once, by
\* the variable that holds it or by an entry that saved it, whichever has no
\* VTEXTFIXED.  So no text is freed twice or never, and none is used after it
\* was freed.
TextsOwned ==
  TypeOK /\ (pc # "crash" =>
    /\ \A c \in Heap :
         Cardinality(Owners(c)) = IF heap[c] = "free" THEN 0 ELSE 1
    /\ \A c \in Pointers : heap[c] # "free")

\* setvareq and poplocalvars: a variable that a scope saved is never removed,
\* whatever unset and inner scopes do, and knows the innermost such scope.
InUse ==
  pc # "crash" =>
    \A e \in Locals : EntryAt(e).vp \in Names =>
      /\ EntryAt(e).vp \in DOMAIN vartab
      /\ "strfixed" \in vartab[EntryAt(e).vp].flags
      /\ vartab[EntryAt(e).vp].local >= e[1]

\* setvareq and poplocalvars: what a variable of varinit controls (the cache of
\* commands, mail, the locale) is told of every change of its value, the return
\* to an outer scope included.
Value(n) ==
  IF "unset" \in vartab[n].flags THEN "" ELSE heap[vartab[n].text]
Told == pc # "crash" => \A n \in Special : told[n] = Value(n)

\* Var implements Env: at any nesting of commands, functions, errors and
\* subshells, a scope that is left gives back every value and mark it saved,
\* a special builtin keeps what was assigned, and no other step touches them.
Seen(flags, text) ==
  [val |-> IF "unset" \in flags THEN "unset" ELSE heap[text],
   export |-> "export" \in flags, readonly |-> "readonly" \in flags]
Absent == [val |-> "unset", export |-> FALSE, readonly |-> FALSE]
SavedBy(lv, n) == {i \in DOMAIN lv : lv[i].vp = n}
ScopeOf(lv) ==
  [vars |-> [n \in {m \in Names : SavedBy(lv, m) # {}} |->
               LET l == lv[CHOOSE i \in SavedBy(lv, n) : TRUE] IN
                 IF SavesText(l) THEN Seen(l.flags, l.text) ELSE Absent],
   options |-> IF SavedBy(lv, "-") = {} THEN {}
               ELSE {lv[CHOOSE i \in SavedBy(lv, "-") : \A k \in SavedBy(lv, "-") : k <= i].opts}]
Variables ==
  [n \in Names |-> IF n \in DOMAIN vartab THEN Seen(vartab[n].flags, vartab[n].text) ELSE Absent]
Remembered == [k \in 1 .. Depth |-> ScopeOf(localvar_stack[k].lv)]
Abstract ==
  INSTANCE Env WITH Values <- Texts, view <- Variables, options <- aflag, scopes <- Remembered
Refines == [][pc' # "crash" => Abstract!Next \/ UNCHANGED Abstract!vars]_vars
=============================================================================
