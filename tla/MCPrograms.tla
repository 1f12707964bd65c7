------------------------------- MODULE MCPrograms -------------------------------
(* All programs of two levels, within contexts of up to three more.          *)
EXTENDS Meaning

Leaf == {Cmd(c) : c \in {"true", "false", "tick", "break", "break 2", "continue", "continue 2", "return", "return 3",
                         "exit", "expansion error", "special error", "error"}}
Some == {Cmd(c) : c \in {"false", "tick", "break 2", "continue", "return 3"}}
One(S) ==
  {Not(a) : a \in S} \cup {For(a) : a \in S} \cup {Subshell(a) : a \in S} \cup {Function(a) : a \in S}
    \cup {Eval(a) : a \in S} \cup {Dot(a) : a \in S} \cup {Redir(a, f) : a \in S, f \in BOOLEAN}
Two(S, T) ==
  {And(a, b) : a \in S, b \in T} \cup {Or(a, b) : a \in S, b \in T} \cup {Semi(a, b) : a \in S, b \in T}
    \cup {While(a, b) : a \in S, b \in T} \cup {Until(a, b) : a \in S, b \in T}
    \cup {Case(a, f, b) : a \in S, b \in T, f \in BOOLEAN}
    \cup {If(a, b, None) : a \in S, b \in T} \cup {If(a, b, Cmd("tick")) : a \in S, b \in T}
Small == One(Leaf) \cup Two(Leaf, Some) \cup Two(Some, Leaf)
Tick == Cmd("tick")
In(a) ==
  {a, Semi(For(Semi(a, Tick)), Tick), Semi(For(For(a)), Tick), While(Tick, Semi(a, Tick)), For(While(a, Tick)),
   For(Semi(Function(a), Tick)), Semi(Function(For(a)), Tick), Or(Semi(a, Tick), Tick), For(Dot(Eval(a))),
   Function(Or(Dot(a), Tick)), Semi(Subshell(For(a)), Tick), Semi(Redir(Not(a), FALSE), Tick),
   If(Semi(a, Cmd("false")), Tick, Semi(Tick, Tick)), Subshell(Case(Function(a), TRUE, Tick))}
Programs == UNION {In(a) : a \in Small}
Lines == {Semi(Cmd("break"), Tick), Cmd("false")}
===============================================================================
