-------------------------------- MODULE MCExec --------------------------------
(***************************************************************************)
(* Instances of Exec for TLC: an absolute directory that can be the        *)
(* current one, two others, and one of function files.                     *)
(***************************************************************************)
EXTENDS Exec

Dirs == {"A", "d", "F"}
NamesXB == {"x", "b"}
OnlyB == {"b"}
None == {}
TwoBodies == {1, 2}
BothPaths == {<<".", "A">>, <<"A", ".">>}
StdPath == <<"A", ".">>
FunctionPath == <<"F">>
TwoCwds == {"A", "d"}
AllKinds == {"none", "dir", "plain", "exec"}

\* Files of the name x only: a builtin is never looked for in the file system.
\* At first x is not both a plain file in d and a function file.
Files ==
  {f \in [Dirs \X NamesXB -> AllKinds] :
     /\ \A d \in Dirs : f[d, "b"] = "none"
     /\ f["d", "x"] \in {"none", "plain", "exec"} /\ f["A", "x"] \in {"none", "exec"}
     /\ f["F", "x"] \in {"none", "plain"} /\ (f["d", "x"] = "plain" => f["F", "x"] = "none")}

Appears == {<<l, "x", k>> : l \in {"A", "d"}, k \in {"none", "exec"}}
==========================================================================
