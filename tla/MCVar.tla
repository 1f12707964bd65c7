-------------------------------- MODULE MCVar --------------------------------
(***************************************************************************)
(* Instances of Var for TLC.                                               *)
(***************************************************************************)
EXTENDS Var

CONSTANTS c1, c2, c3
ThreeCells == {c1, c2, c3}

\* Which free cell is allocated makes no difference.
Symmetry == Permutations(Heap)

X == {"x"}
Path == {"PATH"}
OneValue == {"1"}
=============================================================================
