-------------------------------- MODULE MCStack --------------------------------
(***************************************************************************)
(* An instance of Stack for TLC.  Beside the first block malloc has two:   *)
(* one can be made larger while the other is in use, or move to it, and    *)
(* both are used again.  The sizes are a character, less than a block, and *)
(* more than one.                                                          *)
(***************************************************************************)
EXTENDS Stack
TwoBlocks == {1, 2}
SomeSizes == {1, 3, 5}
===============================================================================
