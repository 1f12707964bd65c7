------------------------------- MODULE MCTrap -------------------------------
(* Small instances of Trap for TLC.                                        *)
EXTENDS Trap

KindSafety == <<"int", "stop">>
KindLive   == <<"plain", "chld", "int">>
KindPlain  == <<"plain", "plain">>
Batch == {FALSE}
Both  == {TRUE, FALSE}
=============================================================================
