------------------------------- MODULE MCRedir -------------------------------
(***************************************************************************)
(* Instances of Redir for TLC.                                             *)
(***************************************************************************)
EXTENDS Redir

OneFile == {"a"}
=============================================================================
