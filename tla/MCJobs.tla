------------------------------- MODULE MCJobs -------------------------------
(***************************************************************************)
(* Instances of Jobs for TLC.                                              *)
(***************************************************************************)
EXTENDS Jobs

OK == {"exit0"}
Off == {FALSE}
On == {TRUE}
Both == {TRUE, FALSE}
=============================================================================
