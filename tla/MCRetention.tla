---------------------------- MODULE MCRetention ----------------------------
(***************************************************************************)
(* Retention for TLC: every index of three entries of size 0 to 2, every   *)
(* state of their copies, every number of expired ones and three caps.     *)
(***************************************************************************)
EXTENDS Retention
=============================================================================
