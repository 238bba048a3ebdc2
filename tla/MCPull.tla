------------------------------- MODULE MCPull -------------------------------
(***************************************************************************)
(* Pull for TLC: payloads from nothing to four bytes more than the cap,    *)
(* through a pipe of two bytes.                                            *)
(***************************************************************************)
EXTENDS Pull
=============================================================================
