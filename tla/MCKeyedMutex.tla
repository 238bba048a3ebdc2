---------------------------- MODULE MCKeyedMutex ----------------------------
(***************************************************************************)
(* KeyedMutex for TLC: three handlers, two slots and as many mutex objects *)
(* as handlers.  Three handlers are what it takes for one to leave while   *)
(* another waits and a third arrives.                                      *)
(***************************************************************************)
EXTENDS KeyedMutex
=============================================================================
