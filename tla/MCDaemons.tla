----------------------------- MODULE MCDaemons -----------------------------
(***************************************************************************)
(* Daemons for TLC: three processes, so that one can load its files while  *)
(* the second is still up and the third comes after both.                  *)
(***************************************************************************)
EXTENDS Daemons, TLC

Interchangeable == Permutations(Daemons) \cup Permutations(Hosts) \cup Permutations(Entries)
=============================================================================
