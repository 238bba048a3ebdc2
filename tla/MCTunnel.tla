------------------------------ MODULE MCTunnel ------------------------------
(***************************************************************************)
(* Tunnel for TLC: two faults, one visit of lssh, whose config is the      *)
(* shorter one, and enough shells for every attempt a fault leaves behind. *)
(***************************************************************************)
EXTENDS Tunnel

Lengths == [v \in {Own, Foreign} |-> IF v = Own THEN 2 ELSE 1]
=============================================================================
