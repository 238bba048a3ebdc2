----------------------------- MODULE MCServer -----------------------------
(***************************************************************************)
(* Server for TLC: two tunnels, two slots and three connections, two of    *)
(* them for one slot and two of them through one tunnel; two handlers at a *)
(* time, so that the third connection finds the semaphore full.            *)
(***************************************************************************)
EXTENDS Server

CONSTANTS c1, c2, c3, t1, t2, s1, s2

Through == [c \in Conns |-> IF c = c3 THEN t2 ELSE t1]
Names == [c \in Conns |-> IF c = c2 THEN s2 ELSE s1]
=============================================================================
