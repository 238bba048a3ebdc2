---------------------------- MODULE MCEnrolment ----------------------------
(***************************************************************************)
(* Enrolment for TLC: of four runs, p1 and p2 give the same label, p3 a    *)
(* port that no daemon accepts and p4 a label that is refused.  A          *)
(* configuration is as long as it has hosts.                               *)
(***************************************************************************)
EXTENDS Enrolment, FiniteSets

CONSTANTS p1, p2, p3, p4

Given == [p \in Setups |-> CASE p \in {p1, p2} -> "dev" [] p = p3 -> "lab" [] OTHER -> "-x"]
Accepted == {"dev", "lab"}
Ports == [p \in Setups |-> IF p = p3 THEN MaxPort + 1 ELSE IF p = p2 THEN MaxPort ELSE 0]
Lengths == [c \in Configs |-> Cardinality(c.hosts)]
=============================================================================
