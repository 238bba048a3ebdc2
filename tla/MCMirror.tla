------------------------------ MODULE MCMirror ------------------------------
(***************************************************************************)
(* Mirror for TLC.  The mirror of one host is a root directory h with a    *)
(* file f and a directory a; a holds files x and y and a directory b.  A   *)
(* .cfg picks the part of the tree it needs and which paths are slots.     *)
(***************************************************************************)
EXTENDS Mirror, TLC

CONSTANTS h, f, a, x, y, b

Inside == {<<f, h>>, <<a, h>>, <<x, h>>, <<y, h>>, <<b, h>>, <<x, a>>, <<y, a>>, <<b, a>>}

WithinLayout == {w \in Inside : w[1] \in Paths /\ w[2] \in Paths}

\* Requests differ only by the stamp they deliver, and so do edits.
Interchangeable == Permutations(Requests) \cup Permutations(Edits)
=============================================================================
