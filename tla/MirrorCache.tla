---------------------------- MODULE MirrorCache ----------------------------
(***************************************************************************)
(* What the package comment of internal/mirror/mirror.go promises of the   *)
(* mirror when no mirrored path lies inside another: re-opening a path     *)
(* replaces the old copy in one step; a copy the user edited since its     *)
(* sync is replaced only on demand (force) and never evicted.              *)
(***************************************************************************)
CONSTANT Slots      \* the mirrored paths

VARIABLES
    present,    \* the slots that have a local copy
    edited,     \* the slots whose copy the user edited since its sync
    demanded    \* the slots a request in flight was told to overwrite

vars == <<present, edited, demanded>>

Init == present = {} /\ edited = {} /\ demanded = {}

Demand(s) ==
    /\ s \notin demanded
    /\ demanded' = demanded \cup {s}
    /\ UNCHANGED <<present, edited>>

Settle(s) ==
    /\ s \in demanded
    /\ demanded' = demanded \ {s}
    /\ UNCHANGED <<present, edited>>

Replace(s) ==
    /\ s \in edited => s \in demanded
    /\ present' = present \cup {s}
    /\ edited' = edited \ {s}
    /\ UNCHANGED demanded

Edit(s) ==
    /\ s \in present
    /\ edited' = edited \cup {s}
    /\ UNCHANGED <<present, demanded>>

\* Eviction, or the user deleting a copy.
Remove(s) ==
    /\ s \in present \ edited
    /\ present' = present \ {s}
    /\ UNCHANGED <<edited, demanded>>

Next == \E s \in Slots : \/ Demand(s)
                         \/ Settle(s)
                         \/ Replace(s)
                         \/ Edit(s)
                         \/ Remove(s)

Spec == Init /\ [][Next]_vars
=============================================================================
