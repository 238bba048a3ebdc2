------------------------------ MODULE SlotLock ------------------------------
(***************************************************************************)
(* What the handlers of lopend ask of keyedMutex: one lock per mirror slot.*)
(* A handler announces that it wants a slot, is granted it once no other   *)
(* handler holds that slot, and gives it back.  Different slots are        *)
(* independent.  KeyedMutex implements this specification.                 *)
(***************************************************************************)
CONSTANTS
    Procs,      \* the handler goroutines
    Keys        \* the mirror slots (the string keys)

VARIABLES
    waiting,    \* waiting[k]: the handlers that asked for k and were not granted it
    holders     \* holders[k]: the handlers that were granted k

vars == <<waiting, holders>>

Init ==
    /\ waiting = [k \in Keys |-> {}]
    /\ holders = [k \in Keys |-> {}]

Free(p) == \A k \in Keys : p \notin waiting[k] \cup holders[k]

Ask(p, k) ==
    /\ Free(p)
    /\ waiting' = [waiting EXCEPT ![k] = @ \cup {p}]
    /\ UNCHANGED holders

Grant(p, k) ==
    /\ p \in waiting[k]
    /\ holders[k] = {}
    /\ waiting' = [waiting EXCEPT ![k] = @ \ {p}]
    /\ holders' = [holders EXCEPT ![k] = {p}]

Release(p, k) ==
    /\ p \in holders[k]
    /\ holders' = [holders EXCEPT ![k] = @ \ {p}]
    /\ UNCHANGED waiting

Next == \E p \in Procs, k \in Keys : Ask(p, k) \/ Grant(p, k) \/ Release(p, k)

Spec == Init /\ [][Next]_vars
=============================================================================
