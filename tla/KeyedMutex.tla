----------------------------- MODULE KeyedMutex -----------------------------
(***************************************************************************)
(* keyedMutex of internal/daemon/server.go: one mutex per mirror slot,     *)
(* allocated on demand in a map, reference counted, and dropped from the   *)
(* map by the last user.  The map and the counters are guarded by k.mu;    *)
(* the refMutex itself is locked after k.mu is left and unlocked before    *)
(* k.mu is taken again, so a slot's mutex changes hands while other        *)
(* handlers are between the two.                                           *)
(***************************************************************************)
EXTENDS Naturals, FiniteSets

CONSTANTS
    Procs,      \* the handler goroutines that call Lock
    Keys,       \* the mirror slots
    Mutexes,    \* the refMutex objects the allocator can return
    NoMutex,    \* nil: no refMutex
    NoKey       \* a handler that is using no slot

ASSUME ProcsFinite == IsFiniteSet(Procs)
ASSUME NullsAreNotValues == NoMutex \notin Mutexes /\ NoKey \notin Keys

VARIABLES
    locks,      \* keyedMutex.locks: the refMutex of a key, NoMutex when absent
    refs,       \* refMutex.refs
    held,       \* whether refMutex.mu is locked
    pc,         \* where each handler is in Lock and in the unlock function
    want,       \* the key each handler passed to Lock
    rm          \* the refMutex each handler's closure captured

vars == <<locks, refs, held, pc, want, rm>>

Init ==
    /\ locks = [k \in Keys |-> NoMutex]
    /\ refs = [m \in Mutexes |-> 0]
    /\ held = [m \in Mutexes |-> FALSE]
    /\ pc = [p \in Procs |-> "idle"]
    /\ want = [p \in Procs |-> NoKey]
    /\ rm = [p \in Procs |-> NoMutex]

\* No closure and no map entry refers to m: the allocator may return it.
Unreachable(m) ==
    /\ \A p \in Procs : rm[p] # m
    /\ \A k \in Keys : locks[k] # m

\* The section of Lock under k.mu: find or make the key's refMutex and
\* count one more reference to it.
Find(p, k, m) ==
    /\ locks[k] = m
    /\ refs' = [refs EXCEPT ![m] = @ + 1]
    /\ UNCHANGED <<locks, held>>

Make(p, k, m) ==
    /\ locks[k] = NoMutex
    /\ Unreachable(m)
    /\ locks' = [locks EXCEPT ![k] = m]
    /\ refs' = [refs EXCEPT ![m] = 1]
    /\ held' = [held EXCEPT ![m] = FALSE]

Lookup(p, k, m) ==
    /\ pc[p] = "idle"
    /\ Find(p, k, m) \/ Make(p, k, m)
    /\ pc' = [pc EXCEPT ![p] = "waiting"]
    /\ want' = [want EXCEPT ![p] = k]
    /\ rm' = [rm EXCEPT ![p] = m]

\* rm.mu.Lock() outside k.mu: Lock returns to the handler.
Acquire(p) ==
    /\ pc[p] = "waiting"
    /\ ~held[rm[p]]
    /\ held' = [held EXCEPT ![rm[p]] = TRUE]
    /\ pc' = [pc EXCEPT ![p] = "holding"]
    /\ UNCHANGED <<locks, refs, want, rm>>

\* Mutant of Unlock: the reference is given up but rm.mu stays locked.
UnlockForgotten(p) ==
    /\ pc[p] = "holding"
    /\ pc' = [pc EXCEPT ![p] = "leaving"]
    /\ UNCHANGED <<locks, refs, held, want, rm>>

\* The first statement of the function Lock returns.
Unlock(p) ==
    /\ pc[p] = "holding"
    /\ held' = [held EXCEPT ![rm[p]] = FALSE]
    /\ pc' = [pc EXCEPT ![p] = "leaving"]
    /\ UNCHANGED <<locks, refs, want, rm>>

Leave(p) ==
    /\ pc[p] = "leaving"
    /\ pc' = [pc EXCEPT ![p] = "idle"]
    /\ want' = [want EXCEPT ![p] = NoKey]
    /\ rm' = [rm EXCEPT ![p] = NoMutex]
    /\ UNCHANGED held

\* Mutants of Drop: every user removes the entry; no user does.
DropAlways(p) ==
    /\ Leave(p)
    /\ refs' = [refs EXCEPT ![rm[p]] = @ - 1]
    /\ locks' = [locks EXCEPT ![want[p]] = NoMutex]

DropNever(p) ==
    /\ Leave(p)
    /\ refs' = [refs EXCEPT ![rm[p]] = @ - 1]
    /\ UNCHANGED locks

\* Under k.mu again: the last user deletes the map entry.
Drop(p) ==
    /\ Leave(p)
    /\ refs' = [refs EXCEPT ![rm[p]] = @ - 1]
    /\ locks' = [locks EXCEPT ![want[p]] = IF refs[rm[p]] = 1 THEN NoMutex ELSE @]

Next ==
    \E p \in Procs :
        \/ \E k \in Keys, m \in Mutexes : Lookup(p, k, m)
        \/ Acquire(p)
        \/ Unlock(p)
        \/ Drop(p)

Spec == Init /\ [][Next]_vars

\* A handler that holds a slot gives it back (a request ends: see Server) and
\* runs the rest of its unlock function; sync.Mutex hands a mutex to a waiter
\* that it has kept waiting (starvation mode), hence strong fairness.
Fairness ==
    \A p \in Procs : /\ SF_vars(Acquire(p))
                     /\ WF_vars(Unlock(p))
                     /\ WF_vars(Drop(p))

LiveSpec == Spec /\ Fairness
-----------------------------------------------------------------------------
Users(m) == {p \in Procs : rm[p] = m}
Holders(k) == {p \in Procs : pc[p] = "holding" /\ want[p] = k}
Waiters(k) == {p \in Procs : pc[p] = "waiting" /\ want[p] = k}

TypeOK ==
    /\ locks \in [Keys -> Mutexes \cup {NoMutex}]
    /\ refs \in [Mutexes -> Nat]
    /\ held \in [Mutexes -> BOOLEAN]
    /\ pc \in [Procs -> {"idle", "waiting", "holding", "leaving"}]
    /\ want \in [Procs -> Keys \cup {NoKey}]
    /\ rm \in [Procs -> Mutexes \cup {NoMutex}]
    /\ \A p \in Procs : /\ pc[p] = "idle" <=> want[p] = NoKey
                        /\ pc[p] = "idle" <=> rm[p] = NoMutex

(***************************************************************************)
(* "Two requests for the same slot serialize": two handlers never hold the *)
(* lock of one key at the same time, whatever mutex objects they locked.   *)
(***************************************************************************)
MutualExclusion ==
    \A p, q \in Procs :
        (pc[p] = "holding" /\ pc[q] = "holding" /\ want[p] = want[q]) => p = q

(***************************************************************************)
(* Two handlers of one slot that overlap anywhere between their Lock call  *)
(* and the end of their unlock use the same mutex, and it is the one in    *)
(* the map: a late arrival can neither miss the mutex nor keep a dropped   *)
(* one.                                                                    *)
(***************************************************************************)
SharedMutex == \A p \in Procs : pc[p] # "idle" => locks[want[p]] = rm[p]

(***************************************************************************)
(* "The map cannot grow without bound": an entry lives exactly as long as  *)
(* some handler uses its key, and the count is the number of such handlers.*)
(***************************************************************************)
NoLeak ==
    \A k \in Keys : locks[k] # NoMutex =>
        /\ \E p \in Procs : want[p] = k
        /\ refs[locks[k]] = Cardinality(Users(locks[k]))

(***************************************************************************)
(* Requests for different slots do not block each other: a handler waits   *)
(* only while another handler holds the very slot it asked for.            *)
(***************************************************************************)
BlockedOnlyBySameSlot ==
    \A p \in Procs : (pc[p] = "waiting" /\ held[rm[p]]) => Holders(want[p]) # {}

(***************************************************************************)
(* The map, the counters and the mutexes together are one lock per slot.   *)
(***************************************************************************)
Slots == INSTANCE SlotLock WITH
    waiting <- [k \in Keys |-> Waiters(k)],
    holders <- [k \in Keys |-> Holders(k)]

ImplementsSlotLock == Slots!Spec

(***************************************************************************)
(* Every handler that calls Lock is eventually given its slot.             *)
(***************************************************************************)
EveryWaiterIsServed == \A p \in Procs : pc[p] = "waiting" ~> pc[p] = "holding"
=============================================================================
