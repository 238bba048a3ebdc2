-------------------------- MODULE KeyedMutexProofs --------------------------
(***************************************************************************)
(* For every set of handlers, slots and mutex objects, keyedMutex is one   *)
(* lock per slot and its map holds nothing but the slots in use.           *)
(*                                                                         *)
(* Mutual exclusion alone is not inductive: it needs that all users of a   *)
(* slot captured the mutex that is in the map (SharedMutex), that a mutex  *)
(* serves one slot (OneSlotEach), and that a mutex has a locker exactly    *)
(* while it is locked (HeldByOne, LockedForAHolder).  That a user's mutex  *)
(* stays in the map rests in turn on the counters being exact (RefsExact). *)
(***************************************************************************)
EXTENDS KeyedMutex, FiniteSetTheorems, TLAPS

OneSlotEach ==
    \A k, l \in Keys : (locks[k] # NoMutex /\ locks[k] = locks[l]) => k = l

RefsExact == \A m \in Mutexes : refs[m] = Cardinality(Users(m))

MappedIsUsed == \A k \in Keys : locks[k] # NoMutex => Users(locks[k]) # {}

HeldByOne ==
    \A p \in Procs : pc[p] = "holding" =>
        /\ held[rm[p]]
        /\ \A q \in Procs : (pc[q] = "holding" /\ rm[q] = rm[p]) => q = p

LockedForAHolder ==
    \A m \in Mutexes : held[m] => \E p \in Procs : pc[p] = "holding" /\ rm[p] = m

IInv ==
    /\ TypeOK
    /\ SharedMutex
    /\ OneSlotEach
    /\ RefsExact
    /\ MappedIsUsed
    /\ HeldByOne
    /\ LockedForAHolder
-----------------------------------------------------------------------------
(***************************************************************************)
(* The counter arithmetic: a handler that captures m adds one user, one    *)
(* that lets go of it takes one away.                                      *)
(***************************************************************************)
LEMMA UsersFinite == \A m : IsFiniteSet(Users(m)) /\ Cardinality(Users(m)) \in Nat
  BY ProcsFinite, FS_Subset, FS_CardinalityType, SMT DEF Users

LEMMA Capture ==
  ASSUME NEW p \in Procs, NEW m \in Mutexes,
         rm \in [Procs -> Mutexes \cup {NoMutex}], rm[p] = NoMutex,
         rm' = [rm EXCEPT ![p] = m]
  PROVE  /\ Cardinality(Users(m)') = Cardinality(Users(m)) + 1
         /\ \A n \in Mutexes : n # m => Users(n)' = Users(n)
  <1>1. p \notin Users(m)
    BY NullsAreNotValues DEF Users
  <1>2. Users(m)' = Users(m) \cup {p}
    BY DEF Users
  <1>3. Cardinality(Users(m) \cup {p}) = Cardinality(Users(m)) + 1
    BY <1>1, UsersFinite, FS_AddElement
  <1>4. \A n \in Mutexes : n # m => Users(n)' = Users(n)
    BY NullsAreNotValues DEF Users
  <1> QED BY <1>2, <1>3, <1>4

LEMMA LetGo ==
  ASSUME NEW p \in Procs, NEW m \in Mutexes,
         rm \in [Procs -> Mutexes \cup {NoMutex}], rm[p] = m,
         rm' = [rm EXCEPT ![p] = NoMutex]
  PROVE  /\ Cardinality(Users(m)') = Cardinality(Users(m)) - 1
         /\ Users(m)' = Users(m) \ {p}
         /\ \A n \in Mutexes : n # m => Users(n)' = Users(n)
  <1>1. p \in Users(m)
    BY DEF Users
  <1>2. Users(m)' = Users(m) \ {p}
    BY NullsAreNotValues DEF Users
  <1>3. Cardinality(Users(m) \ {p}) = Cardinality(Users(m)) - 1
    BY <1>1, UsersFinite, FS_RemoveElement
  <1>4. \A n \in Mutexes : n # m => Users(n)' = Users(n)
    BY NullsAreNotValues DEF Users
  <1> QED BY <1>2, <1>3, <1>4

LEMMA NoUsers == \A m : Users(m) = {} <=> Cardinality(Users(m)) = 0
  BY UsersFinite, FS_EmptySet
-----------------------------------------------------------------------------
LEMMA Initially == Init => IInv
  <1> SUFFICES ASSUME Init PROVE IInv
    OBVIOUS
  <1>1. TypeOK
    BY NullsAreNotValues DEF Init, TypeOK
  <1>2. \A m \in Mutexes : Users(m) = {}
    BY NullsAreNotValues DEF Init, Users
  <1>3. RefsExact
    BY <1>2, NoUsers DEF Init, RefsExact
  <1> QED
    BY <1>1, <1>3 DEF Init, IInv, SharedMutex, OneSlotEach, MappedIsUsed,
                      HeldByOne, LockedForAHolder

LEMMA LookupKeepsIInv ==
  ASSUME IInv, NEW p \in Procs, NEW k \in Keys, NEW m \in Mutexes, Lookup(p, k, m)
  PROVE  IInv'
  <1> USE NullsAreNotValues DEF IInv, Lookup
  <1>0. rm[p] = NoMutex /\ pc[p] = "idle" /\ want[p] = NoKey
    BY DEF TypeOK
  <1>1. TypeOK'
    <2>1. refs' \in [Mutexes -> Nat] /\ locks' \in [Keys -> Mutexes \cup {NoMutex}]
      BY DEF TypeOK, Find, Make
    <2>2. held' \in [Mutexes -> BOOLEAN]
      BY DEF TypeOK, Find, Make
    <2>3. /\ pc' \in [Procs -> {"idle", "waiting", "holding", "leaving"}]
          /\ want' \in [Procs -> Keys \cup {NoKey}]
          /\ rm' \in [Procs -> Mutexes \cup {NoMutex}]
      BY DEF TypeOK
    <2>4. ASSUME NEW q \in Procs
          PROVE  /\ pc'[q] = "idle" <=> want'[q] = NoKey
                 /\ pc'[q] = "idle" <=> rm'[q] = NoMutex
      BY DEF TypeOK
    <2> QED BY <2>1, <2>2, <2>3, <2>4 DEF TypeOK
  <1>2. /\ Cardinality(Users(m)') = Cardinality(Users(m)) + 1
        /\ \A n \in Mutexes : n # m => Users(n)' = Users(n)
    BY <1>0, Capture DEF TypeOK
  <1>3. CASE Find(p, k, m)
    <2> USE <1>3 DEF Find
    <2>1. SharedMutex'
      BY <1>0 DEF SharedMutex, TypeOK
    <2>2. OneSlotEach'
      BY DEF OneSlotEach
    <2>3. RefsExact'
      BY <1>2 DEF RefsExact, TypeOK
    <2>4. p \in Users(m)'
      BY DEF Users, TypeOK
    <2>5. MappedIsUsed'
      BY <1>2, <2>4 DEF MappedIsUsed, TypeOK
    <2>6. HeldByOne'
      BY <1>0 DEF HeldByOne, TypeOK
    <2>7. LockedForAHolder'
      BY <1>0 DEF LockedForAHolder, TypeOK
    <2> QED BY <1>1, <2>1, <2>2, <2>3, <2>5, <2>6, <2>7
  <1>4. CASE Make(p, k, m)
    <2> USE <1>4 DEF Make
    <2>0. /\ \A q \in Procs : rm[q] # m
          /\ \A j \in Keys : locks[j] # m
          /\ Users(m) = {}
      BY DEF Unreachable, Users
    <2>1. SharedMutex'
      BY <1>0, <2>0 DEF SharedMutex, TypeOK
    <2>2. OneSlotEach'
      BY <2>0 DEF OneSlotEach, TypeOK
    <2>3. RefsExact'
      <3>1. Cardinality(Users(m)) = 0
        BY <2>0, FS_EmptySet
      <3>2. Cardinality(Users(m)') = 1
        BY <1>2, <3>1
      <3> QED BY <1>2, <3>2 DEF RefsExact, TypeOK
    <2>4. p \in Users(m)'
      BY DEF Users, TypeOK
    <2>5. MappedIsUsed'
      BY <1>2, <2>4 DEF MappedIsUsed, TypeOK
    <2>6. HeldByOne'
      BY <1>0, <2>0 DEF HeldByOne, TypeOK
    <2>7. LockedForAHolder'
      BY <1>0, <2>0 DEF LockedForAHolder, TypeOK
    <2> QED BY <1>1, <2>1, <2>2, <2>3, <2>5, <2>6, <2>7
  <1> QED BY <1>3, <1>4

LEMMA AcquireKeepsIInv ==
  ASSUME IInv, NEW p \in Procs, Acquire(p)
  PROVE  IInv'
  <1> USE NullsAreNotValues DEF IInv, Acquire
  <1>1. rm[p] \in Mutexes /\ TypeOK'
    BY DEF TypeOK
  <1>2. SharedMutex' /\ OneSlotEach'
    BY DEF SharedMutex, OneSlotEach, TypeOK
  <1>3. \A m \in Mutexes : Users(m)' = Users(m)
    BY DEF Users
  <1>4. RefsExact' /\ MappedIsUsed'
    BY <1>3 DEF RefsExact, MappedIsUsed, TypeOK
  <1>5. HeldByOne'
    BY <1>1 DEF HeldByOne, TypeOK
  <1>6. LockedForAHolder'
    BY <1>1 DEF LockedForAHolder, TypeOK
  <1> QED BY <1>1, <1>2, <1>4, <1>5, <1>6

LEMMA UnlockKeepsIInv ==
  ASSUME IInv, NEW p \in Procs, Unlock(p)
  PROVE  IInv'
  <1> USE NullsAreNotValues DEF IInv, Unlock
  <1>1. rm[p] \in Mutexes /\ TypeOK'
    BY DEF TypeOK
  <1>2. SharedMutex' /\ OneSlotEach'
    BY DEF SharedMutex, OneSlotEach, TypeOK
  <1>3. \A m \in Mutexes : Users(m)' = Users(m)
    BY DEF Users
  <1>4. RefsExact' /\ MappedIsUsed'
    BY <1>3 DEF RefsExact, MappedIsUsed, TypeOK
  <1>5. HeldByOne'
    BY <1>1 DEF HeldByOne, TypeOK
  <1>6. LockedForAHolder'
    BY <1>1 DEF LockedForAHolder, TypeOK
  <1> QED BY <1>1, <1>2, <1>4, <1>5, <1>6

LEMMA DropKeepsIInv ==
  ASSUME IInv, NEW p \in Procs, Drop(p),
         NEW m \in Mutexes, NEW k \in Keys, rm[p] = m, want[p] = k
  PROVE  IInv'
  <1> USE NullsAreNotValues DEF IInv, Drop, Leave
  <1>0. locks[k] = m
    BY DEF TypeOK, SharedMutex
  <1>1. /\ Cardinality(Users(m)') = Cardinality(Users(m)) - 1
        /\ Users(m)' = Users(m) \ {p}
        /\ \A n \in Mutexes : n # m => Users(n)' = Users(n)
    BY <1>0, LetGo DEF TypeOK
  <1>2. refs[m] = Cardinality(Users(m)) /\ p \in Users(m)
    BY <1>0 DEF RefsExact, Users
  <1>3. refs[m] \in Nat \ {0}
    BY <1>0, <1>2, NoUsers DEF TypeOK
  <1>4. refs[m] = 1 <=> Users(m)' = {}
    <2>1. Users(m) \ {p} = {} <=> Cardinality(Users(m) \ {p}) = 0
      BY UsersFinite, FS_RemoveElement, FS_EmptySet
    <2> QED BY <2>1, <1>1, <1>2, <1>3
  <1>5. TypeOK'
    <2>1. refs' \in [Mutexes -> Nat] /\ locks' \in [Keys -> Mutexes \cup {NoMutex}]
      BY <1>0, <1>3 DEF TypeOK
    <2>2. /\ pc' \in [Procs -> {"idle", "waiting", "holding", "leaving"}]
          /\ want' \in [Procs -> Keys \cup {NoKey}]
          /\ rm' \in [Procs -> Mutexes \cup {NoMutex}]
          /\ held' \in [Mutexes -> BOOLEAN]
      BY DEF TypeOK
    <2>3. ASSUME NEW q \in Procs
          PROVE  /\ pc'[q] = "idle" <=> want'[q] = NoKey
                 /\ pc'[q] = "idle" <=> rm'[q] = NoMutex
      BY DEF TypeOK
    <2> QED BY <2>1, <2>2, <2>3 DEF TypeOK
  <1>6. SharedMutex'
    <2> SUFFICES ASSUME NEW q \in Procs, pc'[q] # "idle"
                 PROVE  locks'[want'[q]] = rm'[q]
      BY DEF SharedMutex
    <2>1. q # p /\ want'[q] = want[q] /\ rm'[q] = rm[q] /\ pc[q] # "idle"
      BY DEF TypeOK
    <2>2. locks[want[q]] = rm[q] /\ want[q] \in Keys /\ rm[q] \in Mutexes
      BY <2>1 DEF SharedMutex, TypeOK
    <2>3. CASE want[q] # k
      BY <2>1, <2>2, <2>3 DEF TypeOK
    <2>4. CASE want[q] = k
      <3>1. rm[q] = m
        BY <2>2, <2>4, <1>0
      <3>2. q \in Users(m)'
        BY <2>1, <3>1, <1>1 DEF Users
      <3>3. refs[m] # 1
        BY <3>2, <1>4
      <3> QED BY <3>3, <3>1, <2>1, <2>2, <2>4 DEF TypeOK
    <2> QED BY <2>3, <2>4
  <1>7. OneSlotEach'
    BY <1>0 DEF OneSlotEach, TypeOK
  <1>8. RefsExact'
    BY <1>0, <1>1, <1>2 DEF RefsExact, TypeOK
  <1>9. MappedIsUsed'
    <2> SUFFICES ASSUME NEW j \in Keys, locks'[j] # NoMutex
                 PROVE  Users(locks[j])' # {}
      BY DEF MappedIsUsed
    <2>1. locks'[j] = locks[j] /\ locks[j] \in Mutexes /\ Users(locks[j]) # {}
      BY <1>0 DEF TypeOK, MappedIsUsed
    <2>2. PICK n \in Mutexes : n = locks[j]
      BY <2>1
    <2>3. Users(n)' # {}
      <3>1. CASE j = k
        BY <3>1, <2>1, <2>2, <1>0, <1>4 DEF TypeOK
      <3>2. CASE j # k
        <4>1. n # m
          BY <3>2, <2>1, <2>2, <1>0 DEF OneSlotEach
        <4> QED BY <4>1, <2>1, <2>2, <1>1
      <3> QED BY <3>1, <3>2
    <2> QED BY <2>1, <2>2, <2>3 DEF Users
  <1>10. HeldByOne'
    BY <1>0 DEF HeldByOne, TypeOK
  <1>11. LockedForAHolder'
    BY <1>0 DEF LockedForAHolder, TypeOK
  <1> QED BY <1>5, <1>6, <1>7, <1>8, <1>9, <1>10, <1>11

LEMMA Inductive == IInv /\ [Next]_vars => IInv'
  <1> SUFFICES ASSUME IInv, [Next]_vars PROVE IInv'
    OBVIOUS
  <1>1. ASSUME NEW p \in Procs, NEW k \in Keys, NEW m \in Mutexes, Lookup(p, k, m)
        PROVE  IInv'
    BY <1>1, LookupKeepsIInv
  <1>2. ASSUME NEW p \in Procs, Acquire(p) PROVE IInv'
    BY <1>2, AcquireKeepsIInv
  <1>3. ASSUME NEW p \in Procs, Unlock(p) PROVE IInv'
    BY <1>3, UnlockKeepsIInv
  <1>4. ASSUME NEW p \in Procs, Drop(p) PROVE IInv'
    <2>1. rm[p] \in Mutexes /\ want[p] \in Keys
      BY <1>4 DEF IInv, TypeOK, Drop, Leave
    <2> QED BY <1>4, <2>1, DropKeepsIInv
  <1>5. CASE UNCHANGED vars
    BY <1>5 DEF vars, IInv, TypeOK, SharedMutex, OneSlotEach, RefsExact,
                MappedIsUsed, HeldByOne, LockedForAHolder, Users
  <1> QED BY <1>1, <1>2, <1>3, <1>4, <1>5 DEF Next

LEMMA Invariance == Spec => []IInv
  BY Initially, Inductive, PTL DEF Spec
-----------------------------------------------------------------------------
(***************************************************************************)
(* Every variable keeps its type; a handler has a key and a mutex exactly  *)
(* while it is in Lock, in its critical section or in the unlock function. *)
(***************************************************************************)
THEOREM Typing == Spec => []TypeOK
  BY Invariance, PTL DEF IInv

(***************************************************************************)
(* "Two requests for the same slot serialize", for every number of         *)
(* handlers and slots.                                                     *)
(***************************************************************************)
THEOREM SlotsAreExclusive == Spec => []MutualExclusion
  <1>1. IInv => MutualExclusion
    <2> SUFFICES ASSUME IInv, NEW p \in Procs, NEW q \in Procs,
                        pc[p] = "holding", pc[q] = "holding", want[p] = want[q]
                 PROVE  p = q
      BY DEF MutualExclusion
    <2>1. rm[p] = rm[q]
      BY DEF IInv, SharedMutex
    <2> QED BY <2>1 DEF IInv, HeldByOne
  <1> QED BY <1>1, Invariance, PTL

(***************************************************************************)
(* All handlers of a slot use the mutex that is in the map.                *)
(***************************************************************************)
THEOREM OneMutexPerSlot == Spec => []SharedMutex
  BY Invariance, PTL DEF IInv

(***************************************************************************)
(* "The map cannot grow without bound": every entry belongs to a slot that *)
(* some handler is using, and its count is the number of its users.        *)
(***************************************************************************)
THEOREM MapHoldsSlotsInUse == Spec => []NoLeak
  <1>1. IInv => NoLeak
    <2> SUFFICES ASSUME IInv, NEW k \in Keys, locks[k] # NoMutex
                 PROVE  /\ \E p \in Procs : want[p] = k
                        /\ refs[locks[k]] = Cardinality(Users(locks[k]))
      BY DEF NoLeak
    <2>1. locks[k] \in Mutexes
      BY DEF IInv, TypeOK
    <2>2. PICK p \in Procs : rm[p] = locks[k]
      BY DEF IInv, MappedIsUsed, Users
    <2>3. pc[p] # "idle" /\ want[p] \in Keys
      BY <2>1, <2>2, NullsAreNotValues DEF IInv, TypeOK
    <2>4. want[p] = k
      BY <2>2, <2>3, NullsAreNotValues DEF IInv, SharedMutex, OneSlotEach
    <2> QED BY <2>1, <2>4 DEF IInv, RefsExact
  <1> QED BY <1>1, Invariance, PTL

(***************************************************************************)
(* Requests for different slots do not block each other.                   *)
(***************************************************************************)
THEOREM OtherSlotsNeverBlock == Spec => []BlockedOnlyBySameSlot
  <1>1. IInv => BlockedOnlyBySameSlot
    <2> SUFFICES ASSUME IInv, NEW p \in Procs, pc[p] = "waiting", held[rm[p]]
                 PROVE  Holders(want[p]) # {}
      BY DEF BlockedOnlyBySameSlot
    <2>1. rm[p] \in Mutexes /\ want[p] \in Keys /\ locks[want[p]] = rm[p]
      BY NullsAreNotValues DEF IInv, TypeOK, SharedMutex
    <2>2. PICK q \in Procs : pc[q] = "holding" /\ rm[q] = rm[p]
      BY <2>1 DEF IInv, LockedForAHolder
    <2>3. want[q] \in Keys /\ locks[want[q]] = rm[q]
      BY <2>2, NullsAreNotValues DEF IInv, TypeOK, SharedMutex
    <2>4. want[q] = want[p]
      BY <2>1, <2>2, <2>3, NullsAreNotValues DEF IInv, OneSlotEach
    <2> QED BY <2>2, <2>4 DEF Holders
  <1> QED BY <1>1, Invariance, PTL
-----------------------------------------------------------------------------
(***************************************************************************)
(* The refinement: Lookup asks for the slot, Acquire grants it, Unlock     *)
(* gives it back, and Drop changes nothing an outsider can see.            *)
(***************************************************************************)
LEMMA LookupAsks ==
  ASSUME IInv, NEW p \in Procs, NEW k \in Keys, NEW m \in Mutexes, Lookup(p, k, m)
  PROVE  Slots!Ask(p, k)
  <1> USE NullsAreNotValues DEF IInv, TypeOK, Lookup, Waiters, Holders
  <1>1. Slots!Free(p)
    BY DEF Slots!Free
  <1>2. \A j \in Keys : Waiters(j)' = IF j = k THEN Waiters(j) \cup {p} ELSE Waiters(j)
    OBVIOUS
  <1>3. \A j \in Keys : Holders(j)' = Holders(j)
    OBVIOUS
  <1> HIDE DEF Waiters, Holders, IInv, TypeOK, Lookup
  <1> QED BY <1>1, <1>2, <1>3 DEF Slots!Ask

LEMMA AcquireGrants ==
  ASSUME IInv, NEW p \in Procs, Acquire(p),
         NEW k \in Keys, want[p] = k
  PROVE  Slots!Grant(p, k)
  <1> USE NullsAreNotValues DEF IInv, TypeOK, Acquire, Waiters, Holders
  <1>1. p \in Waiters(k)
    OBVIOUS
  <1>2. Holders(k) = {}
    <2> SUFFICES ASSUME NEW q \in Procs, pc[q] = "holding", want[q] = k
                 PROVE  FALSE
      OBVIOUS
    <2>1. rm[q] = rm[p]
      BY DEF SharedMutex
    <2> QED BY <2>1 DEF HeldByOne
  <1>3. \A j \in Keys : Waiters(j)' = IF j = k THEN Waiters(j) \ {p} ELSE Waiters(j)
    OBVIOUS
  <1>4. \A j \in Keys : Holders(j)' = IF j = k THEN {p} ELSE Holders(j)
    BY <1>2
  <1> HIDE DEF Waiters, Holders, IInv, TypeOK, Acquire
  <1> QED BY <1>1, <1>2, <1>3, <1>4 DEF Slots!Grant

LEMMA UnlockReleases ==
  ASSUME IInv, NEW p \in Procs, Unlock(p),
         NEW k \in Keys, want[p] = k
  PROVE  Slots!Release(p, k)
  <1> USE NullsAreNotValues DEF IInv, TypeOK, Unlock, Waiters, Holders
  <1>1. p \in Holders(k)
    OBVIOUS
  <1>2. \A j \in Keys : Waiters(j)' = Waiters(j)
    OBVIOUS
  <1>3. \A j \in Keys : Holders(j)' = IF j = k THEN Holders(j) \ {p} ELSE Holders(j)
    OBVIOUS
  <1> HIDE DEF Waiters, Holders, IInv, TypeOK, Unlock
  <1> QED BY <1>1, <1>2, <1>3 DEF Slots!Release

LEMMA DropIsInvisible ==
  ASSUME IInv, NEW p \in Procs, Drop(p)
  PROVE  UNCHANGED Slots!vars
  <1> USE NullsAreNotValues DEF IInv, TypeOK, Drop, Leave, Waiters, Holders
  <1>1. \A j \in Keys : Waiters(j)' = Waiters(j) /\ Holders(j)' = Holders(j)
    OBVIOUS
  <1> HIDE DEF Waiters, Holders, IInv, TypeOK, Drop, Leave
  <1> QED BY <1>1 DEF Slots!vars

(***************************************************************************)
(* keyedMutex is one lock per mirror slot.                                 *)
(***************************************************************************)
THEOREM Refinement == Spec => ImplementsSlotLock
  <1>1. Init => Slots!Init
    BY DEF Init, Slots!Init, Waiters, Holders
  <1>2. IInv /\ [Next]_vars => [Slots!Next]_Slots!vars
    <2> SUFFICES ASSUME IInv, [Next]_vars PROVE [Slots!Next]_Slots!vars
      OBVIOUS
    <2>1. ASSUME NEW p \in Procs, NEW k \in Keys, NEW m \in Mutexes, Lookup(p, k, m)
          PROVE  Slots!Next
      BY <2>1, LookupAsks DEF Slots!Next
    <2>2. ASSUME NEW p \in Procs, Acquire(p) PROVE Slots!Next
      <3>1. want[p] \in Keys
        BY <2>2 DEF IInv, TypeOK, Acquire
      <3> QED BY <2>2, <3>1, AcquireGrants DEF Slots!Next
    <2>3. ASSUME NEW p \in Procs, Unlock(p) PROVE Slots!Next
      <3>1. want[p] \in Keys
        BY <2>3 DEF IInv, TypeOK, Unlock
      <3> QED BY <2>3, <3>1, UnlockReleases DEF Slots!Next
    <2>4. ASSUME NEW p \in Procs, Drop(p) PROVE UNCHANGED Slots!vars
      BY <2>4, DropIsInvisible
    <2>5. CASE UNCHANGED vars
      BY <2>5 DEF vars, Slots!vars, Waiters, Holders
    <2> QED BY <2>1, <2>2, <2>3, <2>4, <2>5 DEF Next
  <1> QED BY <1>1, <1>2, Invariance, PTL DEF Spec, ImplementsSlotLock, Slots!Spec
=============================================================================
