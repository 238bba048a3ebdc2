---------------------------- MODULE ServerProofs ----------------------------
(***************************************************************************)
(* For any number of tunnels, connections, slots and places: the semaphore *)
(* counts the running handlers and never passes Max, a slot is locked      *)
(* exactly while its handler needs it, and an accepted connection is with  *)
(* the accept loop of its own tunnel.  The three facts and the types are   *)
(* inductive together with one more: an accept loop only ever holds a      *)
(* connection of its tunnel.                                               *)
(***************************************************************************)
EXTENDS Server, FiniteSetTheorems, TLAPS

LoopsKeepToTheirTunnel ==
    \A t \in Tunnels : loop[t] # NoConn => TunnelOf[loop[t]] = t

IInv ==
    /\ TypeOK
    /\ LoopsKeepToTheirTunnel
    /\ AcceptedIsHeld
    /\ SlotsGivenBack
    /\ HandlersBounded
-----------------------------------------------------------------------------
(***************************************************************************)
(* How the set of running handlers changes its size.                       *)
(***************************************************************************)
LEMMA HandlersFinite == IsFiniteSet(InHandler) /\ Cardinality(InHandler) \in Nat
  BY ServerAssumption, FS_Subset, FS_CardinalityType DEF InHandler

\* A handler starts.
LEMMA Starts ==
  ASSUME NEW c \in Conns, TypeOK, pc[c] \notin Handling,
         NEW h \in Handling, pc' = [pc EXCEPT ![c] = h]
  PROVE  Cardinality(InHandler)' = Cardinality(InHandler) + 1
  <1>1. InHandler' = InHandler \cup {c}
    BY DEF InHandler, TypeOK
  <1>2. c \notin InHandler
    BY DEF InHandler
  <1> QED BY <1>1, <1>2, HandlersFinite, FS_AddElement

\* A handler ends.
LEMMA Ends ==
  ASSUME NEW c \in Conns, TypeOK, pc[c] \in Handling,
         NEW h, h \notin Handling, pc' = [pc EXCEPT ![c] = h]
  PROVE  Cardinality(InHandler)' = Cardinality(InHandler) - 1
  <1>1. InHandler' = InHandler \ {c}
    BY DEF InHandler, TypeOK
  <1>2. c \in InHandler
    BY DEF InHandler
  <1> QED BY <1>1, <1>2, HandlersFinite, FS_RemoveElement

\* A handler goes on, or a connection that is not in a handler stays out.
LEMMA GoesOn ==
  ASSUME NEW c \in Conns, TypeOK,
         NEW h, h \in Handling <=> pc[c] \in Handling, pc' = [pc EXCEPT ![c] = h]
  PROVE  Cardinality(InHandler)' = Cardinality(InHandler)
  <1>1. InHandler' = InHandler
    BY DEF InHandler, TypeOK
  <1> QED BY <1>1

\* A handler that runs occupies a place.
LEMMA PlaceTaken ==
  ASSUME NEW c \in Conns, HandlersBounded, pc[c] \in Handling
  PROVE  sem \in Nat /\ sem > 0
  <1>1. InHandler # {}
    BY DEF InHandler
  <1>2. Cardinality(InHandler) # 0
    BY <1>1, HandlersFinite, FS_EmptySet
  <1> QED BY <1>2, HandlersFinite DEF HandlersBounded
-----------------------------------------------------------------------------
LEMMA Initially == Init => IInv
  <1> SUFFICES ASSUME Init PROVE IInv
    OBVIOUS
  <1>1. TypeOK /\ LoopsKeepToTheirTunnel /\ AcceptedIsHeld /\ SlotsGivenBack
    BY ServerAssumption
    DEF Init, TypeOK, LoopsKeepToTheirTunnel, AcceptedIsHeld, SlotsGivenBack, Holding, Handling
  <1>2. InHandler = {}
    BY DEF Init, InHandler, Handling, Holding
  <1>3. HandlersBounded
    BY <1>2, FS_EmptySet, ServerAssumption DEF Init, HandlersBounded
  <1> QED BY <1>1, <1>3 DEF IInv
-----------------------------------------------------------------------------
(***************************************************************************)
(* The steps, by what they do to the handlers: those that leave a          *)
(* connection outside (or inside) a handler and touch no lock, the two     *)
(* that start and end one, the two that lock and unlock a slot.            *)
(***************************************************************************)
LEMMA QuietSteps ==
  ASSUME IInv, NEW c \in Conns, NEW from, NEW to, Move(c, from, to),
         to \in {"new", "dialed", "accepted", "closed"} \cup Handling,
         from \in Handling <=> to \in Handling,
         from \in Holding <=> to \in Holding,
         from # "accepted", to # "accepted",
         UNCHANGED <<loop, over, sem, lock, late, stopping>>,
         viewing' \subseteq Conns
  PROVE  IInv'
  <1> USE DEF IInv, Move
  <1>1. TypeOK'
    BY DEF TypeOK
  <1>2. LoopsKeepToTheirTunnel' /\ AcceptedIsHeld' /\ SlotsGivenBack'
    BY DEF LoopsKeepToTheirTunnel, AcceptedIsHeld, SlotsGivenBack, TypeOK
  <1>3. Cardinality(InHandler)' = Cardinality(InHandler)
    BY GoesOn
  <1>4. HandlersBounded'
    BY <1>3 DEF HandlersBounded
  <1> QED BY <1>1, <1>2, <1>4

LEMMA AcceptKeepsIInv ==
  ASSUME IInv, NEW t \in Tunnels, NEW c \in Conns, Accept(t, c)
  PROVE  IInv'
  <1> USE DEF IInv, Accept, Move
  <1>1. TypeOK'
    BY DEF TypeOK
  <1>2. LoopsKeepToTheirTunnel' /\ AcceptedIsHeld'
    BY ServerAssumption DEF LoopsKeepToTheirTunnel, AcceptedIsHeld, TypeOK
  <1>3. SlotsGivenBack'
    BY DEF SlotsGivenBack, Holding, TypeOK
  <1>4. Cardinality(InHandler)' = Cardinality(InHandler)
    BY GoesOn DEF Handling, Holding
  <1>5. HandlersBounded'
    BY <1>4 DEF HandlersBounded
  <1> QED BY <1>1, <1>2, <1>3, <1>5

LEMMA AdmitKeepsIInv ==
  ASSUME IInv, NEW t \in Tunnels, NEW c \in Conns, Admit(t, c)
  PROVE  IInv'
  <1> USE DEF IInv, Admit, Move
  <1>1. TypeOK'
    BY DEF TypeOK, Handling, Holding
  <1>2. LoopsKeepToTheirTunnel' /\ AcceptedIsHeld'
    BY ServerAssumption DEF LoopsKeepToTheirTunnel, AcceptedIsHeld, TypeOK
  <1>3. SlotsGivenBack'
    BY DEF SlotsGivenBack, Holding, TypeOK
  <1>4. Cardinality(InHandler)' = Cardinality(InHandler) + 1
    BY Starts DEF Handling, Holding
  <1>5. HandlersBounded'
    BY <1>4, HandlersFinite, ServerAssumption DEF HandlersBounded
  <1> QED BY <1>1, <1>2, <1>3, <1>5

LEMMA AbandonKeepsIInv ==
  ASSUME IInv, NEW t \in Tunnels, NEW c \in Conns, Abandon(t, c)
  PROVE  IInv'
  <1> USE DEF IInv, Abandon, Move
  <1>1. TypeOK'
    BY DEF TypeOK
  <1>2. LoopsKeepToTheirTunnel' /\ AcceptedIsHeld'
    BY ServerAssumption DEF LoopsKeepToTheirTunnel, AcceptedIsHeld, TypeOK
  <1>3. SlotsGivenBack'
    BY DEF SlotsGivenBack, Holding, TypeOK
  <1>4. Cardinality(InHandler)' = Cardinality(InHandler)
    BY GoesOn DEF Handling, Holding
  <1>5. HandlersBounded'
    BY <1>4 DEF HandlersBounded
  <1> QED BY <1>1, <1>2, <1>3, <1>5

LEMMA LockKeepsIInv ==
  ASSUME IInv, NEW c \in Conns, Lock(c)
  PROVE  IInv'
  <1> USE DEF IInv, Lock, Move
  <1>1. TypeOK'
    BY ServerAssumption DEF TypeOK, Handling, Holding
  <1>2. LoopsKeepToTheirTunnel' /\ AcceptedIsHeld'
    BY DEF LoopsKeepToTheirTunnel, AcceptedIsHeld, TypeOK
  <1>3. SlotsGivenBack'
    BY ServerAssumption DEF SlotsGivenBack, Holding, TypeOK
  <1>4. Cardinality(InHandler)' = Cardinality(InHandler)
    BY GoesOn DEF Handling, Holding
  <1>5. HandlersBounded'
    BY <1>4 DEF HandlersBounded
  <1> QED BY <1>1, <1>2, <1>3, <1>5

LEMMA UnlockKeepsIInv ==
  ASSUME IInv, NEW c \in Conns, Unlock(c)
  PROVE  IInv'
  <1> USE DEF IInv, Unlock, Move
  <1>1. TypeOK'
    BY ServerAssumption DEF TypeOK, Handling, Holding
  <1>2. LoopsKeepToTheirTunnel' /\ AcceptedIsHeld'
    BY DEF LoopsKeepToTheirTunnel, AcceptedIsHeld, TypeOK
  <1>3. SlotsGivenBack'
    BY ServerAssumption DEF SlotsGivenBack, Holding, TypeOK
  <1>4. Cardinality(InHandler)' = Cardinality(InHandler)
    BY GoesOn DEF Handling, Holding
  <1>5. HandlersBounded'
    BY <1>4 DEF HandlersBounded
  <1> QED BY <1>1, <1>2, <1>3, <1>5

LEMMA CloseKeepsIInv ==
  ASSUME IInv, NEW c \in Conns, Close(c)
  PROVE  IInv'
  <1> USE DEF IInv, Close, Move
  <1>1. sem \in Nat /\ sem > 0
    BY PlaceTaken DEF Handling, Holding
  <1>2. TypeOK'
    BY <1>1 DEF TypeOK
  <1>3. LoopsKeepToTheirTunnel' /\ AcceptedIsHeld' /\ SlotsGivenBack'
    BY DEF LoopsKeepToTheirTunnel, AcceptedIsHeld, SlotsGivenBack, Holding, TypeOK
  <1>4. Cardinality(InHandler)' = Cardinality(InHandler) - 1
    BY Ends DEF Handling, Holding
  <1>5. HandlersBounded'
    BY <1>1, <1>4, ServerAssumption DEF HandlersBounded
  <1> QED BY <1>2, <1>3, <1>5

\* Steps that move no connection.
LEMMA StillSteps ==
  ASSUME IInv, UNCHANGED <<pc, loop, sem, lock>>,
         over' \subseteq Tunnels, late' \subseteq Conns, viewing' \subseteq Conns,
         stopping' \in BOOLEAN
  PROVE  IInv'
  <1>1. InHandler' = InHandler
    BY DEF InHandler
  <1> QED BY <1>1 DEF IInv, TypeOK, LoopsKeepToTheirTunnel, AcceptedIsHeld,
                      SlotsGivenBack, HandlersBounded
-----------------------------------------------------------------------------
LEMMA Inductive == IInv /\ [Next]_vars => IInv'
  <1> SUFFICES ASSUME IInv, [Next]_vars PROVE IInv'
    OBVIOUS
  <1>0. over \subseteq Tunnels /\ late \subseteq Conns /\ viewing \subseteq Conns
          /\ stopping \in BOOLEAN
    BY DEF IInv, TypeOK
  <1>1. ASSUME NEW c \in Conns,
               Dial(c) \/ ReadRequest(c) \/ Reject(c) \/ Fail(c) \/ Receive(c)
                 \/ Resolve(c) \/ Reveal(c) \/ OpenerExits(c) \/ Opened(c)
        PROVE  IInv'
    <2>1. viewing' \subseteq Conns
      BY <1>0, <1>1 DEF Dial, ReadRequest, Reject, Fail, Receive, Resolve, Reveal,
                        OpenerExits, Opened
    <2>2. CASE Dial(c)
      BY <2>1, <2>2, QuietSteps DEF Dial, Handling, Holding
    <2>3. CASE ReadRequest(c)
      BY <2>1, <2>3, QuietSteps DEF ReadRequest, Handling, Holding
    <2>4. CASE Reject(c)
      BY <2>1, <2>4, QuietSteps DEF Reject, Handling, Holding
    <2>5. CASE Fail(c)
      BY <2>1, <2>5, QuietSteps DEF Fail, Handling, Holding
    <2>6. CASE Receive(c)
      BY <2>1, <2>6, QuietSteps DEF Receive, Handling, Holding
    <2>7. CASE OpenerExits(c)
      BY <2>1, <2>7, QuietSteps DEF OpenerExits, Handling, Holding
    <2>8. CASE Opened(c)
      BY <2>1, <2>8, QuietSteps DEF Opened, Handling, Holding
    <2>9. CASE Resolve(c)
      BY <2>1, <2>9, QuietSteps DEF Resolve, Handling, Holding
    <2>10. CASE Reveal(c)
      BY <2>1, <2>10, QuietSteps DEF Reveal, Handling, Holding
    <2> QED BY <1>1, <2>2, <2>3, <2>4, <2>5, <2>6, <2>7, <2>8, <2>9, <2>10
  <1>2. ASSUME NEW t \in Tunnels, NEW c \in Conns,
               Accept(t, c) \/ Admit(t, c) \/ Abandon(t, c)
        PROVE  IInv'
    BY <1>2, AcceptKeepsIInv, AdmitKeepsIInv, AbandonKeepsIInv
  <1>3. ASSUME NEW c \in Conns, Lock(c) \/ Unlock(c) \/ Close(c) PROVE IInv'
    BY <1>3, LockKeepsIInv, UnlockKeepsIInv, CloseKeepsIInv
  <1>4. ASSUME NEW c \in Conns, ViewerExits(c) \/ Expire(c) PROVE IInv'
    BY <1>0, <1>4, StillSteps DEF ViewerExits, Expire
  <1>5. ASSUME NEW t \in Tunnels, AcceptFails(t) PROVE IInv'
    BY <1>0, <1>5, StillSteps DEF AcceptFails
  <1>6. CASE Stop
    BY <1>0, <1>6, StillSteps DEF Stop
  <1>7. CASE UNCHANGED vars
    BY <1>0, <1>7, StillSteps DEF vars
  <1> QED BY <1>1, <1>2, <1>3, <1>4, <1>5, <1>6, <1>7 DEF Next

LEMMA Invariance == Spec => []IInv
  BY Initially, Inductive, PTL DEF Spec
-----------------------------------------------------------------------------
(***************************************************************************)
(* The state of the server stays well-formed; in particular, no place is   *)
(* ever given back that was not taken.                                     *)
(***************************************************************************)
THEOREM Typing == Spec => []TypeOK
  BY Invariance, PTL DEF IInv

(***************************************************************************)
(* The semaphore counts the running handlers, and at most Max run.         *)
(***************************************************************************)
THEOREM PlacesCountHandlers == Spec => []HandlersBounded
  BY Invariance, PTL DEF IInv

(***************************************************************************)
(* A slot is locked by a connection exactly while its handler is between   *)
(* the lock and the deferred unlock: no path out of handle keeps it, and   *)
(* two handlers never share it.                                            *)
(***************************************************************************)
THEOREM SlotsAreReleased == Spec => []SlotsGivenBack
  BY Invariance, PTL DEF IInv

(***************************************************************************)
(* An accepted connection is with its tunnel's accept loop until a handler *)
(* has it or it is closed.                                                 *)
(***************************************************************************)
THEOREM AcceptedAreKept == Spec => []AcceptedIsHeld
  BY Invariance, PTL DEF IInv
=============================================================================
