--------------------------- MODULE DaemonsProofs ---------------------------
(***************************************************************************)
(* What is proved of Daemons, for every number of processes, hosts and     *)
(* entries.  Holding says what the instance lock gives to the process that *)
(* has it: no other touches a socket path.  Agreement says what follows    *)
(* while processes do not overlap: the one that runs has in memory what    *)
(* the files say, although it read them before it had the lock.            *)
(***************************************************************************)
EXTENDS Daemons, TLAPS

Holding ==
    /\ \A d \in Daemons : lock = d <=> step[d] \in Locked
    /\ \A d \in Daemons : step[d] \in {"new", "loaded"} => open[d] = {}
    /\ \A d \in Daemons : step[d] \in Locked => \A h \in open[d] : sock[h] = d
    /\ \A d \in Daemons : step[d] \in {"probed", "removed"} => at[d] \notin open[d]
    /\ \A d \in Daemons : step[d] = "removed" => sock[at[d]] = NoOne
    /\ \A d \in Daemons : step[d] = "serving" => hosts[d] \subseteq open[d]

Agreement ==
    /\ \A d \in Daemons : open[d] # {} => Active(d)
    /\ alone => \A d, x \in Daemons : Active(d) /\ Active(x) => d = x
    /\ alone => \A d \in Daemons : Active(d) => minted[d] = tokens /\ known[d] = index

IInv == TypeOK /\ Holding /\ Agreement /\ RefusedForARival
-----------------------------------------------------------------------------
LEMMA Initially == Init => IInv
  BY DaemonsAssumption
  DEF Init, IInv, TypeOK, Holding, Agreement, RefusedForARival, Locked, Active

\* What a handler does is to save some set of entries.
LEMMA Saves ==
  ASSUME TypeOK, NEW d \in Daemons, NEW e \in Entries, Record(d, e) \/ Forget(d, e)
  PROVE  \E E \in SUBSET Entries : SaveIndex(d, E)
  BY DEF TypeOK, Record, Forget

LEMMA TypeStep == TypeOK /\ [Next]_vars => TypeOK'
  <1> SUFFICES ASSUME TypeOK, [Next]_vars PROVE TypeOK'
    OBVIOUS
  <1> USE DEF TypeOK, Locked, Move, files
  <1>1. CASE UNCHANGED vars
    BY <1>1 DEF vars
  <1>2. ASSUME NEW d \in Daemons, NewServer(d) PROVE TypeOK'
    BY <1>2 DEF NewServer
  <1>3. ASSUME NEW d \in Daemons, AcquireLock(d) \/ LockIsHeld(d) PROVE TypeOK'
    BY <1>3 DEF AcquireLock, LockIsHeld
  <1>4. ASSUME NEW d \in Daemons, NEW h \in Hosts, Probe(d, h) PROVE TypeOK'
    <2>1. CASE Live(h)
      BY <1>4, <2>1 DEF Probe, GiveUp
    <2>2. CASE ~Live(h)
      <3>1. /\ step' = [step EXCEPT ![d] = "probed"]
            /\ at' = [at EXCEPT ![d] = h]
            /\ UNCHANGED <<hosts, open, lock, sock, tokens, minted, index, known, alone>>
        BY <1>4, <2>2 DEF Probe
      <3>2. step' \in [Daemons -> {"probed"} \cup Locked \cup
                          {"new", "loaded", "leaving", "refused", "failed", "gone"}]
        BY <3>1
      <3>3. \A x \in Daemons : step'[x] \in {"probed", "removed", "bound"} => at'[x] \in Hosts
        BY <3>1
      <3>4. at' \in [Daemons -> Hosts \cup {NoHost}]
        BY <3>1
      <3> QED BY <3>1, <3>2, <3>3, <3>4
    <2> QED BY <2>1, <2>2
  <1>5. ASSUME NEW d \in Daemons, NEW h \in Hosts, CloseListener(d, h) PROVE TypeOK'
    BY <1>5 DEF CloseListener
  <1>6. ASSUME NEW d \in Daemons, Remove(d) PROVE TypeOK'
    BY <1>6 DEF Remove
  <1>7. ASSUME NEW d \in Daemons, Listen(d) PROVE TypeOK'
    <2>1. at[d] \in Hosts
      BY <1>7 DEF Listen
    <2>2. CASE sock[at[d]] # NoOne
      BY <1>7, <2>2 DEF Listen, GiveUp
    <2>3. CASE sock[at[d]] = NoOne
      <3>1. /\ step' = [step EXCEPT ![d] = "bound"]
            /\ sock' = [sock EXCEPT ![at[d]] = d]
            /\ open' = [open EXCEPT ![d] = @ \cup {at[d]}]
            /\ UNCHANGED <<hosts, at, lock, tokens, minted, index, known, alone>>
        BY <1>7, <2>3 DEF Listen
      <3>2. /\ step' \in [Daemons -> {"bound"} \cup Locked \cup
                            {"new", "loaded", "leaving", "refused", "failed", "gone"}]
            /\ sock' \in [Hosts -> Daemons \cup {NoOne}]
            /\ open' \in [Daemons -> SUBSET Hosts]
        BY <2>1, <3>1
      <3> QED BY <2>1, <3>1, <3>2
    <2> QED BY <2>2, <2>3
  <1>8. ASSUME NEW d \in Daemons, Ensure(d) PROVE TypeOK'
    BY <1>8 DEF Ensure
  <1>9. ASSUME NEW d \in Daemons, StartFails(d) \/ Serve(d) PROVE TypeOK'
    BY <1>9 DEF StartFails, GiveUp, Serve
  <1>10. ASSUME NEW d \in Daemons, NEW E \in SUBSET Entries, SaveIndex(d, E)
         PROVE TypeOK'
    BY <1>10 DEF SaveIndex
  <1>11. ASSUME NEW d \in Daemons, Stop(d) \/ Release(d) \/ Exit(d) \/ Kill(d)
         PROVE TypeOK'
    BY <1>11 DEF Stop, Release, Exit, Kill
  <1> QED
    BY <1>1, <1>2, <1>3, <1>4, <1>5, <1>6, <1>7, <1>8, <1>9, <1>10, <1>11, Saves DEF Next

\* Giving up while holding the lock disturbs no path.
LEMMA GivingUpHolds ==
  ASSUME TypeOK, Holding, NEW d \in Daemons, NEW to \in {"refused", "failed"},
         step[d] \in Locked, lock' = NoOne, step' = [step EXCEPT ![d] = to],
         UNCHANGED <<hosts, at, open, sock>>
  PROVE  Holding'
  <1> USE DaemonsAssumption DEF TypeOK, Holding
  <1>1. \A x \in Daemons : step'[x] \notin Locked
    BY DEF Locked
  <1> QED
    BY <1>1 DEF Locked

LEMMA HoldingStep == TypeOK /\ Holding /\ [Next]_vars => Holding'
  <1> SUFFICES ASSUME TypeOK, Holding, [Next]_vars PROVE Holding'
    OBVIOUS
  <1> USE DaemonsAssumption DEF TypeOK, Holding, Move, files
  <1>0. \A d, x \in Daemons : step[d] \in Locked /\ step[x] \in Locked => d = x
    OBVIOUS
  <1>1. CASE UNCHANGED vars
    BY <1>1 DEF vars
  <1>2. ASSUME NEW d \in Daemons, NewServer(d) PROVE Holding'
    BY <1>2 DEF NewServer, Locked
  <1>3. ASSUME NEW d \in Daemons, AcquireLock(d) PROVE Holding'
    <2>1. \A x \in Daemons : step[x] \notin Locked
      BY <1>3 DEF AcquireLock
    <2>2. open[d] = {}
      BY <1>3 DEF AcquireLock
    <2> QED BY <1>3, <2>1, <2>2 DEF AcquireLock, Locked
  <1>4. ASSUME NEW d \in Daemons, LockIsHeld(d) PROVE Holding'
    BY <1>4 DEF LockIsHeld, Locked
  <1>5. ASSUME NEW d \in Daemons, NEW h \in Hosts, Probe(d, h) PROVE Holding'
    <2>1. CASE Live(h)
      <3>1. /\ step[d] \in Locked /\ lock' = NoOne
            /\ step' = [step EXCEPT ![d] = "refused"]
            /\ UNCHANGED <<hosts, at, open, sock>>
        BY <1>5, <2>1 DEF Probe, GiveUp, Locked
      <3> QED BY <3>1, GivingUpHolds
    <2>2. CASE ~Live(h)
      <3>1. /\ step[d] = "binding" /\ step' = [step EXCEPT ![d] = "probed"]
            /\ at' = [at EXCEPT ![d] = h] /\ h \notin open[d]
            /\ UNCHANGED <<hosts, open, lock, sock>>
        BY <1>5, <2>2 DEF Probe
      <3>2. \A x \in Daemons : step'[x] # step[x] \/ at'[x] # at[x] => x = d
        BY <3>1
      <3> QED BY <3>1, <3>2 DEF Locked
    <2> QED BY <2>1, <2>2
  <1>6. ASSUME NEW d \in Daemons, NEW h \in Hosts, CloseListener(d, h) PROVE Holding'
    <2>1. \A x \in Daemons : step[x] \in Locked => x = d
      BY <1>0, <1>6 DEF CloseListener, Locked
    <2> QED BY <1>6, <2>1 DEF CloseListener, Locked
  <1>7. ASSUME NEW d \in Daemons, Remove(d) PROVE Holding'
    <2>1. \A x \in Daemons : step[x] \in Locked => x = d
      BY <1>0, <1>7 DEF Remove, Locked
    <2> QED BY <1>7, <2>1 DEF Remove, Locked
  <1>8. ASSUME NEW d \in Daemons, Listen(d) PROVE Holding'
    <2>1. at[d] \in Hosts /\ sock[at[d]] = NoOne
      BY <1>8 DEF Listen
    <2>2. \A x \in Daemons : step[x] \in Locked => x = d
      BY <1>0, <1>8 DEF Listen, Locked
    <2>3. /\ step' = [step EXCEPT ![d] = "bound"]
          /\ sock' = [sock EXCEPT ![at[d]] = d]
          /\ open' = [open EXCEPT ![d] = @ \cup {at[d]}]
          /\ step[d] = "removed"
          /\ UNCHANGED <<hosts, at, lock>>
      BY <1>8, <2>1 DEF Listen
    <2> QED BY <2>1, <2>2, <2>3 DEF Locked
  <1>9. ASSUME NEW d \in Daemons, Ensure(d) PROVE Holding'
    BY <1>9 DEF Ensure, Locked
  <1>10. ASSUME NEW d \in Daemons, StartFails(d) PROVE Holding'
    <2>1. /\ step[d] \in Locked /\ lock' = NoOne
          /\ step' = [step EXCEPT ![d] = "failed"]
          /\ UNCHANGED <<hosts, at, open, sock>>
      BY <1>10 DEF StartFails, GiveUp, Locked
    <2> QED BY <2>1, GivingUpHolds
  <1>11. ASSUME NEW d \in Daemons, Serve(d) PROVE Holding'
    BY <1>11 DEF Serve, Locked
  <1>12. ASSUME NEW d \in Daemons, NEW E \in SUBSET Entries, SaveIndex(d, E)
         PROVE Holding'
    BY <1>12 DEF SaveIndex, Locked
  <1>13. ASSUME NEW d \in Daemons, Stop(d) PROVE Holding'
    BY <1>13 DEF Stop, Locked
  <1>14. ASSUME NEW d \in Daemons, Release(d) PROVE Holding'
    <2>1. \A x \in Daemons : step[x] \in Locked => x = d
      BY <1>0, <1>14 DEF Release, Locked
    <2> QED BY <1>14, <2>1 DEF Release, Locked
  <1>15. ASSUME NEW d \in Daemons, Exit(d) PROVE Holding'
    BY <1>15 DEF Exit, Locked
  <1>16. ASSUME NEW d \in Daemons, Kill(d) PROVE Holding'
    BY <1>16 DEF Kill, Locked
  <1> QED
    BY <1>1, <1>2, <1>3, <1>4, <1>5, <1>6, <1>7, <1>8, <1>9, <1>10, <1>11, <1>12,
       <1>13, <1>14, <1>15, <1>16, Saves DEF Next

\* A process that stays as active as it was and opens no other listener.
LEMMA StayingAgrees ==
  ASSUME TypeOK, Agreement, NEW d \in Daemons, Active(d), NEW to,
         step' = [step EXCEPT ![d] = to], to \notin {"new", "gone"},
         \A x \in Daemons : x # d => open'[x] = open[x],
         UNCHANGED <<tokens, minted, index, known, alone>>
  PROVE  Agreement'
  <1>1. \A x \in Daemons : Active(x)' <=> Active(x)
    BY DEF TypeOK, Active
  <1> QED
    BY <1>1 DEF Agreement

\* A process that ends, and its listeners with it.
LEMMA EndingAgrees ==
  ASSUME TypeOK, Agreement, NEW d \in Daemons,
         step' = [step EXCEPT ![d] = "gone"], open' = [open EXCEPT ![d] = {}],
         UNCHANGED <<tokens, minted, index, known, alone>>
  PROVE  Agreement'
  <1>1. \A x \in Daemons : Active(x)' <=> (x # d /\ Active(x))
    BY DEF TypeOK, Active
  <1>2. \A x \in Daemons : open'[x] # {} => x # d /\ open[x] # {}
    BY DEF TypeOK
  <1> QED
    BY <1>1, <1>2 DEF Agreement

LEMMA AgreementStep == IInv /\ [Next]_vars => Agreement'
  <1> SUFFICES ASSUME TypeOK, Holding, Agreement, [Next]_vars PROVE Agreement'
    BY DEF IInv
  <1> USE DEF Move, files
  <1>1. CASE UNCHANGED vars
    BY <1>1 DEF vars, Agreement, Active
  <1>2. ASSUME NEW d \in Daemons, NewServer(d) PROVE Agreement'
    <2>1. \A x \in Daemons : Active(x)' <=> (x = d \/ Active(x))
      BY <1>2 DEF NewServer, TypeOK, Active
    <2>2. open' = open /\ open[d] = {} /\ minted'[d] = tokens /\ known'[d] = index
      BY <1>2 DEF NewServer, TypeOK, Holding
    <2>3. \A x \in Daemons : x # d => minted'[x] = minted[x] /\ known'[x] = known[x]
      BY <1>2 DEF NewServer, TypeOK
    <2>4. /\ tokens' = tokens /\ index' = index
          /\ alone' => alone /\ \A x \in Daemons : ~Active(x)
      BY <1>2 DEF NewServer
    <2> QED BY <2>1, <2>2, <2>3, <2>4 DEF Agreement
  <1>3. ASSUME NEW d \in Daemons, AcquireLock(d) \/ LockIsHeld(d) PROVE Agreement'
    BY <1>3, StayingAgrees DEF AcquireLock, LockIsHeld, Active
  <1>4. ASSUME NEW d \in Daemons, NEW h \in Hosts, Probe(d, h) PROVE Agreement'
    BY <1>4, StayingAgrees DEF Probe, GiveUp, Active
  <1>5. ASSUME NEW d \in Daemons, NEW h \in Hosts, CloseListener(d, h) PROVE Agreement'
    BY <1>5 DEF CloseListener, TypeOK, Agreement, Active
  <1>6. ASSUME NEW d \in Daemons, Remove(d) PROVE Agreement'
    BY <1>6, StayingAgrees DEF Remove, Active
  <1>7. ASSUME NEW d \in Daemons, Listen(d) PROVE Agreement'
    <2>1. CASE sock[at[d]] # NoOne
      BY <1>7, <2>1, StayingAgrees DEF Listen, GiveUp, Active
    <2>2. CASE sock[at[d]] = NoOne
      <3>1. /\ Active(d) /\ step' = [step EXCEPT ![d] = "bound"]
            /\ UNCHANGED <<tokens, minted, index, known, alone>>
            /\ \A x \in Daemons : x # d => open'[x] = open[x]
        BY <1>7, <2>2 DEF Listen, Active, TypeOK
      <3> QED BY <3>1, StayingAgrees
    <2> QED BY <2>1, <2>2
  <1>8. ASSUME NEW d \in Daemons, Ensure(d) PROVE Agreement'
    <2>1. \A x \in Daemons : Active(x)' <=> Active(x)
      BY <1>8 DEF Ensure, TypeOK, Active
    <2>2. Active(d) /\ UNCHANGED <<open, index, known, alone>>
      BY <1>8 DEF Ensure, Active
    <2>3. minted[d] = tokens => minted'[d] = tokens'
      BY <1>8 DEF Ensure, TypeOK
    <2> QED BY <2>1, <2>2, <2>3 DEF Agreement
  <1>9. ASSUME NEW d \in Daemons, StartFails(d) \/ Serve(d) PROVE Agreement'
    BY <1>9, StayingAgrees DEF StartFails, GiveUp, Serve, Active
  <1>10. ASSUME NEW d \in Daemons, NEW E \in SUBSET Entries, SaveIndex(d, E), Active(d)
         PROVE Agreement'
    <2>1. known'[d] = index'
      BY <1>10 DEF SaveIndex, TypeOK
    <2>2. UNCHANGED <<step, open, minted, tokens, alone>>
      BY <1>10 DEF SaveIndex
    <2> QED BY <1>10, <2>1, <2>2 DEF Agreement, Active
  <1>11. ASSUME NEW d \in Daemons, Stop(d) \/ Release(d) PROVE Agreement'
    BY <1>11, StayingAgrees DEF Stop, Release, Active
  <1>12. ASSUME NEW d \in Daemons, Exit(d) \/ Kill(d) PROVE Agreement'
    BY <1>12, EndingAgrees DEF Exit, Kill
  <1>13. ASSUME NEW d \in Daemons, NEW e \in Entries, Record(d, e) \/ Forget(d, e)
         PROVE Active(d)
    BY <1>13 DEF Record, Forget, HasHandlers, Active
  <1> QED
    BY <1>1, <1>2, <1>3, <1>4, <1>5, <1>6, <1>7, <1>8, <1>9, <1>10, <1>11, <1>12,
       <1>13, Saves DEF Next

LEMMA RefusalStep == IInv /\ [Next]_vars => RefusedForARival'
  <1> SUFFICES ASSUME IInv, [Next]_vars PROVE RefusedForARival'
    OBVIOUS
  <1> USE DEF IInv, RefusedForARival, TypeOK, Move, files
  <1>1. CASE UNCHANGED vars
    BY <1>1 DEF vars
  <1>2. ASSUME NEW d \in Daemons, NewServer(d) PROVE RefusedForARival'
    BY <1>2 DEF NewServer
  <1>3. ASSUME NEW d \in Daemons, AcquireLock(d) PROVE RefusedForARival'
    BY <1>3 DEF AcquireLock
  <1>4. ASSUME NEW d \in Daemons, LockIsHeld(d) PROVE RefusedForARival'
    <2>1. PICK x \in Daemons : lock = x
      BY <1>4 DEF LockIsHeld
    <2>2. step[x] \in Locked /\ step[d] = "loaded"
      BY <1>4, <2>1 DEF LockIsHeld, Holding
    <2>3. x # d /\ Active(x) /\ Active(d)
      BY <2>2 DEF Active, Locked
    <2>4. ~alone
      BY <2>3 DEF Agreement
    <2> QED BY <1>4, <2>4 DEF LockIsHeld
  <1>5. ASSUME NEW d \in Daemons, NEW h \in Hosts, Probe(d, h) PROVE RefusedForARival'
    <2>1. CASE Live(h)
      <3>1. sock[h] \in Daemons /\ h \in open[sock[h]] /\ h \notin open[d]
        BY <1>5, <2>1 DEF Probe, Live
      <3>2. sock[h] # d /\ Active(sock[h])
        BY <3>1 DEF Agreement
      <3>3. Active(d)
        BY <1>5, <2>1 DEF Probe, GiveUp, Active
      <3>4. ~alone
        BY <3>1, <3>2, <3>3 DEF Agreement
      <3> QED BY <1>5, <2>1, <3>4 DEF Probe, GiveUp
    <2>2. CASE ~Live(h)
      BY <1>5, <2>2 DEF Probe
    <2> QED BY <2>1, <2>2
  <1>6. ASSUME NEW d \in Daemons, NEW h \in Hosts, CloseListener(d, h)
        PROVE RefusedForARival'
    BY <1>6 DEF CloseListener
  <1>7. ASSUME NEW d \in Daemons, Remove(d) \/ Ensure(d) PROVE RefusedForARival'
    BY <1>7 DEF Remove, Ensure
  <1>8. ASSUME NEW d \in Daemons, Listen(d) PROVE RefusedForARival'
    <2>1. step[d] = "removed" /\ sock[at[d]] = NoOne
      BY <1>8 DEF Listen, Holding
    <2> QED BY <1>8, <2>1 DEF Listen
  <1>9. ASSUME NEW d \in Daemons, StartFails(d) \/ Serve(d) PROVE RefusedForARival'
    BY <1>9 DEF StartFails, GiveUp, Serve
  <1>10. ASSUME NEW d \in Daemons, NEW E \in SUBSET Entries, SaveIndex(d, E)
         PROVE RefusedForARival'
    BY <1>10 DEF SaveIndex
  <1>11. ASSUME NEW d \in Daemons, Stop(d) \/ Release(d) \/ Exit(d) \/ Kill(d)
         PROVE RefusedForARival'
    BY <1>11 DEF Stop, Release, Exit, Kill
  <1> QED
    BY <1>1, <1>2, <1>3, <1>4, <1>5, <1>6, <1>7, <1>8, <1>9, <1>10, <1>11, Saves
    DEF Next

LEMMA Inductive == IInv /\ [Next]_vars => IInv'
  BY TypeStep, HoldingStep, AgreementStep, RefusalStep DEF IInv

LEMMA Invariance == Spec => []IInv
  BY Initially, Inductive, PTL DEF Spec
-----------------------------------------------------------------------------
THEOREM Typing == Spec => []TypeOK
  BY Invariance, PTL DEF IInv

(***************************************************************************)
(* A serving daemon owns every socket path of its hosts.                   *)
(***************************************************************************)
THEOREM ServingSocketsLead == Spec => []SocketsLead
  <1>1. IInv => SocketsLead
    BY DEF IInv, TypeOK, Holding, Locked, SocketsLead
  <1> QED BY <1>1, Invariance, PTL

(***************************************************************************)
(* Crash residue never refuses a daemon.                                   *)
(***************************************************************************)
THEOREM OnlyRivalsRefuse == Spec => []RefusedForARival
  BY Invariance, PTL DEF IInv

(***************************************************************************)
(* Without overlap, a saved token is saved for good.                       *)
(***************************************************************************)
THEOREM TokensAreKept == Spec => TokensSurvive
  <1> DEFINE Kept == alone' => \A h \in Hosts : tokens[h] # NoOne => tokens'[h] = tokens[h]
  <1>1. IInv /\ [Next]_vars => [Kept]_vars
    <2> SUFFICES ASSUME IInv, Next, alone' PROVE Kept
      OBVIOUS
    <2>1. ASSUME NEW d \in Daemons, Ensure(d) PROVE Kept
      <3>1. alone /\ Active(d)
        BY <2>1 DEF Ensure, Active
      <3>2. minted[d] = tokens
        BY <3>1 DEF IInv, Agreement
      <3> QED BY <2>1, <3>2 DEF Ensure, IInv, TypeOK
    <2>2. ASSUME tokens' = tokens PROVE Kept
      BY <2>2
    <2> QED
      BY <2>1, <2>2 DEF Next, NewServer, AcquireLock, LockIsHeld, Probe, GiveUp,
         CloseListener, Remove, Listen, StartFails, Serve, Record, Forget, SaveIndex,
         Stop, Release, Exit, Kill, files
  <1> QED BY <1>1, Invariance, PTL DEF Spec, TokensSurvive

(***************************************************************************)
(* Without overlap, an entry leaves the saved index only when it is        *)
(* dropped.                                                                *)
(***************************************************************************)
THEOREM EntriesAreKept == Spec => EntriesSurvive
  <1> DEFINE Dropped == alone' => \A e \in index \ index' :
                          \E d \in Daemons : e \in known[d] /\ e \notin known'[d]
  <1>1. IInv /\ [Next]_vars => [Dropped]_vars
    <2> SUFFICES ASSUME IInv, Next, alone' PROVE Dropped
      OBVIOUS
    <2>1. ASSUME NEW d \in Daemons, NEW e \in Entries, Record(d, e) \/ Forget(d, e)
          PROVE Dropped
      <3>1. alone /\ Active(d)
        BY <2>1 DEF Record, Forget, SaveIndex, HasHandlers, Active
      <3>2. known[d] = index
        BY <3>1 DEF IInv, Agreement
      <3> QED BY <2>1, <3>2 DEF Record, Forget, SaveIndex, IInv, TypeOK
    <2>2. ASSUME index' = index PROVE Dropped
      BY <2>2
    <2> QED
      BY <2>1, <2>2 DEF Next, NewServer, AcquireLock, LockIsHeld, Probe, GiveUp,
         CloseListener, Remove, Listen, Ensure, StartFails, Serve, Stop, Release,
         Exit, Kill, files
  <1> QED BY <1>1, Invariance, PTL DEF Spec, EntriesSurvive
=============================================================================
