------------------------------- MODULE Server -------------------------------
(***************************************************************************)
(* How the daemon admits and finishes requests                             *)
(* (internal/daemon/server.go): one accept loop per tunnel, a semaphore    *)
(* over all of them, the slot lock, the deadline of a request, the opener  *)
(* (internal/daemon/opener.go, opener_linux.go) and shutdown.  What a      *)
(* request does to the mirror is in Mirror; here a step is only as long as *)
(* it may block.                                                           *)
(***************************************************************************)
EXTENDS Naturals, FiniteSets

CONSTANTS
    Conns,          \* the connections clients make, each one request
    Tunnels,        \* the enrolled hosts
    TunnelOf,       \* the tunnel a connection arrives through
    Slots,          \* the mirror slots
    SlotOf,         \* the slot (rel) a connection's request names
    Max,            \* maxConcurrentRequests
    NoConn          \* nil

ASSUME ServerAssumption ==
    /\ Max \in Nat \ {0}
    /\ IsFiniteSet(Conns)
    /\ TunnelOf \in [Conns -> Tunnels]
    /\ SlotOf \in [Conns -> Slots]
    /\ NoConn \notin Conns

VARIABLES
    pc,         \* where each connection is
    loop,       \* per tunnel: the connection acceptLoop took and cannot admit yet
    over,       \* the tunnels whose acceptLoop has returned
    sem,        \* len(s.sem)
    lock,       \* per slot: the connection whose handler holds it
    late,       \* the connections whose deadline (requestTimeout) has passed
    viewing,    \* the connections whose viewer keeps the opener's pipe open
    stopping    \* ctx is done

vars == <<pc, loop, over, sem, lock, late, viewing, stopping>>

Init ==
    /\ pc = [c \in Conns |-> "new"]
    /\ loop = [t \in Tunnels |-> NoConn]
    /\ over = {}
    /\ sem = 0
    /\ lock = [s \in Slots |-> NoConn]
    /\ late = {}
    /\ viewing = {}
    /\ stopping = FALSE

Move(c, from, to) == pc[c] = from /\ pc' = [pc EXCEPT ![c] = to]

Holding == {"receiving", "resolving", "revealing", "opening", "viewing", "unlocking"}
Handling == {"reading", "locking", "closing"} \cup Holding
-----------------------------------------------------------------------------
(* acceptLoop.                                                             *)

Dial(c) ==
    /\ Move(c, "new", "dialed")
    /\ UNCHANGED <<loop, over, sem, lock, late, viewing, stopping>>

Accept(t, c) ==
    /\ t \notin over
    /\ loop[t] = NoConn
    /\ TunnelOf[c] = t
    /\ Move(c, "dialed", "accepted")
    /\ loop' = [loop EXCEPT ![t] = c]
    /\ UNCHANGED <<over, sem, lock, late, viewing, stopping>>

\* Mutant of Admit: the semaphore has one place too many.
AdmitOneMore(t, c) ==
    /\ loop[t] = c
    /\ sem <= Max
    /\ Move(c, "accepted", "reading")
    /\ sem' = sem + 1
    /\ loop' = [loop EXCEPT ![t] = NoConn]
    /\ UNCHANGED <<over, lock, late, viewing, stopping>>

\* A place in the semaphore is free: the handler's goroutine starts.
Admit(t, c) ==
    /\ loop[t] = c
    /\ sem < Max
    /\ Move(c, "accepted", "reading")
    /\ sem' = sem + 1
    /\ loop' = [loop EXCEPT ![t] = NoConn]
    /\ UNCHANGED <<over, lock, late, viewing, stopping>>

\* ctx is done while the loop waits for a place: the connection is closed.
Abandon(t, c) ==
    /\ stopping
    /\ loop[t] = c
    /\ Move(c, "accepted", "closed")
    /\ loop' = [loop EXCEPT ![t] = NoConn]
    /\ over' = over \cup {t}
    /\ UNCHANGED <<sem, lock, late, viewing, stopping>>

\* Accept fails, and the loop returns for good: the listener was closed because
\* ctx is done, or the process ran out of descriptors for a moment.
AcceptFails(t) ==
    /\ t \notin over
    /\ loop[t] = NoConn
    /\ over' = over \cup {t}
    /\ UNCHANGED <<pc, loop, sem, lock, late, viewing, stopping>>
-----------------------------------------------------------------------------
(* handle.                                                                 *)

\* The header arrives, and the request is honoured.
ReadRequest(c) ==
    /\ Move(c, "reading", "locking")
    /\ UNCHANGED <<loop, over, sem, lock, late, viewing, stopping>>

\* The header does not arrive, is not valid or not authenticated.
Reject(c) ==
    /\ Move(c, "reading", "closing")
    /\ UNCHANGED <<loop, over, sem, lock, late, viewing, stopping>>

\* slotMu.Lock: it waits for the holder, whatever the deadline says.
Lock(c) ==
    /\ lock[SlotOf[c]] = NoConn
    /\ lock' = [lock EXCEPT ![SlotOf[c]] = c]
    /\ Move(c, "locking", "receiving")
    /\ UNCHANGED <<loop, over, sem, late, viewing, stopping>>

\* Mutant of Fail: the handler returns without unlocking the slot.
FailHoldingLock(c) ==
    /\ Move(c, "receiving", "closing")
    /\ UNCHANGED <<loop, over, sem, lock, late, viewing, stopping>>

\* The guard refuses, the payload is bad or breaks off, or Promote fails.
Fail(c) ==
    /\ Move(c, "receiving", "unlocking")
    /\ UNCHANGED <<loop, over, sem, lock, late, viewing, stopping>>

\* The payload is complete and promoted; systemctl is asked for the session's
\* environment.
Receive(c) ==
    /\ Move(c, "receiving", "resolving")
    /\ UNCHANGED <<loop, over, sem, lock, late, viewing, stopping>>

\* systemctl, which has no ctx, ends; then gdbus or the opener is started, or
\* none is installed.
Resolve(c) ==
    /\ \E to \in {"revealing", "opening", "unlocking"} : Move(c, "resolving", to)
    /\ UNCHANGED <<loop, over, sem, lock, late, viewing, stopping>>

\* The file manager has shown the file, or the opener is tried instead.
Reveal(c) ==
    /\ \E to \in {"opening", "unlocking"} : Move(c, "revealing", to)
    /\ UNCHANGED <<loop, over, sem, lock, late, viewing, stopping>>

\* The opener exits or is killed at the deadline; a viewer it started may have
\* inherited the pipe CombinedOutput reads until end of file.
OpenerExits(c) ==
    /\ Move(c, "opening", "viewing")
    /\ viewing' \in {viewing, viewing \cup {c}}
    /\ UNCHANGED <<loop, over, sem, lock, late, stopping>>

\* The user closes the viewer.
ViewerExits(c) ==
    /\ c \in viewing
    /\ viewing' = viewing \ {c}
    /\ UNCHANGED <<pc, loop, over, sem, lock, late, stopping>>

\* CombinedOutput returns.
Opened(c) ==
    /\ c \notin viewing
    /\ Move(c, "viewing", "unlocking")
    /\ UNCHANGED <<loop, over, sem, lock, late, viewing, stopping>>

Unlock(c) ==
    /\ Move(c, "unlocking", "closing")
    /\ lock' = [lock EXCEPT ![SlotOf[c]] = NoConn]
    /\ UNCHANGED <<loop, over, sem, late, viewing, stopping>>

\* Mutant of Close: the place in the semaphore is not given back.
CloseKeepingPlace(c) ==
    /\ Move(c, "closing", "closed")
    /\ UNCHANGED <<loop, over, sem, lock, late, viewing, stopping>>

\* conn.Close, then the place in the semaphore is given back.
Close(c) ==
    /\ Move(c, "closing", "closed")
    /\ sem' = sem - 1
    /\ UNCHANGED <<loop, over, lock, late, viewing, stopping>>

\* requestTimeout runs out, counted from the start of the handler.
Expire(c) ==
    /\ pc[c] \in Handling
    /\ c \notin late
    /\ late' = late \cup {c}
    /\ UNCHANGED <<pc, loop, over, sem, lock, viewing, stopping>>

Stop ==
    /\ ~stopping
    /\ stopping' = TRUE
    /\ UNCHANGED <<pc, loop, over, sem, lock, late, viewing>>

Next ==
    \/ \E c \in Conns :
        \/ Dial(c)
        \/ \E t \in Tunnels : Accept(t, c) \/ Admit(t, c) \/ Abandon(t, c)
        \/ ReadRequest(c) \/ Reject(c)
        \/ Lock(c)
        \/ Fail(c) \/ Receive(c)
        \/ Resolve(c) \/ Reveal(c)
        \/ OpenerExits(c) \/ ViewerExits(c) \/ Opened(c)
        \/ Unlock(c) \/ Close(c)
        \/ Expire(c)
    \/ \E t \in Tunnels : AcceptFails(t)
    \/ Stop

Spec == Init /\ [][Next]_vars

\* A client may stall at any point of its request: only the deadline ends it,
\* through the conn's read deadline (header, inline payload) or the ctx of the
\* ssh child (pull), of gdbus and of the opener.  The accept loops and the handlers
\* queue for the semaphore and for a slot in order of arrival, as senders on a
\* channel and waiters of a sync.Mutex do.  Nobody makes the user close a
\* viewer, nor the user manager answer systemctl.
TimesOut(c) == c \in late /\ (Reject(c) \/ Fail(c))

Fairness ==
    /\ \A c \in Conns : /\ WF_vars(Expire(c))
                        /\ WF_vars(TimesOut(c))
                        /\ SF_vars(Lock(c))
                        /\ WF_vars(Reveal(c))
                        /\ WF_vars(OpenerExits(c))
                        /\ WF_vars(Opened(c))
                        /\ WF_vars(Unlock(c))
                        /\ WF_vars(Close(c))
    /\ \A t \in Tunnels : /\ WF_vars(\E c \in Conns : Accept(t, c))
                          /\ SF_vars(\E c \in Conns : Admit(t, c))
                          /\ WF_vars(\E c \in Conns : Abandon(t, c))

LiveSpec == Spec /\ Fairness
-----------------------------------------------------------------------------
InHandler == {c \in Conns : pc[c] \in Handling}

TypeOK ==
    /\ pc \in [Conns -> {"new", "dialed", "accepted", "closed"} \cup Handling]
    /\ loop \in [Tunnels -> Conns \cup {NoConn}]
    /\ over \subseteq Tunnels
    /\ sem \in Nat
    /\ lock \in [Slots -> Conns \cup {NoConn}]
    /\ late \subseteq Conns
    /\ viewing \subseteq Conns
    /\ stopping \in BOOLEAN

(***************************************************************************)
(* The semaphore "bounds transient staging disk to maxConcurrentRequests * *)
(* MaxPayloadBytes": it counts the handlers exactly, and never more than   *)
(* Max of them run, whatever tunnel they came through.                     *)
(***************************************************************************)
HandlersBounded == sem = Cardinality(InHandler) /\ sem <= Max

(***************************************************************************)
(* A handler gives its slot back on every path out of handle: a slot is    *)
(* locked exactly while the handler that locked it is between the lock and *)
(* the deferred unlock.                                                    *)
(***************************************************************************)
SlotsGivenBack ==
    \A s \in Slots, c \in Conns : lock[s] = c <=> pc[c] \in Holding /\ SlotOf[c] = s

(***************************************************************************)
(* A connection is never forgotten: one that was accepted is with its      *)
(* tunnel's accept loop or in a handler.                                   *)
(***************************************************************************)
AcceptedIsHeld == \A c \in Conns : pc[c] = "accepted" <=> loop[TunnelOf[c]] = c

(***************************************************************************)
(* "requestTimeout bounds one whole request (header, payload, open)": a    *)
(* handler whose deadline has passed ends, whatever the client and the     *)
(* user do.                                                                *)
(***************************************************************************)
DeadlineEndsRequest == \A c \in Conns : c \in late ~> pc[c] = "closed"

(***************************************************************************)
(* The deadline ends every request, the ones that wait for a slot of a     *)
(* stalled request included, provided that the programs the deadline does  *)
(* not reach end: users close their viewers and systemctl comes back.      *)
(***************************************************************************)
OthersEnd == []<>(viewing = {}) /\ \A c \in Conns : []<>(pc[c] # "resolving")

LateRequestsEnd == OthersEnd => DeadlineEndsRequest

(***************************************************************************)
(* "Excess connections wait for a slot": every connection is taken in and  *)
(* finished in the end, unless the daemon is stopped, such a program stays *)
(* or the accept loop of the very tunnel it came through has returned;     *)
(* requests that stall at Max handlers and on one slot, and tunnels that   *)
(* nobody accepts from any more, delay the others but not for ever.        *)
(***************************************************************************)
EveryConnectionIsServed ==
    OthersEnd => \A c \in Conns :
        pc[c] = "dialed" ~> (pc[c] = "closed" \/ TunnelOf[c] \in over \/ stopping)
=============================================================================
