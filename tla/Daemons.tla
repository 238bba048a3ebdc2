------------------------------ MODULE Daemons ------------------------------
(***************************************************************************)
(* Processes of lopend that follow each other, or meet, on one state       *)
(* directory: runDaemon of cmd/lopend, NewServer and Run of                *)
(* internal/daemon/server.go, the instance lock (lock_unix.go), the        *)
(* request sockets (listen_unix.go), the token store (tokens.go) and the   *)
(* copy of the index a process saves (internal/index).  A process reads    *)
(* its files before it asks for the lock, and its handlers go on until it  *)
(* exits, which is after it has given the lock back.                       *)
(***************************************************************************)
EXTENDS Naturals

CONSTANTS
    Daemons,        \* the processes, each started once
    Hosts,          \* the enrolled hosts (labels)
    Entries,        \* the entries of the index
    NoOne, NoHost   \* nil

ASSUME DaemonsAssumption == NoOne \notin Daemons /\ NoHost \notin Hosts

VARIABLES
    step,       \* where each process is
    hosts,      \* its configuration
    at,         \* the host Run is binding
    open,       \* the hosts whose listener it holds open
    lock,       \* who holds the flock on lopend.lock
    sock,       \* per host: who bound the socket file at its path
    tokens,     \* tokens.json: per host, the process that minted the token
    minted,     \* tokenStore.Tokens of each process
    index,      \* the entries in index.json
    known,      \* Index.Entries of each process
    alone       \* history: no two processes have run at the same time

files == <<sock, tokens, index>>
vars == <<step, hosts, at, open, lock, files, minted, known, alone>>

Init ==
    /\ step = [d \in Daemons |-> "new"]
    /\ hosts = [d \in Daemons |-> {}]
    /\ at = [d \in Daemons |-> NoHost]
    /\ open = [d \in Daemons |-> {}]
    /\ lock = NoOne
    /\ sock = [h \in Hosts |-> NoOne]
    /\ tokens = [h \in Hosts |-> NoOne]
    /\ minted = [d \in Daemons |-> tokens]
    /\ index = {}
    /\ known = [d \in Daemons |-> {}]
    /\ alone = TRUE

Active(d) == step[d] \notin {"new", "gone"}

Move(d, from, to) == step[d] \in from /\ step' = [step EXCEPT ![d] = to]

\* Somebody accepts on the socket file at the path of h.
Live(h) == sock[h] # NoOne /\ h \in open[sock[h]]
-----------------------------------------------------------------------------
(* Starting.                                                               *)

\* Mutant of NewServer: the saved tokens and entries are not read.
NewServerAfresh(d) ==
    /\ Move(d, {"new"}, "loaded")
    /\ hosts' \in {[hosts EXCEPT ![d] = H] : H \in SUBSET Hosts \ {{}}}
    /\ alone' = (alone /\ \A x \in Daemons : ~Active(x))
    /\ UNCHANGED <<at, open, lock, files, minted, known>>

\* config.Load, then index.Load and loadTokens, before there is any lock.
NewServer(d) ==
    /\ Move(d, {"new"}, "loaded")
    /\ hosts' \in {[hosts EXCEPT ![d] = H] : H \in SUBSET Hosts \ {{}}}
    /\ known' = [known EXCEPT ![d] = index]
    /\ minted' = [minted EXCEPT ![d] = tokens]
    /\ alone' = (alone /\ \A x \in Daemons : ~Active(x))
    /\ UNCHANGED <<at, open, lock, files>>

\* Mutant of AcquireLock: the lock is not asked for.
AcquireNoLock(d) ==
    /\ Move(d, {"loaded"}, "binding")
    /\ lock' = d
    /\ UNCHANGED <<hosts, at, open, files, minted, known, alone>>

AcquireLock(d) ==
    /\ lock = NoOne
    /\ Move(d, {"loaded"}, "binding")
    /\ lock' = d
    /\ UNCHANGED <<hosts, at, open, files, minted, known, alone>>

\* LOCK_NB: a second lopend does not wait for the first.
LockIsHeld(d) ==
    /\ lock # NoOne
    /\ Move(d, {"loaded"}, "refused")
    /\ UNCHANGED <<hosts, at, open, lock, files, minted, known, alone>>

\* Run returns an error: the deferred release comes before the process exits.
GiveUp(d, from, to) ==
    /\ Move(d, from, to)
    /\ lock' = NoOne
    /\ UNCHANGED <<hosts, at, open, files, minted, known, alone>>

\* Mutant of Probe: a socket file is taken for a live listener.
ProbeFile(d, h) ==
    /\ h \in hosts[d] \ open[d]
    /\ IF sock[h] # NoOne
         THEN GiveUp(d, {"binding"}, "refused")
         ELSE /\ Move(d, {"binding"}, "probed")
              /\ at' = [at EXCEPT ![d] = h]
              /\ UNCHANGED <<hosts, open, lock, files, minted, known, alone>>

\* listenLocal: a socket that answers is not stolen.
Probe(d, h) ==
    /\ h \in hosts[d] \ open[d]
    /\ IF Live(h)
         THEN GiveUp(d, {"binding"}, "refused")
         ELSE /\ Move(d, {"binding"}, "probed")
              /\ at' = [at EXCEPT ![d] = h]
              /\ UNCHANGED <<hosts, open, lock, files, minted, known, alone>>

Remove(d) ==
    /\ Move(d, {"probed"}, "removed")
    /\ sock' = [sock EXCEPT ![at[d]] = NoOne]
    /\ UNCHANGED <<hosts, at, open, lock, tokens, minted, index, known, alone>>

\* bind fails on a file that came back since it was removed.
Listen(d) ==
    /\ step[d] = "removed"
    /\ IF sock[at[d]] # NoOne
         THEN GiveUp(d, {"removed"}, "refused")
         ELSE /\ Move(d, {"removed"}, "bound")
              /\ sock' = [sock EXCEPT ![at[d]] = d]
              /\ open' = [open EXCEPT ![d] = @ \cup {at[d]}]
              /\ UNCHANGED <<hosts, at, lock, tokens, minted, index, known, alone>>

\* Mutant of Ensure: a token is minted at every start.
EnsureAnew(d) ==
    LET mine == [minted[d] EXCEPT ![at[d]] = d] IN
    /\ Move(d, {"bound"}, "binding")
    /\ minted' = [minted EXCEPT ![d] = mine]
    /\ tokens' = mine
    /\ at' = [at EXCEPT ![d] = NoHost]
    /\ UNCHANGED <<hosts, open, lock, sock, index, known, alone>>

\* tokenStore.ensure: a missing token is minted, and then the whole store saved.
Ensure(d) ==
    LET mine == [minted[d] EXCEPT ![at[d]] = IF @ = NoOne THEN d ELSE @] IN
    /\ step[d] = "bound"
    /\ Move(d, {"bound"}, "binding")
    /\ minted' = [minted EXCEPT ![d] = mine]
    /\ tokens' = IF mine # minted[d] THEN mine ELSE tokens
    /\ at' = [at EXCEPT ![d] = NoHost]
    /\ UNCHANGED <<hosts, open, lock, sock, index, known, alone>>

\* A socket cannot be bound or the tokens not be saved.
StartFails(d) == GiveUp(d, {"removed", "bound"}, "failed")

Serve(d) ==
    /\ hosts[d] \subseteq open[d]
    /\ Move(d, {"binding"}, "serving")
    /\ UNCHANGED <<hosts, at, open, lock, files, minted, known, alone>>
-----------------------------------------------------------------------------
(* Serving: handlers, and GC until the shutdown, save their whole index.   *)

HasHandlers == {"serving", "closing", "leaving"}

SaveIndex(d, entries) ==
    /\ known' = [known EXCEPT ![d] = entries]
    /\ index' = entries
    /\ UNCHANGED <<step, hosts, at, open, lock, sock, tokens, minted, alone>>

Record(d, e) == step[d] \in HasHandlers /\ SaveIndex(d, known[d] \cup {e})
Forget(d, e) == step[d] \in HasHandlers /\ e \in known[d] /\ SaveIndex(d, known[d] \ {e})
-----------------------------------------------------------------------------
(* Ending.                                                                 *)

\* SIGINT or SIGTERM; one that comes earlier takes effect here.
Stop(d) ==
    /\ Move(d, {"serving"}, "closing")
    /\ UNCHANGED <<hosts, at, open, lock, files, minted, known, alone>>

\* Close of a unix listener unlinks its path, whoever bound it last.
CloseListener(d, h) ==
    /\ step[d] = "closing"
    /\ h \in open[d]
    /\ sock' = [sock EXCEPT ![h] = NoOne]
    /\ open' = [open EXCEPT ![d] = @ \ {h}]
    /\ UNCHANGED <<step, hosts, at, lock, tokens, minted, index, known, alone>>

\* wg.Wait returns when the listeners, the tunnels and GC are done; Run does
\* not wait for the handlers.
Release(d) ==
    /\ open[d] = {}
    /\ Move(d, {"closing"}, "leaving")
    /\ lock' = NoOne
    /\ UNCHANGED <<hosts, at, open, files, minted, known, alone>>

\* The process ends and its listeners with it, their files stay.
Exit(d) ==
    /\ Move(d, {"leaving", "refused", "failed"}, "gone")
    /\ open' = [open EXCEPT ![d] = {}]
    /\ UNCHANGED <<hosts, at, lock, files, minted, known, alone>>

\* It is killed: the kernel gives its lock back.
Kill(d) ==
    /\ Active(d)
    /\ step' = [step EXCEPT ![d] = "gone"]
    /\ open' = [open EXCEPT ![d] = {}]
    /\ lock' = IF lock = d THEN NoOne ELSE lock
    /\ UNCHANGED <<hosts, at, files, minted, known, alone>>

Next ==
    \E d \in Daemons :
        \/ NewServer(d)
        \/ AcquireLock(d) \/ LockIsHeld(d)
        \/ \E h \in Hosts : Probe(d, h) \/ CloseListener(d, h)
        \/ Remove(d) \/ Listen(d) \/ Ensure(d) \/ StartFails(d)
        \/ Serve(d)
        \/ \E e \in Entries : Record(d, e) \/ Forget(d, e)
        \/ Stop(d) \/ Release(d) \/ Exit(d) \/ Kill(d)

Spec == Init /\ [][Next]_vars
-----------------------------------------------------------------------------
Locked == {"binding", "probed", "removed", "bound", "serving", "closing"}

TypeOK ==
    /\ step \in [Daemons -> {"new", "loaded", "leaving", "refused", "failed", "gone"} \cup Locked]
    /\ hosts \in [Daemons -> SUBSET Hosts]
    /\ at \in [Daemons -> Hosts \cup {NoHost}]
    /\ open \in [Daemons -> SUBSET Hosts]
    /\ lock \in Daemons \cup {NoOne}
    /\ sock \in [Hosts -> Daemons \cup {NoOne}]
    /\ tokens \in [Hosts -> Daemons \cup {NoOne}]
    /\ minted \in [Daemons -> [Hosts -> Daemons \cup {NoOne}]]
    /\ index \subseteq Entries
    /\ known \in [Daemons -> SUBSET Entries]
    /\ alone \in BOOLEAN
    /\ \A d \in Daemons : step[d] \in {"probed", "removed", "bound"} => at[d] \in Hosts

(***************************************************************************)
(* "Never unlink a socket that a process is actively listening on": while  *)
(* a daemon serves, the path of every host of its leads to its own open    *)
(* listener, whatever other processes start, fail, stop or are killed, so  *)
(* that no tunnel forwards to an orphaned descriptor.                      *)
(***************************************************************************)
SocketsLead ==
    \A d \in Daemons : step[d] = "serving" =>
        \A h \in hosts[d] : sock[h] = d /\ h \in open[d]

(***************************************************************************)
(* "Crash residue must be removed and rebound, not treated as live": what  *)
(* killed processes leave behind (lock file, socket files) never keeps a   *)
(* daemon from starting; only another running process does.                *)
(***************************************************************************)
RefusedForARival == \A d \in Daemons : step[d] = "refused" => ~alone

(***************************************************************************)
(* "Tokens survive daemon restarts so the remote agent config provisioned  *)
(* on each host stays valid": as long as processes do not overlap, a token *)
(* once saved is never replaced, not even by a daemon that is configured   *)
(* for other hosts or killed in the middle.                                *)
(***************************************************************************)
TokensSurvive ==
    [][alone' => \A h \in Hosts : tokens[h] # NoOne => tokens'[h] = tokens[h]]_vars

(***************************************************************************)
(* The index is "the source of truth for the locally modified guard": as   *)
(* long as processes do not overlap, an entry leaves index.json only when  *)
(* a process that knew it drops it, never because one saves a copy that    *)
(* lacks it.                                                               *)
(***************************************************************************)
EntriesSurvive ==
    [][alone' => \A e \in index \ index' :
         \E d \in Daemons : e \in known[d] /\ e \notin known'[d]]_vars
=============================================================================
