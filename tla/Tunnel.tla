------------------------------- MODULE Tunnel -------------------------------
(***************************************************************************)
(* The supervisor of one host's tunnel (Run, once and provision of         *)
(* internal/daemon/tunnel.go) against the host: the remote shells that     *)
(* write ~/.lopen/agent.json, which outlive a killed ssh; the sshd that    *)
(* holds the forwarded port until it notices that its session is dead; and *)
(* lssh on another host, which writes the same file and forwards the same  *)
(* port.  Connections may stall or break and the host may reboot,          *)
(* MaxFaults times in all.  How long a wait is (backoff) is left out.      *)
(***************************************************************************)
EXTENDS Naturals

CONSTANTS
    Shells,         \* the remote shells provision starts, reused once they are over
    Lssh,           \* the remote shell lssh starts
    Own, Foreign,   \* the agent config of this tunnel and the one lssh brings
    Length, Absent, Empty, Torn,
    NoShell, NoText,
    MaxFaults,
    MaxHops         \* how often lssh comes to this host

Writers == Shells \cup {Lssh}

VARIABLES
    phase,      \* of the supervisor
    mine,       \* the shell of this attempt's provision
    stalled,    \* the attempt's connection carries nothing any more
    text,       \* what each running shell has to write
    port,       \* who listens on the remote port: "free", "ours", "dead" or "hop"
    hop,        \* lssh: "none", "copying", "forwarding"
    faults, hops,
    undisturbed,    \* history: no other shell ran since this attempt began
    temp, file, at, crossed

agent == INSTANCE TempFile WITH Values <- {Own, Foreign}

ASSUME TunnelAssumption ==
    /\ Lssh \notin Shells /\ NoShell \notin Writers /\ NoText \notin {Own, Foreign}
    /\ MaxFaults \in Nat /\ MaxHops \in Nat
    /\ agent!Told

agentVars == <<temp, file, at, crossed>>
vars == <<phase, mine, stalled, text, port, hop, faults, hops, undisturbed, agentVars>>

Init ==
    /\ phase = "idle" /\ mine = NoShell /\ stalled = FALSE
    /\ text = [s \in Writers |-> NoText]
    /\ port = "free" /\ hop = "none"
    /\ faults = 0 /\ hops = 0 /\ undisturbed = TRUE
    /\ agent!Init

Running(s) == text[s] # NoText
Attached(s) == s = mine /\ phase = "provisioning" /\ ~stalled

\* What the sshd of the host is left with when the ssh of the tunnel is gone.
Orphaned == IF port = "ours" THEN "dead" ELSE port
-----------------------------------------------------------------------------
(* The supervisor.                                                         *)

\* once, and provision's ssh: a remote shell is started.
Provision(s) ==
    /\ phase = "idle" /\ ~Running(s)
    /\ phase' = "provisioning" /\ mine' = s /\ stalled' = FALSE
    /\ text' = [text EXCEPT ![s] = Own]
    /\ undisturbed' = (\A x \in Writers : ~Running(x))
    /\ UNCHANGED <<port, hop, faults, hops, agentVars>>

\* The ssh process of this attempt is gone; what it started is not.
Down ==
    /\ phase' = "waiting" /\ mine' = NoShell /\ stalled' = FALSE
    /\ port' = Orphaned
    /\ UNCHANGED <<text, hop, hops, undisturbed, agentVars>>

\* Mutant of ProvisionTimeout: provision has no ceiling.
NoCeiling == FALSE /\ Down /\ UNCHANGED faults

\* The context of provision expires and kills its ssh.
ProvisionTimeout == phase = "provisioning" /\ stalled /\ Down /\ UNCHANGED faults

\* ssh gives up on its own: ConnectTimeout, or ServerAlive unanswered.
KeepaliveFails == phase \in {"connecting", "up"} /\ stalled /\ Down /\ UNCHANGED faults

\* ssh -N -R; ExitOnForwardFailure makes a port in use an error.
Forward ==
    /\ phase = "connecting" /\ ~stalled
    /\ IF port = "free"
         THEN /\ phase' = "up" /\ port' = "ours"
              /\ UNCHANGED <<mine, stalled, text, hop, hops, undisturbed, agentVars>>
         ELSE Down
    /\ UNCHANGED faults

Wait ==
    /\ phase = "waiting" /\ phase' = "idle"
    /\ UNCHANGED <<mine, stalled, text, port, hop, faults, hops, undisturbed, agentVars>>

\* The context of Run ends: its ssh is killed.
Stop ==
    /\ phase # "stopped" /\ phase' = "stopped" /\ mine' = NoShell /\ port' = Orphaned
    /\ UNCHANGED <<stalled, text, hop, faults, hops, undisturbed, agentVars>>
-----------------------------------------------------------------------------
(* The host.                                                               *)

ShellOpens(s) ==
    /\ Running(s) /\ agent!Open(s)
    /\ UNCHANGED <<phase, mine, stalled, text, port, hop, faults, hops, undisturbed>>

ShellWrites(s) ==
    /\ Running(s) /\ agent!Write(s, text[s])
    /\ UNCHANGED <<phase, mine, stalled, text, port, hop, faults, hops, undisturbed>>

\* mv, the last command: its status is the shell's, and reaches provision if
\* the connection still carries it.
ShellRenames(s) ==
    /\ agent!Rename(s)
    /\ text' = [text EXCEPT ![s] = NoText]
    /\ phase' = IF ~Attached(s) THEN phase
                ELSE IF temp = Absent THEN "waiting" ELSE "connecting"
    /\ mine' = IF Attached(s) THEN NoShell ELSE mine
    /\ UNCHANGED <<stalled, port, hop, faults, hops, undisturbed>>

\* A shell nobody listens to may be ended at any time.
ShellDies(s) ==
    /\ Running(s) /\ ~Attached(s) /\ s # Lssh
    /\ text' = [text EXCEPT ![s] = NoText]
    /\ agent!Abandon({s})
    /\ UNCHANGED <<phase, mine, stalled, port, hop, faults, hops, undisturbed>>

\* sshd notices that the session is dead and closes its listener.
Reap ==
    /\ port = "dead" /\ port' = "free"
    /\ UNCHANGED <<phase, mine, stalled, text, hop, faults, hops, undisturbed, agentVars>>

\* lssh from another host: it copies that host's config, then forwards.
HopCopies ==
    /\ hop = "none" /\ hops < MaxHops
    /\ hop' = "copying" /\ hops' = hops + 1
    /\ text' = [text EXCEPT ![Lssh] = Foreign]
    /\ undisturbed' = FALSE
    /\ UNCHANGED <<phase, mine, stalled, port, faults, agentVars>>

HopForwards ==
    /\ hop = "copying" /\ ~Running(Lssh)
    /\ IF port = "free" THEN hop' = "forwarding" /\ port' = "hop"
                        ELSE hop' = "none" /\ UNCHANGED port
    /\ UNCHANGED <<phase, mine, stalled, text, faults, hops, undisturbed, agentVars>>

HopEnds ==
    /\ hop = "forwarding" /\ hop' = "none" /\ port' = "free"
    /\ UNCHANGED <<phase, mine, stalled, text, faults, hops, undisturbed, agentVars>>
-----------------------------------------------------------------------------
(* Faults.                                                                 *)

Connected == phase \in {"provisioning", "connecting", "up"}

Fault == faults < MaxFaults /\ faults' = faults + 1

\* The network goes away without a word (sleep, a change of network).
Stall ==
    /\ Fault /\ Connected /\ ~stalled /\ stalled' = TRUE
    /\ UNCHANGED <<phase, mine, text, port, hop, hops, undisturbed, agentVars>>

\* Mutant of Break: the error of provision is not looked at.
BreakUnchecked ==
    /\ Fault /\ Connected
    /\ phase' = IF phase = "provisioning" THEN "connecting" ELSE "waiting"
    /\ mine' = NoShell /\ stalled' = FALSE /\ port' = Orphaned
    /\ UNCHANGED <<text, hop, hops, undisturbed, agentVars>>

\* The connection is refused or broken and ssh ends.
Break == Fault /\ Connected /\ Down

Reboot ==
    /\ Fault
    /\ text' = [s \in Writers |-> NoText]
    /\ agent!Abandon(Writers)
    /\ port' = "free" /\ hop' = "none"
    /\ phase' = IF Connected THEN "waiting" ELSE phase
    /\ mine' = NoShell /\ stalled' = FALSE
    /\ UNCHANGED <<hops, undisturbed>>
-----------------------------------------------------------------------------
ShellStep(s) == ShellOpens(s) \/ ShellWrites(s) \/ ShellRenames(s)

Next ==
    \/ \E s \in Shells : Provision(s)
    \/ ProvisionTimeout \/ KeepaliveFails \/ Forward \/ Wait \/ Stop
    \/ \E s \in Writers : ShellStep(s) \/ ShellDies(s)
    \/ Reap \/ HopCopies \/ HopForwards \/ HopEnds
    \/ Stall \/ Break \/ Reboot

Spec == Init /\ [][Next]_vars

(***************************************************************************)
(* The supervisor's own steps and timeouts are taken, the shell of an      *)
(* attempt whose connection is alive goes on, and sshd reaps.  A shell     *)
(* without a connection, lssh and the end of a hop may take for ever.      *)
(***************************************************************************)
Fairness ==
    /\ WF_vars(\E s \in Shells : Provision(s))
    /\ WF_vars(ProvisionTimeout) /\ WF_vars(KeepaliveFails)
    /\ WF_vars(Forward) /\ WF_vars(Wait) /\ WF_vars(Reap)
    /\ WF_vars(\E s \in Writers : Attached(s) /\ ShellStep(s))

LiveSpec == Spec /\ Fairness
-----------------------------------------------------------------------------
TypeOK ==
    /\ phase \in {"idle", "provisioning", "connecting", "up", "waiting", "stopped"}
    /\ mine \in Shells \cup {NoShell}
    /\ phase = "provisioning" <=> mine # NoShell
    /\ stalled \in BOOLEAN /\ undisturbed \in BOOLEAN
    /\ text \in [Writers -> {Own, Foreign, NoText}]
    /\ port \in {"free", "ours", "dead", "hop"}
    /\ hop \in {"none", "copying", "forwarding"}
    /\ faults \in 0..MaxFaults /\ hops \in 0..MaxHops
    /\ agent!TypeOK

(***************************************************************************)
(* "Writing it atomically (temp + mv)": a client on the host reads a whole *)
(* agent.json whatever breaks in the middle of a provisioning, as long as  *)
(* no two writers cross.                                                   *)
(***************************************************************************)
AgentIsWhole == agent!WholeUnlessCrossed

(***************************************************************************)
(* Provisioning comes "before bringing up the forward": while the tunnel   *)
(* is up the client finds this tunnel's port and token, unless lssh or a   *)
(* shell that an earlier attempt left behind was at work meanwhile.        *)
(***************************************************************************)
UpMeansProvisioned == phase = "up" /\ undisturbed => file = Own

(***************************************************************************)
(* "This deadline guarantees the loop always makes progress": after        *)
(* finitely many stalls, breaks and reboots, and once no hop holds the     *)
(* port, the tunnel is up for good or the daemon is stopped.               *)
(***************************************************************************)
TunnelComesUp == <>[](port # "hop") => <>[](phase \in {"up", "stopped"})
=============================================================================
