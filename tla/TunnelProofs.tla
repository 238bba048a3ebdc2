---------------------------- MODULE TunnelProofs ----------------------------
(***************************************************************************)
(* Every step of Tunnel replaces agent.json as TempFile does, or leaves it *)
(* alone; what is proved of TempFile therefore holds of agent.json, for    *)
(* every number of shells, faults and visits of lssh.                      *)
(***************************************************************************)
EXTENDS Tunnel, TLAPS

whole == INSTANCE TempFileProofs WITH Values <- {Own, Foreign}

TextOK == text \in [Writers -> {Own, Foreign, NoText}]

LEMMA TextInv == Spec => []TextOK
  <1>1. Init => TextOK
    BY DEF Init, TextOK
  <1>2. TextOK /\ [Next]_vars => TextOK'
    <2> SUFFICES ASSUME TextOK, [Next]_vars PROVE TextOK'
      OBVIOUS
    <2>1. ASSUME UNCHANGED text PROVE TextOK'
      BY <2>1 DEF TextOK
    <2>2. ASSUME NEW s \in Writers, NEW v \in {Own, Foreign, NoText},
                 text' = [text EXCEPT ![s] = v]
          PROVE  TextOK'
      BY <2>2 DEF TextOK
    <2>3. ASSUME text' = [s \in Writers |-> NoText] PROVE TextOK'
      BY <2>3 DEF TextOK
    <2> QED
      BY <2>1, <2>2, <2>3 DEF Next, vars, Provision, ProvisionTimeout, KeepaliveFails,
         Forward, Wait, Stop, Down, ShellStep, ShellOpens, ShellWrites, ShellRenames,
         ShellDies, Reap, HopCopies, HopForwards, HopEnds, Stall, Break, Reboot, Writers
  <1> QED BY <1>1, <1>2, PTL DEF Spec

LEMMA StepsOfTempFile ==
  TextOK /\ [Next]_vars => [whole!Next]_(whole!vars)
  <1> SUFFICES ASSUME TextOK, [Next]_vars PROVE whole!Next \/ UNCHANGED whole!vars
    OBVIOUS
  <1>1. ASSUME UNCHANGED agentVars PROVE UNCHANGED whole!vars
    BY <1>1 DEF agentVars, whole!vars
  <1>2. ASSUME NEW s \in Writers, ShellOpens(s) PROVE whole!Next
    BY <1>2 DEF ShellOpens, agent!Open, agent!Begin, whole!Next, whole!Open, whole!Begin
  <1>3. ASSUME NEW s \in Writers, ShellWrites(s) PROVE whole!Next
    <2>1. text[s] \in {Own, Foreign}
      BY <1>3 DEF ShellWrites, Running, TextOK
    <2>2. whole!Write(s, text[s])
      BY <1>3 DEF ShellWrites, agent!Write, agent!Over, whole!Write, whole!Over
    <2> QED BY <2>1, <2>2 DEF whole!Next
  <1>4. ASSUME NEW s \in Writers, ShellRenames(s) PROVE whole!Next
    <2>1. whole!Rename(s)
      BY <1>4 DEF ShellRenames, agent!Rename, agent!Renamed, whole!Rename, whole!Renamed
    <2> QED BY <2>1 DEF whole!Next
  <1>5. ASSUME NEW W \in SUBSET Writers, agent!Abandon(W) PROVE whole!Next
    BY <1>5 DEF agent!Abandon, whole!Next, whole!Abandon
  <1>6. ASSUME NEW s \in Writers, ShellDies(s) PROVE whole!Next
    BY <1>5, <1>6 DEF ShellDies
  <1>7. ASSUME Reboot PROVE whole!Next
    BY <1>5, <1>7 DEF Reboot
  <1> QED
    BY <1>1, <1>2, <1>3, <1>4, <1>6, <1>7 DEF Next, vars, Provision, ProvisionTimeout,
       KeepaliveFails, Forward, Wait, Stop, Down, ShellStep, Reap, HopCopies,
       HopForwards, HopEnds, Stall, Break

(***************************************************************************)
(* Whoever reads agent.json finds a whole value unless two writers have    *)
(* crossed, whatever breaks, stalls, dies or reboots.                      *)
(***************************************************************************)
THEOREM AgentStaysWhole == Spec => []AgentIsWhole
  <1>1. whole!Told
    BY TunnelAssumption DEF agent!Told, whole!Told
  <1>2. whole!Spec => []whole!WholeUnlessCrossed
    BY <1>1, whole!ReplacedWhole
  <1>3. Init => whole!Init
    BY DEF Init, agent!Init, whole!Init
  <1>4. whole!WholeUnlessCrossed <=> AgentIsWhole
    BY DEF AgentIsWhole, agent!WholeUnlessCrossed, whole!WholeUnlessCrossed
  <1> QED BY <1>2, <1>3, <1>4, TextInv, StepsOfTempFile, PTL DEF Spec, whole!Spec

-----------------------------------------------------------------------------
(***************************************************************************)
(* The supervisor's own state is well-formed, and so is agent.json.        *)
(***************************************************************************)
Moves ==
    /\ phase \in {"idle", "provisioning", "connecting", "up", "waiting", "stopped"}
    /\ mine \in Shells \cup {NoShell}
    /\ phase = "provisioning" <=> mine # NoShell
Flags == stalled \in BOOLEAN /\ undisturbed \in BOOLEAN
Remote == port \in {"free", "ours", "dead", "hop"} /\ hop \in {"none", "copying", "forwarding"}
Counts == faults \in 0..MaxFaults /\ hops \in 0..MaxHops

SupervisorOK == Moves /\ Flags /\ Remote /\ Counts

LEMMA SupervisorInit == Init => SupervisorOK
  <1>1. Init => Moves /\ Remote
    BY DEF Init, Moves, Remote
  <1>2. Init => Flags
    BY DEF Init, Flags
  <1>3. Init => Counts
    BY TunnelAssumption DEF Init, Counts
  <1> QED BY <1>1, <1>2, <1>3 DEF SupervisorOK

LEMMA MovesStep == Moves /\ [Next]_vars => Moves'
  <1> SUFFICES ASSUME Moves, [Next]_vars PROVE Moves'
    OBVIOUS
  <1> USE DEF Moves
  <1>1. ASSUME NEW s \in Shells, Provision(s) PROVE Moves'
    BY <1>1, TunnelAssumption DEF Provision, Writers
  <1>2. ASSUME Down PROVE Moves'
    BY <1>2 DEF Down
  <1>3. ASSUME UNCHANGED <<phase, mine>> PROVE Moves'
    BY <1>3
  <1>4. ASSUME Forward PROVE Moves'
    BY <1>2, <1>4 DEF Forward
  <1>5. ASSUME Wait \/ Stop PROVE Moves'
    BY <1>5 DEF Wait, Stop
  <1>6. ASSUME NEW s \in Writers, ShellRenames(s) PROVE Moves'
    <2>1. phase' \in {phase, "waiting", "connecting"} /\ mine' \in {mine, NoShell}
      BY <1>6 DEF ShellRenames
    <2>2. Attached(s) => phase' # "provisioning" /\ mine' = NoShell
      BY <1>6 DEF ShellRenames
    <2>3. ~Attached(s) => phase' = phase /\ mine' = mine
      BY <1>6 DEF ShellRenames
    <2> QED BY <2>1, <2>2, <2>3
  <1>7. ASSUME Reboot PROVE Moves'
    <2>1. phase' = (IF Connected THEN "waiting" ELSE phase) /\ mine' = NoShell
      BY <1>7 DEF Reboot
    <2> QED BY <2>1 DEF Connected
  <1> QED
    BY <1>1, <1>2, <1>3, <1>4, <1>5, <1>6, <1>7 DEF Next, vars, ProvisionTimeout,
       KeepaliveFails, ShellStep, ShellOpens, ShellWrites, ShellDies, Reap, HopCopies,
       HopForwards, HopEnds, Stall, Break

LEMMA FlagsStep == Flags /\ [Next]_vars => Flags'
  <1> SUFFICES ASSUME Flags, [Next]_vars PROVE Flags'
    OBVIOUS
  <1>1. stalled' \in {stalled, TRUE, FALSE}
    BY DEF Next, vars, Provision, ProvisionTimeout, KeepaliveFails, Forward, Wait, Stop, Down,
       ShellStep, ShellOpens, ShellWrites, ShellRenames, ShellDies, Reap, HopCopies,
       HopForwards, HopEnds, Stall, Break, Reboot
  <1>2. ASSUME NEW s \in Shells, Provision(s) PROVE undisturbed' \in BOOLEAN
    BY <1>2, Zenon DEF Provision
  <1>3. undisturbed' \in {undisturbed, FALSE} \/ \E s \in Shells : Provision(s)
    BY DEF Next, vars, ProvisionTimeout, KeepaliveFails, Forward, Wait, Stop, Down,
       ShellStep, ShellOpens, ShellWrites, ShellRenames, ShellDies, Reap, HopCopies,
       HopForwards, HopEnds, Stall, Break, Reboot
  <1>4. stalled' \in BOOLEAN
    BY <1>1, Zenon DEF Flags
  <1>5. undisturbed' \in BOOLEAN
    BY <1>2, <1>3, Zenon DEF Flags
  <1> QED BY <1>4, <1>5 DEF Flags

LEMMA RemoteStep == Remote /\ [Next]_vars => Remote'
  BY DEF Remote, Next, vars, Provision, ProvisionTimeout, KeepaliveFails, Forward, Wait, Stop,
     Down, Orphaned, ShellStep, ShellOpens, ShellWrites, ShellRenames, ShellDies, Reap,
     HopCopies, HopForwards, HopEnds, Stall, Break, Reboot

LEMMA CountsStep == Counts /\ [Next]_vars => Counts'
  <1> SUFFICES ASSUME Counts, [Next]_vars PROVE Counts'
    OBVIOUS
  <1>1. faults' = faults \/ Fault
    BY DEF Next, vars, Provision, ProvisionTimeout, KeepaliveFails, Forward, Wait, Stop,
       ShellStep, ShellOpens, ShellWrites, ShellRenames, ShellDies, Reap, HopCopies,
       HopForwards, HopEnds, Stall, Break, Reboot
  <1>2. hops' = hops \/ (hops < MaxHops /\ hops' = hops + 1)
    BY DEF Next, vars, Provision, ProvisionTimeout, KeepaliveFails, Forward, Wait, Stop, Down,
       ShellStep, ShellOpens, ShellWrites, ShellRenames, ShellDies, Reap, HopCopies,
       HopForwards, HopEnds, Stall, Break, Reboot
  <1> QED BY <1>1, <1>2, TunnelAssumption DEF Counts, Fault

LEMMA SupervisorStep == SupervisorOK /\ [Next]_vars => SupervisorOK'
  BY MovesStep, FlagsStep, RemoteStep, CountsStep DEF SupervisorOK

LEMMA FileSteps == Spec => whole!Spec
  <1>1. Init => whole!Init
    BY DEF Init, agent!Init, whole!Init
  <1> QED BY <1>1, TextInv, StepsOfTempFile, PTL DEF Spec, whole!Spec

(***************************************************************************)
(* Types, for any number of shells, faults and visits of lssh.             *)
(***************************************************************************)
THEOREM TunnelTyping == Spec => []TypeOK
  <1>1. whole!TypeOK /\ TextOK /\ SupervisorOK => TypeOK
    BY DEF whole!TypeOK, whole!Contents, agent!TypeOK, agent!Contents, TextOK, SupervisorOK,
       Moves, Flags, Remote, Counts, TypeOK
  <1> QED BY <1>1, FileSteps, whole!Typed, TextInv, SupervisorInit, SupervisorStep, PTL DEF Spec

-----------------------------------------------------------------------------
(***************************************************************************)
(* Provisioned before up.  An attempt that began when no shell was running *)
(* and that lssh has not visited has the temporary file to its own shell   *)
(* until agent.json is written, and nobody writes it afterwards.           *)
(***************************************************************************)
Released == \A s \in Writers : ~Running(s) => at[s] = "idle"

OwnAtWork ==
    phase = "provisioning" /\ undisturbed =>
        /\ \A s \in Writers \ {mine} : ~Running(s)
        /\ text[mine] \in {Own, NoText}
        /\ at[mine] \in {"idle", "temp", "closed"}
        /\ at[mine] = "temp" => temp = Empty
        /\ at[mine] = "closed" => temp = Own

OwnWritten ==
    phase \in {"connecting", "up"} /\ undisturbed => file = Own /\ \A s \in Writers : ~Running(s)

UpInv == TypeOK /\ Released /\ OwnAtWork /\ OwnWritten

LEMMA UpInit == Init => Released /\ OwnAtWork /\ OwnWritten
  BY DEF Init, agent!Init, Released, OwnAtWork, OwnWritten

LEMMA ReleasedStep == TypeOK /\ Released /\ [Next]_vars => Released'
  <1> SUFFICES ASSUME TypeOK, Released, [Next]_vars PROVE Released'
    OBVIOUS
  <1> USE DEF Released, Running, TypeOK, agent!TypeOK
  <1>1. ASSUME UNCHANGED <<text, agentVars>> PROVE Released'
    BY <1>1 DEF agentVars
  <1>2. ASSUME NEW s \in Shells, Provision(s) PROVE Released'
    BY <1>2, TunnelAssumption DEF Provision, agentVars, Writers
  <1>3. ASSUME HopCopies PROVE Released'
    BY <1>3, TunnelAssumption DEF HopCopies, agentVars, Writers
  <1>4. ASSUME NEW s \in Writers, ShellOpens(s) \/ ShellWrites(s) PROVE Released'
    BY <1>4 DEF ShellOpens, ShellWrites, agent!Open, agent!Begin, agent!Write
  <1>5. ASSUME NEW s \in Writers, ShellRenames(s) PROVE Released'
    <2>1. /\ text' = [text EXCEPT ![s] = NoText] /\ at'[s] = "idle"
          /\ \A x \in Writers : at[x] = "idle" => at'[x] = "idle"
      BY <1>5 DEF ShellRenames, agent!Rename, agent!Renamed
    <2> QED BY <2>1
  <1>6. ASSUME NEW s \in Writers, ShellDies(s) PROVE Released'
    BY <1>6 DEF ShellDies, agent!Abandon
  <1>7. ASSUME Reboot PROVE Released'
    BY <1>7 DEF Reboot, agent!Abandon
  <1> QED
    BY <1>1, <1>2, <1>3, <1>4, <1>5, <1>6, <1>7 DEF Next, vars, ProvisionTimeout,
       KeepaliveFails, Forward, Wait, Stop, Down, ShellStep, Reap, HopForwards, HopEnds,
       Stall, Break

\* What the steps of an attempt that nobody disturbs do to agent.json.
LEMMA OwnStep == UpInv /\ [Next]_vars => OwnAtWork' /\ OwnWritten'
  <1> SUFFICES ASSUME UpInv, [Next]_vars PROVE OwnAtWork' /\ OwnWritten'
    OBVIOUS
  <1> USE DEF UpInv, TypeOK, OwnAtWork, OwnWritten
  <1>a. /\ Own \notin {Absent, Empty, Torn} /\ Empty \notin {Own, Foreign} /\ Empty # Torn
        /\ NoText \notin {Own, Foreign} /\ NoShell \notin Writers /\ Lssh \notin Shells
    BY TunnelAssumption DEF agent!Told
  <1>1. ASSUME NEW s \in Shells, Provision(s) PROVE OwnAtWork' /\ OwnWritten'
    <2>1. /\ phase' = "provisioning" /\ mine' = s /\ s \in Writers
          /\ text' = [text EXCEPT ![s] = Own] /\ at' = at /\ at[s] = "idle"
      BY <1>1 DEF Provision, agentVars, Released, Writers
    <2>2. undisturbed' => \A x \in Writers : ~Running(x)
      BY <1>1, Zenon DEF Provision
    <2>3. undisturbed' => \A x \in Writers \ {s} : text'[x] = NoText
      BY <2>1, <2>2 DEF Running
    <2>4. text'[s] = Own /\ at'[s] = "idle"
      BY <2>1
    <2>5. OwnWritten'
      BY <2>1
    <2>7. ASSUME undisturbed' PROVE \A x \in Writers \ {mine'} : ~Running(x)'
      BY <2>1, <2>3, <2>7 DEF Running
    <2> QED BY <2>1, <2>4, <2>5, <2>7
  <1>2. ASSUME phase' \notin {"provisioning", "connecting", "up"} PROVE OwnAtWork' /\ OwnWritten'
    BY <1>2
  <1>3. ASSUME UNCHANGED <<phase, mine, text, undisturbed, agentVars>>
        PROVE  OwnAtWork' /\ OwnWritten'
    BY <1>3 DEF agentVars, Running
  <1>4. ASSUME Forward PROVE OwnAtWork' /\ OwnWritten'
    BY <1>4 DEF Forward, Down, agentVars, Running
  <1>5. ASSUME NEW s \in Writers, ShellOpens(s) PROVE OwnAtWork' /\ OwnWritten'
    <2>1. /\ Running(s) /\ at[s] = "idle" /\ at' = [at EXCEPT ![s] = "temp"] /\ temp' = Empty
          /\ UNCHANGED <<phase, mine, text, undisturbed, file>>
      BY <1>5 DEF ShellOpens, agent!Open, agent!Begin
    <2> QED BY <2>1 DEF Running, agent!TypeOK
  <1>6. ASSUME NEW s \in Writers, ShellWrites(s) PROVE OwnAtWork' /\ OwnWritten'
    <2>1. /\ Running(s) /\ at[s] \in {"temp", "file", "lost"}
          /\ at' = [at EXCEPT ![s] = "closed"]
          /\ temp' = IF at[s] = "temp" THEN agent!Over(temp, text[s]) ELSE temp
          /\ UNCHANGED <<phase, mine, text, undisturbed>>
      BY <1>6 DEF ShellWrites, agent!Write
    <2>2. CASE phase = "provisioning" /\ undisturbed
      <3>1. s = mine /\ at[s] = "temp" /\ temp = Empty /\ text[s] = Own
        BY <2>1, <2>2 DEF Running
      <3>2. temp' = Own
        BY <2>1, <3>1, <1>a DEF agent!Over
      <3> QED BY <2>1, <2>2, <3>1, <3>2, <1>a DEF Running, agent!TypeOK
    <2>3. CASE ~(phase = "provisioning" /\ undisturbed)
      BY <2>1, <2>3
    <2> QED BY <2>2, <2>3
  <1>7. ASSUME NEW s \in Writers, ShellRenames(s) PROVE OwnAtWork' /\ OwnWritten'
    <2>1. at[s] = "closed" /\ Running(s) /\ undisturbed' = undisturbed
      BY <1>7 DEF ShellRenames, agent!Rename, Released
    <2>2. text' = [text EXCEPT ![s] = NoText]
      BY <1>7 DEF ShellRenames
    <2>3. CASE phase = "provisioning" /\ undisturbed
      <3>1. s = mine /\ temp = Own /\ \A x \in Writers : x # s => ~Running(x)
        BY <2>1, <2>3
      <3>2. file' = Own /\ at'[s] = "idle"
        BY <1>7, <3>1, <1>a DEF ShellRenames, agent!Rename
      <3>3. \A x \in Writers : ~Running(x)'
        BY <2>2, <3>1 DEF Running
      <3>4. phase' = "provisioning" => mine' = s
        BY <1>7, <3>1 DEF ShellRenames, Attached
      <3>5. text'[s] = NoText
        BY <2>2
      <3> QED BY <3>2, <3>3, <3>4, <3>5, <1>a
    <2>4. CASE ~(phase = "provisioning" /\ undisturbed)
      <3>1. ~undisturbed \/ phase' = phase
        BY <1>7, <2>1, <2>4 DEF ShellRenames, Attached
      <3> QED BY <2>1, <2>4, <3>1
    <2> QED BY <2>3, <2>4
  <1>8. ASSUME NEW s \in Writers, ShellDies(s) PROVE OwnAtWork' /\ OwnWritten'
    <2>1. /\ text' = [text EXCEPT ![s] = NoText]
          /\ at' = [x \in Writers |-> IF x = s THEN "idle" ELSE at[x]]
          /\ UNCHANGED <<phase, mine, undisturbed, temp, file>>
      BY <1>8 DEF ShellDies, agent!Abandon
    <2> QED BY <2>1, <1>a DEF Running, Writers
  <1>9. ASSUME HopCopies PROVE OwnAtWork' /\ OwnWritten'
    BY <1>9 DEF HopCopies
  <1>10. ASSUME Reboot PROVE OwnAtWork' /\ OwnWritten'
    BY <1>10 DEF Reboot, Connected
  <1> QED
    BY <1>1, <1>2, <1>3, <1>4, <1>5, <1>6, <1>7, <1>8, <1>9, <1>10 DEF Next, vars,
       ProvisionTimeout, KeepaliveFails, Wait, Stop, Down, ShellStep, Reap, HopForwards,
       HopEnds, Stall, Break

(***************************************************************************)
(* While the tunnel is up the client finds this tunnel's port and token,   *)
(* unless lssh or a shell that an earlier attempt left behind was at work  *)
(* meanwhile: whatever stalls, breaks or reboots, and however often.       *)
(***************************************************************************)
THEOREM ProvisionedBeforeUp == Spec => []UpMeansProvisioned
  <1>1. UpInv => UpMeansProvisioned
    BY DEF UpInv, OwnWritten, UpMeansProvisioned
  <1>2. UpInv /\ [Next]_vars => Released' /\ OwnAtWork' /\ OwnWritten'
    BY ReleasedStep, OwnStep DEF UpInv
  <1> QED BY <1>1, <1>2, TunnelTyping, UpInit, PTL DEF Spec, UpInv
=============================================================================
