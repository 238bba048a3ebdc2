----------------------------- MODULE Enrolment -----------------------------
(***************************************************************************)
(* `lopend setup`, run any number of times and in several terminals: each  *)
(* run reads the configuration (config.LoadRaw), pushes the binaries to    *)
(* its host for as long as that takes (setup.Enroll), adds the host to     *)
(* what it read (AddHost) and saves the result (Save).  A host is          *)
(* represented by the run that enrols it.  What a daemon started on the    *)
(* file makes of it is the operator Loads (Load and fill of config.go).    *)
(***************************************************************************)
EXTENDS Integers

CONSTANTS
    Setups,         \* the runs of setup
    Label,          \* the label each gives its host, or derives from the destination
    Labels,         \* the labels labelRe accepts
    Port,           \* the -port each is given, 0 if none
    Length, Absent, Empty, Torn

VARIABLES
    step,           \* of each run
    hosts,          \* the hosts in its copy of the configuration
    temp, file, at, crossed,
    met             \* history: one run read the file while another was on its way

\* What a configuration file says, as far as enrolment goes.
Configs == [hosts : SUBSET Setups]

config == INSTANCE TempFile WITH Writers <- Setups, Values <- Configs

ASSUME EnrolmentAssumption ==
    /\ Port \in [Setups -> Int]
    /\ config!Told

saved == <<temp, file, at, crossed>>
vars == <<step, hosts, saved, met>>

Init ==
    /\ step = [p \in Setups |-> "new"]
    /\ hosts = [p \in Setups |-> {}]
    /\ config!Init
    /\ file \in {Absent, [hosts |-> {}]}
    /\ met = FALSE

DefaultPort == 47654
MaxPort == 65535

\* fill: the port a host is given, and what makes it refuse the file.
RemotePort(p) == IF Port[p] = 0 THEN DefaultPort ELSE Port[p]
PortOK(p) == RemotePort(p) \in 1..MaxPort
LabelsOK(H) ==
    /\ \A p \in H : Label[p] \in Labels
    /\ \A p, q \in H : Label[p] = Label[q] => p = q
Loads(H) == LabelsOK(H) /\ \A p \in H : PortOK(p)

OnItsWay(p) == step[p] \in {"loaded", "pushed", "added"}

Ends(p, from, to) ==
    /\ step[p] \in from
    /\ step' = [step EXCEPT ![p] = to]
-----------------------------------------------------------------------------
\* Mutant of LoadRaw: what the file says is not taken over.
LoadRawAnew(p) ==
    /\ Ends(p, {"new"}, "loaded")
    /\ met' = (met \/ \E q \in Setups : OnItsWay(q))
    /\ UNCHANGED <<hosts, saved>>

\* A missing file yields an empty configuration; a torn one does not parse.
LoadRaw(p) ==
    /\ file \notin {Empty, Torn}
    /\ Ends(p, {"new"}, "loaded")
    /\ hosts' = [hosts EXCEPT ![p] = IF file = Absent THEN {} ELSE file.hosts]
    /\ met' = (met \/ \E q \in Setups : OnItsWay(q))
    /\ UNCHANGED saved

LoadFails(p) ==
    /\ file \in {Empty, Torn}
    /\ Ends(p, {"new"}, "failed")
    /\ UNCHANGED <<hosts, saved, met>>

\* uname, the two scp and chmod, one after the other.
Push(p) == Ends(p, {"loaded"}, "pushed") /\ UNCHANGED <<hosts, saved, met>>
PushFails(p) == Ends(p, {"loaded"}, "failed") /\ UNCHANGED <<hosts, saved, met>>

\* Mutant of AddHost: the label may be there already.
AddHostAgain(p) ==
    /\ Label[p] \in Labels
    /\ Ends(p, {"pushed"}, "added")
    /\ hosts' = [hosts EXCEPT ![p] = @ \cup {p}]
    /\ UNCHANGED <<saved, met>>

Usable(p) == Label[p] \in Labels /\ \A q \in hosts[p] : Label[q] # Label[p]

AddHost(p) ==
    /\ Usable(p)
    /\ Ends(p, {"pushed"}, "added")
    /\ hosts' = [hosts EXCEPT ![p] = @ \cup {p}]
    /\ UNCHANGED <<saved, met>>

Unusable(p) ==
    /\ ~Usable(p)
    /\ Ends(p, {"pushed"}, "failed")
    /\ UNCHANGED <<hosts, saved, met>>

\* Save: os.WriteFile, in two steps, and os.Rename.
SaveOpens(p) ==
    /\ step[p] = "added" /\ config!Open(p)
    /\ UNCHANGED <<step, hosts, met>>

SaveWrites(p) ==
    /\ config!Write(p, [hosts |-> hosts[p]])
    /\ UNCHANGED <<step, hosts, met>>

SaveRenames(p) ==
    /\ config!Rename(p)
    /\ Ends(p, {"added"}, IF temp = Absent THEN "failed" ELSE "done")
    /\ UNCHANGED <<hosts, met>>

\* A write fails, or the user gives up.
Interrupt(p) ==
    /\ Ends(p, {"loaded", "pushed", "added"}, "failed")
    /\ config!Abandon({p})
    /\ UNCHANGED <<hosts, met>>

Next ==
    \E p \in Setups :
        \/ LoadRaw(p) \/ LoadFails(p) \/ Push(p) \/ PushFails(p)
        \/ AddHost(p) \/ Unusable(p)
        \/ SaveOpens(p) \/ SaveWrites(p) \/ SaveRenames(p)
        \/ Interrupt(p)

Spec == Init /\ [][Next]_vars
-----------------------------------------------------------------------------
TypeOK ==
    /\ step \in [Setups -> {"new", "loaded", "pushed", "added", "done", "failed"}]
    /\ hosts \in [Setups -> SUBSET Setups]
    /\ met \in BOOLEAN
    /\ config!TypeOK

(***************************************************************************)
(* "Saved to config.  Restart the daemon to bring up the tunnel": a host   *)
(* that setup reports as enrolled is in the configuration and stays there, *)
(* whatever other runs come later, fail or are interrupted, as long as no  *)
(* two of them are under way together.                                     *)
(***************************************************************************)
EnrolledStays ==
    \A p \in Setups : step[p] = "done" /\ ~met => file \in Configs /\ p \in file.hosts

(***************************************************************************)
(* No sequence of runs, overlapping or not, leaves a configuration that a  *)
(* daemon refuses to load, except for a port that setup was given and that *)
(* only Load looks at, and for writers that cross in Save.                 *)
(***************************************************************************)
SavedConfigLoads ==
    ~crossed => \/ file = Absent
                \/ Loads(file.hosts)
                \/ LabelsOK(file.hosts) /\ \E p \in file.hosts : ~PortOK(p)
=============================================================================
