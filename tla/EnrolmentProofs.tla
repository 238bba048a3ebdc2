--------------------------- MODULE EnrolmentProofs ---------------------------
(***************************************************************************)
(* For any number of runs of setup, labels and ports.  config.json is      *)
(* replaced as in TempFile, so it is whole unless two runs crossed in      *)
(* Save; every configuration a run holds, has written or has put in place  *)
(* has usable labels (Sound); and a run that meets no other carries every  *)
(* host enrolled before it through to the file it puts in place (Carried). *)
(***************************************************************************)
EXTENDS Enrolment, TLAPS

whole == INSTANCE TempFileProofs WITH Writers <- Setups, Values <- Configs

\* Only a run that is saving has the temporary file open.
Saving == \A p \in Setups : at[p] # "idle" => step[p] = "added"

Sound ==
    /\ \A p \in Setups : LabelsOK(hosts[p])
    /\ temp \in Configs => LabelsOK(temp.hosts)
    /\ file \in Configs => LabelsOK(file.hosts)

Enrolled == {p \in Setups : step[p] = "done"}

Carried ==
    \/ met
    \/ /\ ~crossed
       /\ \A p, q \in Setups : OnItsWay(p) /\ OnItsWay(q) => p = q
       /\ \A p \in Setups :
            /\ OnItsWay(p) => Enrolled \subseteq hosts[p]
            /\ step[p] = "added" => p \in hosts[p]
            /\ at[p] = "closed" => temp = [hosts |-> hosts[p]]
       /\ Enrolled # {} => file \in Configs /\ Enrolled \subseteq file.hosts

IInv == TypeOK /\ whole!IInv /\ Saving /\ Sound /\ Carried

LEMMA Values == /\ \A H \in SUBSET Setups : [hosts |-> H] \in Configs /\ [hosts |-> H].hosts = H
                /\ \A c \in Configs : c.hosts \in SUBSET Setups
                /\ Absent \notin Configs /\ Empty \notin Configs /\ Torn \notin Configs
  BY EnrolmentAssumption DEF Configs, config!Told

LEMMA Initially == Init => IInv
  <1> SUFFICES ASSUME Init PROVE IInv
    OBVIOUS
  <1>1. whole!Init
    BY Values DEF Init, config!Init, whole!Init
  <1>2. whole!IInv
    BY <1>1, whole!Initially
  <1>3. TypeOK
    BY Values DEF Init, TypeOK, config!Init, config!TypeOK, config!Contents
  <1>4. Saving /\ Carried
    BY DEF Init, config!Init, Saving, Carried, Enrolled, OnItsWay
  <1>5. Sound
    BY Values DEF Init, config!Init, Sound, LabelsOK
  <1> QED BY <1>2, <1>3, <1>4, <1>5 DEF IInv
-----------------------------------------------------------------------------
(***************************************************************************)
(* Every step of Enrolment is one of TempFile, or leaves the file alone.   *)
(***************************************************************************)
LEMMA StepsOfTempFile ==
  ASSUME TypeOK, [Next]_vars PROVE whole!Next \/ UNCHANGED whole!vars
  <1>1. ASSUME UNCHANGED saved PROVE UNCHANGED whole!vars
    BY <1>1 DEF saved, whole!vars
  <1>2. ASSUME NEW p \in Setups, SaveOpens(p) PROVE whole!Next
    BY <1>2 DEF SaveOpens, config!Open, config!Begin, whole!Next, whole!Open, whole!Begin
  <1>3. ASSUME NEW p \in Setups, SaveWrites(p) PROVE whole!Next
    <2>1. [hosts |-> hosts[p]] \in Configs
      BY Values DEF TypeOK
    <2>2. whole!Write(p, [hosts |-> hosts[p]])
      BY <1>3 DEF SaveWrites, config!Write, config!Over, whole!Write, whole!Over
    <2> QED BY <2>1, <2>2 DEF whole!Next
  <1>4. ASSUME NEW p \in Setups, SaveRenames(p) PROVE whole!Next
    <2>1. whole!Rename(p)
      BY <1>4 DEF SaveRenames, config!Rename, config!Renamed, whole!Rename, whole!Renamed
    <2> QED BY <2>1 DEF whole!Next
  <1>5. ASSUME NEW p \in Setups, Interrupt(p) PROVE whole!Next
    <2>1. whole!Abandon({p}) /\ {p} \in SUBSET Setups
      BY <1>5 DEF Interrupt, config!Abandon, whole!Abandon
    <2> QED BY <2>1 DEF whole!Next
  <1> QED
    BY <1>1, <1>2, <1>3, <1>4, <1>5 DEF Next, vars, LoadRaw, LoadFails, Push, PushFails,
       AddHost, Unusable, saved

LEMMA WholeStep == TypeOK /\ whole!IInv /\ [Next]_vars => whole!IInv'
  <1>1. whole!Told
    BY EnrolmentAssumption DEF config!Told, whole!Told
  <1> QED BY <1>1, StepsOfTempFile, whole!TypeStep, whole!SolitaryStep DEF whole!IInv

LEMMA TypeStep == TypeOK /\ whole!IInv' /\ [Next]_vars => TypeOK'
  <1> SUFFICES ASSUME TypeOK, whole!IInv', [Next]_vars PROVE TypeOK'
    OBVIOUS
  <1>1. config!TypeOK'
    BY DEF whole!IInv, whole!TypeOK, whole!Contents, config!TypeOK, config!Contents
  <1>2. step' \in [Setups -> {"new", "loaded", "pushed", "added", "done", "failed"}]
    BY DEF TypeOK, Next, vars, LoadRaw, LoadFails, Push, PushFails, AddHost, Unusable,
           SaveOpens, SaveWrites, SaveRenames, Interrupt, Ends
  <1>3. hosts' \in [Setups -> SUBSET Setups]
    <2>1. ASSUME NEW p \in Setups, LoadRaw(p) PROVE hosts' \in [Setups -> SUBSET Setups]
      <3>1. file \in Configs \cup {Absent}
        BY <2>1 DEF LoadRaw, TypeOK, config!TypeOK, config!Contents
      <3> QED BY <2>1, <3>1, Values DEF LoadRaw, TypeOK
    <2>2. ASSUME NEW p \in Setups, AddHost(p) PROVE hosts' \in [Setups -> SUBSET Setups]
      BY <2>2 DEF AddHost, TypeOK
    <2> QED
      BY <2>1, <2>2 DEF TypeOK, Next, vars, LoadFails, Push, PushFails, Unusable, SaveOpens,
         SaveWrites, SaveRenames, Interrupt
  <1>4. met' \in BOOLEAN
    BY DEF TypeOK, Next, vars, LoadRaw, LoadFails, Push, PushFails, AddHost, Unusable,
           SaveOpens, SaveWrites, SaveRenames, Interrupt
  <1> QED BY <1>1, <1>2, <1>3, <1>4 DEF TypeOK

LEMMA SavingStep == TypeOK /\ Saving /\ [Next]_vars => Saving'
  <1> SUFFICES ASSUME TypeOK, Saving, [Next]_vars PROVE Saving'
    OBVIOUS
  <1> USE DEF TypeOK, config!TypeOK, Saving
  <1>1. ASSUME NEW p \in Setups, SaveOpens(p) \/ SaveWrites(p) PROVE Saving'
    BY <1>1 DEF SaveOpens, SaveWrites, config!Open, config!Begin, config!Write
  <1>2. ASSUME NEW p \in Setups, SaveRenames(p) PROVE Saving'
    <2>1. at'[p] = "idle" /\ \A x \in Setups : at'[x] # "idle" => at[x] # "idle"
      BY <1>2 DEF SaveRenames, config!Rename, config!Renamed
    <2> QED BY <1>2, <2>1 DEF SaveRenames, Ends
  <1>3. ASSUME NEW p \in Setups, Interrupt(p) PROVE Saving'
    BY <1>3 DEF Interrupt, Ends, config!Abandon
  <1> QED
    BY <1>1, <1>2, <1>3 DEF Next, vars, saved, LoadRaw, LoadFails, Push, PushFails, AddHost,
       Unusable, Ends

LEMMA SoundStep == TypeOK /\ Sound /\ [Next]_vars => Sound'
  <1> SUFFICES ASSUME TypeOK, Sound, [Next]_vars PROVE Sound'
    OBVIOUS
  <1> USE DEF TypeOK, config!TypeOK
  <1>1. ASSUME NEW p \in Setups, LoadRaw(p) PROVE Sound'
    <2>1. file = Absent \/ (file \in Configs /\ LabelsOK(file.hosts))
      BY <1>1 DEF LoadRaw, Sound, config!Contents
    <2>2. \A q \in Setups : LabelsOK(hosts'[q])
      BY <1>1, <2>1 DEF LoadRaw, Sound, LabelsOK
    <2> QED BY <1>1, <2>2 DEF LoadRaw, saved, Sound, LabelsOK
  <1>2. ASSUME NEW p \in Setups, AddHost(p) PROVE Sound'
    <2>1. LabelsOK(hosts[p] \cup {p})
      BY <1>2 DEF AddHost, Usable, Sound, LabelsOK
    <2>2. \A q \in Setups : LabelsOK(hosts'[q])
      BY <1>2, <2>1 DEF AddHost, Sound, LabelsOK
    <2> QED BY <1>2, <2>2 DEF AddHost, saved, Sound, LabelsOK
  <1>3. ASSUME NEW p \in Setups, SaveWrites(p) PROVE Sound'
    <2> DEFINE c == [hosts |-> hosts[p]]
    <2>1. c \in Configs /\ c.hosts = hosts[p] /\ Torn \notin Configs
      BY Values
    <2>2. temp' \in {temp, c, Torn} /\ file' \in {file, c, Torn} /\ hosts' = hosts
      BY <1>3 DEF SaveWrites, config!Write, config!Over
    <2> HIDE DEF c
    <2> QED BY <2>1, <2>2 DEF Sound, LabelsOK
  <1>4. ASSUME NEW p \in Setups, SaveRenames(p) PROVE Sound'
    <2>1. temp' \in {temp, Absent} /\ file' \in {file, temp} /\ hosts' = hosts
      BY <1>4 DEF SaveRenames, config!Rename
    <2> QED BY <2>1, Values DEF Sound, LabelsOK
  <1>5. ASSUME NEW p \in Setups, SaveOpens(p) PROVE Sound'
    BY <1>5, Values DEF SaveOpens, config!Open, Sound, LabelsOK
  <1> QED
    BY <1>1, <1>2, <1>3, <1>4, <1>5 DEF Next, vars, saved, LoadFails, Push, PushFails,
       Unusable, Interrupt, config!Abandon, Sound, LabelsOK

LEMMA CarriedStep == IInv /\ [Next]_vars => Carried'
  <1> SUFFICES ASSUME IInv, [Next]_vars, ~met' PROVE Carried'
    BY DEF Carried
  <1> USE DEF TypeOK, config!TypeOK
  <1>a. TypeOK /\ Saving /\ Carried
    BY DEF IInv
  <1>b. ~met
    BY DEF Next, vars, LoadRaw, LoadFails, Push, PushFails, AddHost, Unusable, SaveOpens,
           SaveWrites, SaveRenames, Interrupt
  <1>1. ASSUME NEW p \in Setups, LoadRaw(p) PROVE Carried'
    <2>1. \A q \in Setups : ~OnItsWay(q)
      BY <1>1 DEF LoadRaw
    <2>2. \A q \in Setups : at[q] = "idle"
      BY <1>a, <2>1 DEF Saving, OnItsWay
    <2>3. Enrolled' = Enrolled
      BY <1>a, <1>1 DEF LoadRaw, Ends, Enrolled
    <2>4. Enrolled \subseteq hosts'[p]
      BY <1>a, <1>b, <1>1, Values DEF LoadRaw, Carried, Enrolled
    <2> QED BY <1>a, <1>b, <1>1, <2>1, <2>2, <2>3, <2>4 DEF LoadRaw, Ends, saved, Carried, OnItsWay
  <1>2. ASSUME NEW p \in Setups, LoadFails(p) \/ Push(p) \/ PushFails(p) \/ Unusable(p)
        PROVE  Carried'
    <2>1. Enrolled' = Enrolled
      BY <1>a, <1>2 DEF LoadFails, Push, PushFails, Unusable, Ends, Enrolled
    <2> QED BY <1>a, <1>b, <1>2, <2>1
            DEF LoadFails, Push, PushFails, Unusable, Ends, saved, Carried, OnItsWay
  <1>3. ASSUME NEW p \in Setups, AddHost(p) PROVE Carried'
    <2>1. Enrolled' = Enrolled /\ at[p] = "idle"
      BY <1>a, <1>3 DEF AddHost, Ends, Enrolled, Saving
    <2> QED BY <1>a, <1>b, <1>3, <2>1 DEF AddHost, Ends, saved, Carried, OnItsWay
  <1>4. ASSUME NEW p \in Setups, SaveOpens(p) PROVE Carried'
    <2>1. \A q \in Setups : q # p => at[q] = "idle"
      BY <1>a, <1>b, <1>4 DEF SaveOpens, Saving, Carried, OnItsWay
    <2>2. ~crossed' /\ \A q \in Setups : at'[q] # "closed"
      BY <1>a, <1>b, <1>4, <2>1 DEF SaveOpens, config!Open, config!Begin, Carried
    <2>3. UNCHANGED <<step, hosts, file>> /\ Enrolled' = Enrolled
      BY <1>4 DEF SaveOpens, config!Open, Enrolled
    <2> QED BY <1>a, <1>b, <2>2, <2>3 DEF Carried, OnItsWay
  <1>5. ASSUME NEW p \in Setups, SaveWrites(p) PROVE Carried'
    <2>1. at[p] = "temp" /\ temp = Empty
      BY <1>b, <1>5 DEF SaveWrites, config!Write, IInv, Carried, whole!IInv, whole!Solitary
    <2>2. temp' = [hosts |-> hosts[p]] /\ file' = file /\ at' = [at EXCEPT ![p] = "closed"]
      BY <1>5, <2>1, EnrolmentAssumption, Values
      DEF SaveWrites, config!Write, config!Over, config!Told
    <2>3. \A q \in Setups : q # p => at[q] = "idle"
      BY <1>a, <1>b, <2>1 DEF Saving, Carried, OnItsWay
    <2>4. UNCHANGED <<step, hosts, crossed>> /\ Enrolled' = Enrolled
      BY <1>5 DEF SaveWrites, config!Write, Enrolled
    <2> QED BY <1>a, <1>b, <2>2, <2>3, <2>4 DEF Carried, OnItsWay
  <1>6. ASSUME NEW p \in Setups, SaveRenames(p) PROVE Carried'
    <2>1. /\ at[p] = "closed" /\ step[p] = "added"
          /\ temp = [hosts |-> hosts[p]] /\ temp \in Configs /\ temp.hosts = hosts[p]
      BY <1>a, <1>b, <1>6, Values
      DEF SaveRenames, Ends, config!Rename, Carried
    <2>2. file' = temp /\ step' = [step EXCEPT ![p] = "done"] /\ UNCHANGED <<hosts, crossed>>
      BY <1>6, <2>1, Values DEF SaveRenames, Ends, config!Rename
    <2>3. \A q \in Setups : q # p => at[q] = "idle"
      BY <1>a, <1>b, <2>1 DEF Saving, Carried, OnItsWay
    <2>4. \A q \in Setups : at'[q] = "idle"
      BY <1>6, <2>1, <2>3, Values DEF SaveRenames, config!Rename, config!Renamed
    <2>5. Enrolled' = Enrolled \cup {p}
      BY <1>a, <2>2 DEF Enrolled
    <2>6. Enrolled \subseteq hosts[p] /\ p \in hosts[p]
      BY <1>a, <1>b, <2>1 DEF Carried, OnItsWay
    <2>7. \A q \in Setups : ~OnItsWay(q)'
      BY <1>a, <1>b, <2>1, <2>2 DEF Carried, OnItsWay
    <2>8. ~crossed'
      BY <1>a, <1>b, <2>2 DEF Carried
    <2>9. file' \in Configs /\ Enrolled' \subseteq file'.hosts
      BY <2>1, <2>2, <2>5, <2>6
    <2> QED BY <2>4, <2>7, <2>8, <2>9 DEF Carried, OnItsWay
  <1>7. ASSUME NEW p \in Setups, Interrupt(p) PROVE Carried'
    <2>1. Enrolled' = Enrolled
      BY <1>a, <1>7 DEF Interrupt, Ends, Enrolled
    <2>2. \A q \in Setups : at'[q] \in {at[q], "idle"}
      BY <1>a, <1>7 DEF Interrupt, config!Abandon
    <2> QED BY <1>a, <1>b, <1>7, <2>1, <2>2
            DEF Interrupt, Ends, config!Abandon, Carried, OnItsWay
  <1>8. CASE UNCHANGED vars
    BY <1>a, <1>b, <1>8 DEF vars, saved, Carried, OnItsWay, Enrolled
  <1> QED BY <1>1, <1>2, <1>3, <1>4, <1>5, <1>6, <1>7, <1>8 DEF Next

LEMMA Invariance == Spec => []IInv
  <1>1. IInv /\ [Next]_vars => IInv'
    BY WholeStep, TypeStep, SavingStep, SoundStep, CarriedStep DEF IInv
  <1> QED BY Initially, <1>1, PTL DEF Spec
-----------------------------------------------------------------------------
(***************************************************************************)
(* A host that setup reported as enrolled is in config.json from then on,  *)
(* whatever other runs come later, fail or are interrupted, as long as no  *)
(* two are under way together.                                             *)
(***************************************************************************)
THEOREM NoHostIsLost == Spec => []EnrolledStays
  <1>1. IInv => EnrolledStays
    BY DEF IInv, Carried, EnrolledStays, Enrolled
  <1> QED BY <1>1, Invariance, PTL

(***************************************************************************)
(* Whatever is saved, by runs that overlap or not, is a configuration that *)
(* fill accepts, but for the port and for runs that cross in Save.         *)
(***************************************************************************)
THEOREM SavedIsLoadable == Spec => []SavedConfigLoads
  <1>1. IInv => SavedConfigLoads
    BY Values DEF IInv, whole!IInv, whole!WholeUnlessCrossed, Sound, SavedConfigLoads, Loads
  <1> QED BY <1>1, Invariance, PTL
=============================================================================
