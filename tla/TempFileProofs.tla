--------------------------- MODULE TempFileProofs ---------------------------
(***************************************************************************)
(* For every number of writers and every set of values: as long as no two  *)
(* writers were at work together, the one that is at work has the          *)
(* temporary file to itself, so that what it renames is what it wrote.     *)
(***************************************************************************)
EXTENDS TempFile, TLAPS

Solitary ==
    crossed \/
        /\ \A w, x \in Writers : at[w] # "idle" /\ at[x] # "idle" => w = x
        /\ \A w \in Writers : /\ at[w] \in {"idle", "temp", "closed"}
                              /\ at[w] = "temp" => temp = Empty
                              /\ at[w] = "closed" => temp \in Values

IInv == TypeOK /\ Solitary /\ WholeUnlessCrossed

LEMMA Initially == Init => IInv
  BY DEF Init, IInv, TypeOK, Contents, Solitary, WholeUnlessCrossed

LEMMA TypeStep == TypeOK /\ [Next]_vars => TypeOK'
  <1> SUFFICES ASSUME TypeOK, [Next]_vars PROVE TypeOK'
    OBVIOUS
  <1> USE DEF TypeOK, Contents
  <1>1. ASSUME NEW w \in Writers, Open(w) PROVE TypeOK'
    BY <1>1 DEF Open, Begin
  <1>2. ASSUME NEW w \in Writers, NEW v \in Values, Write(w, v) PROVE TypeOK'
    BY <1>2 DEF Write, Over
  <1>3. ASSUME NEW w \in Writers, Rename(w) PROVE TypeOK'
    <2>1. \A x \in Writers : Renamed(x) \in {"idle", "temp", "file", "lost", "closed"}
      BY DEF Renamed
    <2> QED BY <1>3, <2>1 DEF Rename
  <1>4. ASSUME NEW W \in SUBSET Writers, Abandon(W) PROVE TypeOK'
    BY <1>4 DEF Abandon
  <1>5. CASE UNCHANGED vars
    BY <1>5 DEF vars
  <1> QED BY <1>1, <1>2, <1>3, <1>4, <1>5 DEF Next

LEMMA Typed == Spec => []TypeOK
  <1>1. Init => TypeOK
    BY DEF Init, TypeOK, Contents
  <1> QED BY <1>1, TypeStep, PTL DEF Spec

LEMMA SolitaryStep ==
  Told /\ TypeOK /\ Solitary /\ WholeUnlessCrossed /\ [Next]_vars
    => Solitary' /\ WholeUnlessCrossed'
  <1> SUFFICES ASSUME Told, TypeOK, Solitary, WholeUnlessCrossed, [Next]_vars
               PROVE  Solitary' /\ WholeUnlessCrossed'
    OBVIOUS
  <1> USE DEF Told, TypeOK, Solitary, WholeUnlessCrossed
  <1>0. CASE crossed
    <2>1. crossed'
      BY <1>0 DEF Next, Open, Begin, Write, Rename, Abandon, vars
    <2> QED BY <2>1
  <1>1. ASSUME ~crossed, NEW w \in Writers, Open(w)
        PROVE  Solitary' /\ WholeUnlessCrossed'
    <2>1. CASE \E x \in Writers : at[x] # "idle"
      BY <1>1, <2>1 DEF Open, Begin
    <2>2. CASE \A x \in Writers : at[x] = "idle"
      BY <1>1, <2>2 DEF Open, Begin
    <2> QED BY <2>1, <2>2
  <1>2. ASSUME ~crossed, NEW w \in Writers, NEW v \in Values, Write(w, v)
        PROVE  Solitary' /\ WholeUnlessCrossed'
    <2>1. at[w] = "temp" /\ temp = Empty
      BY <1>2 DEF Write
    <2>2. temp' = v /\ file' = file /\ at' = [at EXCEPT ![w] = "closed"] /\ crossed' = crossed
      BY <1>2, <2>1 DEF Write, Over
    <2>3. \A x \in Writers : x # w => at[x] = "idle"
      BY <1>2, <2>1
    <2> QED BY <1>2, <2>2, <2>3
  <1>3. ASSUME ~crossed, NEW w \in Writers, Rename(w)
        PROVE  Solitary' /\ WholeUnlessCrossed'
    <2>1. at[w] = "closed" /\ temp \in Values
      BY <1>3 DEF Rename
    <2>2. \A x \in Writers : x # w => at[x] = "idle"
      BY <1>3, <2>1
    <2>3. \A x \in Writers : at'[x] = "idle"
      BY <1>3, <2>1, <2>2 DEF Rename, Renamed
    <2> QED BY <1>3, <2>1, <2>3 DEF Rename
  <1>4. ASSUME ~crossed, NEW W \in SUBSET Writers, Abandon(W)
        PROVE  Solitary' /\ WholeUnlessCrossed'
    <2>1. \A x \in Writers : at'[x] = at[x] \/ at'[x] = "idle"
      BY <1>4 DEF Abandon
    <2> QED BY <1>4, <2>1 DEF Abandon
  <1>5. CASE UNCHANGED vars
    BY <1>5 DEF vars
  <1> QED BY <1>0, <1>1, <1>2, <1>3, <1>4, <1>5 DEF Next

(***************************************************************************)
(* The file is whole, or was never there, at every moment of every         *)
(* behaviour in which no two writers crossed, deaths of writers included.  *)
(***************************************************************************)
THEOREM ReplacedWhole ==
  ASSUME Told PROVE Spec => []WholeUnlessCrossed
  <1>1. IInv /\ [Next]_vars => IInv'
    BY TypeStep, SolitaryStep DEF IInv
  <1>2. IInv => WholeUnlessCrossed
    BY DEF IInv
  <1> QED BY Initially, <1>1, <1>2, PTL DEF Spec
=============================================================================
