----------------------------- MODULE MirrorProofs -----------------------------
(***************************************************************************)
(* Theorems about Mirror, for any layout of paths and slots, any number of *)
(* requests and edits, crashes and passes of GC; and, in the last section, *)
(* about the loop of GC by itself (Retention).                             *)
(***************************************************************************)
EXTENDS Mirror, Retention, FiniteSetTheorems, TLAPS

\* TypeOK does not say which of the variables are functions and records.
Shapes ==
    /\ index = [s \in Slots |-> index[s]]
    /\ saved = [s \in Slots |-> saved[s]]
    /\ aside = [r \in Requests |-> aside[r]]
    /\ print = [r \in Requests |-> print[r]]
    /\ gc = [step |-> gc.step, todo |-> gc.todo, seen |-> gc.seen, at |-> gc.at,
             runs |-> gc.runs]

TInv == TypeOK /\ Shapes

Values == Stamps \cup {Absent}

\* The paths at or below a path are paths.
LEMMA PathsBelow == \A s : AtOrBelow(s) \ {s} \subseteq Paths
BY DEF AtOrBelow, Below

\* No tree is the nil tree.
LEMMA TreesAreTrees == \A s \in Paths : NoTree \notin Trees(s)
<1> SUFFICES ASSUME NEW s \in Paths PROVE NoTree \notin Trees(s)
    OBVIOUS
<1>1. AtOrBelow(s) \in SUBSET Paths
    BY DEF AtOrBelow, Below
<1> QED BY <1>1, StampAssumption DEF Trees

\* What is on disk at and below a path is a tree.
LEMMA TreeOnDisk ==
    ASSUME disk \in [Paths -> Values], NEW s \in Paths
    PROVE  Tree(s) \in Trees(s)
BY PathsBelow DEF Tree, Trees, Values

\* Installing a tree, and removing one, leave the disk well-formed.
LEMMA DiskStaysTyped ==
    ASSUME disk \in [Paths -> Values], NEW s \in Paths
    PROVE  /\ DiskWithout(s) \in [Paths -> Values]
           /\ \A t \in Trees(s) : DiskWith(t) \in [Paths -> Values]
<1>1. DiskWithout(s) \in [Paths -> Values]
    BY DEF DiskWithout, Values
<1>2. ASSUME NEW t \in Trees(s) PROVE DiskWith(t) \in [Paths -> Values]
    BY <1>2 DEF DiskWith, Trees, Values
<1> QED BY <1>1, <1>2

LEMMA PayloadsAreTrees ==
    ASSUME NEW r \in Requests, NEW s \in Paths
    PROVE  Payloads(r, s) \subseteq Trees(s)
BY DEF Payloads, Trees, Stamps

\* Every step of a request, of GC, of the user and of a crash keeps the types.
LEMMA TypingInit == Init => TInv
BY StampAssumption, LayoutAssumption, TreesAreTrees DEF Init, TInv, TypeOK, Shapes, Stamps, Trees

LEMMA TypingStep == TInv /\ [Next]_vars => TInv'
<1> SUFFICES ASSUME TInv, [Next]_vars PROVE TInv'
    OBVIOUS
<1> USE DEF TInv, stored, Save
<1>a. disk \in [Paths -> Values] /\ Slots \subseteq Paths /\ NoSlot \notin Slots
    BY LayoutAssumption, StampAssumption DEF TypeOK, Values
<1>1. ASSUME NEW r \in Requests, NEW s \in Slots, NEW forced \in BOOLEAN, Guard(r, s, forced)
      PROVE  TInv'
    BY <1>1, <1>a DEF Guard, TypeOK, Shapes, Goto, InFlight, Trees
<1>2. ASSUME NEW r \in Requests, ReceiveFails(r) PROVE TInv'
    BY <1>2, <1>a DEF ReceiveFails, TypeOK, Shapes, Goto, InFlight, Trees
<1>3. ASSUME NEW r \in Requests, MkdirAll(r) PROVE TInv'
    BY <1>3, <1>a DEF MkdirAll, TypeOK, Shapes, Goto, InFlight, Trees, Stamps
<1>4. ASSUME NEW r \in Requests, MoveAside(r) PROVE TInv'
    <2>1. slot[r] \in Slots
        BY <1>4 DEF MoveAside, TypeOK
    <2>2. Tree(slot[r]) \in Trees(slot[r]) /\ DiskWithout(slot[r]) \in [Paths -> Values]
        BY <2>1, <1>a, TreeOnDisk, DiskStaysTyped
    <2> QED BY <1>4, <1>a, <2>1, <2>2 DEF MoveAside, TypeOK, Shapes, Goto, InFlight, Trees, Values
<1>5. ASSUME NEW r \in Requests, Swap(r) PROVE TInv'
    <2>1. slot[r] \in Slots
        BY <1>5 DEF Swap, TypeOK
    <2>2. disk' \in [Paths -> Values]
        BY <1>5, <2>1, <1>a, PayloadsAreTrees, DiskStaysTyped DEF Swap
    <2> QED BY <1>5, <1>a, <2>2 DEF Swap, TypeOK, Shapes, Goto, InFlight, Trees, Values
<1>6. ASSUME NEW r \in Requests, Rollback(r) PROVE TInv'
    <2>1. slot[r] \in Slots
        BY <1>6 DEF Rollback, TypeOK
    <2>2. disk' \in [Paths -> Values]
        BY <1>6, <2>1, <1>a, DiskStaysTyped DEF Rollback, TypeOK
    <2> QED BY <1>6, <1>a, <2>2 DEF Rollback, TypeOK, Shapes, Goto, InFlight, Trees, Values
<1>7. ASSUME NEW r \in Requests, Stamp(r) PROVE TInv'
    <2>1. slot[r] \in Slots
        BY <1>7 DEF Stamp, TypeOK
    <2>2. Tree(slot[r]) \in Trees(slot[r]) /\ Tree(slot[r]) # NoTree
        BY <2>1, <1>a, TreeOnDisk, TreesAreTrees
    <2> QED BY <1>7, <1>a, <2>2 DEF Stamp, TypeOK, Shapes, Goto, InFlight, Trees
<1>8. ASSUME NEW r \in Requests, Purge(r) PROVE TInv'
    BY <1>8, <1>a DEF Purge, TypeOK, Shapes, Goto, InFlight, Trees
<1>9. ASSUME NEW r \in Requests, Record(r) PROVE TInv'
    BY <1>9, <1>a DEF Record, TypeOK, Shapes, Goto, InFlight, Trees
<1>10. ASSUME NEW r \in Requests, Open(r) PROVE TInv'
    BY <1>10, <1>a DEF Open, TypeOK, Shapes, Goto, InFlight, Trees
<1>11. ASSUME GCStart PROVE TInv'
    BY <1>11, <1>a DEF GCStart, TypeOK, Shapes, Entries, Trees
<1>12. ASSUME NEW s \in Slots, GCSkip(s) \/ GCGone(s) \/ GCPick(s) PROVE TInv'
    <2>1. UNCHANGED <<disk, stored, request, drafts, crashes>>
        BY <1>12 DEF GCSkip, GCGone, GCPick
    <2>2. gc'.todo \subseteq Slots /\ gc'.at \in Slots \cup {NoSlot}
        <3>1. gc'.todo = gc.todo \ {s} /\ gc'.at \in {gc.at, s}
            BY <1>12 DEF GCSkip, GCGone, GCPick, Shapes
        <3> QED BY <3>1 DEF TypeOK
    <2>3. /\ gc'.step \in {"idle", "scanning", "removing", "forgetting"}
          /\ gc'.step \in {"removing", "forgetting"} <=> gc'.at # NoSlot
          /\ gc' = [step |-> gc'.step, todo |-> gc'.todo, seen |-> gc'.seen, at |-> gc'.at,
                    runs |-> gc'.runs]
        BY <1>12, <1>a DEF GCSkip, GCGone, GCPick, TypeOK, Shapes
    <2> QED BY <2>1, <2>2, <2>3 DEF TypeOK, Shapes, Trees, request
<1>13. ASSUME GCRemove PROVE TInv'
    <2>1. gc.at \in Slots
        BY <1>13 DEF GCRemove, TypeOK
    <2>2. disk' \in [Paths -> Values]
        BY <1>13, <2>1, <1>a, DiskStaysTyped DEF GCRemove
    <2> QED BY <1>13, <1>a, <2>1, <2>2 DEF GCRemove, TypeOK, Shapes, Trees, request, Values
<1>14. ASSUME GCForget PROVE TInv'
    <2>1. \A s \in Slots : {index'[s], saved'[s]} \subseteq Trees(s) \cup {NoTree}
        BY <1>14 DEF GCForget, TypeOK, Shapes
    <2>2. /\ index' = [s \in Slots |-> index'[s]]
          /\ saved' = [s \in Slots |-> saved'[s]]
        BY <1>14 DEF GCForget, Shapes
    <2>3. UNCHANGED <<disk, pc, slot, force, aside, print, drafts>>
        BY <1>14 DEF GCForget, request
    <2>4. /\ gc'.step = "scanning" /\ gc'.at = NoSlot /\ gc'.todo = gc.todo
          /\ gc' = [step |-> gc'.step, todo |-> gc'.todo, seen |-> gc'.seen, at |-> gc'.at,
                    runs |-> gc'.runs]
        BY <1>14 DEF GCForget, Shapes
    <2>5. TypeOK'
        BY <2>1, <2>3, <2>4 DEF TypeOK, Trees
    <2> QED BY <2>2, <2>3, <2>4, <2>5 DEF Shapes
<1>15. ASSUME NEW d \in Dirs, GCPrune(d) PROVE TInv'
    BY <1>15, <1>a DEF GCPrune, TypeOK, Shapes, Trees, request
<1>16. ASSUME GCEnd PROVE TInv'
    BY <1>16, <1>a DEF GCEnd, TypeOK, Shapes, Trees, request
<1>17. ASSUME NEW p \in Files, NEW e \in Edits, UserEdits(p, e) PROVE TInv'
    BY <1>17, <1>a DEF UserEdits, TypeOK, Shapes, Trees, request, Stamps
<1>18. ASSUME NEW s \in Slots, UserDeletes(s) PROVE TInv'
    <2>1. disk' \in [Paths -> Values]
        BY <1>18, <1>a, DiskStaysTyped DEF UserDeletes
    <2> QED BY <1>18, <1>a, <2>1 DEF UserDeletes, TypeOK, Shapes, Trees, request, Values
<1>19. ASSUME Crash PROVE TInv'
    BY <1>19, <1>a DEF Crash, TypeOK, Shapes, Serving, InFlight, Trees
<1>20. CASE UNCHANGED vars
    BY <1>20 DEF vars, request, TypeOK, Shapes, Trees
<1> QED
    BY <1>1, <1>2, <1>3, <1>4, <1>5, <1>6, <1>7, <1>8, <1>9, <1>10, <1>11, <1>12, <1>13, <1>14,
       <1>15, <1>16, <1>17, <1>18, <1>19, <1>20 DEF Next, Handle, GC, User

(***************************************************************************)
(* Disk, index, requests and GC stay well-formed: each recorded tree and   *)
(* each copy set aside is a tree of its own slot, and a request carries a  *)
(* fingerprint exactly between taking and recording it.                    *)
(***************************************************************************)
THEOREM Typing == Spec => []TypeOK
<1>1. TInv => TypeOK
    BY DEF TInv
<1> QED BY <1>1, TypingInit, TypingStep, PTL DEF Spec
-----------------------------------------------------------------------------
(***************************************************************************)
(* What is on disk above, at and below a path.                             *)
(***************************************************************************)

\* What lies outside a slot's tree is in no directory of that tree.
LEMMA NothingReachesUp ==
    ASSUME NEW s \in Paths, NEW p \in Paths, p \notin AtOrBelow(s), NEW d \in Tops(p)
    PROVE  d \in Paths /\ d \notin AtOrBelow(s)
BY LayoutAssumption DEF AtOrBelow, Below, Tops, Paths

\* A directory above a path of a slot's tree is in that tree or above it.
LEMMA TopsFormAChain ==
    ASSUME NEW s \in Paths, NEW p \in AtOrBelow(s), NEW d \in Tops(p)
    PROVE  d \in Paths /\ (d \in AtOrBelow(s) \/ d \in Tops(s))
BY LayoutAssumption DEF AtOrBelow, Below, Tops, Paths

\* Everything on disk is inside directories that are on disk, and so is
\* everything in a copy set aside, up to the slot it was taken from.
RootsExist == \A p \in Paths : Exists(p) => \A d \in Tops(p) : Exists(d)
AsideRooted ==
    \A r \in Requests : aside[r] # NoTree =>
        \A p \in AtOrBelow(slot[r]) : aside[r][p] # Absent =>
            \A d \in Tops(p) \cap AtOrBelow(slot[r]) : aside[r][d] # Absent

Rooted == RootsExist /\ AsideRooted

LEMMA RootsAfterRemoval ==
    ASSUME disk \in [Paths -> Values], RootsExist, NEW s \in Paths, disk' = DiskWithout(s)
    PROVE  RootsExist'
<1> SUFFICES ASSUME NEW p \in Paths, disk'[p] # Absent, NEW d \in Tops(p) PROVE disk'[d] # Absent
    BY DEF RootsExist, Exists
<1>1. p \notin AtOrBelow(s) /\ disk[p] # Absent
    BY DEF DiskWithout
<1>2. d \in Paths /\ d \notin AtOrBelow(s)
    BY <1>1, NothingReachesUp
<1>3. disk[d] # Absent
    BY <1>1 DEF RootsExist, Exists
<1> QED BY <1>2, <1>3 DEF DiskWithout

LEMMA RootsAfterInstalling ==
    ASSUME disk \in [Paths -> Values], RootsExist, NEW s \in Paths, NEW t \in Trees(s),
           \A p \in AtOrBelow(s) : t[p] # Absent =>
                \A d \in Tops(p) \cap AtOrBelow(s) : t[d] # Absent,
           CanRename(s), disk' = DiskWith(t)
    PROVE  RootsExist'
<1> SUFFICES ASSUME NEW p \in Paths, disk'[p] # Absent, NEW d \in Tops(p) PROVE disk'[d] # Absent
    BY DEF RootsExist, Exists
<1>1. DOMAIN t = AtOrBelow(s)
    BY DEF Trees
<1>2. CASE p \in AtOrBelow(s)
    <2>1. t[p] # Absent
        BY <1>1, <1>2 DEF DiskWith
    <2>2. d \in Paths /\ (d \in AtOrBelow(s) \/ d \in Tops(s))
        BY <1>2, TopsFormAChain
    <2>3. CASE d \in AtOrBelow(s)
        BY <2>1, <2>2, <2>3, <1>1, <1>2 DEF DiskWith
    <2>4. CASE d \notin AtOrBelow(s)
        BY <2>2, <2>4, <1>1 DEF DiskWith, CanRename, Exists
    <2> QED BY <2>3, <2>4
<1>3. CASE p \notin AtOrBelow(s)
    <2>1. d \in Paths /\ d \notin AtOrBelow(s)
        BY <1>3, NothingReachesUp
    <2>2. disk[d] # Absent
        BY <1>1, <1>3 DEF DiskWith, RootsExist, Exists
    <2> QED BY <2>1, <2>2, <1>1 DEF DiskWith
<1> QED BY <1>2, <1>3

LEMMA RootsAfterMkdir ==
    ASSUME disk \in [Paths -> Values], RootsExist, NEW s \in Paths,
           disk' = [p \in Paths |-> IF p \in Tops(s) /\ ~Exists(p) THEN Made ELSE disk[p]]
    PROVE  RootsExist'
<1> SUFFICES ASSUME NEW p \in Paths, disk'[p] # Absent, NEW d \in Tops(p) PROVE disk'[d] # Absent
    BY DEF RootsExist, Exists
<1>1. d \in Paths /\ Made # Absent
    BY StampAssumption DEF Tops, Paths, Stamps
<1>2. CASE p \in Tops(s)
    <2>1. d \in Tops(s)
        BY <1>2, LayoutAssumption DEF Tops, Paths
    <2> QED BY <2>1, <1>1 DEF Exists
<1>3. CASE p \notin Tops(s)
    BY <1>1, <1>3 DEF RootsExist, Exists
<1> QED BY <1>2, <1>3

LEMMA PayloadsAreRooted ==
    ASSUME NEW r \in Requests, NEW s \in Paths, NEW t \in Payloads(r, s)
    PROVE  \A p \in AtOrBelow(s) : t[p] # Absent =>
                \A d \in Tops(p) \cap AtOrBelow(s) : t[d] # Absent
BY StampAssumption DEF Payloads, Stamps

LEMMA RootedInit == Init => Rooted
BY DEF Init, Rooted, RootsExist, AsideRooted, Exists

LEMMA RootedStep == TInv /\ Rooted /\ [Next]_vars => Rooted'
<1> SUFFICES ASSUME TInv, Rooted, [Next]_vars PROVE Rooted'
    OBVIOUS
<1>a. /\ disk \in [Paths -> Values] /\ Slots \subseteq Paths
      /\ RootsExist /\ AsideRooted
    BY LayoutAssumption DEF TInv, TypeOK, Values, Rooted
<1>b. ASSUME \A r \in Requests : aside'[r] # NoTree => aside'[r] = aside[r] /\ slot'[r] = slot[r]
      PROVE  AsideRooted'
    BY <1>a, <1>b DEF AsideRooted
<1>1. ASSUME NEW r \in Requests, MkdirAll(r) PROVE Rooted'
    <2>1. slot[r] \in Paths
        BY <1>1, <1>a DEF MkdirAll, TInv, TypeOK
    <2>2. RootsExist'
        BY <1>1, <2>1, <1>a, RootsAfterMkdir DEF MkdirAll
    <2> QED BY <1>1, <1>b, <2>2 DEF MkdirAll, Rooted
<1>2. ASSUME NEW r \in Requests, MoveAside(r) PROVE Rooted'
    <2>1. slot[r] \in Paths
        BY <1>2, <1>a DEF MoveAside, TInv, TypeOK
    <2>2. CASE ~Exists(slot[r])
        <3>1. UNCHANGED <<disk, aside, slot>>
            BY <1>2, <2>2 DEF MoveAside
        <3> QED BY <3>1, <1>a, <1>b DEF Rooted, RootsExist, Exists
    <2>3. CASE Exists(slot[r])
        <3>1. /\ aside' = [aside EXCEPT ![r] = Tree(slot[r])] /\ slot' = slot
              /\ disk' = DiskWithout(slot[r])
            BY <1>2, <2>3 DEF MoveAside
        <3>2. RootsExist'
            BY <3>1, <2>1, <1>a, RootsAfterRemoval
        <3>3. ASSUME NEW p \in AtOrBelow(slot[r]), Tree(slot[r])[p] # Absent,
                     NEW d \in Tops(p) \cap AtOrBelow(slot[r])
              PROVE  Tree(slot[r])[d] # Absent
            BY <3>3, <2>1, <1>a, PathsBelow DEF Tree, RootsExist, Exists
        <3>4. \A q \in Requests : aside'[q] = IF q = r THEN Tree(slot[r]) ELSE aside[q]
            BY <3>1 DEF TInv, Shapes
        <3>5. AsideRooted'
            BY <3>1, <3>3, <3>4, <1>a DEF AsideRooted
        <3> QED BY <3>2, <3>5 DEF Rooted
    <2> QED BY <2>2, <2>3
<1>3. ASSUME NEW r \in Requests, Swap(r) PROVE Rooted'
    <2>1. slot[r] \in Paths
        BY <1>3, <1>a DEF Swap, TInv, TypeOK
    <2>2. PICK t \in Payloads(r, slot[r]) : disk' = DiskWith(t)
        BY <1>3 DEF Swap
    <2>3. RootsExist'
        BY <1>3, <2>1, <2>2, <1>a, RootsAfterInstalling, PayloadsAreRooted, PayloadsAreTrees DEF Swap
    <2> QED BY <1>3, <1>b, <2>3 DEF Swap, Rooted
<1>4. ASSUME NEW r \in Requests, Rollback(r) PROVE Rooted'
    <2>1. slot[r] \in Paths
        BY <1>4, <1>a DEF Rollback, TInv, TypeOK
    <2>2. AsideRooted'
        BY <1>4, <1>b DEF Rollback, TInv, Shapes
    <2>3. CASE aside[r] # NoTree /\ CanRename(slot[r])
        <3>1. aside[r] \in Trees(slot[r]) /\ disk' = DiskWith(aside[r])
            BY <1>4, <2>3 DEF Rollback, TInv, TypeOK
        <3>2. RootsExist'
            BY <3>1, <2>1, <2>3, <1>a, RootsAfterInstalling DEF AsideRooted
        <3> QED BY <2>2, <3>2 DEF Rooted
    <2>4. CASE ~(aside[r] # NoTree /\ CanRename(slot[r]))
        BY <1>4, <1>a, <2>2, <2>4 DEF Rollback, Rooted, RootsExist, Exists
    <2> QED BY <2>3, <2>4
<1>5. ASSUME NEW r \in Requests, Stamp(r) PROVE Rooted'
    BY <1>5, <1>a, <1>b DEF Stamp, TInv, Shapes, Rooted, RootsExist, Exists
<1>6. ASSUME GCStart PROVE Rooted'
    BY <1>6, <1>a, <1>b DEF GCStart, Rooted, RootsExist, Exists
<1>7. ASSUME GCRemove PROVE Rooted'
    <2>1. gc.at \in Paths
        BY <1>7, <1>a DEF GCRemove, TInv, TypeOK
    <2>2. RootsExist'
        BY <1>7, <2>1, <1>a, RootsAfterRemoval DEF GCRemove
    <2> QED BY <1>7, <1>b, <2>2 DEF GCRemove, request, Rooted
<1>8. ASSUME NEW d \in Dirs, GCPrune(d) PROVE Rooted'
    <2>1. d \in Paths /\ (\A p \in Below(d) : disk[p] = Absent)
        BY <1>8 DEF GCPrune, EmptyDirs, Exists, Paths
    <2>2. RootsExist'
        BY <1>8, <1>a, <2>1 DEF GCPrune, RootsExist, Exists, Below, Tops, Paths
    <2> QED BY <1>8, <1>b, <2>2 DEF GCPrune, request, Rooted
<1>9. ASSUME NEW q \in Files, NEW e \in Edits, UserEdits(q, e) PROVE Rooted'
    <2>1. q \in Paths /\ e # Absent
        BY StampAssumption DEF Paths, Stamps
    <2>2. RootsExist'
        BY <1>9, <1>a, <2>1 DEF UserEdits, RootsExist, Exists, Tops, Paths
    <2> QED BY <1>9, <1>b, <2>2 DEF UserEdits, request, Rooted
<1>10. ASSUME NEW s \in Slots, UserDeletes(s) PROVE Rooted'
    <2>1. RootsExist'
        BY <1>10, <1>a, RootsAfterRemoval DEF UserDeletes
    <2> QED BY <1>10, <1>b, <2>1 DEF UserDeletes, request, Rooted
<1>11. ASSUME NEW r \in Requests, NEW s \in Slots, NEW forced \in BOOLEAN, Guard(r, s, forced)
       PROVE  Rooted'
    BY <1>11, <1>a, <1>b DEF Guard, TInv, TypeOK, Rooted, RootsExist, Exists
<1>12. ASSUME UNCHANGED <<disk, aside, slot>> PROVE Rooted'
    BY <1>12, <1>a, <1>b DEF Rooted, RootsExist, Exists
<1>13. ASSUME NEW r \in Requests, ReceiveFails(r) \/ Purge(r) \/ Record(r) \/ Open(r)
       PROVE  Rooted'
    BY <1>12, <1>13 DEF ReceiveFails, Purge, Record, Open
<1>14. ASSUME NEW s \in Slots, GCSkip(s) \/ GCGone(s) \/ GCPick(s) PROVE Rooted'
    BY <1>12, <1>14 DEF GCSkip, GCGone, GCPick, request
<1>15. ASSUME GCForget \/ GCEnd \/ Crash \/ UNCHANGED vars PROVE Rooted'
    BY <1>12, <1>15 DEF GCForget, GCEnd, Crash, vars, request
<1> QED
    BY <1>1, <1>2, <1>3, <1>4, <1>5, <1>6, <1>7, <1>8, <1>9, <1>10, <1>11, <1>13, <1>14, <1>15
    DEF Next, Handle, GC, User

\* What the daemon's surroundings may or may not do: requests in flight at the
\* same time are for paths that do not overlap, and GC runs when none is.
RequestsApart == \A q, r \in Serving : q # r => ~Overlap(slot[q], slot[r])
GCAlone == gc.step # "idle" => Serving = {}
Orderly == RequestsApart /\ GCAlone

\* Installing a tree at a slot leaves alone what the slot does not overlap.
LEMMA OutsideStays ==
    ASSUME disk \in [Paths -> Values], NEW s \in Paths, NEW t \in Trees(s),
           NEW u \in Paths, ~Overlap(s, u), NEW p \in AtOrBelow(u)
    PROVE  p \in Paths /\ DiskWith(t)[p] = disk[p] /\ DiskWithout(s)[p] = disk[p]
BY PathsBelow DEF Overlap, DiskWith, DiskWithout, Trees

\* Only GC itself and a crash change the state of GC.
LEMMA GCMoves ==
    ASSUME [Next]_vars, gc' # gc
    PROVE  GC \/ Crash
<1>1. ASSUME NEW r \in Requests, Handle(r) PROVE gc' = gc
    BY <1>1 DEF Handle, Guard, ReceiveFails, MkdirAll, MoveAside, Swap, Rollback, Stamp, Purge,
                Record, Open
<1>2. ASSUME User PROVE gc' = gc
    BY <1>2 DEF User, UserEdits, UserDeletes
<1> QED BY <1>1, <1>2 DEF Next, vars

LEMMA Rootedness == Spec => [](TInv /\ Rooted)
BY TypingInit, TypingStep, RootedInit, RootedStep, PTL DEF Spec

-----------------------------------------------------------------------------
(***************************************************************************)
(* Requests that keep apart.  Two conditions under which they do: no slot  *)
(* lies inside another, or the daemon serves one request at a time.        *)
(***************************************************************************)
Flat == \A s, t \in Slots : <<s, t>> \notin Within

SlotsLocked == \A q, r \in Serving : slot[q] = slot[r] => q = r
OneAtATime == \A q, r \in Serving : q = r

\* Slots that overlap are the same or one is inside the other.
LEMMA OverlapIsNesting ==
    ASSUME NEW s \in Slots, NEW t \in Slots, Overlap(s, t)
    PROVE  s = t \/ <<s, t>> \in Within \/ <<t, s>> \in Within
BY LayoutAssumption DEF Overlap, AtOrBelow, Below, Paths

\* A directory above one path in the tree of another makes the two overlap.
LEMMA DirAboveOverlaps ==
    ASSUME NEW s \in Paths, NEW t \in Paths, NEW d \in Tops(t), d \in AtOrBelow(s)
    PROVE  Overlap(s, t) /\ Overlap(t, s)
BY LayoutAssumption DEF Overlap, AtOrBelow, Below, Tops, Paths

\* Only Guard makes a request one in flight, and nothing changes its slot.
LEMMA ServedSinceGuard ==
    ASSUME TInv, [Next]_vars, NEW q \in Serving'
    PROVE  \/ q \in Serving /\ slot'[q] = slot[q] /\ force'[q] = force[q]
           \/ \E s \in Slots, forced \in BOOLEAN : Guard(q, s, forced)
<1> USE DEF Serving, InFlight, TInv, TypeOK, Goto
<1>0. q \in Requests
    OBVIOUS
<1>1. ASSUME NEW r \in Requests, NEW s \in Slots, NEW forced \in BOOLEAN, Guard(r, s, forced)
      PROVE  \/ q \in Serving /\ slot'[q] = slot[q] /\ force'[q] = force[q]
             \/ Guard(q, s, forced)
    BY <1>1 DEF Guard
<1>2. ASSUME NEW r \in Requests,
             ReceiveFails(r) \/ MkdirAll(r) \/ MoveAside(r) \/ Swap(r) \/ Rollback(r)
      PROVE  q \in Serving /\ slot' = slot /\ force' = force
    BY <1>0, <1>2 DEF ReceiveFails, MkdirAll, MoveAside, Swap, Rollback
<1>3. ASSUME NEW r \in Requests, Stamp(r) \/ Purge(r) \/ Record(r) \/ Open(r)
      PROVE  q \in Serving /\ slot' = slot /\ force' = force
    BY <1>0, <1>3 DEF Stamp, Purge, Record, Open
<1>4. ASSUME NEW s \in Slots, GCSkip(s) \/ GCGone(s) \/ GCPick(s)
      PROVE  q \in Serving /\ slot' = slot /\ force' = force
    BY <1>4 DEF GCSkip, GCGone, GCPick, request
<1>5. ASSUME NEW d \in Dirs, GCPrune(d) PROVE q \in Serving /\ slot' = slot /\ force' = force
    BY <1>5 DEF GCPrune, request
<1>6. ASSUME GCStart \/ GCRemove \/ GCForget \/ GCEnd
      PROVE  q \in Serving /\ slot' = slot /\ force' = force
    BY <1>6 DEF GCStart, GCRemove, GCForget, GCEnd, request
<1>7. ASSUME User \/ UNCHANGED vars PROVE q \in Serving /\ slot' = slot /\ force' = force
    BY <1>7 DEF User, UserEdits, UserDeletes, vars, request
<1>8. ASSUME Crash PROVE FALSE
    BY <1>0, <1>8 DEF Crash
<1> QED
    BY <1>1, <1>2, <1>3, <1>4, <1>5, <1>6, <1>7, <1>8 DEF Next, Handle, GC

LEMMA LockedStep == TInv /\ SlotsLocked /\ [Next]_vars => SlotsLocked'
<1> SUFFICES ASSUME TInv, SlotsLocked, [Next]_vars, NEW q \in Serving', NEW r \in Serving',
                    slot'[q] = slot'[r], q # r
             PROVE  FALSE
    BY DEF SlotsLocked
<1>1. ASSUME NEW x \in Serving', NEW y \in Requests, NEW s \in Slots, NEW forced \in BOOLEAN,
             Guard(y, s, forced), x # y
      PROVE  x \in Serving /\ slot'[x] = slot[x] /\ slot[x] # s /\ slot'[y] = s
    BY <1>1 DEF Guard, Serving, InFlight, TInv, TypeOK, Goto
<1>2. q \in Requests /\ r \in Requests
    BY DEF Serving
<1> QED BY <1>1, <1>2, ServedSinceGuard DEF SlotsLocked

LEMMA TurnsStep ==
    ASSUME MaxInFlight = 1
    PROVE  TInv /\ OneAtATime /\ [Next]_vars => OneAtATime'
<1> SUFFICES ASSUME TInv, OneAtATime, [Next]_vars, NEW q \in Serving', NEW r \in Serving', q # r
             PROVE  FALSE
    BY DEF OneAtATime
<1>1. ASSUME NEW x \in Serving', NEW y \in Requests, NEW s \in Slots, NEW forced \in BOOLEAN,
             Guard(y, s, forced), x # y
      PROVE  FALSE
    <2>1. x \in Serving /\ Cardinality(Serving) < 1
        BY <1>1 DEF Guard, Serving, InFlight, TInv, TypeOK, Goto
    <2>2. Serving = {x}
        BY <2>1 DEF OneAtATime
    <2>3. Cardinality({x}) = 1
        BY FS_Singleton, Zenon
    <2> QED BY <2>1, <2>2, <2>3
<1>2. q \in Requests /\ r \in Requests
    BY DEF Serving
<1> QED BY <1>1, <1>2, ServedSinceGuard DEF OneAtATime

LEMMA GCAloneStep ==
    ASSUME ~GCOverlaps
    PROVE  TInv /\ GCAlone /\ [Next]_vars => GCAlone'
<1> SUFFICES ASSUME TInv, GCAlone, [Next]_vars, NEW q \in Serving', gc'.step # "idle"
             PROVE  FALSE
    BY DEF GCAlone
<1>1. ASSUME NEW s \in Slots, NEW forced \in BOOLEAN, Guard(q, s, forced) PROVE FALSE
    BY <1>1 DEF Guard
<1>2. CASE q \in Serving
    <2>1. gc.step = "idle"
        BY <1>2 DEF GCAlone
    <2>2. GC \/ Crash
        BY <2>1, GCMoves
    <2>3. ASSUME NEW s \in Slots, GCSkip(s) \/ GCGone(s) \/ GCPick(s) PROVE FALSE
        BY <2>1, <2>3 DEF GCSkip, GCGone, GCPick
    <2>4. ASSUME NEW d \in Dirs, GCPrune(d) PROVE FALSE
        BY <2>1, <2>4 DEF GCPrune
    <2>5. ASSUME GCStart \/ GCRemove \/ GCForget \/ GCEnd PROVE FALSE
        BY <1>2, <2>1, <2>5 DEF GCStart, GCRemove, GCForget, GCEnd
    <2>6. ASSUME Crash PROVE FALSE
        BY <2>6 DEF Crash, TInv, Shapes
    <2> QED BY <2>2, <2>3, <2>4, <2>5, <2>6 DEF GC
<1> QED BY <1>1, <1>2, ServedSinceGuard

LEMMA NobodyServedAtFirst == Init => SlotsLocked /\ OneAtATime /\ GCAlone
BY DEF Init, SlotsLocked, OneAtATime, GCAlone, Serving, InFlight

(***************************************************************************)
(* The slot lock keeps requests apart when no slot lies inside another,    *)
(* whatever GC does.                                                       *)
(***************************************************************************)
THEOREM FlatKeepsApart ==
    ASSUME Flat
    PROVE  Spec => []RequestsApart
<1>1. TInv /\ SlotsLocked => RequestsApart
    <2> SUFFICES ASSUME TInv, SlotsLocked, NEW q \in Serving, NEW r \in Serving, q # r,
                        Overlap(slot[q], slot[r])
                 PROVE  FALSE
        BY DEF RequestsApart
    <2>1. slot[q] \in Slots /\ slot[r] \in Slots
        BY DEF TInv, TypeOK, Serving, InFlight
    <2> QED BY <2>1, OverlapIsNesting DEF Flat, SlotsLocked
<1> QED BY <1>1, NobodyServedAtFirst, LockedStep, TypingInit, TypingStep, PTL DEF Spec

(***************************************************************************)
(* One request at a time keeps them apart for any nesting of slots.        *)
(***************************************************************************)
THEOREM TurnsKeepApart ==
    ASSUME MaxInFlight = 1
    PROVE  Spec => []RequestsApart
<1>1. OneAtATime => RequestsApart
    BY DEF OneAtATime, RequestsApart
<1> QED BY <1>1, NobodyServedAtFirst, TurnsStep, TypingInit, TypingStep, PTL DEF Spec

\* GC that starts only when no request is in flight keeps off.
LEMMA GCKeepsAlone ==
    ASSUME ~GCOverlaps
    PROVE  Spec => []GCAlone
BY NobodyServedAtFirst, GCAloneStep, TypingInit, TypingStep, PTL DEF Spec

LEMMA FlatIsOrderly ==
    ASSUME Flat, ~GCOverlaps
    PROVE  Spec => []Orderly
BY FlatKeepsApart, GCKeepsAlone, PTL DEF Orderly

LEMMA TurnsAreOrderly ==
    ASSUME MaxInFlight = 1, ~GCOverlaps
    PROVE  Spec => []Orderly
BY TurnsKeepApart, GCKeepsAlone, PTL DEF Orderly

\* What happens in the tree of one slot leaves alone the tree of another that
\* does not overlap it, and the directories above that.
LEMMA TreesApart ==
    ASSUME disk \in [Paths -> Values], NEW s \in Paths, NEW u \in Paths, ~Overlap(s, u),
           disk' = DiskWithout(s) \/ \E t \in Trees(s) : disk' = DiskWith(t)
    PROVE  \A p \in AtOrBelow(u) \cup Tops(u) : disk'[p] = disk[p]
<1>1. ASSUME NEW p \in AtOrBelow(u) PROVE disk'[p] = disk[p]
    <2>1. p \in Paths /\ p \notin AtOrBelow(s)
        BY PathsBelow DEF Overlap
    <2> QED BY <2>1 DEF DiskWithout, DiskWith, Trees
<1>2. ASSUME NEW p \in Tops(u) PROVE disk'[p] = disk[p]
    <2>1. p \in Paths /\ p \notin AtOrBelow(s)
        BY DirAboveOverlaps DEF Tops, Paths
    <2> QED BY <2>1 DEF DiskWithout, DiskWith, Trees
<1> QED BY <1>1, <1>2

\* All that GC does to the mirror is to remove.
LEMMA GCOnlyRemoves ==
    ASSUME GC, disk \in [Paths -> Values], NEW p \in Paths
    PROVE  disk'[p] \in {disk[p], Absent}
<1>1. ASSUME NEW s \in Slots, GCSkip(s) \/ GCGone(s) \/ GCPick(s) PROVE disk' = disk
    BY <1>1 DEF GCSkip, GCGone, GCPick
<1>2. ASSUME NEW d \in Dirs, GCPrune(d) PROVE disk'[p] \in {disk[p], Absent}
    BY <1>2 DEF GCPrune
<1>3. ASSUME GCRemove PROVE disk'[p] \in {disk[p], Absent}
    BY <1>3 DEF GCRemove, DiskWithout
<1>4. ASSUME GCStart \/ GCForget \/ GCEnd PROVE disk' = disk
    BY <1>4 DEF GCStart, GCForget, GCEnd
<1> QED BY <1>1, <1>2, <1>3, <1>4 DEF GC

\* While the others keep off, a request in flight that does not move finds its
\* slot as it was but for the user's edits and what GC has removed, and, but for
\* GC, the directories above it in place.
LEMMA OthersKeepApart ==
    ASSUME TInv, RequestsApart, [Next]_vars, NEW r \in Serving, r \in Serving', pc'[r] = pc[r]
    PROVE  /\ slot'[r] = slot[r] /\ force'[r] = force[r]
           /\ aside'[r] = aside[r] /\ print'[r] = print[r]
           /\ \A p \in AtOrBelow(slot[r]) :
                 \/ disk'[p] = disk[p]
                 \/ GC /\ disk'[p] = Absent
                 \/ Exists(p) /\ disk'[p] \in Edits /\ (EditsRace \/ pc[r] \notin Unguarded)
           /\ GC \/ \A d \in Tops(slot[r]) : Exists(d) => disk'[d] # Absent
<1> DEFINE Result == /\ slot'[r] = slot[r] /\ force'[r] = force[r]
                     /\ aside'[r] = aside[r] /\ print'[r] = print[r]
                     /\ \A p \in AtOrBelow(slot[r]) :
                           \/ disk'[p] = disk[p]
                           \/ GC /\ disk'[p] = Absent
                           \/ /\ Exists(p) /\ disk'[p] \in Edits
                              /\ EditsRace \/ pc[r] \notin Unguarded
                     /\ GC \/ \A d \in Tops(slot[r]) : Exists(d) => disk'[d] # Absent
<1>a. disk \in [Paths -> Values] /\ r \in Requests /\ slot[r] \in Slots /\ slot[r] \in Paths
    BY LayoutAssumption DEF TInv, TypeOK, Values, Serving, InFlight
<1>b. ASSUME NEW q \in Requests, q # r, pc[q] \in InFlight
      PROVE  slot[q] \in Paths /\ ~Overlap(slot[q], slot[r])
    BY <1>a, <1>b, LayoutAssumption
    DEF RequestsApart, Serving, InFlight, TInv, TypeOK
<1>c. ASSUME disk' = disk, slot'[r] = slot[r], force'[r] = force[r], aside'[r] = aside[r],
             print'[r] = print[r]
      PROVE  Result
    BY <1>c DEF Exists
<1>1. ASSUME NEW q \in Requests, NEW s \in Slots, NEW forced \in BOOLEAN, Guard(q, s, forced)
      PROVE  Result
    <2>1. q # r
        BY <1>1, <1>a DEF Guard, Serving, InFlight
    <2> QED BY <1>1, <1>c, <2>1 DEF Guard, TInv, TypeOK
<1>2. ASSUME NEW q \in Requests, MkdirAll(q) PROVE Result
    <2>1. q # r /\ pc[q] \in InFlight
        BY <1>2, <1>a DEF MkdirAll, Goto, TInv, TypeOK, InFlight
    <2>2. ASSUME NEW p \in AtOrBelow(slot[r]), p \in Tops(slot[q]) PROVE FALSE
        BY <1>a, <1>b, <2>1, <2>2, DirAboveOverlaps
    <2>3. \A p \in AtOrBelow(slot[r]) : disk'[p] = disk[p]
        BY <1>2, <1>a, <2>2, PathsBelow DEF MkdirAll
    <2>4. \A d \in Tops(slot[r]) : Exists(d) => disk'[d] # Absent
        BY <1>2, <1>a, StampAssumption DEF MkdirAll, Exists, Tops, Paths, Stamps
    <2> QED BY <1>2, <2>3, <2>4 DEF MkdirAll
<1>3. ASSUME NEW q \in Requests, MoveAside(q) \/ Swap(q) \/ Rollback(q) PROVE Result
    <2>1. q # r /\ pc[q] \in InFlight
        BY <1>3, <1>a DEF MoveAside, Swap, Rollback, Goto, TInv, TypeOK, InFlight
    <2>2. \/ disk' = disk
          \/ disk' = DiskWithout(slot[q]) \/ \E t \in Trees(slot[q]) : disk' = DiskWith(t)
        BY <1>3, <1>b, <2>1, PayloadsAreTrees DEF MoveAside, Swap, Rollback, TInv, TypeOK
    <2>3. slot' = slot /\ force' = force /\ print' = print /\ aside'[r] = aside[r]
        BY <1>3, <2>1, <1>a DEF MoveAside, Swap, Rollback, TInv, Shapes
    <2>4. \A p \in AtOrBelow(slot[r]) \cup Tops(slot[r]) : disk'[p] = disk[p]
        BY <1>a, <1>b, <2>1, <2>2, TreesApart
    <2> QED BY <2>3, <2>4 DEF Exists
<1>4. ASSUME NEW q \in Requests, ReceiveFails(q) \/ Stamp(q) \/ Purge(q) \/ Record(q) \/ Open(q)
      PROVE  Result
    <2>1. q # r
        BY <1>4, <1>a DEF ReceiveFails, Stamp, Purge, Record, Open, Goto, TInv, TypeOK, InFlight
    <2>2. /\ disk' = disk /\ slot' = slot /\ force' = force
          /\ aside'[r] = aside[r] /\ print'[r] = print[r]
        BY <1>4, <1>a, <2>1 DEF ReceiveFails, Stamp, Purge, Record, Open, TInv, Shapes
    <2> QED BY <1>c, <2>2
<1>5. ASSUME GC PROVE Result
    <2>1. \A p \in AtOrBelow(slot[r]) : disk'[p] = disk[p] \/ disk'[p] = Absent
        <3>1. ASSUME NEW p \in AtOrBelow(slot[r]) PROVE disk'[p] \in {disk[p], Absent}
            <4>1. p \in Paths /\ disk \in [Paths -> Values] /\ GC
                BY <1>5, <1>a, <3>1, PathsBelow
            <4> QED BY <4>1, GCOnlyRemoves, Zenon
        <3> QED BY <3>1
    <2>2. slot' = slot /\ force' = force /\ print' = print /\ aside'[r] = aside[r]
        <3>1. CASE GCStart
            BY <1>a, <3>1 DEF GCStart
        <3>2. ASSUME NEW s \in Slots, GCSkip(s) \/ GCGone(s) \/ GCPick(s) PROVE UNCHANGED request
            BY <3>2 DEF GCSkip, GCGone, GCPick
        <3>3. ASSUME NEW d \in Dirs, GCPrune(d) PROVE UNCHANGED request
            BY <3>3 DEF GCPrune
        <3>4. ASSUME GCRemove \/ GCForget \/ GCEnd PROVE UNCHANGED request
            BY <3>4 DEF GCRemove, GCForget, GCEnd
        <3> QED BY <1>5, <3>1, <3>2, <3>3, <3>4 DEF GC, request
    <2> QED BY <1>5, <2>1, <2>2
<1>6. ASSUME NEW q \in Files, NEW e \in Edits, UserEdits(q, e) PROVE Result
    <2>1. q \in Paths /\ e # Absent
        BY StampAssumption DEF Paths, Stamps
    <2>2. ASSUME NEW p \in AtOrBelow(slot[r]), disk'[p] # disk[p]
          PROVE  Exists(p) /\ disk'[p] \in Edits /\ (EditsRace \/ pc[r] \notin Unguarded)
        <3>1. p = q /\ disk'[p] = e
            BY <1>6, <1>a, <2>1, <2>2, PathsBelow DEF UserEdits
        <3>2. Overlap(slot[r], q)
            BY <3>1 DEF Overlap, AtOrBelow
        <3> QED BY <1>6, <1>a, <3>1, <3>2 DEF UserEdits, BeingReplaced
    <2>3. \A d \in Tops(slot[r]) : Exists(d) => disk'[d] # Absent
        BY <1>6, <1>a, <2>1 DEF UserEdits, Exists, Tops, Paths
    <2> QED BY <1>6, <2>2, <2>3 DEF UserEdits, request
<1>7. ASSUME NEW s \in Slots, UserDeletes(s) PROVE Result
    <2>1. ~Overlap(s, slot[r]) /\ s \in Paths
        BY <1>7, LayoutAssumption DEF UserDeletes, Overlap
    <2>2. \A p \in AtOrBelow(slot[r]) \cup Tops(slot[r]) : disk'[p] = disk[p]
        BY <1>7, <1>a, <2>1, TreesApart DEF UserDeletes
    <2> QED BY <1>7, <2>2 DEF UserDeletes, request, Exists
<1>8. CASE Crash
    BY <1>8, <1>a DEF Crash, Serving, InFlight, TInv, TypeOK
<1>9. CASE UNCHANGED vars
    BY <1>9, <1>c DEF vars, request
<1>10. Result
    BY <1>1, <1>2, <1>3, <1>4, <1>5, <1>6, <1>7, <1>8, <1>9 DEF Next, Handle, User
<1> QED BY <1>10

\* While a request is in flight GC, if it keeps off as well, does nothing but start.
LEMMA GCKeepsOff ==
    ASSUME GCAlone, NEW r \in Serving, GC
    PROVE  disk' = disk
<1>1. gc.step = "idle"
    BY DEF GCAlone
<1>2. GCStart
    BY <1>1 DEF GC, GCSkip, GCGone, GCPick, GCRemove, GCForget, GCPrune, GCEnd
<1> QED BY <1>2 DEF GCStart

LEMMA OthersKeepOff ==
    ASSUME TInv, Orderly, [Next]_vars, NEW r \in Serving, r \in Serving', pc'[r] = pc[r]
    PROVE  /\ slot'[r] = slot[r] /\ force'[r] = force[r]
           /\ aside'[r] = aside[r] /\ print'[r] = print[r]
           /\ \A p \in AtOrBelow(slot[r]) :
                 \/ disk'[p] = disk[p]
                 \/ Exists(p) /\ disk'[p] \in Edits /\ (EditsRace \/ pc[r] \notin Unguarded)
           /\ \A d \in Tops(slot[r]) : Exists(d) => disk'[d] # Absent
<1>1. /\ slot'[r] = slot[r] /\ force'[r] = force[r]
      /\ aside'[r] = aside[r] /\ print'[r] = print[r]
      /\ \A p \in AtOrBelow(slot[r]) :
            \/ disk'[p] = disk[p]
            \/ GC /\ disk'[p] = Absent
            \/ Exists(p) /\ disk'[p] \in Edits /\ (EditsRace \/ pc[r] \notin Unguarded)
      /\ GC \/ \A d \in Tops(slot[r]) : Exists(d) => disk'[d] # Absent
    BY OthersKeepApart, Zenon DEF Orderly
<1>2. GC => disk' = disk
    BY GCKeepsOff, Zenon DEF Orderly
<1> QED BY <1>1, <1>2 DEF Exists

-----------------------------------------------------------------------------
(***************************************************************************)
(* Promote, step by step.  What a request that keeps apart from the others *)
(* may rely on between its steps.                                          *)
(***************************************************************************)

\* Between MkdirAll and the second rename the directories above the slot are
\* there; after the first rename nothing is in the slot's place.
PlaceReady ==
    \A r \in Requests : pc[r] \in {"placing", "swapping"} => \A d \in Tops(slot[r]) : Exists(d)
SlotVacated == \A r \in Requests : pc[r] = "swapping" => ~Exists(slot[r])

\* A copy is aside only during the swap, until it is removed, or after a crash.
AsideInUse ==
    \A r \in Requests : aside[r] # NoTree => pc[r] \in {"swapping", "stamping", "lost"}

\* From the second rename on the slot holds what the request delivered.
HoldsOwnCopy ==
    \A r \in Requests : pc[r] \in {"stamping", "purging", "recording", "opening"} =>
        /\ disk[slot[r]] \in {r} \cup Edits
        /\ \A p \in Below(slot[r]) : disk[p] \in {r, Absent} \cup Edits

InPlace == PlaceReady /\ SlotVacated /\ AsideInUse /\ HoldsOwnCopy

\* Only its own steps and a crash move a request.
LEMMA MovesByItself ==
    ASSUME TInv, [Next]_vars, NEW r \in Requests, pc'[r] # pc[r]
    PROVE  Handle(r) \/ Crash
<1>1. ASSUME NEW q \in Requests, q # r, NEW s \in Slots, NEW forced \in BOOLEAN,
             Guard(q, s, forced)
      PROVE  FALSE
    BY <1>1 DEF Guard, Goto, TInv, TypeOK
<1>2. ASSUME NEW q \in Requests, q # r,
             ReceiveFails(q) \/ MkdirAll(q) \/ MoveAside(q) \/ Swap(q) \/ Rollback(q)
      PROVE  FALSE
    BY <1>2 DEF ReceiveFails, MkdirAll, MoveAside, Swap, Rollback, Goto, TInv, TypeOK
<1>3. ASSUME NEW q \in Requests, q # r, Stamp(q) \/ Purge(q) \/ Record(q) \/ Open(q)
      PROVE  FALSE
    BY <1>3 DEF Stamp, Purge, Record, Open, Goto, TInv, TypeOK
<1>4. ASSUME GC PROVE FALSE
    <2>1. ASSUME NEW s \in Slots, GCSkip(s) \/ GCGone(s) \/ GCPick(s) PROVE FALSE
        BY <2>1 DEF GCSkip, GCGone, GCPick, request
    <2>2. ASSUME NEW d \in Dirs, GCPrune(d) PROVE FALSE
        BY <2>2 DEF GCPrune, request
    <2> QED BY <1>4, <2>1, <2>2 DEF GC, GCStart, GCRemove, GCForget, GCEnd, request
<1>5. ASSUME User \/ UNCHANGED vars PROVE FALSE
    BY <1>5 DEF User, UserEdits, UserDeletes, vars, request
<1> QED BY <1>1, <1>2, <1>3, <1>4, <1>5 DEF Next, Handle

\* Only a request itself and the start of GC do something to the copy it set aside.
LEMMA AsideIsPrivate ==
    ASSUME TInv, [Next]_vars, NEW r \in Requests, pc'[r] = pc[r]
    PROVE  aside'[r] \in {aside[r], NoTree}
<1>1. ASSUME NEW q \in Requests, MoveAside(q) \/ Rollback(q) \/ Stamp(q)
      PROVE  aside'[r] \in {aside[r], NoTree}
    BY <1>1 DEF MoveAside, Rollback, Stamp, Goto, TInv, TypeOK, Shapes
<1>2. ASSUME NEW q \in Requests, NEW s \in Slots, NEW forced \in BOOLEAN, Guard(q, s, forced)
      PROVE  aside' = aside
    BY <1>2 DEF Guard
<1>3. ASSUME NEW q \in Requests, ReceiveFails(q) \/ MkdirAll(q) \/ Swap(q) \/ Purge(q) \/ Record(q)
                                 \/ Open(q)
      PROVE  aside' = aside
    BY <1>3 DEF ReceiveFails, MkdirAll, Swap, Purge, Record, Open
<1>4. CASE GCStart
    BY <1>4 DEF GCStart
<1>5. ASSUME NEW s \in Slots, GCSkip(s) \/ GCGone(s) \/ GCPick(s) PROVE aside' = aside
    BY <1>5 DEF GCSkip, GCGone, GCPick, request
<1>6. ASSUME NEW d \in Dirs, GCPrune(d) PROVE aside' = aside
    BY <1>6 DEF GCPrune, request
<1>7. ASSUME GCRemove \/ GCForget \/ GCEnd \/ User \/ Crash \/ UNCHANGED vars
      PROVE  aside' = aside
    BY <1>7 DEF GCRemove, GCForget, GCEnd, User, UserEdits, UserDeletes, Crash, vars, request
<1> QED BY <1>1, <1>2, <1>3, <1>4, <1>5, <1>6, <1>7 DEF Next, Handle, GC

\* No directory is inside itself.
LEMMA TopsAreOutside ==
    ASSUME NEW s \in Paths, NEW d \in Tops(s)
    PROVE  d \in Paths /\ d \notin AtOrBelow(s)
BY LayoutAssumption DEF Tops, AtOrBelow, Below, Paths

LEMMA InPlaceInit == Init => InPlace
BY DEF Init, InPlace, PlaceReady, SlotVacated, AsideInUse, HoldsOwnCopy

LEMMA InPlaceStep == TInv /\ Orderly /\ InPlace /\ [Next]_vars => InPlace'
<1> SUFFICES ASSUME TInv, Orderly, InPlace, [Next]_vars, NEW r \in Requests
             PROVE  /\ pc'[r] \in {"placing", "swapping"} => \A d \in Tops(slot'[r]) : disk'[d] # Absent
                    /\ pc'[r] = "swapping" => disk'[slot'[r]] = Absent
                    /\ aside'[r] # NoTree => pc'[r] \in {"swapping", "stamping", "lost"}
                    /\ pc'[r] \in {"stamping", "purging", "recording", "opening"} =>
                        /\ disk'[slot'[r]] \in {r} \cup Edits
                        /\ \A p \in Below(slot'[r]) : disk'[p] \in {r, Absent} \cup Edits
    BY DEF InPlace, PlaceReady, SlotVacated, AsideInUse, HoldsOwnCopy, Exists
<1> DEFINE Goal == /\ pc'[r] \in {"placing", "swapping"} => \A d \in Tops(slot'[r]) : disk'[d] # Absent
                   /\ pc'[r] = "swapping" => disk'[slot'[r]] = Absent
                   /\ aside'[r] # NoTree => pc'[r] \in {"swapping", "stamping", "lost"}
                   /\ pc'[r] \in {"stamping", "purging", "recording", "opening"} =>
                       /\ disk'[slot'[r]] \in {r} \cup Edits
                       /\ \A p \in Below(slot'[r]) : disk'[p] \in {r, Absent} \cup Edits
<1>a. disk \in [Paths -> Values] /\ Slots \subseteq Paths
    BY LayoutAssumption DEF TInv, TypeOK, Values
<1>1. CASE pc'[r] = pc[r] /\ pc[r] \in InFlight
    <2>1. r \in Serving /\ r \in Serving'
        BY <1>1 DEF Serving
    <2>2. slot[r] \in AtOrBelow(slot[r]) /\ Below(slot[r]) \subseteq AtOrBelow(slot[r])
        BY DEF AtOrBelow
    <2>3. /\ slot'[r] = slot[r] /\ aside'[r] = aside[r]
          /\ \A d \in Tops(slot[r]) : Exists(d) => disk'[d] # Absent
          /\ \A p \in AtOrBelow(slot[r]) :
                \/ disk'[p] = disk[p]
                \/ Exists(p) /\ disk'[p] \in Edits /\ (EditsRace \/ pc[r] \notin Unguarded)
        BY <1>1, <2>1, OthersKeepOff, Zenon
    <2> QED BY <1>1, <2>2, <2>3
            DEF InPlace, PlaceReady, SlotVacated, AsideInUse, HoldsOwnCopy, Exists
<1>2. CASE pc'[r] = pc[r] /\ pc[r] \notin InFlight
    BY <1>2, AsideIsPrivate DEF InPlace, AsideInUse, InFlight
<1>3. CASE Crash
    BY <1>3 DEF Crash, Serving, InFlight, InPlace, AsideInUse
<1>4. ASSUME NEW s \in Slots, NEW forced \in BOOLEAN, Guard(r, s, forced) PROVE Goal
    BY <1>4 DEF Guard, Goto, TInv, TypeOK
<1>5. CASE ReceiveFails(r)
    BY <1>5 DEF ReceiveFails, Goto, TInv, TypeOK, InPlace, AsideInUse
<1>6. CASE MkdirAll(r)
    <2>1. pc'[r] = "placing" /\ slot' = slot /\ aside'[r] = NoTree
        BY <1>6 DEF MkdirAll, Goto, TInv, TypeOK, InPlace, AsideInUse
    <2>2. \A d \in Tops(slot[r]) : disk'[d] # Absent
        BY <1>6, StampAssumption DEF MkdirAll, Exists, Tops, Paths, Stamps
    <2> QED BY <2>1, <2>2
<1>7. CASE MoveAside(r)
    <2>1. pc'[r] = "swapping" /\ slot' = slot /\ slot[r] \in Paths
        BY <1>7, <1>a DEF MoveAside, Goto, TInv, TypeOK
    <2>2. disk'[slot[r]] = Absent
        BY <1>7, <1>a, <2>1 DEF MoveAside, Exists, DiskWithout, AtOrBelow
    <2>3. ASSUME NEW d \in Tops(slot[r]) PROVE disk'[d] # Absent
        <3>1. d \in Paths /\ d \notin AtOrBelow(slot[r])
            BY <2>1, TopsAreOutside
        <3>2. disk[d] # Absent
            BY <1>7 DEF MoveAside, InPlace, PlaceReady, Exists
        <3>3. disk' = disk \/ disk' = DiskWithout(slot[r])
            BY <1>7 DEF MoveAside
        <3> QED BY <3>1, <3>2, <3>3 DEF DiskWithout
    <2> QED BY <2>1, <2>2, <2>3
<1>8. CASE Swap(r)
    <2>1. pc'[r] = "stamping" /\ slot' = slot /\ slot[r] \in Paths
        BY <1>8, <1>a DEF Swap, Goto, TInv, TypeOK
    <2>2. PICK t \in Payloads(r, slot[r]) : disk' = DiskWith(t)
        BY <1>8 DEF Swap
    <2>3. \A p \in AtOrBelow(slot[r]) : disk'[p] = t[p]
        BY <2>1, <2>2, PathsBelow DEF DiskWith, Payloads
    <2>4. disk'[slot[r]] = r /\ \A p \in Below(slot[r]) : disk'[p] \in {r, Absent}
        BY <2>3 DEF Payloads, AtOrBelow
    <2> QED BY <2>1, <2>4
<1>9. CASE Rollback(r)
    <2>1. pc'[r] = "failed"
        BY <1>9 DEF Rollback, Goto, TInv, TypeOK
    <2>2. CanRename(slot[r])
        BY <1>9 DEF Rollback, CanRename, InPlace, PlaceReady, SlotVacated
    <2>3. aside'[r] = NoTree
        BY <1>9, <2>2 DEF Rollback, TInv, Shapes
    <2> QED BY <2>1, <2>3
<1>10. CASE Stamp(r)
    <2>1. pc'[r] = "purging" /\ slot' = slot /\ disk' = disk /\ aside'[r] = NoTree
        BY <1>10 DEF Stamp, Goto, TInv, TypeOK, Shapes
    <2> QED BY <1>10, <2>1 DEF Stamp, InPlace, HoldsOwnCopy
<1>11. CASE Purge(r) \/ Record(r) \/ Open(r)
    BY <1>11 DEF Purge, Record, Open, Goto, TInv, TypeOK, InPlace, AsideInUse, HoldsOwnCopy
<1> QED
    BY <1>1, <1>2, <1>3, <1>4, <1>5, <1>6, <1>7, <1>8, <1>9, <1>10, <1>11, MovesByItself DEF Handle

LEMMA Placement == Spec /\ []Orderly => [](TInv /\ Rooted /\ InPlace)
BY Rootedness, InPlaceInit, InPlaceStep, PTL DEF Spec

(***************************************************************************)
(* A request that fails after it moved the old copy aside has put it back: *)
(* the user's copy is not left in .staging for GC to reap.  (While         *)
(* requests for overlapping paths, and GC, take turns.)                    *)
(***************************************************************************)
THEOREM FailureReturnsTheCopy == Spec /\ []Orderly => []NoStrandedCopy
<1>1. InPlace => NoStrandedCopy
    BY DEF InPlace, AsideInUse, NoStrandedCopy
<1> QED BY <1>1, Placement, PTL

(***************************************************************************)
(* The viewer is started on the copy this request delivered, or on the     *)
(* user's edit of it.  (Under the same condition.)                         *)
(***************************************************************************)
THEOREM OpensWhatItDelivered == Spec /\ []Orderly => []OpensOwnCopy
<1>1. InPlace => OpensOwnCopy
    BY DEF InPlace, HoldsOwnCopy, OpensOwnCopy
<1> QED BY <1>1, Placement, PTL

-----------------------------------------------------------------------------
(***************************************************************************)
(* Edits.  They get into a recorded tree only along the way disk,          *)
(* fingerprint, entry, GC's copy of the entries.                           *)
(***************************************************************************)

\* The trees recorded in the index and in index.json, about to be recorded and
\* copied by GC hold no edit; nor does a copy just installed, or about to be removed by GC.
IndexClean == \A s \in Entries : \A p \in AtOrBelow(s) : index[s][p] \notin Edits
SavedClean ==
    \A s \in Slots : saved[s] # NoTree => \A p \in AtOrBelow(s) : saved[s][p] \notin Edits
PrintClean ==
    \A r \in Requests : pc[r] \in {"purging", "recording"} =>
        \A p \in AtOrBelow(slot[r]) : print[r][p] \notin Edits
SeenClean == \A s \in gc.todo : \A p \in AtOrBelow(s) : gc.seen[s][p] \notin Edits
FreshClean ==
    \A r \in Requests : pc[r] = "stamping" =>
        \A p \in AtOrBelow(slot[r]) : disk[p] \notin Edits
GoingClean ==
    gc.step = "removing" => \A p \in AtOrBelow(gc.at) : disk[p] \notin Edits

CleanInv == IndexClean /\ SavedClean /\ PrintClean /\ SeenClean /\ FreshClean /\ GoingClean

\* Renames do not fail, or an old copy that is renamed back comes into nobody's
\* hands: requests are for paths that do not overlap and GC keeps away from
\* them, or no copy is inside another.
Calm == ~RenameFails \/ (RequestsApart /\ (GCAlone \/ Flat))

\* What was set aside from the place that GC is about to empty holds no edit.
ReturnClean ==
    gc.step = "removing" => \A r \in Requests :
        pc[r] = "swapping" /\ aside[r] # NoTree /\ slot[r] = gc.at =>
            \A p \in AtOrBelow(slot[r]) : aside[r][p] \notin Edits

\* Nothing is aside before the first rename.
NoneAsideYet ==
    \A r \in Requests : pc[r] \in {"new", "receiving", "placing"} => aside[r] = NoTree

LEMMA ReturnInit == Init => SlotVacated /\ NoneAsideYet /\ ReturnClean
BY DEF Init, SlotVacated, NoneAsideYet, ReturnClean

LEMMA OnlyMoveAsideVacates ==
    ASSUME TInv, [Next]_vars, NEW r \in Requests, pc'[r] = "swapping", pc[r] # "swapping"
    PROVE  MoveAside(r)
<1>1. Handle(r) \/ Crash
    BY MovesByItself
<1>2. ASSUME Crash PROVE FALSE
    BY <1>2 DEF Crash
<1>3. ASSUME NEW s \in Slots, NEW forced \in BOOLEAN, Guard(r, s, forced) PROVE FALSE
    BY <1>3 DEF Guard, Goto, TInv, TypeOK
<1>4. ASSUME ReceiveFails(r) \/ MkdirAll(r) \/ Swap(r) \/ Rollback(r) PROVE FALSE
    BY <1>4 DEF ReceiveFails, MkdirAll, Swap, Rollback, Goto, TInv, TypeOK
<1>5. ASSUME Stamp(r) \/ Purge(r) \/ Record(r) \/ Open(r) PROVE FALSE
    BY <1>5 DEF Stamp, Purge, Record, Open, Goto, TInv, TypeOK
<1> QED BY <1>1, <1>2, <1>3, <1>4, <1>5 DEF Handle

LEMMA AsideYetStep == TInv /\ NoneAsideYet /\ [Next]_vars => NoneAsideYet'
<1> SUFFICES ASSUME TInv, NoneAsideYet, [Next]_vars, NEW r \in Requests,
                    pc'[r] \in {"new", "receiving", "placing"}
             PROVE  aside'[r] = NoTree
    BY DEF NoneAsideYet
<1>1. CASE pc'[r] = pc[r]
    BY <1>1, AsideIsPrivate DEF NoneAsideYet
<1>2. ASSUME NEW s \in Slots, NEW forced \in BOOLEAN, Guard(r, s, forced) PROVE aside'[r] = NoTree
    BY <1>2 DEF Guard, NoneAsideYet
<1>3. CASE MkdirAll(r)
    BY <1>3 DEF MkdirAll, NoneAsideYet
<1>4. ASSUME ReceiveFails(r) \/ MoveAside(r) \/ Swap(r) \/ Rollback(r) PROVE FALSE
    BY <1>4 DEF ReceiveFails, MoveAside, Swap, Rollback, Goto, TInv, TypeOK
<1>5. ASSUME Stamp(r) \/ Purge(r) \/ Record(r) \/ Open(r) PROVE FALSE
    BY <1>5 DEF Stamp, Purge, Record, Open, Goto, TInv, TypeOK
<1>6. CASE Crash
    BY <1>6 DEF Crash, NoneAsideYet
<1> QED BY <1>1, <1>2, <1>3, <1>4, <1>5, <1>6, MovesByItself DEF Handle

\* A slot stays vacated between the renames, whatever GC does.
LEMMA VacatedStep == TInv /\ RequestsApart /\ SlotVacated /\ [Next]_vars => SlotVacated'
<1> SUFFICES ASSUME TInv, RequestsApart, SlotVacated, [Next]_vars, NEW r \in Requests,
                    pc'[r] = "swapping"
             PROVE  disk'[slot'[r]] = Absent
    BY DEF SlotVacated, Exists
<1>1. CASE pc[r] = "swapping"
    <2>1. r \in Serving /\ r \in Serving' /\ pc'[r] = pc[r]
        BY <1>1 DEF Serving, InFlight
    <2>2. /\ slot'[r] = slot[r]
          /\ \A p \in AtOrBelow(slot[r]) :
                \/ disk'[p] = disk[p]
                \/ GC /\ disk'[p] = Absent
                \/ Exists(p) /\ disk'[p] \in Edits /\ (EditsRace \/ pc[r] \notin Unguarded)
        BY <2>1, OthersKeepApart, Zenon
    <2> QED BY <1>1, <2>2 DEF SlotVacated, Exists, AtOrBelow
<1>2. CASE pc[r] # "swapping"
    <2>1. MoveAside(r)
        BY <1>2, OnlyMoveAsideVacates
    <2>2. slot[r] \in Paths
        BY <2>1, LayoutAssumption DEF MoveAside, TInv, TypeOK
    <2> QED BY <2>1, <2>2 DEF MoveAside, Exists, DiskWithout, AtOrBelow
<1> QED BY <1>1, <1>2



LEMMA CleanInit == Init => CleanInv
BY DEF Init, CleanInv, IndexClean, SavedClean, PrintClean, SeenClean, FreshClean, GoingClean,
       Entries, Exists

\* With edits kept out of what is being replaced and no old copy renamed back
\* into another's tree, no edit gets into a recorded tree.
LEMMA CleanStep ==
    ASSUME ~EditsRace, TInv, Rooted, CleanInv, Calm, RenameFails => ReturnClean, [Next]_vars
    PROVE  CleanInv'
<1> USE DEF CleanInv, stored, Save, SavedClean
<1>a. /\ disk \in [Paths -> Values] /\ Slots \subseteq Paths /\ Absent \notin Edits
      /\ \A r \in Requests : r \notin Edits /\ Made \notin Edits
    BY LayoutAssumption, StampAssumption DEF TInv, TypeOK, Values, Stamps
<1>b. \A s \in Slots : index[s] \in Trees(s) \cup {NoTree}
    BY DEF TInv, TypeOK
<1>1. ASSUME NEW r \in Requests, NEW s \in Slots, NEW forced \in BOOLEAN, Guard(r, s, forced)
      PROVE  CleanInv'
    BY <1>1, <1>a DEF Guard, TInv, TypeOK, Goto, IndexClean, PrintClean, SeenClean,
                      FreshClean, GoingClean, Entries, Exists
<1>2. ASSUME NEW r \in Requests, ReceiveFails(r) \/ Open(r) PROVE CleanInv'
    BY <1>2, <1>a DEF ReceiveFails, Open, TInv, TypeOK, Goto, IndexClean, PrintClean,
                      SeenClean, FreshClean, GoingClean, Entries, Exists
<1>3. ASSUME NEW r \in Requests, MkdirAll(r) PROVE CleanInv'
    <2>1. slot[r] \in Paths
        BY <1>3, <1>a DEF MkdirAll, TInv, TypeOK
    <2>2. \A p \in Paths : disk'[p] \in Edits => disk[p] \in Edits
        BY <1>3, <1>a DEF MkdirAll
    <2> QED BY <1>3, <1>a, <2>2, PathsBelow
        DEF MkdirAll, TInv, TypeOK, Goto, IndexClean, PrintClean, SeenClean, FreshClean,
            GoingClean, Entries
<1>4. ASSUME NEW r \in Requests, MoveAside(r) PROVE CleanInv'
    <2>1. slot[r] \in Paths
        BY <1>4, <1>a DEF MoveAside, TInv, TypeOK
    <2>2. \A p \in Paths : disk'[p] \in Edits => disk[p] \in Edits
        BY <1>4, <1>a DEF MoveAside, DiskWithout
    <2> QED BY <1>4, <1>a, <2>2, PathsBelow
        DEF MoveAside, TInv, TypeOK, Goto, IndexClean, PrintClean, SeenClean, FreshClean,
            GoingClean, Entries
<1>5. ASSUME NEW r \in Requests, Swap(r) PROVE CleanInv'
    <2>1. slot[r] \in Paths
        BY <1>5, <1>a DEF Swap, TInv, TypeOK
    <2>2. PICK t \in Payloads(r, slot[r]) : disk' = DiskWith(t)
        BY <1>5 DEF Swap
    <2>3. /\ \A p \in Paths : disk'[p] \in Edits => disk[p] \in Edits
          /\ \A p \in AtOrBelow(slot[r]) \cap Paths : disk'[p] \notin Edits
        BY <2>2, <1>a DEF DiskWith, Payloads
    <2>4. FreshClean'
        BY <1>5, <2>1, <2>3, <1>a, PathsBelow DEF Swap, Goto, FreshClean, TInv, TypeOK
    <2> QED BY <1>5, <1>a, <2>3, <2>4, PathsBelow
        DEF Swap, TInv, TypeOK, Goto, IndexClean, PrintClean, SeenClean, GoingClean, Entries
<1>6. ASSUME NEW r \in Requests, Rollback(r) PROVE CleanInv'
    <2>1. CASE UNCHANGED disk
        BY <1>6, <2>1 DEF Rollback, TInv, TypeOK, Goto, IndexClean, PrintClean, SeenClean,
                          FreshClean, GoingClean, Entries
    <2>2. CASE ~UNCHANGED disk
        <3>1. /\ pc[r] = "swapping" /\ slot[r] \in Paths
              /\ aside[r] \in Trees(slot[r]) /\ disk' = DiskWith(aside[r])
              /\ pc' = [pc EXCEPT ![r] = "failed"]
              /\ UNCHANGED <<index, saved, slot, force, print, gc>>
            BY <1>6, <2>2, <1>a DEF Rollback, Goto, TInv, TypeOK
        <3>2. RequestsApart /\ (GCAlone \/ Flat) /\ ReturnClean /\ r \in Serving
            BY <1>6, <2>2, <3>1 DEF Calm, Rollback, Serving, InFlight
        <3>3. FreshClean'
            <4> SUFFICES ASSUME NEW q \in Requests, pc'[q] = "stamping",
                                NEW p \in AtOrBelow(slot[q])
                         PROVE  disk'[p] \notin Edits
                BY <3>1 DEF FreshClean
            <4>1. q # r /\ pc[q] = "stamping" /\ slot[q] \in Paths
                BY <3>1, <1>a DEF TInv, TypeOK
            <4>2. ~Overlap(slot[r], slot[q])
                BY <3>2, <4>1 DEF RequestsApart, Serving, InFlight
            <4> QED BY <3>1, <4>1, <4>2, <1>a, OutsideStays DEF FreshClean
        <3>4. GoingClean'
            <4> SUFFICES ASSUME gc.step = "removing", NEW p \in AtOrBelow(gc.at)
                         PROVE  disk'[p] \notin Edits
                BY <3>1 DEF GoingClean
            <4>1. Flat /\ gc.at \in Slots /\ gc.at \in Paths /\ slot[r] \in Slots
                BY <3>1, <3>2, <1>a, <1>6 DEF GCAlone, TInv, TypeOK, Rollback
            <4>2. CASE slot[r] = gc.at
                <5>1. aside[r] # NoTree /\ aside[r][p] \notin Edits
                    BY <1>6, <2>2, <3>1, <3>2, <4>2 DEF ReturnClean, Rollback
                <5> QED BY <3>1, <4>1, <4>2, <5>1, PathsBelow DEF DiskWith, Trees
            <4>3. CASE slot[r] # gc.at
                <5>1. ~Overlap(slot[r], gc.at)
                    BY <4>1, <4>3, OverlapIsNesting DEF Flat
                <5> QED BY <3>1, <4>1, <5>1, <1>a, OutsideStays DEF GoingClean
            <4> QED BY <4>2, <4>3
        <3> QED BY <3>1, <3>3, <3>4 DEF IndexClean, PrintClean, SeenClean, Entries,
                                        TInv, TypeOK
    <2> QED BY <2>1, <2>2
<1>7. ASSUME NEW r \in Requests, Stamp(r) PROVE CleanInv'
    <2>1. PrintClean'
        BY <1>7, <1>a DEF Stamp, Goto, Tree, PrintClean, FreshClean, TInv, TypeOK, Shapes
    <2> QED BY <1>7, <1>a, <2>1 DEF Stamp, TInv, TypeOK, Goto, IndexClean,
                                    SeenClean, FreshClean, GoingClean, Entries, Exists
<1>8. ASSUME NEW r \in Requests, Purge(r) PROVE CleanInv'
    BY <1>8, <1>a DEF Purge, TInv, TypeOK, Goto, IndexClean, PrintClean, SeenClean,
                      FreshClean, GoingClean, Entries, Exists
<1>9. ASSUME NEW r \in Requests, Record(r) PROVE CleanInv'
    <2>1. IndexClean'
        BY <1>9, <1>a DEF Record, TInv, TypeOK, Shapes, IndexClean, PrintClean, Entries
    <2>2. SavedClean'
        BY <1>9, <2>1 DEF Record, IndexClean, Entries
    <2>3. PrintClean'
        BY <1>9 DEF Record, TInv, TypeOK, Shapes, Goto, PrintClean
    <2>4. FreshClean'
        BY <1>9 DEF Record, TInv, TypeOK, Goto, FreshClean
    <2> QED BY <1>9, <2>1, <2>2, <2>3, <2>4 DEF Record, SeenClean, GoingClean, Exists
<1>10. ASSUME GCStart PROVE CleanInv'
    <2>1. SeenClean' /\ GoingClean'
        BY <1>10 DEF GCStart, TInv, Shapes, IndexClean, SeenClean, GoingClean
    <2> QED BY <1>10, <2>1 DEF GCStart, IndexClean, PrintClean, FreshClean, Entries,
                               Exists
<1>11. ASSUME NEW s \in Slots, GCSkip(s) \/ GCGone(s) PROVE CleanInv'
    <2>1. gc'.todo \subseteq gc.todo /\ gc'.seen = gc.seen /\ gc'.step # "removing"
        BY <1>11 DEF GCSkip, GCGone, Shapes, TInv
    <2>2. SeenClean' /\ GoingClean'
        BY <2>1 DEF SeenClean, GoingClean
    <2> QED BY <1>11, <2>2 DEF GCSkip, GCGone, IndexClean, PrintClean, FreshClean,
                               Entries, Exists, request
<1>12. ASSUME NEW s \in Slots, GCPick(s) PROVE CleanInv'
    <2>1. \A p \in AtOrBelow(s) : disk[p] = gc.seen[s][p]
        BY <1>12 DEF GCPick, LocallyModified, Tree
    <2>2. GoingClean'
        BY <1>12, <2>1 DEF GCPick, GoingClean, SeenClean, TInv, Shapes
    <2>3. SeenClean'
        BY <1>12 DEF GCPick, SeenClean, TInv, Shapes
    <2> QED BY <1>12, <2>2, <2>3 DEF GCPick, IndexClean, PrintClean, FreshClean,
                                     Entries, Exists, request
<1>13. ASSUME GCRemove PROVE CleanInv'
    <2>1. gc.at \in Paths
        BY <1>13, <1>a DEF GCRemove, TInv, TypeOK
    <2>2. \A p \in Paths : disk'[p] \in Edits => disk[p] \in Edits
        BY <1>13, <1>a DEF GCRemove, DiskWithout
    <2> QED BY <1>13, <1>a, <2>2, PathsBelow
        DEF GCRemove, TInv, TypeOK, Shapes, IndexClean, PrintClean, SeenClean, FreshClean,
            GoingClean, Entries, request
<1>14. ASSUME GCForget PROVE CleanInv'
    <2>1. IndexClean' /\ SavedClean'
        BY <1>14 DEF GCForget, TInv, Shapes, IndexClean, Entries
    <2>2. SeenClean' /\ GoingClean'
        BY <1>14 DEF GCForget, TInv, Shapes, SeenClean, GoingClean
    <2> QED BY <1>14, <2>1, <2>2 DEF GCForget, PrintClean, FreshClean, Exists, request
<1>15. ASSUME NEW d \in Dirs, GCPrune(d) PROVE CleanInv'
    <2>1. d \in Paths /\ (\A p \in Below(d) : disk[p] = Absent)
        BY <1>15 DEF GCPrune, EmptyDirs, Exists, Paths
    <2>2. \A p \in Paths : disk'[p] \in Edits => disk[p] \in Edits
        BY <1>15, <1>a DEF GCPrune
    <2> QED BY <1>15, <1>a, <2>2, PathsBelow
        DEF GCPrune, TInv, TypeOK, Shapes, IndexClean, PrintClean, SeenClean, FreshClean,
            GoingClean, Entries, request
<1>16. ASSUME GCEnd PROVE CleanInv'
    BY <1>16, <1>a DEF GCEnd, TInv, TypeOK, Shapes, IndexClean, PrintClean, SeenClean,
                       FreshClean, GoingClean, Entries, Exists, request
<1>17. ASSUME NEW q \in Files, NEW e \in Edits, UserEdits(q, e) PROVE CleanInv'
    <2>1. q \in Paths /\ q \in AtOrBelow(q)
        BY DEF Paths, AtOrBelow
    <2>2. \A p \in Paths : p # q => disk'[p] = disk[p]
        BY <1>17, <1>a, <2>1 DEF UserEdits
    <2>3. FreshClean'
        <3> SUFFICES ASSUME NEW r \in Requests, pc[r] = "stamping", NEW p \in AtOrBelow(slot[r])
                     PROVE  disk'[p] \notin Edits
            BY <1>17 DEF UserEdits, FreshClean, request
        <3>1. slot[r] \in Paths
            BY <1>a DEF TInv, TypeOK
        <3>2. q \notin AtOrBelow(slot[r])
            BY <1>17, <2>1 DEF UserEdits, BeingReplaced, Unguarded, Overlap
        <3> QED BY <3>1, <3>2, <2>2, PathsBelow DEF FreshClean
    <2>4. GoingClean'
        <3> SUFFICES ASSUME gc.step = "removing", NEW p \in AtOrBelow(gc.at)
                     PROVE  disk'[p] \notin Edits
            BY <1>17 DEF UserEdits, GoingClean
        <3>1. gc.at \in Paths
            BY <1>a DEF TInv, TypeOK
        <3>2. q \notin AtOrBelow(gc.at)
            BY <1>17, <2>1 DEF UserEdits, BeingReplaced, Overlap
        <3> QED BY <3>1, <3>2, <2>2, PathsBelow DEF GoingClean
    <2> QED BY <1>17, <2>3, <2>4
        DEF UserEdits, IndexClean, PrintClean, SeenClean, Entries, request
<1>18. ASSUME NEW s \in Slots, UserDeletes(s) PROVE CleanInv'
    <2>1. \A p \in Paths : disk'[p] \in Edits => disk[p] \in Edits
        BY <1>18, <1>a DEF UserDeletes, DiskWithout
    <2> QED BY <1>18, <1>a, <2>1, PathsBelow
        DEF UserDeletes, TInv, TypeOK, IndexClean, PrintClean, SeenClean, FreshClean, GoingClean,
            Entries, request
<1>19. ASSUME Crash PROVE CleanInv'
    BY <1>19, <1>a DEF Crash, TInv, TypeOK, Shapes, Serving, InFlight, IndexClean,
                       PrintClean, SeenClean, FreshClean, GoingClean, Entries, Exists
<1>20. CASE UNCHANGED vars
    BY <1>20 DEF vars, request, IndexClean, PrintClean, SeenClean, FreshClean,
                 GoingClean, Entries, Exists
<1> QED
    BY <1>1, <1>2, <1>3, <1>4, <1>5, <1>6, <1>7, <1>8, <1>9, <1>10, <1>11, <1>12, <1>13, <1>14,
       <1>15, <1>16, <1>17, <1>18, <1>19, <1>20 DEF Next, Handle, GC, User

\* GC picks no place that is vacated, and what is moved aside after it picked is clean.
LEMMA ReturnStep ==
    TInv /\ CleanInv /\ SlotVacated /\ NoneAsideYet /\ ReturnClean /\ [Next]_vars => ReturnClean'
<1> SUFFICES ASSUME TInv, CleanInv, SlotVacated, NoneAsideYet, ReturnClean, [Next]_vars,
                    gc'.step = "removing", NEW r \in Requests, pc'[r] = "swapping",
                    aside'[r] # NoTree, slot'[r] = gc'.at, NEW p \in AtOrBelow(slot'[r])
             PROVE  aside'[r][p] \notin Edits
    BY DEF ReturnClean, AtOrBelow, Below
<1>1. CASE pc[r] = "swapping"
    <2>1. slot'[r] = slot[r]
        <3>1. r \in Serving'
            BY DEF Serving, InFlight
        <3>2. ASSUME NEW s \in Slots, NEW forced \in BOOLEAN, Guard(r, s, forced) PROVE FALSE
            BY <1>1, <3>2 DEF Guard
        <3> QED BY <3>1, <3>2, ServedSinceGuard
    <2>2. aside'[r] = aside[r]
        BY <1>1, AsideIsPrivate
    <2>3. CASE gc' = gc
        BY <1>1, <2>1, <2>2, <2>3 DEF ReturnClean
    <2>4. CASE gc' # gc
        <3>1. GC \/ Crash
            BY <2>4, GCMoves
        <3>2. ASSUME NEW s \in Slots, GCPick(s) PROVE FALSE
            <4>1. gc'.at = s /\ Exists(s)
                BY <3>2 DEF GCPick, TInv, Shapes
            <4> QED BY <1>1, <2>1, <4>1 DEF SlotVacated
        <3>3. ASSUME NEW s \in Slots, GCSkip(s) \/ GCGone(s) PROVE FALSE
            BY <3>3 DEF GCSkip, GCGone, TInv, Shapes
        <3>4. ASSUME NEW d \in Dirs, GCPrune(d) PROVE FALSE
            BY <2>4, <3>4 DEF GCPrune
        <3>5. ASSUME GCStart \/ GCRemove \/ GCForget \/ GCEnd \/ Crash PROVE FALSE
            BY <3>5 DEF GCStart, GCRemove, GCForget, GCEnd, Crash, TInv, Shapes
        <3> QED BY <3>1, <3>2, <3>3, <3>4, <3>5 DEF GC
    <2> QED BY <2>3, <2>4
<1>2. CASE pc[r] # "swapping"
    <2>1. MoveAside(r)
        BY <1>2, OnlyMoveAsideVacates
    <2>2. gc' = gc /\ slot' = slot /\ aside'[r] \in {aside[r], Tree(slot[r])}
        BY <2>1 DEF MoveAside, TInv, Shapes
    <2>3. \A x \in AtOrBelow(slot[r]) : Tree(slot[r])[x] \notin Edits
        BY <2>2 DEF Tree, CleanInv, GoingClean
    <2>4. aside'[r] = Tree(slot[r])
        <3>1. aside[r] = NoTree
            BY <2>1 DEF MoveAside, NoneAsideYet
        <3> QED BY <2>1, <2>2, <3>1
    <2> QED BY <2>2, <2>3, <2>4
<1> QED BY <1>1, <1>2


LEMMA Cleanliness ==
    ASSUME ~EditsRace
    PROVE  Spec /\ []Calm => [](TInv /\ Rooted /\ CleanInv)
<1>1. CASE ~RenameFails
    BY <1>1, CleanInit, CleanStep, Rootedness, PTL DEF Spec
<1>2. CASE RenameFails
    <2>1. Calm => RequestsApart
        BY <1>2 DEF Calm
    <2>2. TInv /\ Rooted /\ CleanInv /\ Calm /\ ReturnClean /\ [Next]_vars => CleanInv'
        BY CleanStep
    <2> QED BY <2>1, <2>2, CleanInit, ReturnInit, VacatedStep, AsideYetStep, ReturnStep,
               Rootedness, PTL DEF Spec
<1> QED BY <1>1, <1>2

(***************************************************************************)
(* The guard and GC see every edit, through any crashes, overlapping       *)
(* requests and passes of GC: no entry records an edit, so that an edited  *)
(* tree differs from its entry.  (Assuming that the user does not write    *)
(* into a copy while it is replaced and that, unless renames never fail,   *)
(* requests are for paths that do not overlap, and GC takes turns with     *)
(* them where slots are nested.)                                           *)
(***************************************************************************)
THEOREM GuardSeesEdits ==
    ASSUME ~EditsRace
    PROVE  Spec /\ []Calm => []EditsAreVisible
<1>1. TInv /\ Rooted /\ CleanInv => EditsAreVisible
    <2> SUFFICES ASSUME TInv, Rooted, CleanInv, NEW s \in Entries, NEW p \in AtOrBelow(s),
                        disk[p] \in Edits
                 PROVE  Exists(s) /\ Tree(s) # index[s]
        BY DEF EditsAreVisible, LocallyModified
    <2>1. s \in Paths /\ Absent \notin Edits
        BY LayoutAssumption, StampAssumption DEF Entries, Stamps
    <2>2. Exists(s)
        BY <2>1, LayoutAssumption DEF Rooted, RootsExist, Exists, AtOrBelow, Below, Tops, Paths
    <2>3. Tree(s)[p] \in Edits /\ index[s][p] \notin Edits
        BY DEF Tree, CleanInv, IndexClean
    <2> QED BY <2>2, <2>3
<1> QED BY <1>1, Cleanliness, PTL

(***************************************************************************)
(* "Locally-modified entries are never evicted": no step of GC removes an  *)
(* edit, however entries overlap and whatever requests run meanwhile.      *)
(* (Under the same two assumptions.)                                       *)
(***************************************************************************)
THEOREM EvictionSparesEdits ==
    ASSUME ~EditsRace
    PROVE  Spec /\ []Calm => GCKeepsEdits
<1>1. TInv /\ Rooted /\ CleanInv /\ [Next]_vars =>
        [gc' # gc => \A p \in Files : disk[p] \in Edits => disk'[p] = disk[p]]_vars
    <2> SUFFICES ASSUME TInv, Rooted, CleanInv, Next, gc' # gc, NEW p \in Files, disk[p] \in Edits
                 PROVE  disk'[p] = disk[p]
        BY DEF vars
    <2>1. CASE GCRemove
        <3>1. p \notin AtOrBelow(gc.at)
            BY <2>1 DEF GCRemove, CleanInv, GoingClean
        <3> QED BY <2>1, <3>1 DEF GCRemove, DiskWithout, Paths
    <2>2. CASE ~GCRemove
        <3>1. GC \/ Crash
            BY GCMoves DEF vars
        <3>2. ASSUME NEW s \in Slots, GCSkip(s) \/ GCGone(s) \/ GCPick(s) PROVE disk' = disk
            BY <3>2 DEF GCSkip, GCGone, GCPick
        <3>3. ASSUME NEW d \in Dirs, GCPrune(d) PROVE FALSE
            BY <3>3 DEF GCPrune
        <3>4. ASSUME GCStart \/ GCForget \/ GCEnd \/ Crash PROVE disk' = disk
            BY <3>4 DEF GCStart, GCForget, GCEnd, Crash
        <3> QED BY <2>2, <3>1, <3>2, <3>3, <3>4 DEF GC
    <2> QED BY <2>1, <2>2
<1> QED BY <1>1, Cleanliness, PTL DEF Spec, GCKeepsEdits
-----------------------------------------------------------------------------
(***************************************************************************)
(* The index.  A file entry never lies inside a directory entry: between   *)
(* Purge and Record nobody else enters what Purge has dropped.             *)
(***************************************************************************)
NestFree(entries) ==
    \A f \in Files \cap Slots, d \in Dirs \cap Slots :
        entries[f] # NoTree /\ entries[d] # NoTree => <<f, d>> \notin Within
PurgedFirst ==
    \A r \in Requests : pc[r] = "recording" => \A s \in Superseded(slot[r]) \cap Slots : index[s] = NoTree

Disjoint == NestFree(index) /\ NestFree(saved) /\ PurgedFirst

\* What is saved is what is in memory, and few steps change that.
LEMMA IndexMoves ==
    ASSUME [Next]_vars
    PROVE  /\ saved' = saved \/ saved' = index'
           /\ \/ index' = index
              \/ \E r \in Requests : Purge(r) \/ Record(r)
              \/ GCForget
              \/ Crash
<1>1. ASSUME NEW r \in Requests, NEW s \in Slots, NEW forced \in BOOLEAN, Guard(r, s, forced)
      PROVE  index' = index /\ saved' = saved
    BY <1>1 DEF Guard, stored
<1>2. ASSUME NEW r \in Requests,
             ReceiveFails(r) \/ MkdirAll(r) \/ MoveAside(r) \/ Swap(r) \/ Rollback(r) \/ Stamp(r)
      PROVE  index' = index /\ saved' = saved
    BY <1>2 DEF ReceiveFails, MkdirAll, MoveAside, Swap, Rollback, Stamp, stored
<1>3. ASSUME NEW r \in Requests, Open(r) PROVE index' = index /\ (saved' = saved \/ saved' = index')
    BY <1>3 DEF Open, Save
<1>4. ASSUME NEW r \in Requests, Purge(r) \/ Record(r) PROVE saved' = saved \/ saved' = index'
    BY <1>4 DEF Purge, Record, Save
<1>5. ASSUME NEW s \in Slots, GCSkip(s) \/ GCGone(s) \/ GCPick(s)
      PROVE  index' = index /\ saved' = saved
    BY <1>5 DEF GCSkip, GCGone, GCPick, stored
<1>6. ASSUME NEW d \in Dirs, GCPrune(d) PROVE index' = index /\ saved' = saved
    BY <1>6 DEF GCPrune, stored
<1>7. ASSUME GCStart \/ GCRemove \/ GCEnd \/ User \/ UNCHANGED vars
      PROVE  index' = index /\ saved' = saved
    BY <1>7 DEF GCStart, GCRemove, GCEnd, User, UserEdits, UserDeletes, vars, stored
<1>8. ASSUME GCForget \/ Crash PROVE saved' = saved \/ saved' = index'
    BY <1>8 DEF GCForget, Crash, Save
<1> QED BY <1>1, <1>2, <1>3, <1>4, <1>5, <1>6, <1>7, <1>8 DEF Next, Handle, GC

\* A slot whose entry another's purge drops overlaps the other.
LEMMA SupersededOverlaps ==
    ASSUME NEW s \in Slots, NEW t \in Superseded(s) \cap Slots
    PROVE  Overlap(s, t) /\ Overlap(t, s)
BY LayoutAssumption DEF Superseded, Overlap, AtOrBelow, Below, Tops, Paths

LEMMA DisjointInit == Init => Disjoint
BY DEF Init, Disjoint, NestFree, PurgedFirst

LEMMA DisjointStep == TInv /\ RequestsApart /\ Disjoint /\ [Next]_vars => Disjoint'
<1> SUFFICES ASSUME TInv, RequestsApart, Disjoint, [Next]_vars PROVE Disjoint'
    OBVIOUS
<1>a. /\ index = [s \in Slots |-> index[s]]
      /\ NestFree(index) /\ NestFree(saved) /\ PurgedFirst
    BY DEF TInv, Shapes, Disjoint
<1>b. ASSUME NEW r \in Requests, Record(r)
      PROVE  /\ slot[r] \in Slots /\ slot' = slot /\ pc[r] = "recording" /\ pc'[r] # "recording"
             /\ \A s \in Slots : s # slot[r] => index'[s] = index[s]
    BY <1>a, <1>b DEF Record, Goto, TInv, TypeOK
<1>c. ASSUME NEW r \in Requests, Purge(r)
      PROVE  /\ slot' = slot
             /\ \A s \in Slots : index'[s] = IF s \in Superseded(slot[r]) THEN NoTree ELSE index[s]
    BY <1>c DEF Purge
<1>d. ASSUME GCForget PROVE \A s \in Slots : index'[s] # NoTree => index'[s] = index[s]
    BY <1>a, <1>d DEF GCForget, TInv, TypeOK
<1>1. NestFree(index')
    <2>1. ASSUME NEW r \in Requests, Record(r) PROVE NestFree(index')
        <3> SUFFICES ASSUME NEW f \in Files \cap Slots, NEW d \in Dirs \cap Slots,
                            index'[f] # NoTree, index'[d] # NoTree, <<f, d>> \in Within
                     PROVE  FALSE
            BY DEF NestFree
        <3>1. f # d
            BY LayoutAssumption DEF Paths
        <3>2. CASE slot[r] = f
            <4>1. d \in Superseded(f) /\ index'[d] = index[d]
                BY <1>b, <2>1, <3>1, <3>2, LayoutAssumption DEF Superseded, Tops
            <4> QED BY <1>a, <1>b, <2>1, <3>2, <4>1 DEF PurgedFirst
        <3>3. CASE slot[r] = d
            <4>1. f \in Superseded(d) /\ index'[f] = index[f]
                BY <1>b, <2>1, <3>1, <3>3, LayoutAssumption DEF Superseded, Below, Paths
            <4> QED BY <1>a, <1>b, <2>1, <3>3, <4>1 DEF PurgedFirst
        <3>4. CASE slot[r] # f /\ slot[r] # d
            BY <1>a, <1>b, <2>1, <3>4 DEF NestFree
        <3> QED BY <3>2, <3>3, <3>4
    <2>2. ASSUME NEW r \in Requests, Purge(r) PROVE NestFree(index')
        BY <1>a, <1>c, <2>2 DEF NestFree
    <2>3. ASSUME GCForget PROVE NestFree(index')
        BY <1>a, <1>d, <2>3 DEF NestFree
    <2>4. ASSUME Crash PROVE NestFree(index')
        BY <1>a, <2>4 DEF Crash
    <2> QED BY <1>a, <2>1, <2>2, <2>3, <2>4, IndexMoves
<1>2. NestFree(saved')
    BY <1>a, <1>1, IndexMoves
<1>3. PurgedFirst'
    <2> SUFFICES ASSUME NEW r \in Requests, pc'[r] = "recording",
                        NEW s \in Superseded(slot'[r]) \cap Slots
                 PROVE  index'[s] = NoTree
        BY DEF PurgedFirst, Superseded, Below, Tops
    <2>1. CASE pc[r] # "recording"
        <3>1. Purge(r)
            BY <2>1, MovesByItself DEF Handle, Guard, ReceiveFails, MkdirAll, MoveAside, Swap,
               Rollback, Stamp, Record, Open, Crash, Serving, InFlight, Goto, TInv, TypeOK
        <3> QED BY <1>c, <3>1
    <2>2. CASE pc[r] = "recording"
        <3>1. r \in Serving /\ r \in Serving' /\ slot'[r] = slot[r] /\ slot[r] \in Slots
            BY <2>2, ServedSinceGuard DEF Serving, InFlight, Guard, TInv, TypeOK
        <3>2. index[s] = NoTree
            BY <1>a, <2>2, <3>1 DEF PurgedFirst
        <3>3. ASSUME NEW q \in Requests, Record(q) PROVE index'[s] = NoTree
            <4>1. q # r /\ q \in Serving
                BY <1>b, <3>3 DEF Serving, InFlight
            <4>2. s # slot[q]
                BY <3>1, <4>1, SupersededOverlaps DEF RequestsApart
            <4> QED BY <1>b, <3>2, <3>3, <4>2
        <3>4. ASSUME NEW q \in Requests, Purge(q) PROVE index'[s] = NoTree
            BY <1>c, <3>2, <3>4
        <3>5. ASSUME Crash PROVE FALSE
            BY <2>2, <3>5 DEF Crash, Serving, InFlight
        <3> QED BY <1>d, <3>2, <3>3, <3>4, <3>5, IndexMoves
    <2> QED BY <2>1, <2>2
<1> QED BY <1>1, <1>2, <1>3 DEF Disjoint, NestFree

(***************************************************************************)
(* DeleteAncestorDirsOf and DeleteDescendantsOf run before the entry is    *)
(* written, "so the two never overlap": true of the index, and of what a   *)
(* restart reads back, as long as no two requests for overlapping paths    *)
(* are between the two.                                                    *)
(***************************************************************************)
THEOREM EntriesStayDisjoint == Spec /\ []RequestsApart => []FileAndDirNeverOverlap
<1>1. TInv /\ Disjoint => FileAndDirNeverOverlap
    <2> SUFFICES ASSUME Disjoint, NEW f \in Entries \cap Files, NEW d \in Entries \cap Dirs
                 PROVE  <<f, d>> \notin Within
        BY Zenon DEF FileAndDirNeverOverlap
    <2>1. NestFree(index)
        BY DEF Disjoint
    <2> QED BY <2>1 DEF NestFree, Entries
<1> QED BY <1>1, DisjointInit, DisjointStep, TypingInit, TypingStep, PTL DEF Spec

-----------------------------------------------------------------------------
(***************************************************************************)
(* Entries protect edits.                                                  *)
(***************************************************************************)

\* The user edits files, so that no directory carries an edit's stamp.
DirsUnedited ==
    /\ \A d \in Dirs : disk[d] \notin Edits
    /\ \A r \in Requests : aside[r] # NoTree =>
         \A d \in Dirs \cap AtOrBelow(slot[r]) : aside[r][d] \notin Edits

LEMMA UneditedInit == Init => DirsUnedited
BY StampAssumption DEF Init, DirsUnedited, Paths, Stamps

LEMMA UneditedStep == TInv /\ DirsUnedited /\ [Next]_vars => DirsUnedited'
<1> SUFFICES ASSUME TInv, DirsUnedited, [Next]_vars PROVE DirsUnedited'
    OBVIOUS
<1>a. /\ disk \in [Paths -> Values] /\ Slots \subseteq Paths /\ Dirs \subseteq Paths
      /\ Absent \notin Edits /\ Made \notin Edits /\ (\A r \in Requests : r \notin Edits)
    BY LayoutAssumption, StampAssumption DEF TInv, TypeOK, Values, Paths, Stamps
<1>b. ASSUME \A d \in Dirs : disk'[d] \notin Edits,
             \A r \in Requests : aside'[r] # NoTree => aside'[r] = aside[r] /\ slot'[r] = slot[r]
      PROVE  DirsUnedited'
    BY <1>b DEF DirsUnedited
<1>1. ASSUME NEW r \in Requests, MkdirAll(r) PROVE DirsUnedited'
    BY <1>1, <1>a, <1>b DEF MkdirAll, DirsUnedited
<1>2. ASSUME NEW r \in Requests, MoveAside(r) PROVE DirsUnedited'
    <2>1. \A d \in Dirs : disk'[d] \notin Edits
        BY <1>2, <1>a DEF MoveAside, DiskWithout, DirsUnedited
    <2>2. \A q \in Requests : aside'[q] = aside[q] \/ (q = r /\ aside'[q] = Tree(slot[r]))
        BY <1>2 DEF MoveAside, TInv, Shapes
    <2>3. \A d \in Dirs \cap AtOrBelow(slot[r]) : Tree(slot[r])[d] \notin Edits
        BY DEF Tree, DirsUnedited
    <2> QED BY <1>2, <2>1, <2>2, <2>3 DEF MoveAside, DirsUnedited
<1>3. ASSUME NEW r \in Requests, Swap(r) PROVE DirsUnedited'
    <2>1. PICK t \in Payloads(r, slot[r]) : disk' = DiskWith(t)
        BY <1>3 DEF Swap
    <2>2. \A d \in Dirs : disk'[d] \notin Edits
        BY <1>a, <2>1 DEF DiskWith, Payloads, DirsUnedited
    <2> QED BY <1>3, <1>b, <2>2 DEF Swap
<1>4. ASSUME NEW r \in Requests, Rollback(r) PROVE DirsUnedited'
    <2>1. slot[r] \in Slots
        BY <1>4 DEF Rollback, TInv, TypeOK
    <2>2. \A q \in Requests : aside'[q] # NoTree => aside'[q] = aside[q] /\ slot'[q] = slot[q]
        BY <1>4 DEF Rollback, TInv, Shapes
    <2>3. disk' = disk \/ (aside[r] # NoTree /\ disk' = DiskWith(aside[r]))
        BY <1>4 DEF Rollback
    <2>4. aside[r] # NoTree => DOMAIN aside[r] = AtOrBelow(slot[r])
        BY DEF TInv, TypeOK, Trees
    <2>5. \A d \in Dirs : disk'[d] \notin Edits
        BY <1>a, <2>3, <2>4 DEF DiskWith, DirsUnedited
    <2> QED BY <1>b, <2>2, <2>5
<1>5. ASSUME NEW r \in Requests, Stamp(r) PROVE DirsUnedited'
    BY <1>5, <1>b DEF Stamp, DirsUnedited, TInv, Shapes
<1>6. ASSUME NEW r \in Requests, NEW s \in Slots, NEW forced \in BOOLEAN, Guard(r, s, forced)
      PROVE  DirsUnedited'
    BY <1>6, <1>b DEF Guard, DirsUnedited, TInv, TypeOK
<1>7. ASSUME GCStart PROVE DirsUnedited'
    BY <1>7, <1>b DEF GCStart, DirsUnedited
<1>8. ASSUME GCRemove PROVE DirsUnedited'
    BY <1>8, <1>a, <1>b DEF GCRemove, DiskWithout, DirsUnedited, request
<1>9. ASSUME NEW d \in Dirs, GCPrune(d) PROVE DirsUnedited'
    BY <1>9, <1>a, <1>b DEF GCPrune, DirsUnedited, request
<1>10. ASSUME NEW p \in Files, NEW e \in Edits, UserEdits(p, e) PROVE DirsUnedited'
    BY <1>10, <1>a, <1>b, LayoutAssumption DEF UserEdits, DirsUnedited, request
<1>11. ASSUME NEW s \in Slots, UserDeletes(s) PROVE DirsUnedited'
    BY <1>11, <1>a, <1>b DEF UserDeletes, DiskWithout, DirsUnedited, request
<1>12. ASSUME UNCHANGED <<disk, aside, slot>> PROVE DirsUnedited'
    BY <1>12 DEF DirsUnedited
<1>13. ASSUME NEW r \in Requests, ReceiveFails(r) \/ Purge(r) \/ Record(r) \/ Open(r)
       PROVE  DirsUnedited'
    BY <1>12, <1>13 DEF ReceiveFails, Purge, Record, Open
<1>14. ASSUME NEW s \in Slots, GCSkip(s) \/ GCGone(s) \/ GCPick(s) PROVE DirsUnedited'
    BY <1>12, <1>14 DEF GCSkip, GCGone, GCPick, request
<1>15. ASSUME GCForget \/ GCEnd \/ Crash \/ UNCHANGED vars PROVE DirsUnedited'
    BY <1>12, <1>15 DEF GCForget, GCEnd, Crash, vars, request
<1> QED
    BY <1>1, <1>2, <1>3, <1>4, <1>5, <1>6, <1>7, <1>8, <1>9, <1>10, <1>11, <1>13, <1>14, <1>15
    DEF Next, Handle, GC, User

\* What an unforced request is about to replace holds no edit that an entry at
\* or below its slot could tell from what was mirrored.
EntriesGuarded ==
    \A r \in Requests : ~force[r] /\ pc[r] \in {"receiving", "placing", "swapping"} =>
        \A s \in Slots \cap AtOrBelow(slot[r]) : index[s] # NoTree =>
            \A p \in AtOrBelow(s) : disk[p] \notin Edits

LEMMA GuardedInit == Init => EntriesGuarded
BY DEF Init, EntriesGuarded

\* An entry whose copy is as recorded, or gone, covers no edit.
LEMMA UnmodifiedIsUnedited ==
    ASSUME TInv, Rooted, CleanInv, NEW s \in Entries, ~LocallyModified(s, index[s]),
           NEW p \in AtOrBelow(s)
    PROVE  disk[p] \notin Edits
<1>1. s \in Paths /\ p \in Paths /\ Absent \notin Edits
    BY LayoutAssumption, StampAssumption, PathsBelow DEF Entries, Stamps
<1>2. CASE Exists(s)
    <2>1. Tree(s)[p] = index[s][p]
        BY <1>2 DEF LocallyModified
    <2> QED BY <2>1 DEF Tree, CleanInv, IndexClean
<1>3. CASE ~Exists(s)
    BY <1>1, <1>3, LayoutAssumption DEF Rooted, RootsExist, Exists, AtOrBelow, Below, Tops, Paths
<1> QED BY <1>2, <1>3

\* What is in the tree of a path in the tree of another is in the other's tree.
LEMMA TreesNest ==
    ASSUME NEW s \in Paths, NEW q \in AtOrBelow(s), NEW p \in AtOrBelow(q)
    PROVE  p \in AtOrBelow(s)
BY LayoutAssumption DEF AtOrBelow, Below, Paths

\* While a request is in flight nobody enters anything at or below its slot.
LEMMA NobodyEnters ==
    ASSUME TInv, RequestsApart, [Next]_vars, NEW r \in Serving, r \in Serving', pc'[r] = pc[r],
           NEW s \in Slots \cap AtOrBelow(slot[r]), index'[s] # NoTree
    PROVE  index'[s] = index[s]
<1>1. ASSUME NEW q \in Requests, Record(q) PROVE index'[s] = index[s]
    <2>1. q \in Serving /\ q # r /\ slot[q] \in Slots
        BY <1>1 DEF Record, Serving, InFlight, Goto, TInv, TypeOK
    <2>2. s # slot[q]
        BY <2>1 DEF RequestsApart, Overlap, AtOrBelow
    <2> QED BY <1>1, <2>1, <2>2 DEF Record, TInv, Shapes
<1>2. ASSUME NEW q \in Requests, Purge(q) PROVE index'[s] = index[s]
    BY <1>2 DEF Purge
<1>3. ASSUME GCForget PROVE index'[s] = index[s]
    BY <1>3 DEF GCForget, TInv, TypeOK, Shapes
<1>4. ASSUME Crash PROVE FALSE
    BY <1>4 DEF Crash, Serving, InFlight
<1> QED BY <1>1, <1>2, <1>3, <1>4, IndexMoves

LEMMA GuardedStep ==
    ASSUME ~EditsRace
    PROVE  TInv /\ Rooted /\ CleanInv /\ RequestsApart /\ EntriesGuarded /\ [Next]_vars =>
             EntriesGuarded'
<1> SUFFICES ASSUME TInv, Rooted, CleanInv, RequestsApart, EntriesGuarded, [Next]_vars,
                    NEW r \in Requests, ~force'[r], pc'[r] \in {"receiving", "placing", "swapping"},
                    NEW s \in Slots \cap AtOrBelow(slot'[r]), index'[s] # NoTree,
                    NEW p \in AtOrBelow(s)
             PROVE  disk'[p] \notin Edits
    BY DEF EntriesGuarded, AtOrBelow, Below
<1>a. disk \in [Paths -> Values] /\ Slots \subseteq Paths /\ Absent \notin Edits /\ Made \notin Edits
    BY LayoutAssumption, StampAssumption DEF TInv, TypeOK, Values, Stamps
<1>b. p \in Paths
    BY <1>a, PathsBelow
<1>1. CASE pc'[r] = pc[r]
    <2>1. r \in Serving /\ r \in Serving' /\ pc[r] \in Unguarded
        BY <1>1 DEF Serving, InFlight, Unguarded
    <2>2. /\ slot'[r] = slot[r] /\ force'[r] = force[r]
          /\ \A x \in AtOrBelow(slot[r]) :
                \/ disk'[x] = disk[x]
                \/ GC /\ disk'[x] = Absent
                \/ Exists(x) /\ disk'[x] \in Edits /\ (EditsRace \/ pc[r] \notin Unguarded)
        BY <1>1, <2>1, OthersKeepApart, Zenon
    <2>3. slot[r] \in Paths
        BY <1>a, <2>1 DEF TInv, TypeOK, Serving, InFlight
    <2>4. p \in AtOrBelow(slot[r])
        BY <2>2, <2>3, TreesNest
    <2>5. disk'[p] \in {disk[p], Absent}
        BY <2>1, <2>2, <2>4
    <2>6. index[s] # NoTree
        BY <1>1, <2>1, <2>2, NobodyEnters
    <2> QED BY <1>a, <1>1, <2>2, <2>5, <2>6 DEF EntriesGuarded
<1>2. ASSUME NEW t \in Slots, NEW forced \in BOOLEAN, Guard(r, t, forced) PROVE disk'[p] \notin Edits
    <2>1. slot'[r] = t /\ force'[r] = forced /\ disk' = disk /\ index' = index
        BY <1>2 DEF Guard, TInv, TypeOK, stored
    <2>2. ~Refused(t, forced)
        BY <1>2 DEF Guard, Goto, TInv, TypeOK
    <2>3. s \in Entries /\ ~LocallyModified(s, index[s])
        BY <2>1, <2>2 DEF Refused, Entries
    <2> QED BY <2>1, <2>3, UnmodifiedIsUnedited
<1>3. ASSUME MkdirAll(r) \/ MoveAside(r) PROVE disk'[p] \notin Edits
    <2>1. disk'[p] \in Edits => disk[p] \in Edits
        BY <1>3, <1>a, <1>b DEF MkdirAll, MoveAside, DiskWithout
    <2>2. /\ slot' = slot /\ force' = force /\ index' = index
          /\ pc[r] \in {"receiving", "placing"}
        BY <1>3 DEF MkdirAll, MoveAside, stored
    <2> QED BY <2>1, <2>2 DEF EntriesGuarded
<1>4. ASSUME ReceiveFails(r) \/ Swap(r) \/ Rollback(r) \/ Stamp(r) \/ Purge(r) \/ Record(r) \/ Open(r)
      PROVE  FALSE
    BY <1>4 DEF ReceiveFails, Swap, Rollback, Stamp, Purge, Record, Open, Goto, TInv, TypeOK
<1>5. CASE Crash
    BY <1>1, <1>5 DEF Crash
<1> QED BY <1>1, <1>2, <1>3, <1>4, <1>5, MovesByItself DEF Handle

\* The steps that touch the mirror.
LEMMA DiskMoves ==
    ASSUME [Next]_vars, disk' # disk
    PROVE  \/ \E r \in Requests : MkdirAll(r) \/ MoveAside(r) \/ Swap(r) \/ Rollback(r)
           \/ GCRemove
           \/ \E d \in Dirs : GCPrune(d)
           \/ User
<1>1. ASSUME NEW r \in Requests, NEW s \in Slots, NEW forced \in BOOLEAN, Guard(r, s, forced)
      PROVE  FALSE
    BY <1>1 DEF Guard
<1>2. ASSUME NEW r \in Requests,
             ReceiveFails(r) \/ Stamp(r) \/ Purge(r) \/ Record(r) \/ Open(r)
      PROVE  FALSE
    BY <1>2 DEF ReceiveFails, Stamp, Purge, Record, Open
<1>3. ASSUME NEW s \in Slots, GCSkip(s) \/ GCGone(s) \/ GCPick(s) PROVE FALSE
    BY <1>3 DEF GCSkip, GCGone, GCPick
<1>4. ASSUME GCStart \/ GCForget \/ GCEnd \/ Crash \/ UNCHANGED vars PROVE FALSE
    BY <1>4 DEF GCStart, GCForget, GCEnd, Crash, vars
<1> QED BY <1>1, <1>2, <1>3, <1>4 DEF Next, Handle, GC

LEMMA GuardedInvariance ==
    ASSUME ~EditsRace
    PROVE  Spec /\ [](Calm /\ RequestsApart) =>
             [](TInv /\ Rooted /\ CleanInv /\ DirsUnedited /\ EntriesGuarded)
BY Cleanliness, UneditedInit, UneditedStep, GuardedInit, GuardedStep, PTL DEF Spec

(***************************************************************************)
(* While a slot has an entry, what the user edited in it stays until he, a *)
(* forced request or a request for a path inside the slot replaces it,     *)
(* through every failed rename, failed save, crash and pass of GC.         *)
(* (Assuming no edit falls between check and act, and requests for         *)
(* overlapping paths take turns; so must GC if renames may fail and slots  *)
(* are nested.)                                                            *)
(***************************************************************************)
THEOREM EntriesProtectEdits ==
    ASSUME ~EditsRace
    PROVE  Spec /\ [](Calm /\ RequestsApart) => EntryGuardsEdits
<1>1. TInv /\ CleanInv /\ DirsUnedited /\ EntriesGuarded /\ [Next]_vars =>
        [\A s \in Entries : \A p \in AtOrBelow(s) :
            disk[p] \in Edits /\ disk'[p] # disk[p] => ByUser \/ ByForce \/ ByInner(s)]_vars
    <2> SUFFICES ASSUME TInv, CleanInv, DirsUnedited, EntriesGuarded, [Next]_vars,
                        NEW s \in Entries, NEW p \in AtOrBelow(s),
                        disk[p] \in Edits, disk'[p] # disk[p]
                 PROVE  ByUser \/ ByForce \/ ByInner(s)
        OBVIOUS
    <2>a. /\ disk \in [Paths -> Values] /\ s \in Slots /\ Slots \subseteq Paths /\ p \in Paths
          /\ Absent \notin Edits
        BY LayoutAssumption, StampAssumption, PathsBelow
        DEF TInv, TypeOK, Values, Entries, Stamps
    <2>1. ASSUME NEW r \in Requests, MkdirAll(r) PROVE FALSE
        BY <2>a, <2>1 DEF MkdirAll, Exists
    <2>2. ASSUME NEW r \in Requests, MoveAside(r) \/ Swap(r) \/ Rollback(r)
          PROVE  ByForce \/ ByInner(s)
        <3>1. slot[r] \in Slots /\ pc[r] \in {"placing", "swapping"} /\ pc'[r] # pc[r]
            BY <2>2 DEF MoveAside, Swap, Rollback, Goto, TInv, TypeOK
        <3>2. PICK t \in Trees(slot[r]) :
                disk' = disk \/ disk' = DiskWithout(slot[r]) \/ disk' = DiskWith(t)
            <4>1. Payloads(r, slot[r]) \subseteq Trees(slot[r])
                BY <2>a, <3>1, PayloadsAreTrees
            <4>2. Tree(slot[r]) \in Trees(slot[r])
                BY <2>a, <3>1, TreeOnDisk
            <4> QED BY <2>2, <4>1, <4>2 DEF MoveAside, Swap, Rollback, TInv, TypeOK
        <3>3. p \in AtOrBelow(slot[r])
            BY <2>a, <3>2 DEF DiskWithout, DiskWith, Trees
        <3>4. s \in AtOrBelow(slot[r]) \/ slot[r] \in Below(s)
            <4>1. s = slot[r] \/ <<s, slot[r]>> \in Within \/ <<slot[r], s>> \in Within
                BY <3>1, <3>3, <2>a, OverlapIsNesting DEF Overlap
            <4> QED BY <2>a, <3>1, <4>1 DEF AtOrBelow, Below
        <3>5. CASE force[r]
            BY <3>1, <3>5 DEF ByForce
        <3>6. CASE slot[r] \in Below(s)
            BY <3>1, <3>6 DEF ByInner
        <3>7. CASE ~force[r] /\ s \in AtOrBelow(slot[r])
            BY <2>a, <3>1, <3>7 DEF EntriesGuarded, Entries
        <3> QED BY <3>4, <3>5, <3>6, <3>7
    <2>3. ASSUME GCRemove PROVE FALSE
        BY <2>a, <2>3 DEF GCRemove, DiskWithout, CleanInv, GoingClean
    <2>4. ASSUME NEW d \in Dirs, GCPrune(d) PROVE FALSE
        BY <2>a, <2>4 DEF GCPrune, DirsUnedited
    <2>5. ASSUME User PROVE ByUser
        BY <2>5 DEF User, UserEdits, UserDeletes, ByUser, stored
    <2> QED BY <2>1, <2>2, <2>3, <2>4, <2>5, DiskMoves
<1> QED BY <1>1, GuardedInvariance, PTL DEF Spec, EntryGuardsEdits

-----------------------------------------------------------------------------
(***************************************************************************)
(* Flat slots, as long as the daemon is not killed: every copy has its     *)
(* entry.                                                                  *)
(***************************************************************************)
Uncrashed == crashes = 0

LEMMA FlatTreesApart ==
    ASSUME Flat, NEW s \in Slots, NEW t \in Slots, NEW p \in AtOrBelow(s), p \in AtOrBelow(t)
    PROVE  s = t
BY OverlapIsNesting DEF Flat, Overlap

\* Only GC drops an entry, having found its copy gone or removed it.
LEMMA OnlyGCForgets ==
    ASSUME Flat, TInv, [Next]_vars, Uncrashed, Uncrashed', NEW s \in Slots,
           index[s] # NoTree, index'[s] = NoTree
    PROVE  GCForget /\ gc.step = "forgetting" /\ gc.at = s
<1>1. ASSUME NEW r \in Requests, Purge(r) PROVE FALSE
    <2>1. slot[r] \in Slots
        BY <1>1 DEF Purge, TInv, TypeOK
    <2>2. s \in Superseded(slot[r])
        BY <1>1 DEF Purge
    <2> QED BY <2>1, <2>2, LayoutAssumption DEF Superseded, Below, Tops, Flat
<1>2. ASSUME NEW r \in Requests, Record(r) PROVE FALSE
    BY <1>2 DEF Record, TInv, TypeOK, Shapes
<1>3. ASSUME Crash PROVE FALSE
    BY <1>3 DEF Crash, Uncrashed
<1>4. GCForget
    BY <1>1, <1>2, <1>3, IndexMoves
<1> QED BY <1>4 DEF GCForget, TInv, Shapes

\* When GC is about to drop an entry, nothing of its copy is on disk.
ForgetsNothing == gc.step = "forgetting" => \A p \in AtOrBelow(gc.at) : disk[p] = Absent

LEMMA ForgetsInit == Init => ForgetsNothing
BY DEF Init, ForgetsNothing

LEMMA ForgetsStep == TInv /\ Rooted /\ GCAlone /\ ForgetsNothing /\ [Next]_vars => ForgetsNothing'
<1> SUFFICES ASSUME TInv, Rooted, GCAlone, ForgetsNothing, [Next]_vars, gc'.step = "forgetting",
                    NEW p \in AtOrBelow(gc'.at)
             PROVE  disk'[p] = Absent
    BY DEF ForgetsNothing, AtOrBelow, Below
<1>a. disk \in [Paths -> Values] /\ Slots \subseteq Paths
    BY LayoutAssumption DEF TInv, TypeOK, Values
<1>1. CASE gc' = gc
    <2>1. gc.at \in Paths /\ p \in Paths /\ disk[p] = Absent
        BY <1>1, <1>a, StampAssumption, PathsBelow DEF ForgetsNothing, TInv, TypeOK
    <2>2. ASSUME NEW r \in Requests, MkdirAll(r) \/ MoveAside(r) \/ Swap(r) \/ Rollback(r)
          PROVE  FALSE
        BY <1>1, <2>2 DEF MkdirAll, MoveAside, Swap, Rollback, GCAlone, Serving, InFlight
    <2>3. ASSUME GCRemove PROVE FALSE
        BY <1>1, <2>3 DEF GCRemove
    <2>4. ASSUME NEW d \in Dirs, GCPrune(d) PROVE FALSE
        BY <1>1, <2>4 DEF GCPrune
    <2>5. ASSUME NEW q \in Files, NEW e \in Edits, UserEdits(q, e) PROVE disk'[p] = Absent
        BY <1>a, <2>1, <2>5 DEF UserEdits, Exists
    <2>6. ASSUME NEW s \in Slots, UserDeletes(s) PROVE disk'[p] = Absent
        BY <2>1, <2>6 DEF UserDeletes, DiskWithout
    <2> QED BY <2>1, <2>2, <2>3, <2>4, <2>5, <2>6, DiskMoves DEF User
<1>2. CASE gc' # gc
    <2>1. ASSUME NEW s \in Slots, GCGone(s) PROVE disk'[p] = Absent
        <3>1. disk' = disk /\ gc'.at = s /\ ~Exists(s)
            BY <2>1 DEF GCGone, TInv, Shapes
        <3> QED BY <1>a, <3>1, LayoutAssumption
                DEF Rooted, RootsExist, Exists, AtOrBelow, Below, Tops, Paths
    <2>2. ASSUME GCRemove PROVE disk'[p] = Absent
        <3>1. gc'.at = gc.at /\ gc.at \in Paths
            BY <2>2, <1>a, StampAssumption DEF GCRemove, TInv, TypeOK, Shapes
        <3> QED BY <2>2, <3>1, PathsBelow DEF GCRemove, DiskWithout
    <2>3. ASSUME NEW s \in Slots, GCSkip(s) \/ GCPick(s) PROVE FALSE
        BY <2>3 DEF GCSkip, GCPick, TInv, Shapes
    <2>4. ASSUME NEW d \in Dirs, GCPrune(d) PROVE FALSE
        BY <1>2, <2>4 DEF GCPrune
    <2>5. ASSUME GCStart \/ GCForget \/ GCEnd \/ Crash PROVE FALSE
        BY <2>5 DEF GCStart, GCForget, GCEnd, Crash, TInv, Shapes
    <2> QED BY <1>2, <2>1, <2>2, <2>3, <2>4, <2>5, GCMoves DEF GC
<1> QED BY <1>1, <1>2

\* Every file on disk is in the tree of an entry, or of a request that has
\* installed it and not recorded it yet; so is every file set aside.
Covered(p) ==
    \/ \E s \in Slots : index[s] # NoTree /\ p \in AtOrBelow(s)
    \/ \E r \in Requests :
         pc[r] \in {"stamping", "purging", "recording"} /\ p \in AtOrBelow(slot[r])
AsideCovered ==
    \A r \in Requests : pc[r] = "swapping" /\ aside[r] # NoTree =>
        \A p \in Files \cap AtOrBelow(slot[r]) : aside[r][p] # Absent => index[slot[r]] # NoTree

Tracked == (\A p \in Files : Exists(p) => Covered(p)) /\ AsideCovered

LEMMA TrackedInit == Init => Tracked
BY DEF Init, Tracked, AsideCovered, Exists, Paths

\* What is covered stays covered as long as it is on disk.
LEMMA CoverLasts ==
    ASSUME Flat, TInv, ForgetsNothing, [Next]_vars, Uncrashed, Uncrashed',
           NEW p \in Files, Exists(p), Covered(p)
    PROVE  Covered(p)'
<1>1. ASSUME NEW s \in Slots, index[s] # NoTree, p \in AtOrBelow(s) PROVE index'[s] # NoTree
    BY <1>1, OnlyGCForgets DEF ForgetsNothing, Exists
<1>2. ASSUME NEW r \in Requests, pc[r] \in {"stamping", "purging", "recording"},
             p \in AtOrBelow(slot[r])
      PROVE  Covered(p)'
    <2>1. CASE pc'[r] = pc[r]
        <3>1. r \in Serving'
            BY <1>2, <2>1 DEF Serving, InFlight
        <3>2. slot'[r] = slot[r]
            BY <1>2, <3>1, ServedSinceGuard DEF Guard
        <3> QED BY <1>2, <2>1, <3>2 DEF Covered, AtOrBelow, Below
    <2>2. ASSUME Stamp(r) \/ Purge(r) PROVE Covered(p)'
        <3>1. slot' = slot /\ pc'[r] \in {"purging", "recording"}
            BY <2>2 DEF Stamp, Purge, Goto, TInv, TypeOK
        <3> QED BY <1>2, <3>1 DEF Covered, AtOrBelow, Below
    <2>3. ASSUME Record(r) PROVE Covered(p)'
        <3>1. slot[r] \in Slots /\ index'[slot[r]] # NoTree
            BY <2>3 DEF Record, TInv, TypeOK, Shapes
        <3> QED BY <1>2, <3>1 DEF Covered, AtOrBelow, Below
    <2>4. ASSUME NEW s \in Slots, NEW forced \in BOOLEAN, Guard(r, s, forced) PROVE FALSE
        BY <1>2, <2>4 DEF Guard
    <2>5. ASSUME ReceiveFails(r) \/ MkdirAll(r) \/ MoveAside(r) \/ Swap(r) \/ Rollback(r) \/ Open(r)
          PROVE  FALSE
        BY <1>2, <2>5 DEF ReceiveFails, MkdirAll, MoveAside, Swap, Rollback, Open
    <2>6. ASSUME Crash PROVE FALSE
        BY <2>6 DEF Crash, Uncrashed
    <2> QED BY <2>1, <2>2, <2>3, <2>4, <2>5, <2>6, MovesByItself DEF Handle
<1> QED BY <1>1, <1>2 DEF Covered, AtOrBelow, Below

LEMMA TrackedStep ==
    ASSUME Flat
    PROVE  TInv /\ Orderly /\ InPlace /\ ForgetsNothing /\ Tracked /\ Uncrashed /\ Uncrashed'
             /\ [Next]_vars => Tracked'
<1> SUFFICES ASSUME TInv, Orderly, InPlace, ForgetsNothing, Tracked, Uncrashed, Uncrashed',
                    [Next]_vars
             PROVE  Tracked'
    OBVIOUS
<1>a. disk \in [Paths -> Values] /\ Slots \subseteq Paths /\ Files \subseteq Paths
    BY LayoutAssumption DEF TInv, TypeOK, Values, Paths
<1>1. ASSUME NEW p \in Files, disk'[p] # Absent PROVE Covered(p)'
    <2>1. CASE Exists(p)
        BY <2>1, CoverLasts DEF Tracked
    <2>2. CASE ~Exists(p)
        <3>1. ASSUME NEW r \in Requests, MkdirAll(r) PROVE FALSE
            BY <1>1, <1>a, <2>2, <3>1, LayoutAssumption DEF MkdirAll, Tops, Exists
        <3>2. ASSUME NEW r \in Requests, MoveAside(r) PROVE FALSE
            BY <1>1, <1>a, <2>2, <3>2 DEF MoveAside, DiskWithout, Exists
        <3>3. ASSUME NEW r \in Requests, Swap(r) PROVE Covered(p)'
            <4>1. slot' = slot /\ pc'[r] = "stamping"
                BY <3>3 DEF Swap, Goto, TInv, TypeOK
            <4>2. p \in AtOrBelow(slot[r])
                BY <1>1, <1>a, <2>2, <3>3 DEF Swap, DiskWith, Payloads, Exists
            <4> QED BY <4>1, <4>2 DEF Covered, AtOrBelow, Below
        <3>4. ASSUME NEW r \in Requests, Rollback(r) PROVE Covered(p)'
            <4>1. /\ pc[r] = "swapping" /\ aside[r] # NoTree /\ slot[r] \in Slots
                  /\ disk' = DiskWith(aside[r]) /\ DOMAIN aside[r] = AtOrBelow(slot[r])
                  /\ index' = index
                BY <1>1, <2>2, <3>4 DEF Rollback, TInv, TypeOK, Trees, Exists, stored
            <4>2. p \in AtOrBelow(slot[r]) /\ aside[r][p] # Absent
                BY <1>1, <1>a, <2>2, <4>1 DEF DiskWith, Exists
            <4>3. index[slot[r]] # NoTree
                BY <4>1, <4>2 DEF Tracked, AsideCovered
            <4> QED BY <4>1, <4>2, <4>3 DEF Covered, AtOrBelow, Below
        <3>5. ASSUME GCRemove \/ \E d \in Dirs : GCPrune(d) PROVE FALSE
            BY <1>1, <1>a, <2>2, <3>5 DEF GCRemove, GCPrune, DiskWithout, Exists
        <3>6. ASSUME User PROVE FALSE
            BY <1>1, <1>a, <2>2, <3>6 DEF User, UserEdits, UserDeletes, DiskWithout, Exists
        <3> QED BY <1>1, <2>2, <3>1, <3>2, <3>3, <3>4, <3>5, <3>6, DiskMoves DEF Exists
    <2> QED BY <2>1, <2>2
<1>2. ASSUME NEW r \in Requests, pc'[r] = "swapping", aside'[r] # NoTree,
             NEW p \in Files \cap AtOrBelow(slot'[r]), aside'[r][p] # Absent
      PROVE  index'[slot'[r]] # NoTree
    <2>1. CASE pc[r] = "swapping"
        <3>1. r \in Serving /\ r \in Serving' /\ pc'[r] = pc[r] /\ slot[r] \in Slots
            BY <1>2, <2>1 DEF Serving, InFlight, TInv, TypeOK
        <3>2. slot'[r] = slot[r] /\ aside'[r] = aside[r]
            BY <3>1, OthersKeepOff, Zenon
        <3>3. index[slot[r]] # NoTree
            BY <1>2, <2>1, <3>2 DEF Tracked, AsideCovered
        <3>4. gc.step = "idle"
            BY <3>1 DEF Orderly, GCAlone
        <3> QED BY <3>1, <3>2, <3>3, <3>4, OnlyGCForgets
    <2>2. CASE pc[r] # "swapping"
        <3>1. MoveAside(r)
            BY <1>2, <2>2, MovesByItself DEF Handle, Guard, ReceiveFails, MkdirAll, Swap, Rollback,
               Stamp, Purge, Record, Open, Crash, Serving, InFlight, Goto, TInv, TypeOK
        <3>2. /\ slot[r] \in Slots /\ slot' = slot /\ index' = index /\ pc[r] = "placing"
              /\ aside[r] = NoTree
            BY <3>1 DEF MoveAside, TInv, TypeOK, stored, InPlace, AsideInUse
        <3>3. disk[p] # Absent
            BY <1>2, <3>1, <3>2 DEF MoveAside, Tree, TInv, Shapes
        <3>4. ASSUME NEW q \in Requests, pc[q] \in {"stamping", "purging", "recording"},
                     p \in AtOrBelow(slot[q])
              PROVE  FALSE
            BY <1>2, <3>2, <3>4 DEF Orderly, RequestsApart, Overlap, Serving, InFlight
        <3>5. Covered(p)
            BY <1>2, <3>3 DEF Tracked, Exists
        <3>6. PICK s \in Slots : index[s] # NoTree /\ p \in AtOrBelow(s)
            BY <3>4, <3>5 DEF Covered
        <3> QED BY <1>2, <3>2, <3>6, FlatTreesApart
    <2> QED BY <2>1, <2>2
<1> QED BY <1>1, <1>2 DEF Tracked, AsideCovered, Exists

LEMMA Tracking ==
    ASSUME Flat
    PROVE  Spec /\ [](Orderly /\ Uncrashed) =>
             [](TInv /\ Rooted /\ InPlace /\ ForgetsNothing /\ Tracked)
BY Placement, ForgetsInit, ForgetsStep, TrackedInit, TrackedStep, PTL DEF Spec, Orderly

(***************************************************************************)
(* When nothing is going on every file in the mirror is covered by an      *)
(* entry, so that retention can evict it and the guard protect it.  (For   *)
(* slots none of which is inside another, GC not overlapping requests,     *)
(* and as long as the daemon is not killed; renames and saves may fail.)   *)
(***************************************************************************)
THEOREM CopiesAreTracked ==
    ASSUME Flat
    PROVE  Spec /\ [](Orderly /\ Uncrashed) => []EveryCopyTracked
<1>1. Tracked => EveryCopyTracked
    BY DEF Tracked, Covered, EveryCopyTracked, Quiescent, Entries, Serving, InFlight
<1> QED BY <1>1, Tracking, PTL

-----------------------------------------------------------------------------
(***************************************************************************)
(* Flat slots, no crash and no edit between check and act: only a forced   *)
(* request replaces an edit.                                               *)
(***************************************************************************)
NoneLost == \A r \in Requests : pc[r] # "lost"

\* Neither in the slot of an unforced request nor in the copy it set aside is an edit.
UnforcedClean ==
    \A r \in Requests : ~force[r] /\ pc[r] \in Unguarded =>
        \A p \in AtOrBelow(slot[r]) :
            disk[p] \notin Edits /\ (aside[r] # NoTree => aside[r][p] \notin Edits)

LEMMA UnforcedInit == Init => NoneLost /\ UnforcedClean
BY DEF Init, NoneLost, UnforcedClean, Unguarded

LEMMA NoneLostStep == TInv /\ NoneLost /\ Uncrashed /\ Uncrashed' /\ [Next]_vars => NoneLost'
<1> SUFFICES ASSUME TInv, NoneLost, Uncrashed, Uncrashed', [Next]_vars, NEW r \in Requests,
                    pc'[r] = "lost"
             PROVE  FALSE
    BY DEF NoneLost
<1>1. ~Crash
    BY DEF Crash, Uncrashed
<1>2. Handle(r)
    BY <1>1, MovesByItself DEF NoneLost
<1> QED BY <1>2 DEF Handle, Guard, ReceiveFails, MkdirAll, MoveAside, Swap, Rollback, Stamp, Purge,
                    Record, Open, Goto, TInv, TypeOK

\* A request that the guard lets pass without force has no edit before it.
LEMMA GuardPasses ==
    ASSUME Flat, TInv, Rooted, CleanInv, DirsUnedited, Tracked, NEW s \in Slots,
           \A q \in Serving : slot[q] # s, ~Refused(s, FALSE), NEW p \in AtOrBelow(s)
    PROVE  disk[p] \notin Edits
<1> SUFFICES ASSUME disk[p] \in Edits PROVE FALSE
    OBVIOUS
<1>1. p \in Paths /\ Absent \notin Edits /\ Slots \subseteq Paths
    BY LayoutAssumption, StampAssumption, PathsBelow DEF Stamps
<1>2. p \in Files /\ Exists(p)
    BY <1>1 DEF DirsUnedited, Exists, Paths
<1>3. ASSUME NEW r \in Requests, pc[r] \in {"stamping", "purging", "recording"},
             p \in AtOrBelow(slot[r])
      PROVE  FALSE
    <2>1. r \in Serving /\ slot[r] \in Slots
        BY <1>3 DEF Serving, InFlight, TInv, TypeOK
    <2> QED BY <1>3, <2>1, FlatTreesApart
<1>4. PICK t \in Slots : index[t] # NoTree /\ p \in AtOrBelow(t)
    BY <1>2, <1>3 DEF Tracked, Covered
<1>5. t = s
    BY <1>4, FlatTreesApart
<1>6. s \in Entries /\ ~LocallyModified(s, index[s])
    BY <1>4, <1>5 DEF Refused, Entries, AtOrBelow
<1> QED BY <1>6, UnmodifiedIsUnedited

LEMMA UnforcedStep ==
    ASSUME Flat, ~EditsRace
    PROVE  TInv /\ Rooted /\ CleanInv /\ DirsUnedited /\ Orderly /\ InPlace /\ Tracked
             /\ UnforcedClean /\ [Next]_vars => UnforcedClean'
<1> SUFFICES ASSUME TInv, Rooted, CleanInv, DirsUnedited, Orderly, InPlace, Tracked,
                    UnforcedClean, [Next]_vars, NEW r \in Requests, ~force'[r],
                    pc'[r] \in Unguarded, NEW p \in AtOrBelow(slot'[r])
             PROVE  disk'[p] \notin Edits /\ (aside'[r] # NoTree => aside'[r][p] \notin Edits)
    BY DEF UnforcedClean, AtOrBelow, Below
<1> DEFINE Goal == disk'[p] \notin Edits /\ (aside'[r] # NoTree => aside'[r][p] \notin Edits)
<1>a. /\ disk \in [Paths -> Values] /\ Slots \subseteq Paths /\ Absent \notin Edits
      /\ Made \notin Edits /\ r \notin Edits
    BY LayoutAssumption, StampAssumption DEF TInv, TypeOK, Values, Stamps
<1>1. CASE pc'[r] = pc[r]
    <2>1. r \in Serving /\ r \in Serving'
        BY <1>1 DEF Serving, InFlight, Unguarded
    <2>2. /\ slot'[r] = slot[r] /\ force'[r] = force[r] /\ aside'[r] = aside[r]
          /\ \A x \in AtOrBelow(slot[r]) :
                \/ disk'[x] = disk[x]
                \/ Exists(x) /\ disk'[x] \in Edits /\ (EditsRace \/ pc[r] \notin Unguarded)
        BY <1>1, <2>1, OthersKeepOff, Zenon
    <2> QED BY <1>1, <2>2 DEF UnforcedClean
<1>2. ASSUME NEW s \in Slots, NEW forced \in BOOLEAN, Guard(r, s, forced) PROVE Goal
    <2>1. slot'[r] = s /\ force'[r] = forced /\ disk' = disk /\ aside' = aside /\ aside[r] = NoTree
        BY <1>2 DEF Guard, TInv, TypeOK
    <2>2. ~Refused(s, FALSE) /\ \A q \in Serving : slot[q] # s
        BY <1>2, <2>1 DEF Guard, Goto, TInv, TypeOK, Unguarded
    <2> QED BY <2>1, <2>2, GuardPasses
<1>3. CASE MkdirAll(r)
    <2>1. /\ pc[r] \in Unguarded /\ slot' = slot /\ force' = force /\ aside' = aside
          /\ slot[r] \in Paths
        BY <1>3, <1>a DEF MkdirAll, Unguarded, TInv, TypeOK
    <2>2. disk'[p] \in Edits => disk[p] \in Edits
        BY <1>3, <1>a, <2>1, PathsBelow DEF MkdirAll
    <2> QED BY <2>1, <2>2 DEF UnforcedClean
<1>4. CASE MoveAside(r)
    <2>1. /\ pc[r] \in Unguarded /\ slot' = slot /\ force' = force /\ slot[r] \in Paths
          /\ aside'[r] # NoTree => aside'[r] = Tree(slot[r])
        BY <1>4, <1>a DEF MoveAside, Unguarded, TInv, TypeOK, Shapes, InPlace, AsideInUse
    <2>2. disk[p] \notin Edits /\ p \in Paths
        BY <1>a, <2>1, PathsBelow DEF UnforcedClean
    <2>3. disk'[p] \notin Edits
        BY <1>4, <1>a, <2>2 DEF MoveAside, DiskWithout
    <2>4. Tree(slot[r])[p] = disk[p]
        BY <2>1 DEF Tree
    <2> QED BY <2>1, <2>2, <2>3, <2>4
<1>5. CASE Swap(r)
    <2>1. /\ pc[r] \in Unguarded /\ slot' = slot /\ force' = force /\ aside' = aside
          /\ slot[r] \in Paths
        BY <1>5, <1>a DEF Swap, Unguarded, TInv, TypeOK
    <2>2. disk'[p] \in {r, Absent}
        BY <1>5, <2>1, PathsBelow DEF Swap, DiskWith, Payloads
    <2> QED BY <1>a, <2>1, <2>2 DEF UnforcedClean
<1>6. CASE ReceiveFails(r) \/ Rollback(r) \/ Stamp(r) \/ Purge(r) \/ Record(r) \/ Open(r)
    BY <1>6 DEF ReceiveFails, Rollback, Stamp, Purge, Record, Open, Goto, TInv, TypeOK, Unguarded
<1>7. CASE Crash
    BY <1>1, <1>7 DEF Crash, Unguarded
<1> QED BY <1>1, <1>2, <1>3, <1>4, <1>5, <1>6, <1>7, MovesByItself DEF Handle

FlatInv ==
    /\ TInv /\ Rooted /\ CleanInv /\ DirsUnedited /\ InPlace
    /\ ForgetsNothing /\ Tracked /\ NoneLost /\ UnforcedClean

LEMMA FlatInvariance ==
    ASSUME Flat, ~EditsRace
    PROVE  Spec /\ [](Orderly /\ Uncrashed) => []FlatInv
<1>1. Orderly => Calm /\ RequestsApart
    BY DEF Orderly, Calm
<1>2. Spec /\ [](Orderly /\ Uncrashed) => [](TInv /\ Rooted /\ CleanInv /\ DirsUnedited)
    BY <1>1, GuardedInvariance, PTL
<1>3. Spec /\ [](Orderly /\ Uncrashed) => []InPlace
    BY Placement, PTL
<1> QED BY <1>2, <1>3, Tracking, UnforcedInit, NoneLostStep, UnforcedStep, PTL
        DEF Spec, FlatInv

\* Where nothing stands, nothing lies below.
LEMMA NothingBelowNothing ==
    ASSUME Rooted, NEW s \in Paths, ~Exists(s), NEW p \in AtOrBelow(s)
    PROVE  disk[p] = Absent
BY LayoutAssumption DEF Rooted, RootsExist, Exists, AtOrBelow, Below, Tops, Paths

(***************************************************************************)
(* "The overwrite is refused unless the request sets force": what the user *)
(* edited leaves the mirror only by a step of his own or of a forced       *)
(* request.  (For slots none of which is inside another, with GC not       *)
(* overlapping requests, no edit between check and act, and no crash;      *)
(* renames and saves may fail.)                                            *)
(***************************************************************************)
THEOREM OnlyForceDropsEdits ==
    ASSUME Flat, ~EditsRace
    PROVE  Spec /\ [](Orderly /\ Uncrashed) => EditsNeedForce
<1>1. FlatInv /\ Orderly /\ Uncrashed /\ Uncrashed' /\ [Next]_vars =>
        [\A e \in Edits : Kept(e) /\ ~Kept(e)' => ByUser \/ ByForce]_vars
    <2> SUFFICES ASSUME FlatInv, Orderly, Uncrashed, Uncrashed', [Next]_vars, NEW e \in Edits,
                        Kept(e), ~Kept(e)', ~ByUser, ~ByForce
                 PROVE  FALSE
        OBVIOUS
    <2>a. /\ disk \in [Paths -> Values] /\ Slots \subseteq Paths /\ Absent \notin Edits
          /\ TInv /\ Rooted /\ CleanInv /\ DirsUnedited /\ InPlace /\ NoneLost /\ UnforcedClean
        BY LayoutAssumption, StampAssumption DEF TInv, TypeOK, Values, Stamps, FlatInv
    <2>b. /\ \A p \in Paths : disk'[p] # e
          /\ \A r \in Requests : aside'[r] # NoTree => \A p \in DOMAIN aside'[r] : aside'[r][p] # e
        BY DEF Kept
    <2>1. ASSUME NEW p \in Paths, disk[p] = e PROVE FALSE
        <3>a. disk'[p] # disk[p]
            BY <2>1, <2>b
        <3>1. ASSUME NEW r \in Requests, MkdirAll(r) PROVE FALSE
            BY <2>1, <2>a, <2>b, <3>1 DEF MkdirAll, Exists
        <3>2. ASSUME NEW r \in Requests, MoveAside(r) PROVE FALSE
            <4>1. /\ disk' = DiskWithout(slot[r]) /\ slot[r] \in Slots
                  /\ aside'[r] = Tree(slot[r])
                BY <3>a, <3>2, <2>a DEF MoveAside, TInv, TypeOK, Shapes
            <4>2. p \in AtOrBelow(slot[r])
                BY <3>a, <2>a, <4>1 DEF DiskWithout
            <4>3. Tree(slot[r])[p] = e /\ p \in DOMAIN Tree(slot[r])
                BY <2>1, <4>2 DEF Tree
            <4>4. Tree(slot[r]) # NoTree
                BY <2>a, <4>1, TreeOnDisk, TreesAreTrees
            <4> QED BY <2>b, <4>1, <4>3, <4>4
        <3>3. ASSUME NEW r \in Requests, Swap(r) \/ Rollback(r) PROVE FALSE
            <4>1. slot[r] \in Paths /\ ~Exists(slot[r])
                BY <3>3, <2>a DEF Swap, Rollback, TInv, TypeOK, InPlace, SlotVacated
            <4>2. PICK t \in Trees(slot[r]) : disk' = DiskWith(t)
                <5>1. Payloads(r, slot[r]) \subseteq Trees(slot[r])
                    BY <4>1, PayloadsAreTrees
                <5> QED BY <3>3, <3>a, <2>a, <5>1 DEF Swap, Rollback, TInv, TypeOK
            <4>3. p \in AtOrBelow(slot[r])
                BY <3>a, <4>2 DEF DiskWith, Trees
            <4> QED BY <2>1, <2>a, <4>1, <4>3, NothingBelowNothing
        <3>4. ASSUME GCRemove PROVE FALSE
            BY <2>1, <2>a, <3>a, <3>4 DEF GCRemove, DiskWithout, CleanInv, GoingClean
        <3>5. ASSUME NEW d \in Dirs, GCPrune(d) PROVE FALSE
            BY <2>1, <2>a, <3>a, <3>5 DEF GCPrune, DirsUnedited
        <3>6. ASSUME User PROVE FALSE
            BY <3>6 DEF User, UserEdits, UserDeletes, ByUser, stored
        <3> QED BY <3>a, <3>1, <3>2, <3>3, <3>4, <3>5, <3>6, DiskMoves
    <2>2. ASSUME NEW r \in Requests, aside[r] # NoTree, NEW p \in DOMAIN aside[r], aside[r][p] = e
          PROVE  FALSE
        <3>a. /\ aside'[r] # aside[r] /\ pc[r] \in {"swapping", "stamping"}
              /\ aside[r] \in Trees(slot[r]) /\ slot[r] \in Paths
            BY <2>2, <2>a, <2>b DEF InPlace, AsideInUse, NoneLost, TInv, TypeOK
        <3>b. p \in AtOrBelow(slot[r]) /\ p \in Paths
            BY <2>2, <3>a, PathsBelow DEF Trees
        <3>1. pc'[r] # pc[r]
            <4> SUFFICES ASSUME pc'[r] = pc[r] PROVE FALSE
                OBVIOUS
            <4>1. r \in Serving /\ r \in Serving'
                BY <3>a DEF Serving, InFlight
            <4>2. aside'[r] = aside[r]
                BY <2>a, <4>1, OthersKeepOff, Zenon
            <4> QED BY <3>a, <4>2
        <3>2. ~force[r]
            BY <3>1 DEF ByForce
        <3>3. CASE Rollback(r)
            <4>1. CanRename(slot[r])
                BY <2>a, <3>3 DEF Rollback, CanRename, InPlace, PlaceReady, SlotVacated
            <4>2. disk' = DiskWith(aside[r])
                BY <2>2, <3>3, <4>1 DEF Rollback
            <4>3. disk'[p] = e
                BY <2>2, <3>b, <4>2 DEF DiskWith
            <4> QED BY <2>b, <3>b, <4>3
        <3>4. CASE Stamp(r)
            BY <2>2, <2>a, <3>2, <3>4, <3>b DEF Stamp, UnforcedClean, Unguarded
        <3>5. CASE MoveAside(r)
            BY <3>a, <3>5 DEF MoveAside
        <3>6. ASSUME NEW s \in Slots, NEW forced \in BOOLEAN, Guard(r, s, forced) PROVE FALSE
            BY <3>a, <3>6 DEF Guard
        <3>7. CASE ReceiveFails(r) \/ MkdirAll(r) \/ Swap(r) \/ Purge(r) \/ Record(r) \/ Open(r)
            BY <3>a, <3>7 DEF ReceiveFails, MkdirAll, Swap, Purge, Record, Open
        <3>8. CASE Crash
            BY <3>8 DEF Crash, Uncrashed
        <3> QED BY <2>a, <3>1, <3>3, <3>4, <3>5, <3>6, <3>7, <3>8, MovesByItself DEF Handle
    <2> QED BY <2>1, <2>2 DEF Kept
<1> QED BY <1>1, FlatInvariance, PTL DEF Spec, EditsNeedForce

-----------------------------------------------------------------------------
(***************************************************************************)
(* Flat slots and no crash: a request is refused for an edit, and for      *)
(* nothing else.                                                           *)
(***************************************************************************)

\* No mirrored directory has an empty one in it, which pruneEmptyDirs would remove.
NoHollowDirs == \A s \in Slots : Below(s) \cap EmptyDirs = {}

Unsettled(s) ==
    \E r \in Requests : slot[r] = s /\ pc[r] \in {"stamping", "purging", "recording"}

\* A copy on disk, one set aside and one fingerprinted are as recorded but for edits.
Faithful ==
    \A s \in Slots : index[s] # NoTree /\ Exists(s) /\ ~Unsettled(s) =>
        \A p \in AtOrBelow(s) : disk[p] = index[s][p] \/ disk[p] \in Edits
AsideFaithful ==
    \A r \in Requests : pc[r] = "swapping" /\ aside[r] # NoTree /\ index[slot[r]] # NoTree =>
        \A p \in AtOrBelow(slot[r]) :
            aside[r][p] = index[slot[r]][p] \/ aside[r][p] \in Edits
PrintFaithful ==
    \A r \in Requests : pc[r] \in {"purging", "recording"} /\ Exists(slot[r]) =>
        \A p \in AtOrBelow(slot[r]) : disk[p] = print[r][p] \/ disk[p] \in Edits

AsRecorded == Faithful /\ AsideFaithful /\ PrintFaithful

LEMMA RecordedInit == Init => AsRecorded
BY DEF Init, AsRecorded, Faithful, AsideFaithful, PrintFaithful

\* A request that has installed a copy is over with it only once it is recorded.
LEMMA SettledByRecord ==
    ASSUME TInv, [Next]_vars, Uncrashed, Uncrashed', NEW s \in Slots, Unsettled(s),
           \A r \in Requests : Record(r) => slot[r] # s
    PROVE  Unsettled(s)'
<1>1. PICK r \in Requests : slot[r] = s /\ pc[r] \in {"stamping", "purging", "recording"}
    BY DEF Unsettled
<1>2. CASE pc'[r] = pc[r]
    <2>1. r \in Serving'
        BY <1>1, <1>2 DEF Serving, InFlight
    <2>2. slot'[r] = slot[r]
        BY <1>1, <2>1, ServedSinceGuard DEF Guard
    <2> QED BY <1>1, <1>2, <2>2 DEF Unsettled
<1>3. CASE Stamp(r) \/ Purge(r)
    <2>1. slot' = slot /\ pc'[r] \in {"purging", "recording"}
        BY <1>3 DEF Stamp, Purge, Goto, TInv, TypeOK
    <2> QED BY <1>1, <2>1 DEF Unsettled
<1>4. CASE Record(r)
    BY <1>1, <1>4
<1>5. ASSUME NEW t \in Slots, NEW forced \in BOOLEAN, Guard(r, t, forced) PROVE FALSE
    BY <1>1, <1>5 DEF Guard
<1>6. CASE ReceiveFails(r) \/ MkdirAll(r) \/ MoveAside(r) \/ Swap(r) \/ Rollback(r) \/ Open(r)
    BY <1>1, <1>6 DEF ReceiveFails, MkdirAll, MoveAside, Swap, Rollback, Open
<1>7. CASE Crash
    BY <1>7 DEF Crash, Uncrashed
<1> QED BY <1>2, <1>3, <1>4, <1>5, <1>6, <1>7, MovesByItself DEF Handle

\* A step in the tree of another slot leaves the tree of a flat slot alone.
LEMMA FlatStepsApart ==
    ASSUME Flat, disk \in [Paths -> Values], NEW s \in Slots, NEW t \in Slots, s # t,
           disk' = DiskWithout(t) \/ \E u \in Trees(t) : disk' = DiskWith(u)
    PROVE  \A p \in AtOrBelow(s) : disk'[p] = disk[p]
<1>1. ~Overlap(t, s) /\ s \in Paths /\ t \in Paths
    BY OverlapIsNesting, LayoutAssumption DEF Flat
<1> QED BY <1>1, TreesApart

\* The directories made above one flat slot are in the tree of none.
LEMMA MkdirAllOutside ==
    ASSUME Flat, TInv, NEW r \in Requests, MkdirAll(r), NEW s \in Slots
    PROVE  \A p \in AtOrBelow(s) : disk'[p] = disk[p]
<1>1. /\ disk \in [Paths -> Values] /\ slot[r] \in Slots /\ s \in Paths /\ slot[r] \in Paths
      /\ disk' = [p \in Paths |-> IF p \in Tops(slot[r]) /\ ~Exists(p) THEN Made ELSE disk[p]]
    BY LayoutAssumption DEF TInv, TypeOK, Values, MkdirAll
<1>2. ASSUME NEW p \in AtOrBelow(s), p \in Tops(slot[r]) PROVE FALSE
    <2>1. Overlap(s, slot[r])
        BY <1>1, <1>2, DirAboveOverlaps
    <2>2. s = slot[r]
        BY <1>1, <2>1, OverlapIsNesting DEF Flat
    <2> QED BY <1>1, <1>2, <2>2, TopsAreOutside
<1> QED BY <1>1, <1>2, PathsBelow

\* GC takes a flat slot's copy as a whole.
LEMMA GCTakesAll ==
    ASSUME Flat, TInv, NoHollowDirs, GC, NEW s \in Slots, disk'[s] # Absent
    PROVE  \A p \in AtOrBelow(s) : disk'[p] = disk[p]
<1>a. disk \in [Paths -> Values] /\ s \in Paths /\ s \in AtOrBelow(s)
    BY LayoutAssumption DEF TInv, TypeOK, Values, AtOrBelow
<1>1. CASE GCRemove
    <2>1. gc.at \in Slots /\ disk' = DiskWithout(gc.at)
        BY <1>1 DEF GCRemove, TInv, TypeOK
    <2>2. gc.at # s
        BY <1>a, <2>1 DEF DiskWithout
    <2> QED BY <1>a, <2>1, <2>2, FlatStepsApart
<1>2. ASSUME NEW d \in Dirs, GCPrune(d) PROVE \A p \in AtOrBelow(s) : disk'[p] = disk[p]
    <2>1. d \in EmptyDirs /\ disk' = [disk EXCEPT ![d] = Absent]
        BY <1>2 DEF GCPrune
    <2>2. d # s /\ d \notin Below(s)
        BY <1>a, <2>1 DEF NoHollowDirs
    <2> QED BY <1>a, <2>1, <2>2, PathsBelow DEF AtOrBelow
<1>3. ASSUME NEW t \in Slots, GCSkip(t) \/ GCGone(t) \/ GCPick(t) PROVE disk' = disk
    BY <1>3 DEF GCSkip, GCGone, GCPick
<1>4. ASSUME GCStart \/ GCForget \/ GCEnd PROVE disk' = disk
    BY <1>4 DEF GCStart, GCForget, GCEnd
<1> QED BY <1>1, <1>2, <1>3, <1>4 DEF GC

LEMMA FaithfulStep ==
    ASSUME Flat, TInv, SlotVacated, NoHollowDirs, AsRecorded, Uncrashed, Uncrashed', [Next]_vars,
           NEW s \in Slots, index'[s] # NoTree, disk'[s] # Absent, ~Unsettled(s)',
           NEW p \in AtOrBelow(s)
    PROVE  disk'[p] = index'[s][p] \/ disk'[p] \in Edits
<1> DEFINE Goal == disk'[p] = index'[s][p] \/ disk'[p] \in Edits
<1>a. /\ disk \in [Paths -> Values] /\ Slots \subseteq Paths /\ s \in Paths /\ s \in AtOrBelow(s)
      /\ p \in Paths
    BY LayoutAssumption, PathsBelow DEF TInv, TypeOK, Values, AtOrBelow
<1>1. ASSUME NEW r \in Requests, Record(r), slot[r] = s PROVE Goal
    <2>1. disk' = disk /\ index'[s] = print[r] /\ pc[r] = "recording"
        BY <1>1 DEF Record, TInv, Shapes
    <2> QED BY <1>1, <2>1 DEF AsRecorded, PrintFaithful, Exists
<1>2. ASSUME \A r \in Requests : Record(r) => slot[r] # s PROVE Goal
    <2>1. index'[s] = index[s]
        <3>1. ASSUME NEW r \in Requests, Record(r) PROVE index'[s] = index[s]
            BY <1>2, <3>1 DEF Record, TInv, Shapes
        <3>2. ASSUME NEW r \in Requests, Purge(r) PROVE index'[s] = index[s]
            BY <3>2 DEF Purge
        <3>3. ASSUME GCForget PROVE index'[s] = index[s]
            BY <3>3 DEF GCForget, TInv, TypeOK, Shapes
        <3>4. ASSUME Crash PROVE FALSE
            BY <3>4 DEF Crash, Uncrashed
        <3> QED BY <3>1, <3>2, <3>3, <3>4, IndexMoves
    <2>2. ~Unsettled(s)
        BY <1>2, SettledByRecord
    <2>3. ASSUME \A x \in AtOrBelow(s) : disk'[x] = disk[x] PROVE Goal
        BY <1>a, <2>1, <2>2, <2>3 DEF AsRecorded, Faithful, Exists
    <2>4. ASSUME NEW r \in Requests, MkdirAll(r) PROVE Goal
        BY <1>a, <2>3, <2>4, MkdirAllOutside
    <2>5. ASSUME NEW r \in Requests, MoveAside(r) PROVE Goal
        <3>1. slot[r] \in Slots /\ (disk' = disk \/ disk' = DiskWithout(slot[r]))
            BY <2>5 DEF MoveAside, TInv, TypeOK
        <3>2. CASE slot[r] = s
            BY <1>a, <2>3, <3>1, <3>2 DEF DiskWithout
        <3>3. CASE slot[r] # s
            BY <1>a, <2>3, <3>1, <3>3, FlatStepsApart
        <3> QED BY <3>2, <3>3
    <2>6. ASSUME NEW r \in Requests, Swap(r) PROVE Goal
        <3>1. slot[r] \in Slots /\ slot' = slot /\ pc'[r] = "stamping"
            BY <2>6 DEF Swap, Goto, TInv, TypeOK
        <3>2. slot[r] # s
            BY <3>1 DEF Unsettled
        <3>3. \E u \in Trees(slot[r]) : disk' = DiskWith(u)
            BY <1>a, <2>6, <3>1, PayloadsAreTrees DEF Swap
        <3> QED BY <1>a, <2>3, <3>1, <3>2, <3>3, FlatStepsApart
    <2>7. ASSUME NEW r \in Requests, Rollback(r) PROVE Goal
        <3>1. /\ slot[r] \in Slots /\ pc[r] = "swapping" /\ ~Exists(slot[r])
              /\ \/ disk' = disk
                 \/ aside[r] # NoTree /\ aside[r] \in Trees(slot[r]) /\ disk' = DiskWith(aside[r])
            BY <2>7 DEF Rollback, TInv, TypeOK, SlotVacated
        <3>2. CASE disk' = disk
            BY <2>3, <3>2
        <3>3. CASE disk' # disk /\ slot[r] = s
            <4>1. disk'[p] = aside[r][p]
                BY <1>a, <3>1, <3>3 DEF DiskWith, Trees
            <4> QED BY <2>1, <3>1, <3>3, <4>1 DEF AsRecorded, AsideFaithful
        <3>4. CASE disk' # disk /\ slot[r] # s
            BY <1>a, <2>3, <3>1, <3>4, FlatStepsApart
        <3> QED BY <3>2, <3>3, <3>4
    <2>8. ASSUME GC PROVE Goal
        BY <2>3, <2>8, GCTakesAll
    <2>9. ASSUME NEW q \in Files, NEW e \in Edits, UserEdits(q, e) PROVE Goal
        <3>1. Exists(s)
            BY <1>a, <2>9 DEF UserEdits, Exists
        <3>2. disk'[p] = disk[p] \/ disk'[p] = e
            BY <1>a, <2>9 DEF UserEdits
        <3> QED BY <2>1, <2>2, <3>1, <3>2 DEF AsRecorded, Faithful
    <2>10. ASSUME NEW t \in Slots, UserDeletes(t) PROVE Goal
        <3>1. disk' = DiskWithout(t)
            BY <2>10 DEF UserDeletes
        <3>2. t # s
            BY <1>a, <3>1 DEF DiskWithout
        <3> QED BY <1>a, <2>3, <3>1, <3>2, FlatStepsApart
    <2> QED BY <2>3, <2>4, <2>5, <2>6, <2>7, <2>8, <2>9, <2>10, DiskMoves DEF User, GC
<1> QED BY <1>1, <1>2

LEMMA RecordedStep ==
    ASSUME Flat
    PROVE  TInv /\ RequestsApart /\ SlotVacated /\ NoneAsideYet /\ NoHollowDirs /\ AsRecorded
             /\ Uncrashed /\ Uncrashed' /\ [Next]_vars => AsRecorded'
<1> SUFFICES ASSUME TInv, RequestsApart, SlotVacated, NoneAsideYet, NoHollowDirs, AsRecorded,
                    Uncrashed, Uncrashed', [Next]_vars
             PROVE  AsRecorded'
    OBVIOUS
<1>1. ASSUME NEW s \in Slots, index'[s] # NoTree, disk'[s] # Absent, ~Unsettled(s)',
             NEW p \in AtOrBelow(s)
      PROVE  disk'[p] = index'[s][p] \/ disk'[p] \in Edits
    BY <1>1, FaithfulStep
<1>2. ASSUME NEW r \in Requests, pc'[r] = "swapping", aside'[r] # NoTree,
             index'[slot'[r]] # NoTree, NEW p \in AtOrBelow(slot'[r])
      PROVE  aside'[r][p] = index'[slot'[r]][p] \/ aside'[r][p] \in Edits
    <2>1. CASE pc[r] = "swapping"
        <3>1. r \in Serving /\ r \in Serving' /\ pc'[r] = pc[r] /\ slot[r] \in Slots
            BY <1>2, <2>1 DEF Serving, InFlight, TInv, TypeOK
        <3>2. slot'[r] = slot[r] /\ aside'[r] = aside[r]
            BY <3>1, OthersKeepApart, Zenon
        <3>3. index'[slot[r]] = index[slot[r]]
            BY <1>2, <3>1, <3>2, NobodyEnters DEF AtOrBelow
        <3> QED BY <1>2, <2>1, <3>2, <3>3 DEF AsRecorded, AsideFaithful
    <2>2. CASE pc[r] # "swapping"
        <3>1. MoveAside(r)
            BY <1>2, <2>2, OnlyMoveAsideVacates
        <3>2. /\ slot[r] \in Slots /\ slot' = slot /\ index' = index /\ pc[r] = "placing"
              /\ aside[r] = NoTree
            BY <3>1 DEF MoveAside, TInv, TypeOK, stored, NoneAsideYet
        <3>3. Exists(slot[r]) /\ aside'[r] = Tree(slot[r])
            BY <1>2, <3>1, <3>2 DEF MoveAside, TInv, Shapes
        <3>4. ~Unsettled(slot[r])
            BY <3>2 DEF Unsettled, RequestsApart, Overlap, AtOrBelow, Serving, InFlight
        <3>5. aside'[r][p] = disk[p]
            BY <1>2, <3>2, <3>3 DEF Tree
        <3> QED BY <1>2, <3>2, <3>3, <3>4, <3>5 DEF AsRecorded, Faithful
    <2> QED BY <2>1, <2>2
<1>3. ASSUME NEW r \in Requests, pc'[r] \in {"purging", "recording"}, disk'[slot'[r]] # Absent,
             NEW p \in AtOrBelow(slot'[r])
      PROVE  disk'[p] = print'[r][p] \/ disk'[p] \in Edits
    <2>1. CASE pc'[r] = pc[r]
        <3>1. r \in Serving /\ r \in Serving' /\ slot[r] \in Slots
            BY <1>3, <2>1 DEF Serving, InFlight, TInv, TypeOK
        <3>2. /\ slot'[r] = slot[r] /\ print'[r] = print[r]
              /\ \A x \in AtOrBelow(slot[r]) :
                    \/ disk'[x] = disk[x]
                    \/ GC /\ disk'[x] = Absent
                    \/ Exists(x) /\ disk'[x] \in Edits /\ (EditsRace \/ pc[r] \notin Unguarded)
            BY <2>1, <3>1, OthersKeepApart, Zenon
        <3>3. slot[r] \in AtOrBelow(slot[r])
            BY DEF AtOrBelow
        <3>4. Exists(slot[r])
            BY <1>3, <3>2, <3>3 DEF Exists
        <3>5. disk'[p] = disk[p] \/ disk'[p] \in Edits
            BY <1>3, <3>1, <3>2, GCTakesAll
        <3> QED BY <1>3, <2>1, <3>2, <3>4, <3>5 DEF AsRecorded, PrintFaithful
    <2>2. CASE Stamp(r)
        <3>1. slot' = slot /\ disk' = disk /\ print'[r] = Tree(slot[r])
            BY <2>2 DEF Stamp, TInv, Shapes
        <3> QED BY <1>3, <3>1 DEF Tree
    <2>3. CASE Purge(r)
        BY <1>3, <2>3 DEF Purge, AsRecorded, PrintFaithful, Exists
    <2>4. ASSUME NEW t \in Slots, NEW forced \in BOOLEAN, Guard(r, t, forced) PROVE FALSE
        BY <1>3, <2>4 DEF Guard, Goto, TInv, TypeOK
    <2>5. CASE \/ ReceiveFails(r) \/ MkdirAll(r) \/ MoveAside(r) \/ Swap(r) \/ Rollback(r)
               \/ Record(r) \/ Open(r)
        BY <1>3, <2>5 DEF ReceiveFails, MkdirAll, MoveAside, Swap, Rollback, Record, Open, Goto,
                          TInv, TypeOK
    <2>6. CASE Crash
        BY <2>6 DEF Crash, Uncrashed
    <2> QED BY <2>1, <2>2, <2>3, <2>4, <2>5, <2>6, MovesByItself DEF Handle
<1> QED BY <1>1, <1>2, <1>3 DEF AsRecorded, Faithful, AsideFaithful, PrintFaithful, Exists,
                                AtOrBelow, Below

(***************************************************************************)
(* "Local copy has unsaved modifications": a request is refused only when  *)
(* the user has edited something in the slot.  (For slots none of which is *)
(* inside another, no mirrored directory with an empty one in it, and no   *)
(* crash; renames and saves may fail and GC may run at any moment.)        *)
(***************************************************************************)
THEOREM RefusedForEditsOnly ==
    ASSUME Flat
    PROVE  Spec /\ [](Uncrashed /\ NoHollowDirs) => RefusalMeansEdit
<1>1. TInv /\ AsRecorded /\ [Next]_vars =>
        [\A r \in Requests : pc'[r] = "refused" /\ pc[r] # "refused" =>
            \E p \in AtOrBelow(slot'[r]) : disk[p] \in Edits]_vars
    <2> SUFFICES ASSUME TInv, AsRecorded, [Next]_vars, NEW r \in Requests, pc'[r] = "refused",
                        pc[r] # "refused"
                 PROVE  \E p \in AtOrBelow(slot'[r]) : disk[p] \in Edits
        OBVIOUS
    <2>1. PICK s \in Slots, forced \in BOOLEAN : Guard(r, s, forced)
        BY MovesByItself DEF Handle, ReceiveFails, MkdirAll, MoveAside, Swap, Rollback,
           Stamp, Purge, Record, Open, Crash, Serving, Goto, TInv, TypeOK
    <2>2. slot'[r] = s /\ Refused(s, forced)
        BY <2>1 DEF Guard, Goto, TInv, TypeOK
    <2>3. PICK q \in Entries \cap AtOrBelow(s) : LocallyModified(q, index[q])
        BY <2>2 DEF Refused
    <2>4. q = s
        BY <2>3, FlatTreesApart DEF Entries, AtOrBelow
    <2>5. ~Unsettled(s)
        BY <2>1 DEF Guard, Unsettled, Serving, InFlight
    <2>6. /\ Exists(s) /\ index[s] # NoTree /\ Tree(s) # index[s] /\ index[s] \in Trees(s)
        BY <2>3, <2>4 DEF LocallyModified, Entries, TInv, TypeOK
    <2>7. PICK p \in AtOrBelow(s) : disk[p] # index[s][p]
        BY <2>6 DEF Tree, Trees
    <2> QED BY <2>2, <2>5, <2>6, <2>7 DEF AsRecorded, Faithful
<1> QED BY <1>1, FlatKeepsApart, Rootedness, ReturnInit, VacatedStep, AsideYetStep,
           RecordedInit, RecordedStep, PTL DEF Spec, RefusalMeansEdit

-----------------------------------------------------------------------------
(***************************************************************************)
(* Flat slots, no crash and no edit between check and act: the mirror is   *)
(* the cache its package comment describes.                                *)
(***************************************************************************)
Present == {s \in Slots : View(s) # Absent}
Edited == {s \in Slots : \E p \in AtOrBelow(s) : View(p) \in Edits}
Demanded == {slot[r] : r \in {q \in Serving : force[q]}}

\* A request between the two renames of its slot, with the old copy aside.
Swapping(r) == pc[r] = "swapping" /\ aside[r] # NoTree

\* Between the renames one sees the copy set aside, otherwise what is on disk.
ViewIs(s) ==
    /\ \A r \in Requests : Swapping(r) /\ slot[r] = s => \A p \in AtOrBelow(s) : View(p) = aside[r][p]
    /\ (\A r \in Requests : Swapping(r) => slot[r] # s) => \A p \in AtOrBelow(s) : View(p) = disk[p]

Viewed == \A s \in Slots : ViewIs(s)

LEMMA Viewing ==
    ASSUME Flat
    PROVE  TInv /\ RequestsApart => Viewed
<1> SUFFICES ASSUME TInv, RequestsApart, NEW s \in Slots PROVE ViewIs(s)
    BY DEF Viewed
<1>1. ASSUME NEW r \in Requests, Swapping(r)
      PROVE  DOMAIN aside[r] = AtOrBelow(slot[r]) /\ slot[r] \in Slots /\ r \in Serving
    BY <1>1 DEF Swapping, TInv, TypeOK, Trees, Serving, InFlight
<1>2. ASSUME NEW r \in Requests, Swapping(r), slot[r] = s, NEW p \in AtOrBelow(s)
      PROVE  View(p) = aside[r][p]
    <2>1. ASSUME NEW q \in Requests, Swapping(q), p \in DOMAIN aside[q] PROVE q = r
        <3>1. slot[q] = s
            BY <1>1, <1>2, <2>1, FlatTreesApart
        <3> QED BY <1>1, <1>2, <2>1, <3>1 DEF RequestsApart, Overlap, AtOrBelow
    <2>2. p \in DOMAIN aside[r]
        BY <1>1, <1>2
    <2> QED BY <1>2, <2>1, <2>2 DEF View, Swapping
<1>3. ASSUME \A r \in Requests : Swapping(r) => slot[r] # s, NEW p \in AtOrBelow(s)
      PROVE  View(p) = disk[p]
    <2>1. ASSUME NEW q \in Requests, Swapping(q), p \in DOMAIN aside[q] PROVE FALSE
        BY <1>1, <1>3, <2>1, FlatTreesApart
    <2> QED BY <2>1 DEF View, Swapping
<1> QED BY <1>2, <1>3 DEF ViewIs

\* The two renames and the rollback are the steps that change which one is seen.
LEMMA SwappingMoves ==
    ASSUME TInv, Uncrashed, Uncrashed', [Next]_vars, NEW r \in Requests, pc'[r] # pc[r],
           pc[r] = "swapping" \/ pc'[r] = "swapping"
    PROVE  MoveAside(r) \/ Swap(r) \/ Rollback(r)
<1>1. ~Crash
    BY DEF Crash, Uncrashed
<1> QED BY <1>1, MovesByItself DEF Handle, Guard, ReceiveFails, MkdirAll, Stamp, Purge, Record,
                                  Open, Goto, TInv, TypeOK

\* What is seen at a slot stays the same when nobody swaps there and the disk does.
LEMMA ViewStays ==
    ASSUME Flat, TInv, TInv', Orderly, RequestsApart', [Next]_vars, NEW s \in Slots,
           \A r \in Requests : pc[r] = "swapping" \/ pc'[r] = "swapping" =>
                pc'[r] = pc[r] \/ (slot[r] # s /\ slot'[r] = slot[r]),
           \A p \in AtOrBelow(s) : disk'[p] = disk[p]
    PROVE  \A p \in AtOrBelow(s) : View(p)' = View(p)
<1>1. ViewIs(s) /\ ViewIs(s)'
    <2>1. (TInv /\ RequestsApart => Viewed)'
        BY Viewing, PTL
    <2> QED BY <2>1, Viewing DEF Orderly, Viewed
<1>2. ASSUME NEW r \in Requests, pc'[r] = "swapping", pc[r] = "swapping"
      PROVE  slot'[r] = slot[r] /\ aside'[r] = aside[r]
    <2>1. r \in Serving /\ r \in Serving' /\ pc'[r] = pc[r]
        BY <1>2 DEF Serving, InFlight
    <2> QED BY <2>1, OthersKeepOff, Zenon
<1>3. CASE \E r \in Requests : Swapping(r) /\ slot[r] = s
    <2>1. PICK r \in Requests : Swapping(r) /\ slot[r] = s
        BY <1>3
    <2>2. Swapping(r)' /\ slot'[r] = s /\ aside'[r] = aside[r]
        BY <1>2, <2>1 DEF Swapping
    <2> QED BY <1>1, <2>1, <2>2 DEF ViewIs, AtOrBelow, Below
<1>4. CASE \A r \in Requests : Swapping(r) => slot[r] # s
    <2>1. ASSUME NEW r \in Requests, Swapping(r)' PROVE slot'[r] # s
        BY <1>2, <1>4, <2>1 DEF Swapping
    <2> QED BY <1>1, <1>4, <2>1 DEF ViewIs, AtOrBelow, Below
<1> QED BY <1>3, <1>4

\* What is seen at the slot of a request in flight.
ServedView ==
    \A r \in Serving : \A p \in AtOrBelow(slot[r]) :
        View(p) = IF Swapping(r) THEN aside[r][p] ELSE disk[p]

LEMMA ViewingServed ==
    ASSUME Flat
    PROVE  TInv /\ RequestsApart => ServedView
<1> SUFFICES ASSUME TInv, RequestsApart, NEW r \in Serving, NEW p \in AtOrBelow(slot[r])
             PROVE  View(p) = IF Swapping(r) THEN aside[r][p] ELSE disk[p]
    BY DEF ServedView
<1>1. slot[r] \in Slots /\ r \in Requests
    BY DEF Serving, InFlight, TInv, TypeOK
<1>2. ViewIs(slot[r])
    BY <1>1, Viewing DEF Viewed
<1>3. CASE Swapping(r)
    BY <1>1, <1>2, <1>3 DEF ViewIs
<1>4. CASE ~Swapping(r)
    <2>1. ASSUME NEW q \in Requests, Swapping(q), slot[q] = slot[r] PROVE FALSE
        BY <1>4, <2>1 DEF Swapping, RequestsApart, Overlap, AtOrBelow, Serving, InFlight
    <2> QED BY <1>2, <1>4, <2>1 DEF ViewIs
<1> QED BY <1>3, <1>4

\* The states in which slots are flat and nothing has gone wrong but renames and saves.
Regular == FlatInv /\ Orderly /\ Uncrashed

LEMMA RegularFacts ==
    ASSUME Regular
    PROVE  /\ TInv /\ Rooted /\ CleanInv /\ DirsUnedited /\ InPlace /\ UnforcedClean
           /\ Orderly /\ RequestsApart /\ Uncrashed
           /\ disk \in [Paths -> Values] /\ Slots \subseteq Paths /\ Absent \notin Edits
           /\ \A s : s \in AtOrBelow(s)
BY LayoutAssumption, StampAssumption
DEF Regular, FlatInv, TInv, TypeOK, Values, Stamps, Orderly, AtOrBelow

LEMMA RegularViews ==
    ASSUME Flat, Regular, Regular'
    PROVE  Viewed /\ ServedView /\ Viewed' /\ ServedView' /\ TInv' /\ RequestsApart' /\ Uncrashed'
<1>1. TInv' /\ RequestsApart' /\ Uncrashed'
    BY DEF Regular, FlatInv, Orderly
<1>2. (TInv /\ RequestsApart => Viewed)' /\ (TInv /\ RequestsApart => ServedView)'
    BY Viewing, ViewingServed, PTL
<1> QED BY <1>1, <1>2, RegularFacts, Viewing, ViewingServed

Swaps(r) == MoveAside(r) \/ Swap(r) \/ Rollback(r)

LEMMA SwapsOnlyItself ==
    ASSUME TInv, NEW r \in Requests, Swaps(r), NEW q \in Requests, q # r
    PROVE  ~Swaps(q) /\ pc'[q] = pc[q]
BY DEF Swaps, MoveAside, Swap, Rollback, Goto, TInv, TypeOK

\* Where nobody swaps and the disk stays the same, so does what is seen.
LEMMA OthersView ==
    ASSUME Flat, Regular, Regular', [Next]_vars, NEW s \in Slots,
           \A r \in Requests : Swaps(r) => slot[r] # s,
           \A p \in AtOrBelow(s) : disk'[p] = disk[p]
    PROVE  \A p \in AtOrBelow(s) : View(p)' = View(p)
<1>1. ASSUME NEW r \in Requests, pc[r] = "swapping" \/ pc'[r] = "swapping", pc'[r] # pc[r]
      PROVE  slot[r] # s /\ slot'[r] = slot[r]
    <2>1. Swaps(r)
        BY <1>1, RegularFacts, RegularViews, SwappingMoves DEF Swaps
    <2> QED BY <2>1 DEF Swaps, MoveAside, Swap, Rollback
<1> QED BY <1>1, RegularFacts, RegularViews, ViewStays

\* Nothing is seen to change.
Same == Present' = Present /\ Edited' = Edited

LEMMA SameViews ==
    ASSUME \A s \in Slots : \A p \in AtOrBelow(s) : View(p)' = View(p)
    PROVE  Same
BY DEF Same, Present, Edited, AtOrBelow, Below

\* What is seen of one slot only changes; the slot is not, and is, edited.
LEMMA ViewOfOneChanges ==
    ASSUME NEW s \in Slots,
           \A t \in Slots : t # s => \A p \in AtOrBelow(t) : View(p)' = View(p)
    PROVE  /\ View(s)' # Absent => Present' = Present \cup {s}
           /\ View(s)' = Absent => Present' = Present \ {s}
           /\ (\A p \in AtOrBelow(s) : View(p)' \notin Edits) => Edited' = Edited \ {s}
           /\ (\E p \in AtOrBelow(s) : View(p)' \in Edits) => Edited' = Edited \cup {s}
<1>1. \A t \in Slots : t # s => (t \in Present' <=> t \in Present) /\ (t \in Edited' <=> t \in Edited)
    BY DEF Present, Edited, AtOrBelow, Below
<1>2. Present \subseteq Slots /\ Present' \subseteq Slots /\ Edited \subseteq Slots /\ Edited' \subseteq Slots
    BY DEF Present, Edited
<1>3. s \in Present' <=> View(s)' # Absent
    BY DEF Present
<1>4. s \in Edited' <=> \E p \in AtOrBelow(s) : View(p)' \in Edits
    BY DEF Edited, AtOrBelow, Below
<1> QED BY <1>1, <1>2, <1>3, <1>4

\* A request in flight that goes on, and one that ends.
LEMMA DemandMoves ==
    ASSUME TInv, RequestsApart, NEW r \in Serving, NEW step, pc' = [pc EXCEPT ![r] = step],
           slot' = slot, force' = force
    PROVE  /\ step \in InFlight => Demanded' = Demanded
           /\ step \notin InFlight /\ ~force[r] => Demanded' = Demanded
           /\ step \notin InFlight /\ force[r] =>
                slot[r] \in Demanded /\ Demanded' = Demanded \ {slot[r]}
<1>1. r \in Requests /\ pc[r] \in InFlight
    BY DEF Serving
<1>2. \A q \in Requests : pc'[q] = IF q = r THEN step ELSE pc[q]
    BY DEF TInv, TypeOK
<1>3. CASE step \in InFlight
    <2>1. Serving' = Serving
        BY <1>1, <1>2, <1>3 DEF Serving, InFlight
    <2> QED BY <1>3, <2>1 DEF Demanded
<1>4. CASE step \notin InFlight
    <2>1. Serving' = Serving \ {r}
        BY <1>1, <1>2, <1>4 DEF Serving, InFlight
    <2>2. \A q \in Serving : q # r => slot[q] # slot[r]
        BY DEF RequestsApart, Overlap, AtOrBelow
    <2> QED BY <1>4, <2>1, <2>2 DEF Demanded
<1> QED BY <1>3, <1>4

\* A step that swaps nothing and leaves the disk alone shows nothing.
LEMMA QuietStep ==
    ASSUME Flat, Regular, Regular', [Next]_vars, disk' = disk, \A r \in Requests : ~Swaps(r)
    PROVE  Same
BY OthersView, SameViews

\* Making directories above a slot, and the first rename, show nothing.
LEMMA MkdirAllShowsNothing ==
    ASSUME Flat, Regular, Regular', [Next]_vars, NEW r \in Requests, MkdirAll(r)
    PROVE  Same
<1>1. ASSUME NEW q \in Requests, Swaps(q) PROVE FALSE
    BY <1>1, RegularFacts DEF Swaps, MkdirAll, MoveAside, Swap, Rollback, Goto, TInv, TypeOK
<1> QED BY <1>1, RegularFacts, MkdirAllOutside, OthersView, SameViews

LEMMA MoveAsideShowsNothing ==
    ASSUME Flat, Regular, Regular', [Next]_vars, NEW r \in Requests, MoveAside(r)
    PROVE  Same
<1>a. /\ TInv /\ slot[r] \in Slots /\ r \in Serving /\ r \in Serving' /\ slot' = slot
      /\ pc[r] = "placing" /\ pc'[r] = "swapping" /\ aside[r] = NoTree
    BY RegularFacts DEF MoveAside, Goto, TInv, TypeOK, Serving, InFlight, InPlace, AsideInUse
<1>b. disk' = disk \/ disk' = DiskWithout(slot[r])
    BY DEF MoveAside
<1>1. ASSUME NEW s \in Slots, s # slot[r], NEW p \in AtOrBelow(s) PROVE View(p)' = View(p)
    <2>1. \A q \in Requests : Swaps(q) => slot[q] # s
        BY <1>a, <1>1, SwapsOnlyItself DEF Swaps
    <2>2. \A x \in AtOrBelow(s) : disk'[x] = disk[x]
        BY <1>a, <1>b, <1>1, RegularFacts, FlatStepsApart
    <2> QED BY <1>1, <2>1, <2>2, OthersView
<1>2. ASSUME NEW p \in AtOrBelow(slot[r]) PROVE View(p)' = View(p)
    <2>1. View(p) = disk[p]
        BY <1>a, <1>2, RegularViews DEF ServedView, Swapping
    <2>2. View(p)' = IF Swapping(r)' THEN aside'[r][p] ELSE disk'[p]
        BY <1>a, <1>2, RegularViews DEF ServedView, AtOrBelow, Below
    <2>3. CASE Exists(slot[r])
        <3>1. aside'[r] = Tree(slot[r]) /\ Tree(slot[r]) # NoTree
            BY <1>a, <2>3, RegularFacts, TreeOnDisk, TreesAreTrees DEF MoveAside, TInv, Shapes
        <3>2. aside'[r][p] = disk[p]
            BY <1>2, <3>1 DEF Tree
        <3> QED BY <1>a, <2>1, <2>2, <3>1, <3>2 DEF Swapping
    <2>4. CASE ~Exists(slot[r])
        BY <1>a, <2>1, <2>2, <2>4 DEF MoveAside, Swapping
    <2> QED BY <2>3, <2>4
<1> QED BY <1>1, <1>2, SameViews

\* The second rename replaces the copy, edited only if the request was told to.
LEMMA SwapReplaces ==
    ASSUME Flat, Regular, Regular', [Next]_vars, NEW r \in Requests, Swap(r)
    PROVE  /\ slot[r] \in Slots /\ (slot[r] \in Edited => slot[r] \in Demanded)
           /\ Present' = Present \cup {slot[r]} /\ Edited' = Edited \ {slot[r]}
           /\ Demanded' = Demanded
<1>a. /\ TInv /\ slot[r] \in Slots /\ r \in Serving /\ r \in Serving' /\ slot' = slot
      /\ pc[r] = "swapping" /\ pc'[r] = "stamping" /\ slot[r] \in Paths
      /\ slot[r] \in AtOrBelow(slot[r])
    BY RegularFacts DEF Swap, Goto, TInv, TypeOK, Serving, InFlight
<1>b. PICK t \in Payloads(r, slot[r]) : disk' = DiskWith(t)
    BY DEF Swap
<1>1. ASSUME NEW s \in Slots, s # slot[r], NEW p \in AtOrBelow(s) PROVE View(p)' = View(p)
    <2>1. \A q \in Requests : Swaps(q) => slot[q] # s
        BY <1>a, <1>1, SwapsOnlyItself DEF Swaps
    <2>2. t \in Trees(slot[r])
        BY <1>a, PayloadsAreTrees
    <2>3. \A x \in AtOrBelow(s) : disk'[x] = disk[x]
        BY <1>a, <1>b, <1>1, <2>2, RegularFacts, FlatStepsApart
    <2> QED BY <1>1, <2>1, <2>3, OthersView
<1>2. ASSUME NEW p \in AtOrBelow(slot[r]) PROVE View(p)' = t[p]
    <2>1. View(p)' = disk'[p]
        BY <1>a, <1>2, RegularViews DEF ServedView, Swapping, AtOrBelow, Below
    <2>2. disk'[p] = t[p]
        BY <1>a, <1>b, <1>2, PathsBelow DEF DiskWith, Payloads
    <2> QED BY <2>1, <2>2
<1>3. /\ t[slot[r]] # Absent
      /\ \A p \in AtOrBelow(slot[r]) : t[p] \notin Edits
    BY <1>a, StampAssumption DEF Payloads, Stamps
<1>4. Present' = Present \cup {slot[r]} /\ Edited' = Edited \ {slot[r]}
    BY <1>a, <1>1, <1>2, <1>3, ViewOfOneChanges
<1>5. Demanded' = Demanded
    BY <1>a, RegularFacts, DemandMoves DEF Swap, Goto, InFlight
<1>6. ASSUME slot[r] \in Edited PROVE slot[r] \in Demanded
    <2>1. PICK p \in AtOrBelow(slot[r]) : View(p) \in Edits
        BY <1>6 DEF Edited
    <2>2. View(p) = IF Swapping(r) THEN aside[r][p] ELSE disk[p]
        BY <1>a, RegularViews DEF ServedView
    <2>3. force[r]
        BY <1>a, <2>1, <2>2, RegularFacts DEF UnforcedClean, Unguarded, Swapping
    <2> QED BY <1>a, <2>3 DEF Demanded
<1> QED BY <1>a, <1>4, <1>5, <1>6

\* A rollback puts back what was seen all along.
LEMMA RollbackShowsNothing ==
    ASSUME Flat, Regular, Regular', [Next]_vars, NEW r \in Requests, Rollback(r)
    PROVE  Same
<1>a. /\ TInv /\ slot[r] \in Slots /\ r \in Serving /\ slot' = slot /\ slot[r] \in Paths
      /\ pc[r] = "swapping" /\ pc'[r] = "failed"
    BY RegularFacts DEF Rollback, Goto, TInv, TypeOK, Serving, InFlight
<1>b. CanRename(slot[r])
    BY RegularFacts DEF Rollback, CanRename, InPlace, PlaceReady, SlotVacated
<1>c. IF Swapping(r) THEN disk' = DiskWith(aside[r]) /\ aside[r] \in Trees(slot[r])
                     ELSE disk' = disk
    BY <1>a, <1>b DEF Rollback, Swapping, TInv, TypeOK
<1>1. ASSUME NEW s \in Slots, s # slot[r], NEW p \in AtOrBelow(s) PROVE View(p)' = View(p)
    <2>1. \A q \in Requests : Swaps(q) => slot[q] # s
        BY <1>a, <1>1, SwapsOnlyItself DEF Swaps
    <2>2. \A x \in AtOrBelow(s) : disk'[x] = disk[x]
        BY <1>a, <1>c, <1>1, RegularFacts, FlatStepsApart
    <2> QED BY <1>1, <2>1, <2>2, OthersView
<1>2. ASSUME NEW p \in AtOrBelow(slot[r]) PROVE View(p)' = View(p)
    <2>1. View(p) = IF Swapping(r) THEN aside[r][p] ELSE disk[p]
        BY <1>a, <1>2, RegularViews DEF ServedView
    <2>2. ASSUME NEW q \in Requests, Swapping(q)', slot'[q] = slot[r] PROVE FALSE
        <3>1. q # r /\ pc[q] = "swapping"
            BY <1>a, <2>2, SwapsOnlyItself DEF Swapping, Swaps
        <3> QED BY <1>a, <2>2, <3>1, RegularFacts
                DEF RequestsApart, Overlap, AtOrBelow, Serving, InFlight
    <2>3. View(p)' = disk'[p]
        BY <1>a, <1>2, <2>2, RegularViews DEF Viewed, ViewIs, AtOrBelow, Below
    <2>4. disk'[p] = IF Swapping(r) THEN aside[r][p] ELSE disk[p]
        BY <1>a, <1>c, <1>2, PathsBelow DEF DiskWith, Trees
    <2> QED BY <2>1, <2>3, <2>4
<1> QED BY <1>1, <1>2, SameViews

\* While no request is served one sees what is on disk.
LEMMA GCSeesTheDisk ==
    ASSUME Flat, Regular, Regular', gc.step # "idle", UNCHANGED request, NEW s \in Slots,
           NEW p \in AtOrBelow(s)
    PROVE  View(p) = disk[p] /\ View(p)' = disk'[p]
<1>1. \A r \in Requests : ~Swapping(r) /\ ~Swapping(r)'
    BY RegularFacts DEF Orderly, GCAlone, Swapping, Serving, InFlight, request
<1> QED BY <1>1, RegularViews DEF Viewed, ViewIs, AtOrBelow, Below

\* Removing a copy that is there and unedited.
Removal ==
    \E s \in Slots : /\ s \in Present \ Edited
                     /\ Present' = Present \ {s} /\ Edited' = Edited

LEMMA GCRemoveRemoves ==
    ASSUME Flat, Regular, Regular', [Next]_vars, GCRemove
    PROVE  Same \/ Removal
<1>0. PICK s \in Slots : s = gc.at
    BY RegularFacts DEF GCRemove, TInv, TypeOK
<1>a. /\ disk' = DiskWithout(s) /\ gc.step = "removing" /\ UNCHANGED request
      /\ s \in AtOrBelow(s)
    BY <1>0, RegularFacts DEF GCRemove
<1>b. \A p \in AtOrBelow(s) : disk[p] \notin Edits /\ disk'[p] = Absent
    BY <1>0, <1>a, RegularFacts, PathsBelow DEF CleanInv, GoingClean, DiskWithout
<1>1. ASSUME NEW t \in Slots, t # s, NEW p \in AtOrBelow(t) PROVE View(p)' = View(p)
    BY <1>a, <1>1, RegularFacts, FlatStepsApart, GCSeesTheDisk
<1>2. \A p \in AtOrBelow(s) : View(p) \notin Edits /\ View(p)' = Absent
    BY <1>a, <1>b, GCSeesTheDisk
<1>3. Edited' = Edited /\ s \notin Edited /\ Present' = Present \ {s}
    <2>1. s \notin Edited
        BY <1>2 DEF Edited
    <2>2. View(s)' = Absent /\ \A p \in AtOrBelow(s) : View(p)' \notin Edits
        BY <1>a, <1>2, RegularFacts
    <2>3. Present' = Present \ {s} /\ Edited' = Edited \ {s}
        BY <1>1, <2>2, ViewOfOneChanges
    <2> QED BY <2>1, <2>3
<1>4. CASE s \in Present
    BY <1>a, <1>3, <1>4 DEF Removal
<1>5. CASE s \notin Present
    BY <1>3, <1>5 DEF Same
<1> QED BY <1>4, <1>5

LEMMA GCPruneRemoves ==
    ASSUME Flat, Regular, Regular', [Next]_vars, NEW d \in Dirs, GCPrune(d)
    PROVE  Same \/ Removal
<1>a. /\ disk[d] # Absent /\ disk[d] \notin Edits /\ disk' = [disk EXCEPT ![d] = Absent]
      /\ \A p \in Below(d) : disk[p] = Absent
    BY RegularFacts DEF GCPrune, EmptyDirs, Exists, DirsUnedited
<1>b. ASSUME NEW s \in Slots, NEW p \in AtOrBelow(s)
      PROVE  View(p) = disk[p] /\ View(p)' = disk'[p]
    <2>1. gc.step # "idle" /\ UNCHANGED request
        BY DEF GCPrune
    <2> QED BY <2>1, GCSeesTheDisk
<1>c. \A s \in Slots : \A p \in AtOrBelow(s) : p \in Paths /\ disk'[p] = IF p = d THEN Absent ELSE disk[p]
    BY <1>a, RegularFacts, PathsBelow
<1>1. ASSUME NEW s \in Slots PROVE s \in Edited' <=> s \in Edited
    <2>1. ASSUME NEW p \in AtOrBelow(s) PROVE View(p)' \in Edits <=> View(p) \in Edits
        <3>1. View(p) = disk[p] /\ View(p)' = disk'[p]
            BY <1>b
        <3> QED BY <1>a, <1>c, <3>1, RegularFacts
    <2> QED BY <2>1 DEF Edited, AtOrBelow, Below
<1>2. ASSUME NEW s \in Slots, s # d PROVE s \in Present' <=> s \in Present
    BY <1>b, <1>c, <1>2, RegularFacts DEF Present
<1>3. Edited' = Edited /\ Present' \subseteq Slots
    BY <1>1 DEF Edited, Present
<1>4. CASE d \in Slots
    <2>1. d \in Present /\ d \notin Present'
        BY <1>a, <1>b, <1>c, <1>4, RegularFacts DEF Present
    <2>2. d \notin Edited
        BY <1>a, <1>b, <1>4, RegularFacts DEF Edited, AtOrBelow
    <2>3. Present' = Present \ {d}
        BY <1>2, <1>3, <2>1 DEF Present
    <2> QED BY <1>3, <1>4, <2>1, <2>2, <2>3 DEF Removal
<1>5. CASE d \notin Slots
    BY <1>2, <1>3, <1>5 DEF Same, Present
<1> QED BY <1>4, <1>5

\* The user edits a copy, or deletes one.
Editing == \E s \in Slots : s \in Present /\ Edited' = Edited \cup {s} /\ Present' = Present

LEMMA NobodySwapsThere ==
    ASSUME Flat, Regular, Regular', UNCHANGED request, NEW s \in Slots,
           \A r \in Requests : Swapping(r) => slot[r] # s, NEW p \in AtOrBelow(s)
    PROVE  View(p) = disk[p] /\ View(p)' = disk'[p]
<1>1. \A r \in Requests : Swapping(r)' => slot'[r] # s
    BY DEF Swapping, request
<1> QED BY <1>1, RegularViews DEF Viewed, ViewIs, AtOrBelow, Below

LEMMA UserEditsACopy ==
    ASSUME Flat, ~EditsRace, Regular, Regular', [Next]_vars, NEW q \in Files, NEW e \in Edits,
           UserEdits(q, e)
    PROVE  Same \/ Editing
<1>a. /\ q \in Paths /\ disk[q] # Absent /\ disk' = [disk EXCEPT ![q] = e] /\ UNCHANGED request
      /\ ~BeingReplaced(q) /\ e # Absent
    BY StampAssumption DEF UserEdits, Exists, Paths, Stamps
<1>b. ASSUME NEW r \in Requests, Swaps(r) PROVE FALSE
    BY <1>a, <1>b, RegularFacts DEF Swaps, MoveAside, Swap, Rollback, Goto, TInv, TypeOK, request
<1>1. ASSUME NEW t \in Slots, q \notin AtOrBelow(t), NEW p \in AtOrBelow(t) PROVE View(p)' = View(p)
    <2>1. \A x \in AtOrBelow(t) : disk'[x] = disk[x]
        BY <1>a, <1>1, RegularFacts
    <2> QED BY <1>b, <1>1, <2>1, OthersView
<1>2. CASE \A t \in Slots : q \notin AtOrBelow(t)
    BY <1>1, <1>2, SameViews
<1>3. ASSUME NEW s \in Slots, q \in AtOrBelow(s) PROVE Editing
    <2>1. ASSUME NEW r \in Requests, Swapping(r), slot[r] = s PROVE FALSE
        <3>1. Overlap(slot[r], q) /\ pc[r] \in Unguarded
            BY <1>3, <2>1 DEF Overlap, AtOrBelow, Swapping, Unguarded
        <3> QED BY <1>a, <3>1 DEF BeingReplaced
    <2>2. \A p \in AtOrBelow(s) : View(p) = disk[p] /\ View(p)' = disk'[p]
        BY <1>a, <2>1, NobodySwapsThere
    <2>3. disk[s] # Absent /\ s \in AtOrBelow(s) /\ s \in Paths
        BY <1>a, <1>3, RegularFacts, NothingBelowNothing DEF Exists
    <2>4. disk'[s] # Absent /\ disk'[q] \in Edits
        BY <1>a, <2>3, RegularFacts
    <2>5. \A t \in Slots : t # s => q \notin AtOrBelow(t)
        BY <1>3, FlatTreesApart
    <2>6. Present' = Present \cup {s} /\ Edited' = Edited \cup {s}
        BY <1>1, <1>3, <2>2, <2>3, <2>4, <2>5, ViewOfOneChanges
    <2>7. s \in Present
        BY <2>2, <2>3 DEF Present
    <2> QED BY <2>6, <2>7 DEF Editing
<1> QED BY <1>2, <1>3

LEMMA UserDeletesACopy ==
    ASSUME Flat, Regular, Regular', [Next]_vars, NEW s \in Slots, UserDeletes(s)
    PROVE  Removal
<1>a. /\ disk[s] # Absent /\ disk' = DiskWithout(s) /\ UNCHANGED request
      /\ (\A p \in AtOrBelow(s) : disk[p] \notin Edits) /\ s \in AtOrBelow(s)
    BY RegularFacts DEF UserDeletes, Exists
<1>b. ASSUME NEW r \in Requests, Swaps(r) PROVE FALSE
    BY <1>a, <1>b, RegularFacts DEF Swaps, MoveAside, Swap, Rollback, Goto, TInv, TypeOK, request
<1>1. ASSUME NEW t \in Slots, t # s, NEW p \in AtOrBelow(t) PROVE View(p)' = View(p)
    <2>1. \A x \in AtOrBelow(t) : disk'[x] = disk[x]
        BY <1>a, <1>1, RegularFacts, FlatStepsApart
    <2> QED BY <1>b, <1>1, <2>1, OthersView
<1>2. ASSUME NEW r \in Requests, Swapping(r), slot[r] = s PROVE FALSE
    BY <1>2 DEF UserDeletes, Swapping, Serving, InFlight, Overlap, AtOrBelow
<1>3. \A p \in AtOrBelow(s) : View(p) = disk[p] /\ View(p)' = disk'[p]
    BY <1>a, <1>2, NobodySwapsThere
<1>4. \A p \in AtOrBelow(s) : disk'[p] = Absent
    BY <1>a, RegularFacts, PathsBelow DEF DiskWithout
<1>5. s \in Present \ Edited
    BY <1>a, <1>3 DEF Present, Edited
<1>6. Present' = Present \ {s} /\ Edited' = Edited \ {s}
    BY <1>a, <1>1, <1>3, <1>4, RegularFacts, ViewOfOneChanges
<1> QED BY <1>5, <1>6 DEF Removal

\* A demand is met with when a request passes the guard by force, and settled
\* when it ends.
Demanding == \E s \in Slots : s \notin Demanded /\ Demanded' = Demanded \cup {s}
Settling == \E s \in Slots : s \in Demanded /\ Demanded' = Demanded \ {s}

LEMMA GuardDemands ==
    ASSUME Flat, Regular, Regular', [Next]_vars, NEW r \in Requests, NEW s \in Slots,
           NEW forced \in BOOLEAN, Guard(r, s, forced)
    PROVE  Same /\ (Demanded' = Demanded \/ Demanding)
<1>a. /\ TInv /\ r \notin Serving /\ disk' = disk
      /\ \A q \in Requests : /\ slot'[q] = IF q = r THEN s ELSE slot[q]
                             /\ force'[q] = IF q = r THEN forced ELSE force[q]
      /\ \A q \in Requests : q # r => pc'[q] = pc[q]
      /\ pc[r] = "new" /\ pc'[r] = IF Refused(s, forced) THEN "refused" ELSE "receiving"
    BY RegularFacts DEF Guard, Serving, InFlight, Goto, TInv, TypeOK
<1>1. ASSUME NEW q \in Requests, Swaps(q) PROVE FALSE
    BY <1>a, <1>1, RegularFacts
    DEF Swaps, Guard, MoveAside, Swap, Rollback, Goto, TInv, TypeOK
<1>2. Same
    BY <1>a, <1>1, QuietStep
<1>3. CASE ~forced
    <2>1. \A q \in Requests : q \in Serving' /\ force'[q] <=> q \in Serving /\ force[q]
        BY <1>a, <1>3 DEF Serving, InFlight
    <2>2. \A q \in Serving : q # r
        BY <1>a
    <2>3. Demanded' = Demanded
        BY <1>a, <2>1, <2>2 DEF Demanded, Serving
    <2> QED BY <1>2, <2>3
<1>4. CASE forced
    <2>1. Serving' = Serving \cup {r}
        BY <1>a, <1>4 DEF Refused, Serving, InFlight
    <2>2. /\ \A q \in Serving : slot'[q] = slot[q] /\ force'[q] = force[q]
          /\ slot'[r] = s /\ force'[r]
        BY <1>a, <1>4 DEF Serving
    <2>3. ASSUME NEW x PROVE x \in Demanded' <=> x \in Demanded \cup {s}
        BY <2>1, <2>2 DEF Demanded
    <2>4. Demanded' = Demanded \cup {s}
        BY <2>3
    <2>5. s \notin Demanded
        BY DEF Guard, Demanded
    <2> QED BY <1>2, <2>4, <2>5 DEF Demanding
<1> QED BY <1>3, <1>4

LEMMA EndSettles ==
    ASSUME Regular, NEW r \in Requests, ReceiveFails(r) \/ Rollback(r) \/ Record(r) \/ Open(r)
    PROVE  Demanded' = Demanded \/ Settling
<1>1. /\ TInv /\ RequestsApart /\ r \in Serving /\ slot' = slot /\ force' = force
      /\ slot[r] \in Slots
    BY RegularFacts
    DEF ReceiveFails, Rollback, Record, Open, Serving, InFlight, TInv, TypeOK
<1>2. PICK step : pc' = [pc EXCEPT ![r] = step]
    BY DEF ReceiveFails, Rollback, Record, Open, Goto
<1> QED BY <1>1, <1>2, DemandMoves DEF Settling

LEMMA OthersGoOn ==
    ASSUME Regular, NEW r \in Requests, MkdirAll(r) \/ MoveAside(r) \/ Stamp(r) \/ Purge(r)
    PROVE  Demanded' = Demanded
<1>1. TInv /\ RequestsApart /\ r \in Serving /\ slot' = slot /\ force' = force
    BY RegularFacts DEF MkdirAll, MoveAside, Stamp, Purge, Serving, InFlight
<1>2. PICK step \in InFlight : pc' = [pc EXCEPT ![r] = step]
    BY DEF MkdirAll, MoveAside, Stamp, Purge, Goto, InFlight
<1> QED BY <1>1, <1>2, DemandMoves

LEMMA CacheStep ==
    ASSUME Flat, ~EditsRace, Regular, Regular', [Next]_vars
    PROVE  \/ (Same \/ Removal \/ Editing) /\ Demanded' = Demanded
           \/ Same /\ (Demanding \/ Settling)
           \/ \E s \in Slots : /\ s \in Edited => s \in Demanded
                               /\ Present' = Present \cup {s} /\ Edited' = Edited \ {s}
                               /\ Demanded' = Demanded
<1> DEFINE Shown == \/ (Same \/ Removal \/ Editing) /\ Demanded' = Demanded
                    \/ Same /\ (Demanding \/ Settling)
                    \/ \E s \in Slots : /\ s \in Edited => s \in Demanded
                                        /\ Present' = Present \cup {s} /\ Edited' = Edited \ {s}
                                        /\ Demanded' = Demanded
<1>a. TInv
    BY RegularFacts
<1>b. ASSUME UNCHANGED request PROVE Demanded' = Demanded
    BY <1>b DEF Demanded, Serving, request
<1>1. ASSUME NEW r \in Requests, NEW s \in Slots, NEW forced \in BOOLEAN, Guard(r, s, forced)
      PROVE  Shown
    BY <1>1, GuardDemands
<1>2. ASSUME NEW r \in Requests, ReceiveFails(r) \/ Record(r) \/ Open(r) PROVE Shown
    <2>1. ASSUME NEW q \in Requests, Swaps(q) PROVE FALSE
        BY <1>a, <1>2, <2>1 DEF ReceiveFails, Record, Open, Swaps, MoveAside, Swap, Rollback,
                                Goto, TInv, TypeOK
    <2>2. Same
        BY <1>2, <2>1, QuietStep DEF ReceiveFails, Record, Open
    <2> QED BY <1>2, <2>2, EndSettles
<1>3. ASSUME NEW r \in Requests, MkdirAll(r) PROVE Shown
    BY <1>3, MkdirAllShowsNothing, OthersGoOn
<1>4. ASSUME NEW r \in Requests, MoveAside(r) PROVE Shown
    BY <1>4, MoveAsideShowsNothing, OthersGoOn
<1>5. ASSUME NEW r \in Requests, Swap(r) PROVE Shown
    BY <1>5, SwapReplaces
<1>6. ASSUME NEW r \in Requests, Rollback(r) PROVE Shown
    BY <1>6, RollbackShowsNothing, EndSettles
<1>7. ASSUME NEW r \in Requests, Stamp(r) \/ Purge(r) PROVE Shown
    <2>1. ASSUME NEW q \in Requests, Swaps(q) PROVE FALSE
        BY <1>a, <1>7, <2>1 DEF Stamp, Purge, Swaps, MoveAside, Swap, Rollback, Goto, TInv, TypeOK
    <2>2. Same
        BY <1>7, <2>1, QuietStep DEF Stamp, Purge
    <2> QED BY <1>7, <2>2, OthersGoOn
<1>8. ASSUME disk' = disk, pc' = pc, slot' = slot, force' = force PROVE Shown
    <2>1. ASSUME NEW q \in Requests, Swaps(q) PROVE FALSE
        BY <1>a, <1>8, <2>1 DEF Swaps, MoveAside, Swap, Rollback, Goto, TInv, TypeOK
    <2>2. Demanded' = Demanded
        BY <1>8 DEF Demanded, Serving
    <2> QED BY <1>8, <2>1, <2>2, QuietStep
<1>9. ASSUME GCStart \/ GCForget \/ GCEnd \/ UNCHANGED vars PROVE Shown
    BY <1>8, <1>9 DEF GCStart, GCForget, GCEnd, vars, request
<1>10. ASSUME NEW s \in Slots, GCSkip(s) \/ GCGone(s) \/ GCPick(s) PROVE Shown
    BY <1>8, <1>10 DEF GCSkip, GCGone, GCPick, request
<1>11. ASSUME GCRemove PROVE Shown
    BY <1>11, <1>b, GCRemoveRemoves DEF GCRemove
<1>12. ASSUME NEW d \in Dirs, GCPrune(d) PROVE Shown
    BY <1>12, <1>b, GCPruneRemoves DEF GCPrune
<1>13. ASSUME NEW p \in Files, NEW e \in Edits, UserEdits(p, e) PROVE Shown
    BY <1>13, <1>b, UserEditsACopy DEF UserEdits
<1>14. ASSUME NEW s \in Slots, UserDeletes(s) PROVE Shown
    BY <1>14, <1>b, UserDeletesACopy DEF UserDeletes
<1>15. ASSUME Crash PROVE FALSE
    BY <1>15, RegularFacts, RegularViews DEF Crash, Uncrashed
<1> QED
    BY <1>1, <1>2, <1>3, <1>4, <1>5, <1>6, <1>7, <1>9, <1>10, <1>11, <1>12, <1>13, <1>14, <1>15
    DEF Next, Handle, GC, User

(***************************************************************************)
(* The mirror does what the package comment promises: re-opening a path    *)
(* replaces its copy in one step, a copy the user edited is replaced only  *)
(* by a request that sets force and is never evicted.  (For slots none of  *)
(* which is inside another, with GC not overlapping requests, no edit      *)
(* between check and act, and no crash; renames and saves may fail.)       *)
(***************************************************************************)
THEOREM MirrorIsACache ==
    ASSUME Flat, ~EditsRace
    PROVE  Spec /\ [](Orderly /\ Uncrashed) => ImplementsCache
<1>1. Init => Cache!Init
    <2>1. ASSUME Init PROVE \A s \in Slots : \A p \in AtOrBelow(s) : View(p) = Absent
        BY <2>1, LayoutAssumption, PathsBelow DEF Init, View, AtOrBelow
    <2>2. ASSUME Init PROVE Present = {} /\ Edited = {} /\ Demanded = {}
        BY <2>1, <2>2, StampAssumption
        DEF Init, Present, Edited, Demanded, Serving, InFlight, AtOrBelow, Stamps
    <2> QED BY <2>2 DEF Cache!Init, Present, Edited, Demanded
<1>2. Regular /\ Regular' /\ [Next]_vars => [Cache!Next]_(Cache!vars)
    <2> SUFFICES ASSUME Regular, Regular', [Next]_vars PROVE Cache!Next \/ UNCHANGED Cache!vars
        OBVIOUS
    <2>1. ASSUME Same, Demanded' = Demanded PROVE UNCHANGED Cache!vars
        BY <2>1 DEF Same, Cache!vars, Present, Edited, Demanded
    <2>2. ASSUME Removal, Demanded' = Demanded PROVE Cache!Next
        BY <2>2 DEF Removal, Cache!Next, Cache!Remove, Present, Edited, Demanded
    <2>3. ASSUME Editing, Demanded' = Demanded PROVE Cache!Next
        BY <2>3 DEF Editing, Cache!Next, Cache!Edit, Present, Edited, Demanded
    <2>4. ASSUME Same, Demanding PROVE Cache!Next
        BY <2>4 DEF Same, Demanding, Cache!Next, Cache!Demand, Present, Edited, Demanded
    <2>5. ASSUME Same, Settling PROVE Cache!Next
        BY <2>5 DEF Same, Settling, Cache!Next, Cache!Settle, Present, Edited, Demanded
    <2>6. ASSUME NEW s \in Slots, s \in Edited => s \in Demanded, Present' = Present \cup {s},
                 Edited' = Edited \ {s}, Demanded' = Demanded
          PROVE  Cache!Next
        BY <2>6 DEF Cache!Next, Cache!Replace, Present, Edited, Demanded
    <2> QED BY <2>1, <2>2, <2>3, <2>4, <2>5, <2>6, CacheStep
<1> QED BY <1>1, <1>2, FlatInvariance, PTL DEF Spec, ImplementsCache, Cache!Spec, Regular

-----------------------------------------------------------------------------
(***************************************************************************)
(* The conditions above as conditions on the constants: a daemon that is   *)
(* not killed and serves slots none of which is inside another, or serves  *)
(* one request at a time, and whose GC does not overlap requests.          *)
(***************************************************************************)
LEMMA NeverKilled ==
    ASSUME MaxCrashes = 0
    PROVE  Spec => []Uncrashed
<1>1. Init => Uncrashed
    BY DEF Init, Uncrashed
<1>2. Uncrashed /\ [Next]_vars => Uncrashed'
    <2> SUFFICES ASSUME Uncrashed, [Next]_vars, crashes' # crashes PROVE FALSE
        BY DEF Uncrashed
    <2>1. ASSUME NEW r \in Requests, Handle(r) PROVE FALSE
        BY <2>1 DEF Handle, Guard, ReceiveFails, MkdirAll, MoveAside, Swap, Rollback, Stamp,
                    Purge, Record, Open
    <2>2. ASSUME NEW s \in Slots, GCSkip(s) \/ GCGone(s) \/ GCPick(s) PROVE FALSE
        BY <2>2 DEF GCSkip, GCGone, GCPick
    <2>3. ASSUME NEW d \in Dirs, GCPrune(d) PROVE FALSE
        BY <2>3 DEF GCPrune
    <2>4. ASSUME GCStart \/ GCRemove \/ GCForget \/ GCEnd PROVE FALSE
        BY <2>4 DEF GCStart, GCRemove, GCForget, GCEnd
    <2>5. ASSUME User PROVE FALSE
        BY <2>5 DEF User, UserEdits, UserDeletes
    <2>6. ASSUME Crash PROVE FALSE
        BY <2>6 DEF Crash, Uncrashed
    <2> QED BY <2>1, <2>2, <2>3, <2>4, <2>5, <2>6 DEF Next, GC, vars
<1> QED BY <1>1, <1>2, PTL DEF Spec

(***************************************************************************)
(* A flat mirror: any number of requests at a time, renames and saves that *)
(* may fail.  It is a cache, tracks every copy and lets go of an edit only *)
(* when forced.                                                            *)
(***************************************************************************)
THEOREM FlatMirror ==
    ASSUME Flat, ~EditsRace, ~GCOverlaps, MaxCrashes = 0
    PROVE  Spec => ImplementsCache /\ []EveryCopyTracked /\ EditsNeedForce
BY FlatIsOrderly, NeverKilled, MirrorIsACache, CopiesAreTracked, OnlyForceDropsEdits, PTL

(***************************************************************************)
(* A flat mirror at its worst: any number of requests at a time, GC at any *)
(* moment, crashes, renames and saves that fail.  The guard sees every     *)
(* edit, GC removes none, and what has an entry is protected.              *)
(***************************************************************************)
THEOREM FlatMirrorKeepsEdits ==
    ASSUME Flat, ~EditsRace
    PROVE  Spec => []EditsAreVisible /\ GCKeepsEdits /\ EntryGuardsEdits
<1>1. RequestsApart => Calm
    BY DEF Calm
<1> QED BY <1>1, FlatKeepsApart, GuardSeesEdits, EvictionSparesEdits, EntriesProtectEdits, PTL

(***************************************************************************)
(* The same of nested slots, served one at a time, when renames do not     *)
(* fail by themselves.                                                     *)
(***************************************************************************)
THEOREM NestedMirrorKeepsEdits ==
    ASSUME MaxInFlight = 1, ~EditsRace, ~RenameFails
    PROVE  Spec => []EditsAreVisible /\ GCKeepsEdits /\ EntryGuardsEdits
<1>1. Calm
    BY DEF Calm
<1> QED BY <1>1, TurnsKeepApart, GuardSeesEdits, EvictionSparesEdits, EntriesProtectEdits, PTL

(***************************************************************************)
(* Nested slots, one request at a time, any number of crashes: a failure   *)
(* returns the copy, the viewer gets the request's own, file and directory *)
(* entries stay apart, the guard sees every edit, GC removes none and      *)
(* entries protect them.                                                   *)
(***************************************************************************)
THEOREM NestedMirror ==
    ASSUME MaxInFlight = 1, ~EditsRace, ~GCOverlaps
    PROVE  Spec => /\ [](NoStrandedCopy /\ OpensOwnCopy /\ FileAndDirNeverOverlap /\ EditsAreVisible)
                   /\ GCKeepsEdits /\ EntryGuardsEdits
<1>1. Orderly => Calm /\ RequestsApart
    BY DEF Orderly, Calm
<1> QED BY <1>1, TurnsAreOrderly, FailureReturnsTheCopy, OpensWhatItDelivered,
           EntriesStayDisjoint, GuardSeesEdits, EvictionSparesEdits, EntriesProtectEdits, PTL

(***************************************************************************)
(* Flat slots with no directory inside a slot: there is nothing to prune   *)
(* in a mirrored directory, and only edits are a reason to refuse.         *)
(***************************************************************************)
THEOREM ShallowMirror ==
    ASSUME Flat, \A s \in Slots : Below(s) \cap Dirs = {}, MaxCrashes = 0
    PROVE  Spec => RefusalMeansEdit
<1>1. NoHollowDirs
    BY DEF NoHollowDirs, EmptyDirs
<1> QED BY <1>1, NeverKilled, RefusedForEditsOnly, PTL
-----------------------------------------------------------------------------
(***************************************************************************)
(* The loop of GC by itself (Retention).  For every number of entries,     *)
(* every assignment of sizes and every cap, a pass removes what is         *)
(* expired, evicts oldest first, stops under the cap and no earlier than   *)
(* it must.  This follows from what the loop has established about the     *)
(* entries it has passed (one that could be removed and was not is neither *)
(* expired nor was the total over the cap when the loop was at it, and the *)
(* total never grows) and from what the running total stands for: the      *)
(* bytes of the entries not removed.                                       *)
(***************************************************************************)
PassedOver ==
    \A i \in Left :
        (phase = "evicting" /\ i < next /\ kind[i] \in {"plain", "gone"}) =>
            ~IsExpired(i) /\ total <= cap

GoneIsPassed ==
    /\ phase = "summing" => removed = {} /\ dropped = {}
    /\ \A i \in removed \cup dropped : i < next

LoopInv == LoopTypeOK /\ PassedOver /\ GoneIsPassed /\ OldestFirst

LEMMA SizesAreNat == LoopTypeOK => /\ \A i \in Rank : size[i] \in Nat
                               /\ cap \in Nat
  BY RetentionAssumption DEF LoopTypeOK

LEMMA LoopInitially == LoopInit => LoopInv
  BY RetentionAssumption DEF LoopInit, LoopInv, LoopTypeOK, PassedOver, GoneIsPassed,
                             OldestFirst, Rank

LEMMA LoopInductive == LoopInv /\ [LoopNext]_loopVars => LoopInv'
  <1> SUFFICES ASSUME LoopInv, [LoopNext]_loopVars PROVE LoopInv'
    OBVIOUS
  <1> USE RetentionAssumption, SizesAreNat
      DEF LoopInv, LoopTypeOK, PassedOver, GoneIsPassed, OldestFirst, Left, IsExpired,
          Rank, Due, At, Advance, input
  <1>1. CASE Sum
    <2>1. size[next] \in Nat
      BY <1>1 DEF Sum
    <2>2. LoopTypeOK'
      BY <1>1, <2>1 DEF Sum
    <2> QED BY <1>1, <2>2 DEF Sum
  <1>2. CASE Sort
    BY <1>2 DEF Sort
  <1>3. CASE Pass
    BY <1>3 DEF Pass
  <1>4. CASE Keep
    BY <1>4 DEF Keep
  <1>5. CASE DropGone
    <2>1. LoopTypeOK' /\ GoneIsPassed'
      BY <1>5 DEF DropGone
    <2>2. PassedOver'
      BY <1>5 DEF DropGone
    <2>3. OldestFirst'
      BY <1>5 DEF DropGone
    <2> QED BY <2>1, <2>2, <2>3
  <1>6. CASE Evict
    <2>0. size[next] \in Nat
      BY <1>6 DEF Evict
    <2>1. LoopTypeOK' /\ GoneIsPassed'
      BY <1>6, <2>0 DEF Evict
    <2>2. PassedOver'
      BY <1>6 DEF Evict
    <2>3. OldestFirst'
      BY <1>6 DEF Evict
    <2> QED BY <2>1, <2>2, <2>3
  <1>7. CASE UNCHANGED loopVars
    BY <1>7 DEF loopVars
  <1> QED BY <1>1, <1>2, <1>3, <1>4, <1>5, <1>6, <1>7 DEF LoopNext

LEMMA LoopInvariance == LoopSpec => []LoopInv
  BY LoopInitially, LoopInductive, PTL DEF LoopSpec

(***************************************************************************)
(* Types, for any index and cap.                                           *)
(***************************************************************************)
THEOREM LoopTyping == LoopSpec => []LoopTypeOK
  BY LoopInvariance, PTL DEF LoopInv

(***************************************************************************)
(* An entry evicted before its time leaves no removable entry behind that  *)
(* was used less recently.                                                 *)
(***************************************************************************)
THEOREM EvictsOldestFirst == LoopSpec => []OldestFirst
  BY LoopInvariance, PTL DEF LoopInv

(***************************************************************************)
(* Every expired entry that may be removed is gone after the pass.         *)
(***************************************************************************)
THEOREM EvictsExpired == LoopSpec => []ExpiredAreGone
  <1>1. LoopInv => ExpiredAreGone
    BY RetentionAssumption DEF LoopInv, LoopTypeOK, PassedOver, ExpiredAreGone, Done, Left, Rank
  <1> QED BY <1>1, LoopInvariance, PTL

-----------------------------------------------------------------------------
(***************************************************************************)
(* The running total.                                                      *)
(***************************************************************************)
Counted ==
    /\ phase = "summing" => /\ IsFiniteSet(BytesOf(1 .. next - 1))
                            /\ total = Bytes(1 .. next - 1)
    /\ phase = "evicting" => /\ IsFiniteSet(BytesOf(Rank))
                             /\ total = Bytes(Rank \ removed)

LEMMA OneMore ==
  ASSUME LoopTypeOK, NEW S \in SUBSET Rank, IsFiniteSet(BytesOf(S)), NEW i \in Rank \ S
  PROVE  /\ IsFiniteSet(BytesOf(S \cup {i}))
         /\ Bytes(S \cup {i}) = Bytes(S) + size[i]
  <1> DEFINE own == {i} \X (1 .. size[i])
  <1>1. IsFiniteSet(own) /\ Cardinality(own) = size[i]
    <2>1. size[i] \in Nat
      BY SizesAreNat
    <2>2. IsFiniteSet(1 .. size[i]) /\ Cardinality(1 .. size[i]) = size[i]
      <3>1. \A n \in Nat : /\ IsFiniteSet(1 .. n)
                           /\ Cardinality(1 .. n) = IF 1 > n THEN 0 ELSE n - 1 + 1
        BY FS_Interval
      <3>2. \A n \in Nat : (IF 1 > n THEN 0 ELSE n - 1 + 1) = n
        OBVIOUS
      <3> QED BY <2>1, <3>1, <3>2
    <2>3. IsFiniteSet({i}) /\ Cardinality({i}) = 1
      BY FS_Singleton
    <2>4. /\ IsFiniteSet(own)
          /\ Cardinality(own) = Cardinality({i}) * Cardinality(1 .. size[i])
      BY <2>2, <2>3, FS_Product, Zenon
    <2>5. Cardinality({i}) * Cardinality(1 .. size[i]) = size[i]
      BY <2>1, <2>2, <2>3
    <2> QED BY <2>4, <2>5
  <1>2. BytesOf(S \cup {i}) = BytesOf(S) \cup own
    BY DEF BytesOf
  <1>3. BytesOf(S) \cap own = {}
    BY DEF BytesOf
  <1>4. Cardinality({}) = 0
    BY FS_EmptySet
  <1>5. Cardinality(BytesOf(S)) \in Nat /\ size[i] \in Nat
    BY FS_CardinalityType, SizesAreNat
  <1> HIDE DEF own
  <1>6. /\ IsFiniteSet(BytesOf(S) \cup own)
        /\ Cardinality(BytesOf(S) \cup own) =
             Cardinality(BytesOf(S)) + Cardinality(own) - Cardinality(BytesOf(S) \cap own)
    BY <1>1, FS_Union
  <1>7. Cardinality(BytesOf(S) \cap own) = 0
    BY <1>3, <1>4, Zenon
  <1>8. Cardinality(BytesOf(S) \cup own) = Cardinality(BytesOf(S)) + size[i]
    BY <1>1, <1>5, <1>6, <1>7
  <1> QED BY <1>2, <1>6, <1>8 DEF Bytes

\* Entries own no more bytes than all of them do.
LEMMA Fewer ==
  ASSUME NEW S \in SUBSET Rank, NEW R \in SUBSET S, IsFiniteSet(BytesOf(Rank))
  PROVE  /\ IsFiniteSet(BytesOf(S)) /\ IsFiniteSet(BytesOf(R))
         /\ Bytes(R) \in Nat /\ Bytes(S) \in Nat /\ Bytes(R) <= Bytes(S)
  <1>1. BytesOf(S) \in SUBSET BytesOf(Rank) /\ BytesOf(R) \in SUBSET BytesOf(S)
    BY DEF BytesOf
  <1>2. IsFiniteSet(BytesOf(S))
    BY <1>1, FS_Subset
  <1>3. IsFiniteSet(BytesOf(R)) /\ Cardinality(BytesOf(R)) <= Cardinality(BytesOf(S))
    BY <1>1, <1>2, FS_Subset
  <1> QED BY <1>2, <1>3, FS_CardinalityType DEF Bytes

LEMMA CountedInit == LoopInit => Counted
  <1>1. BytesOf({}) = {}
    BY DEF BytesOf
  <1>2. 1 .. 1 - 1 = {}
    OBVIOUS
  <1> QED BY <1>1, <1>2, FS_EmptySet DEF LoopInit, Counted, Bytes

LEMMA CountedStep == LoopTypeOK /\ GoneIsPassed /\ Counted /\ [LoopNext]_loopVars => Counted'
  <1> SUFFICES ASSUME LoopTypeOK, GoneIsPassed, Counted, [LoopNext]_loopVars PROVE Counted'
    OBVIOUS
  <1>0. next \in Nat /\ N \in Nat /\ removed \subseteq Rank
    BY RetentionAssumption DEF LoopTypeOK
  <1>a. ASSUME size' = size PROVE \A S : BytesOf(S)' = BytesOf(S) /\ Bytes(S)' = Bytes(S)
    BY <1>a DEF BytesOf, Bytes
  <1>1. CASE Sum
    <2>1. /\ 1 .. next - 1 \in SUBSET Rank /\ next \in Rank \ (1 .. next - 1)
          /\ (1 .. next - 1) \cup {next} = 1 .. next' - 1
      BY <1>0, <1>1 DEF Sum, Rank
    <2>2. phase = "summing" /\ phase' = "summing" /\ total' = total + size[next] /\ size' = size
      BY <1>1 DEF Sum, input
    <2>3. /\ IsFiniteSet(BytesOf(1 .. next' - 1))
          /\ total' = Bytes(1 .. next' - 1)
      BY <2>1, <2>2, OneMore DEF Counted
    <2> QED BY <1>a, <2>2, <2>3 DEF Counted
  <1>2. CASE Sort
    <2>1. /\ phase = "summing" /\ next = N + 1 /\ phase' = "evicting" /\ size' = size
          /\ removed' = removed /\ total' = total
      BY <1>2 DEF Sort, input
    <2>2. 1 .. next - 1 = Rank /\ removed = {}
      BY <1>0, <2>1 DEF Rank, GoneIsPassed
    <2> QED BY <1>a, <2>1, <2>2 DEF Counted
  <1>3. ASSUME UNCHANGED <<size, phase, total, removed>>, phase = "evicting" PROVE Counted'
    BY <1>a, <1>3 DEF Counted
  <1>4. CASE Pass \/ Keep \/ DropGone
    BY <1>3, <1>4 DEF Pass, Keep, DropGone, At, Advance, input
  <1>5. CASE Evict
    <2>1. /\ phase = "evicting" /\ phase' = "evicting" /\ next \in Rank /\ size' = size
          /\ removed' = removed \cup {next} /\ total' = total - size[next]
      BY <1>5 DEF Evict, At, Advance, input
    <2>2. next \notin removed
      BY <1>0 DEF GoneIsPassed
    <2>3. /\ Rank \ removed' \in SUBSET Rank /\ next \in Rank \ (Rank \ removed')
          /\ (Rank \ removed') \cup {next} = Rank \ removed
      BY <2>1, <2>2
    <2>4. IsFiniteSet(BytesOf(Rank \ removed')) /\ Bytes(Rank \ removed') \in Nat
      BY <2>1, <2>3, Fewer DEF Counted
    <2>5. Bytes(Rank \ removed) = Bytes(Rank \ removed') + size[next]
      BY <2>3, <2>4, OneMore
    <2>6. total' = Bytes(Rank \ removed')
      BY <2>1, <2>4, <2>5, SizesAreNat DEF Counted
    <2> QED BY <1>a, <2>1, <2>6 DEF Counted
  <1>6. CASE UNCHANGED loopVars
    BY <1>a, <1>6 DEF Counted, loopVars, input
  <1> QED BY <1>1, <1>2, <1>4, <1>5, <1>6 DEF LoopNext

LEMMA Counting == LoopSpec => [](LoopInv /\ Counted)
  BY LoopInvariance, CountedInit, CountedStep, PTL DEF LoopSpec, LoopInv

(***************************************************************************)
(* A pass leaves the recorded bytes at or under the cap unless all that is *)
(* left may not be removed.                                                *)
(***************************************************************************)
THEOREM StopsUnderCap == LoopSpec => []UnderCapUnlessProtected
  <1>1. LoopInv /\ Counted => UnderCapUnlessProtected
    <2> SUFFICES ASSUME LoopInv, Counted, Done, NEW i \in Left, kind[i] \in {"plain", "gone"}
                 PROVE  Bytes(Left) <= cap
      BY DEF UnderCapUnlessProtected
    <2>1. total <= cap
      BY RetentionAssumption DEF LoopInv, LoopTypeOK, PassedOver, Done, Left, Rank
    <2>2. Left \in SUBSET (Rank \ removed) /\ Rank \ removed \in SUBSET Rank
      BY DEF Left
    <2>3. /\ Bytes(Left) \in Nat /\ Bytes(Rank \ removed) \in Nat
          /\ Bytes(Left) <= Bytes(Rank \ removed)
      BY <2>2, Fewer DEF Counted, Done
    <2>4. total = Bytes(Rank \ removed) /\ cap \in Nat
      BY SizesAreNat DEF Counted, Done, LoopInv
    <2> QED BY <2>1, <2>3, <2>4
  <1> QED BY <1>1, Counting, PTL

(***************************************************************************)
(* An entry goes before its time only while the entries the loop counts    *)
(* are over the cap.                                                       *)
(***************************************************************************)
THEOREM CapCostsNoMore == LoopSpec => EvictsOnlyOverCap
  <1>1. Counted /\ [LoopNext]_loopVars =>
          [\A i \in removed' \ removed : IsExpired(i) \/ Bytes(Rank \ removed) > cap]_loopVars
    <2> SUFFICES ASSUME Counted, LoopNext, NEW i \in removed' \ removed, ~IsExpired(i)
                 PROVE  Bytes(Rank \ removed) > cap
      BY DEF loopVars
    <2>1. Evict
      BY DEF LoopNext, Sum, Sort, Pass, Keep, DropGone
    <2>2. i = next /\ total > cap /\ phase = "evicting"
      BY <2>1 DEF Evict, Due, At
    <2> QED BY <2>2 DEF Counted
  <1> QED BY <1>1, Counting, PTL DEF LoopSpec, EvictsOnlyOverCap
=============================================================================
