------------------------------- MODULE Mirror -------------------------------
(***************************************************************************)
(* The mirror tree and its index: the part of Server.handle that holds the *)
(* slot lock (internal/daemon/server.go), Mirror.CheckOverwrite, Promote   *)
(* and GC (internal/mirror/mirror.go) and the index they keep              *)
(* (internal/index/index.go), run against each other, the local user and   *)
(* crashes of the daemon.                                                  *)
(*                                                                         *)
(* Every path on disk carries a stamp in place of its size and mtime: the  *)
(* request that delivered it, the user's edit that last wrote it, or Made  *)
(* for a directory the daemon created to hold a copy.  The tree below a    *)
(* slot is the function from its paths to their stamps, which is also what *)
(* the size+mtime fingerprint of the index distinguishes, as long as edits *)
(* are further apart than the 2 seconds of slack in LocallyModified.       *)
(***************************************************************************)
EXTENDS Naturals, FiniteSets

CONSTANTS
    Files, Dirs,    \* the paths of the mirror, by kind
    Within,         \* the pairs <<p, d>> of a path p strictly inside directory d
    Slots,          \* the paths a request can name
    Requests,       \* the requests, each made once
    Edits,          \* the user's edits, each made once
    Made, Absent,   \* the stamp of a bare directory; no such path on disk
    NoTree, NoSlot, \* nil values
    MaxInFlight,    \* maxConcurrentRequests
    MaxGCRuns,      \* bound: how often GC runs
    MaxCrashes,     \* bound: how often the daemon is killed
    RenameFails,    \* whether the rename that installs a copy may fail on its own
    SavesFail,      \* whether index.json may fail to be written
    GCOverlaps,     \* whether GC may run while requests are served
    EditsRace       \* whether the user may edit what a request is replacing or
                    \* GC is removing, between the check and the act

Paths == Files \cup Dirs
Stamps == Requests \cup Edits \cup {Made}

ASSUME LayoutAssumption ==
    /\ Files \cap Dirs = {}
    /\ Slots \subseteq Paths
    /\ Within \subseteq Paths \X Dirs
    /\ \A p, q, d \in Paths : <<p, q>> \in Within /\ <<q, d>> \in Within => <<p, d>> \in Within
    /\ \A p, d, e \in Paths : <<p, d>> \in Within /\ <<p, e>> \in Within =>
         d = e \/ <<d, e>> \in Within \/ <<e, d>> \in Within
    /\ \A p \in Paths : <<p, p>> \notin Within
ASSUME StampAssumption ==
    /\ Absent \notin Stamps
    /\ Requests \cap Edits = {}
    /\ Made \notin Requests \cup Edits
    /\ NoSlot \notin Slots
    /\ NoTree \notin UNION {[S -> Stamps \cup {Absent}] : S \in SUBSET Paths}

Tops(s) == {d \in Dirs : <<s, d>> \in Within}
Below(s) == {p \in Paths : <<p, s>> \in Within}
AtOrBelow(s) == {s} \cup Below(s)
Overlap(s, t) == AtOrBelow(s) \cap AtOrBelow(t) # {}

Trees(s) == [AtOrBelow(s) -> Stamps \cup {Absent}]

VARIABLES
    disk,       \* the stamp of every path under Mirror.Root, Absent if none
    index,      \* Index.Entries: the recorded tree of a slot, NoTree if no entry
    saved,      \* the same in index.json
    pc,         \* where each request is in handle
    slot,       \* the slot (rel) of each request
    force,      \* whether the request sets force
    aside,      \* the old copy a request moved into .staging, NoTree if none
    print,      \* the tree a request fingerprinted and will record
    gc,         \* the garbage collector: step, entries left, entry at hand, runs
    drafts,     \* the edits the user has not made yet
    crashes     \* how often the daemon was killed

request == <<pc, slot, force, aside, print>>
stored == <<index, saved>>
vars == <<disk, stored, request, gc, drafts, crashes>>

Init ==
    /\ disk = [p \in Paths |-> Absent]
    /\ index = [s \in Slots |-> NoTree]
    /\ saved = index
    /\ pc = [r \in Requests |-> "new"]
    /\ slot = [r \in Requests |-> NoSlot]
    /\ force = [r \in Requests |-> FALSE]
    /\ aside = [r \in Requests |-> NoTree]
    /\ print = [r \in Requests |-> NoTree]
    /\ gc = [step |-> "idle", todo |-> {}, seen |-> index, at |-> NoSlot, runs |-> 0]
    /\ drafts = Edits
    /\ crashes = 0
-----------------------------------------------------------------------------
Exists(p) == disk[p] # Absent
Tree(s) == [p \in AtOrBelow(s) |-> disk[p]]
DiskWith(tree) == [p \in Paths |-> IF p \in DOMAIN tree THEN tree[p] ELSE disk[p]]
DiskWithout(s) == [p \in Paths |-> IF p \in AtOrBelow(s) THEN Absent ELSE disk[p]]

\* Mutants of LocallyModified: only the slot's own stamp is compared, as if an
\* edit inside a directory moved the directory's mtime; a missing copy counts.
ModifiedAtTheTop(s, recorded) == Exists(s) /\ disk[s] # recorded[s]
ModifiedOrGone(s, recorded) == Tree(s) # recorded

\* Entry.LocallyModified: a missing copy has nothing local to lose.
LocallyModified(s, recorded) == Exists(s) /\ Tree(s) # recorded

Entries == {s \in Slots : index[s] # NoTree}

InFlight == {"receiving", "placing", "swapping", "stamping", "purging", "recording", "opening"}
Serving == {r \in Requests : pc[r] \in InFlight}

Goto(r, step) == pc' = [pc EXCEPT ![r] = step]

\* Index.save, as one critical section with the change of the entries.  Only
\* Record reports that it failed.
Save == saved' = index' \/ (SavesFail /\ saved' = saved)
-----------------------------------------------------------------------------
(* A request: handle from the slot lock on.                                *)

\* CheckOverwrite looks at every entry at or below the slot.
Refused(s, forced) ==
    ~forced /\ \E q \in Entries \cap AtOrBelow(s) : LocallyModified(q, index[q])

\* Mutant of Guard: the slot lock is not taken.
GuardUnlocked(r, s, forced) ==
    /\ pc[r] = "new"
    /\ Cardinality(Serving) < MaxInFlight
    /\ gc.step = "idle" \/ GCOverlaps
    /\ slot' = [slot EXCEPT ![r] = s]
    /\ force' = [force EXCEPT ![r] = forced]
    /\ Goto(r, IF Refused(s, forced) THEN "refused" ELSE "receiving")
    /\ UNCHANGED <<disk, stored, aside, print, gc, drafts, crashes>>

\* An authenticated request gets the lock of its slot and passes or fails the
\* overwrite guard.
Guard(r, s, forced) ==
    /\ pc[r] = "new"
    /\ Cardinality(Serving) < MaxInFlight
    /\ \A q \in Serving : slot[q] # s
    /\ gc.step = "idle" \/ GCOverlaps
    /\ slot' = [slot EXCEPT ![r] = s]
    /\ force' = [force EXCEPT ![r] = forced]
    /\ Goto(r, IF Refused(s, forced) THEN "refused" ELSE "receiving")
    /\ UNCHANGED <<disk, stored, aside, print, gc, drafts, crashes>>

\* receiveInline or pull fails: nothing but the staging directory was touched.
ReceiveFails(r) ==
    /\ pc[r] = "receiving"
    /\ Goto(r, "failed")
    /\ UNCHANGED <<disk, stored, slot, force, aside, print, gc, drafts, crashes>>

\* The payload is staged; Promote makes the directories above the slot.
MkdirAll(r) ==
    /\ pc[r] = "receiving"
    /\ disk' = [p \in Paths |-> IF p \in Tops(slot[r]) /\ ~Exists(p) THEN Made ELSE disk[p]]
    /\ Goto(r, "placing")
    /\ UNCHANGED <<stored, slot, force, aside, print, gc, drafts, crashes>>

\* The first rename: the old copy goes into .staging.
MoveAside(r) ==
    /\ pc[r] = "placing"
    /\ IF Exists(slot[r])
         THEN /\ aside' = [aside EXCEPT ![r] = Tree(slot[r])]
              /\ disk' = DiskWithout(slot[r])
         ELSE UNCHANGED <<aside, disk>>
    /\ Goto(r, "swapping")
    /\ UNCHANGED <<stored, slot, force, print, gc, drafts, crashes>>

\* os.Rename needs the parent directories, and no directory in the way of a
\* directory.
CanRename(s) ==
    /\ \A d \in Tops(s) : Exists(d)
    /\ s \in Dirs => ~Exists(s)

\* What request r can deliver for slot s: the file, or a directory with any
\* tree below it.
Payloads(r, s) ==
    {t \in [AtOrBelow(s) -> {r, Absent}] :
        /\ t[s] = r
        /\ \A p \in AtOrBelow(s) : t[p] = r => \A d \in Tops(p) \cap AtOrBelow(s) : t[d] = r}

\* The second rename installs the staged copy.
Swap(r) ==
    /\ pc[r] = "swapping"
    /\ CanRename(slot[r])
    /\ \E t \in Payloads(r, slot[r]) : disk' = DiskWith(t)
    /\ Goto(r, "stamping")
    /\ UNCHANGED <<stored, slot, force, aside, print, gc, drafts, crashes>>

\* Mutant of Rollback: the old copy is not renamed back.
RollbackNever(r) ==
    /\ pc[r] = "swapping"
    /\ RenameFails \/ ~CanRename(slot[r])
    /\ Goto(r, "failed")
    /\ UNCHANGED <<disk, stored, slot, force, aside, print, gc, drafts, crashes>>

\* It fails: the old copy is renamed back if it can be.
Rollback(r) ==
    /\ pc[r] = "swapping"
    /\ RenameFails \/ ~CanRename(slot[r])
    /\ IF aside[r] # NoTree /\ CanRename(slot[r])
         THEN disk' = DiskWith(aside[r]) /\ aside' = [aside EXCEPT ![r] = NoTree]
         ELSE UNCHANGED <<disk, aside>>
    /\ Goto(r, "failed")
    /\ UNCHANGED <<stored, slot, force, print, gc, drafts, crashes>>

\* The old copy is removed and the new one fingerprinted.
Stamp(r) ==
    /\ pc[r] = "stamping"
    /\ aside' = [aside EXCEPT ![r] = NoTree]
    /\ print' = [print EXCEPT ![r] = Tree(slot[r])]
    /\ Goto(r, "purging")
    /\ UNCHANGED <<disk, stored, slot, force, gc, drafts, crashes>>

\* Mutant of Superseded: a file leaves the entries of its directories alone.
SupersededBelow(s) == Below(s)

\* DeleteDescendantsOf for a directory, DeleteAncestorDirsOf for a file.
Superseded(s) == IF s \in Dirs THEN Below(s) ELSE Tops(s)

Purge(r) ==
    /\ pc[r] = "purging"
    /\ index' = [s \in Slots |-> IF s \in Superseded(slot[r]) THEN NoTree ELSE index[s]]
    /\ IF index' = index THEN UNCHANGED saved ELSE Save
    /\ Goto(r, "recording")
    /\ UNCHANGED <<disk, slot, force, aside, print, gc, drafts, crashes>>

\* Mutant of Record: the tree is fingerprinted when the entry is written, after
\* the user could touch the new copy.
RecordLate(r) ==
    /\ pc[r] = "recording"
    /\ index' = [index EXCEPT ![slot[r]] = Tree(slot[r])]
    /\ saved' = index'
    /\ print' = [print EXCEPT ![r] = NoTree]
    /\ Goto(r, "opening")
    /\ UNCHANGED <<disk, slot, force, aside, gc, drafts, crashes>>

Record(r) ==
    /\ pc[r] = "recording"
    /\ index' = [index EXCEPT ![slot[r]] = print[r]]
    /\ Save
    /\ print' = [print EXCEPT ![r] = NoTree]
    /\ Goto(r, IF saved' = index' THEN "opening" ELSE "failed")
    /\ UNCHANGED <<disk, slot, force, aside, gc, drafts, crashes>>

\* The viewer is started on the slot's path and the entry, if GC has left it,
\* touched; then the slot lock is released.
Open(r) ==
    /\ pc[r] = "opening"
    /\ UNCHANGED index
    /\ \/ Goto(r, "done") /\ IF index[slot[r]] # NoTree THEN Save ELSE UNCHANGED saved
       \/ Goto(r, "failed") /\ UNCHANGED saved
    /\ UNCHANGED <<disk, slot, force, aside, print, gc, drafts, crashes>>
-----------------------------------------------------------------------------
(* Mirror.GC.  Which entries are expired or over the cap is decided in     *)
(* Retention; here any entry may be.                                       *)

\* The entries are copied out of the index; staging leftovers of requests
\* that are over are reaped (they are older than an hour, no live one is).
GCStart ==
    /\ gc.step = "idle"
    /\ gc.runs < MaxGCRuns
    /\ Serving = {} \/ GCOverlaps
    /\ gc' = [gc EXCEPT !.step = "scanning", !.todo = Entries, !.seen = index,
                        !.runs = @ + 1]
    /\ aside' = [r \in Requests |-> IF r \in Serving THEN aside[r] ELSE NoTree]
    /\ UNCHANGED <<disk, stored, pc, slot, force, print, drafts, crashes>>

\* An entry that is neither expired nor over the cap, is pinned, is locally
\* modified or is open in some program is left alone.
GCSkip(s) ==
    /\ gc.step = "scanning"
    /\ s \in gc.todo
    /\ gc' = [gc EXCEPT !.todo = @ \ {s}]
    /\ UNCHANGED <<disk, stored, request, drafts, crashes>>

\* The copy is gone from disk: only the entry is dropped.
GCGone(s) ==
    /\ gc.step = "scanning"
    /\ s \in gc.todo
    /\ ~Exists(s)
    /\ gc' = [gc EXCEPT !.todo = @ \ {s}, !.at = s, !.step = "forgetting"]
    /\ UNCHANGED <<disk, stored, request, drafts, crashes>>

\* Mutant of GCPick: the locally-modified guard is left out.
GCPickUnguarded(s) ==
    /\ gc.step = "scanning"
    /\ s \in gc.todo
    /\ Exists(s)
    /\ gc' = [gc EXCEPT !.todo = @ \ {s}, !.at = s, !.step = "removing"]
    /\ UNCHANGED <<disk, stored, request, drafts, crashes>>

GCPick(s) ==
    /\ gc.step = "scanning"
    /\ s \in gc.todo
    /\ Exists(s)
    /\ ~LocallyModified(s, gc.seen[s])
    /\ gc' = [gc EXCEPT !.todo = @ \ {s}, !.at = s, !.step = "removing"]
    /\ UNCHANGED <<disk, stored, request, drafts, crashes>>

\* Mutant of GCRemove: RemoveAll fails and the entry is dropped all the same.
GCRemoveFails ==
    /\ gc.step = "removing"
    /\ gc' = [gc EXCEPT !.step = "forgetting"]
    /\ UNCHANGED <<disk, stored, request, drafts, crashes>>

\* os.RemoveAll of the copy, after the checks (the last one waits for lsof).
GCRemove ==
    /\ gc.step = "removing"
    /\ disk' = DiskWithout(gc.at)
    /\ gc' = [gc EXCEPT !.step = "forgetting"]
    /\ UNCHANGED <<stored, request, drafts, crashes>>

GCForget ==
    /\ gc.step = "forgetting"
    /\ index' = [index EXCEPT ![gc.at] = NoTree]
    /\ Save
    /\ gc' = [gc EXCEPT !.step = "scanning", !.at = NoSlot]
    /\ UNCHANGED <<disk, request, drafts, crashes>>

EmptyDirs == {d \in Dirs : Exists(d) /\ \A p \in Below(d) : ~Exists(p)}

\* pruneEmptyDirs removes empty directories until there are none left.
GCPrune(d) ==
    /\ gc.step = "scanning"
    /\ gc.todo = {}
    /\ d \in EmptyDirs
    /\ disk' = [disk EXCEPT ![d] = Absent]
    /\ UNCHANGED <<stored, request, gc, drafts, crashes>>

GCEnd ==
    /\ gc.step = "scanning"
    /\ gc.todo = {}
    /\ EmptyDirs = {}
    /\ gc' = [gc EXCEPT !.step = "idle", !.seen = [s \in Slots |-> NoTree]]
    /\ UNCHANGED <<disk, stored, request, drafts, crashes>>
-----------------------------------------------------------------------------
(* The environment: the local user and crashes.                            *)

Unguarded == {"receiving", "placing", "swapping", "stamping"}

\* Between a check of the tree at p and the act that relies on it.
BeingReplaced(p) ==
    \/ \E r \in Requests : pc[r] \in Unguarded /\ Overlap(slot[r], p)
    \/ gc.step = "removing" /\ Overlap(gc.at, p)

UserEdits(p, e) ==
    /\ Exists(p)
    /\ e \in drafts
    /\ EditsRace \/ ~BeingReplaced(p)
    /\ disk' = [disk EXCEPT ![p] = e]
    /\ drafts' = drafts \ {e}
    /\ UNCHANGED <<stored, request, gc, crashes>>

\* The user deletes a copy he has not edited, while no request is serving it.
\* (Deleting a part of a directory's copy is an edit of that copy.)
UserDeletes(s) ==
    /\ Exists(s)
    /\ Tops(s) \cap Slots = {}
    /\ \A p \in AtOrBelow(s) : disk[p] \notin Edits
    /\ \A r \in Serving : ~Overlap(slot[r], s)
    /\ disk' = DiskWithout(s)
    /\ UNCHANGED <<stored, request, gc, drafts, crashes>>

\* The daemon dies and is started again on the same disk and index.json;
\* requests and GC are lost, the asides stay in .staging.
Crash ==
    /\ crashes < MaxCrashes
    /\ Serving # {} \/ gc.step # "idle"
    /\ pc' = [r \in Requests |-> IF r \in Serving THEN "lost" ELSE pc[r]]
    /\ print' = [r \in Requests |-> NoTree]
    /\ gc' = [gc EXCEPT !.step = "idle", !.todo = {}, !.at = NoSlot,
                        !.seen = [s \in Slots |-> NoTree]]
    /\ crashes' = crashes + 1
    /\ index' = saved
    /\ UNCHANGED <<disk, saved, slot, force, aside, drafts>>

Handle(r) ==
    \/ \E s \in Slots, forced \in BOOLEAN : Guard(r, s, forced)
    \/ ReceiveFails(r)
    \/ MkdirAll(r)
    \/ MoveAside(r)
    \/ Swap(r)
    \/ Rollback(r)
    \/ Stamp(r)
    \/ Purge(r)
    \/ Record(r)
    \/ Open(r)

GC ==
    \/ GCStart
    \/ \E s \in Slots : GCSkip(s) \/ GCGone(s) \/ GCPick(s)
    \/ GCRemove
    \/ GCForget
    \/ \E d \in Dirs : GCPrune(d)
    \/ GCEnd

User ==
    \/ \E p \in Files, e \in Edits : UserEdits(p, e)
    \/ \E s \in Slots : UserDeletes(s)

Next == (\E r \in Requests : Handle(r)) \/ GC \/ User \/ Crash

Spec == Init /\ [][Next]_vars
-----------------------------------------------------------------------------
TypeOK ==
    /\ disk \in [Paths -> Stamps \cup {Absent}]
    /\ \A s \in Slots : {index[s], saved[s]} \subseteq Trees(s) \cup {NoTree}
    /\ pc \in [Requests -> {"new", "refused", "failed", "done", "lost"} \cup InFlight]
    /\ slot \in [Requests -> Slots \cup {NoSlot}]
    /\ force \in [Requests -> BOOLEAN]
    /\ \A r \in Requests :
        /\ pc[r] = "new" <=> slot[r] = NoSlot
        /\ aside[r] # NoTree => slot[r] # NoSlot /\ aside[r] \in Trees(slot[r])
        /\ print[r] # NoTree <=> pc[r] \in {"purging", "recording"}
        /\ print[r] # NoTree => print[r] \in Trees(slot[r])
    /\ gc.step \in {"idle", "scanning", "removing", "forgetting"}
    /\ gc.todo \subseteq Slots
    /\ gc.step \in {"removing", "forgetting"} <=> gc.at # NoSlot
    /\ gc.at \in Slots \cup {NoSlot}
    /\ drafts \subseteq Edits

Quiescent == Serving = {} /\ gc.step = "idle"

(***************************************************************************)
(* "If the local copy was modified locally since the last sync, the        *)
(* overwrite is refused unless the request sets force.  The same guard     *)
(* protects entries from GC": an edit of the user's disappears from the    *)
(* mirror only by a step of the user or of a forced request.               *)
(***************************************************************************)
Kept(e) ==
    \/ \E p \in Paths : disk[p] = e
    \/ \E r \in Requests : aside[r] # NoTree /\ \E p \in DOMAIN aside[r] : aside[r][p] = e

ByUser == UNCHANGED <<request, gc, crashes, index>>
ByForce == \E r \in Requests : force[r] /\ pc'[r] # pc[r]
ByInner(s) == \E r \in Requests : pc'[r] # pc[r] /\ slot[r] \in Below(s)

EditsNeedForce ==
    [][\A e \in Edits : Kept(e) /\ ~Kept(e)' => ByUser \/ ByForce]_vars

(***************************************************************************)
(* "Locally-modified entries are never evicted": no step of GC removes an  *)
(* edit, whatever entries overlap.                                         *)
(***************************************************************************)
GCKeepsEdits ==
    [][gc' # gc => \A p \in Files : disk[p] \in Edits => disk'[p] = disk[p]]_vars

(***************************************************************************)
(* The same, "per the index": while a slot has an entry, what the user     *)
(* edited in it stays where it is until he, a forced request or a request  *)
(* for a path inside the slot replaces it, through every crash and every   *)
(* pass of GC.                                                             *)
(***************************************************************************)
EntryGuardsEdits ==
    [][\A s \in Entries : \A p \in AtOrBelow(s) :
         disk[p] \in Edits /\ disk'[p] # disk[p] =>
            ByUser \/ ByForce \/ ByInner(s)]_vars

(***************************************************************************)
(* The guard and GC see every edit: no entry records a tree that already   *)
(* contains an edit, so an edited tree always differs from its entry.      *)
(***************************************************************************)
EditsAreVisible ==
    \A s \in Entries : \A p \in AtOrBelow(s) :
        disk[p] \in Edits => LocallyModified(s, index[s])

(***************************************************************************)
(* "One entry per mirrored path": when nothing is going on, every file in  *)
(* the mirror is covered by an entry, so that retention can evict it and   *)
(* the guard can protect it.                                               *)
(***************************************************************************)
EveryCopyTracked ==
    Quiescent => \A p \in Files : Exists(p) => \E s \in Entries : p \in AtOrBelow(s)

(***************************************************************************)
(* DeleteAncestorDirsOf drops the ancestor directory entry "so the two     *)
(* never overlap": a file entry never lies inside a directory entry.       *)
(***************************************************************************)
FileAndDirNeverOverlap ==
    \A f \in Entries \cap Files, d \in Entries \cap Dirs : <<f, d>> \notin Within

(***************************************************************************)
(* A request that fails after it moved the old copy aside puts it back:    *)
(* the user's copy is never left behind in .staging for GC to reap.        *)
(***************************************************************************)
NoStrandedCopy == \A r \in Requests : pc[r] = "failed" => aside[r] = NoTree

(***************************************************************************)
(* The slot lock "serializes stage+promote+open": the viewer is started on *)
(* the copy this request delivered (or the user's edit of it), not on      *)
(* another request's and not on nothing.                                   *)
(***************************************************************************)
OpensOwnCopy ==
    \A r \in Requests : pc[r] = "opening" =>
        /\ disk[slot[r]] \in {r} \cup Edits
        /\ \A p \in Below(slot[r]) : disk[p] \in {r, Absent} \cup Edits

(***************************************************************************)
(* "Local copy has unsaved modifications": a request is refused only when  *)
(* the user has edited something in the slot.                              *)
(***************************************************************************)
RefusalMeansEdit ==
    [][\A r \in Requests : pc'[r] = "refused" /\ pc[r] # "refused" =>
        \E p \in AtOrBelow(slot'[r]) : disk[p] \in Edits]_vars

(***************************************************************************)
(* "Promote atomically moves staged to the mirror slot, replacing whatever *)
(* was there": a crash leaves the old copy or the new one in the slot.     *)
(***************************************************************************)
CrashLeavesACopy ==
    \A r \in Requests : pc[r] = "lost" /\ aside[r] # NoTree => Exists(slot[r])

(***************************************************************************)
(* When no slot lies inside another, the mirror is the cache its package   *)
(* comment describes; the moment between the two renames, when the path is *)
(* missing, is hidden by looking at the copy set aside.                    *)
(***************************************************************************)
View(p) ==
    IF \E r \in Requests : pc[r] = "swapping" /\ aside[r] # NoTree /\ p \in DOMAIN aside[r]
    THEN LET r == CHOOSE r \in Requests :
                    pc[r] = "swapping" /\ aside[r] # NoTree /\ p \in DOMAIN aside[r]
         IN  aside[r][p]
    ELSE disk[p]

Cache == INSTANCE MirrorCache WITH
    present <- {s \in Slots : View(s) # Absent},
    edited <- {s \in Slots : \E p \in AtOrBelow(s) : View(p) \in Edits},
    demanded <- {slot[r] : r \in {q \in Serving : force[q]}}

ImplementsCache == Cache!Spec
=============================================================================
