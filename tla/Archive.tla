------------------------------ MODULE Archive ------------------------------
(***************************************************************************)
(* internal/tarstream: Pack makes an archive of a directory, Unpack        *)
(* extracts one that may hold anything into a fresh directory, one entry   *)
(* at a time, under a budget of bytes and of entries.  Names are sequences *)
(* of components; modes and times are left out, and so is the encoding.    *)
(* Proofs use this module beside Conversation and Pull: its specification  *)
(* is UnpackSpec.                                                          *)
(***************************************************************************)
EXTENDS Integers, FiniteSets, SequencesExt

CONSTANTS
    Names,          \* the names entries can have
    BadNames,       \* those of them that are empty, absolute or hold NUL or a backslash
    FileSizes,      \* the sizes of regular files
    Walk,           \* the paths a packed directory can have, in the order of WalkDir
    MaxLength,      \* how many entries an archive that was not packed here has
    MaxBytes, MaxEntries,
    NoTree

ASSUME ArchiveAssumption ==
    /\ Names \subseteq Seq(STRING) /\ BadNames \subseteq Names /\ FileSizes \subseteq Nat
    /\ MaxLength \in Nat /\ MaxBytes \in Nat /\ MaxEntries \in Nat

VARIABLES
    tree,       \* the directory that was packed, NoTree if the archive is made up
    archive,    \* the entries
    read,       \* how many of them Unpack has dealt with
    disk,       \* what is in the destination: nodes by path
    left,       \* the bytes of the budget that are left
    skipped,
    outcome     \* "none", "ok", "error" or "broken" (the stream ended early)

archiveVars == <<tree, archive, read, disk, left, skipped, outcome>>

Dir == [kind |-> "dir", size |-> 0]
File(n) == [kind |-> "reg", size |-> n]
Link == [kind |-> "link", size |-> 0]     \* and any other kind of node
Nodes == {Dir, Link} \cup {File(n) : n \in FileSizes}

\* The directories a path lies in, the destination (<<>>) included.
Parents(p) == {SubSeq(p, 1, n) : n \in 0..(Len(p) - 1)}

\* WalkDir finds every path once, a directory before what is in it, and spells
\* it without "." and "..".
ASSUME WalkAssumption ==
    /\ Walk \in Seq(Seq(STRING) \ {<<>>}) /\ IsInjective(Walk)
    /\ \A i \in DOMAIN Walk :
        /\ \A k \in DOMAIN Walk[i] : Walk[i][k] \notin {".", ".."}
        /\ \A j \in DOMAIN Walk : Walk[j] \in Parents(Walk[i]) => j < i
-----------------------------------------------------------------------------
(* Names.                                                                  *)

\* path.Clean: a component ".." takes back the one before it, if there is one.
CleanStep(done, c) ==
    IF c = "." THEN done
    ELSE IF c = ".." /\ done # <<>> /\ Last(done) # ".." THEN Front(done)
    ELSE Append(done, c)

Clean(name) ==
    LET done[n \in 0..Len(name)] == IF n = 0 THEN <<>> ELSE CleanStep(done[n - 1], name[n])
    IN  done[Len(name)]

\* Mutant of SafeJoin: the name is looked at before it is cleaned.
SafeJoinRaw(name) ==
    [ok |-> name \notin BadNames /\ (name # <<>> => Head(name) # ".."), path |-> Clean(name)]

SafeJoin(name) ==
    [ok |-> name \notin BadNames /\ (Clean(name) # <<>> => Head(Clean(name)) # ".."),
     path |-> Clean(name)]
-----------------------------------------------------------------------------
Entry(name, node) == [name |-> name, node |-> node]

\* The directories Pack can be given: what a node lies in is a directory.
Trees ==
    UNION {{t \in [P -> Nodes] :
                \A p \in P : \A q \in Parents(p) \ {<<>>} : q \in P /\ t[q] = Dir} :
           P \in SUBSET Range(Walk)}

\* Pack: WalkDir passes the nodes in its order; links are left out.
Packed(t, p) == p \in DOMAIN t /\ t[p] # Link
Pack(t) ==
    LET made[n \in 0..Len(Walk)] ==
            IF n = 0 THEN <<>>
            ELSE IF Packed(t, Walk[n]) THEN Append(made[n - 1], Entry(Walk[n], t[Walk[n]]))
            ELSE made[n - 1]
    IN  made[Len(Walk)]

UnpackInit ==
    /\ \/ tree \in Trees /\ archive = Pack(tree)
       \/ tree = NoTree /\ archive \in BoundedSeq([name : Names, node : Nodes], MaxLength)
    /\ read = 0
    /\ disk = [p \in {<<>>} |-> Dir]
    /\ left = MaxBytes /\ skipped = 0
    /\ outcome = "none"

Current == archive[read + 1]
Target == SafeJoin(Current.name).path

\* Unpack is at an entry that passed the two checks made of every entry.
Admitted(kinds) ==
    /\ outcome = "none" /\ read < Len(archive) /\ read < MaxEntries
    /\ SafeJoin(Current.name).ok
    /\ Current.node.kind \in kinds

Refuse == outcome' = "error" /\ UNCHANGED <<tree, archive, read, left, skipped>>

\* os.MkdirAll fails when a file is in the way.
CanMake(P) == \A p \in P : p \in DOMAIN disk => disk[p] = Dir
WithDirs(P) == [p \in DOMAIN disk \cup P |-> IF p \in DOMAIN disk THEN disk[p] ELSE Dir]

EndOfArchive ==
    /\ outcome = "none" /\ read = Len(archive)
    /\ outcome' = "ok"
    /\ UNCHANGED <<tree, archive, read, disk, left, skipped>>

NotAdmitted ==
    /\ outcome = "none" /\ read < Len(archive)
    /\ read >= MaxEntries \/ ~SafeJoin(Current.name).ok
    /\ Refuse /\ UNCHANGED disk

MakeDir ==
    LET P == Parents(Target) \cup {Target} IN
    /\ Admitted({"dir"})
    /\ IF CanMake(P)
         THEN /\ disk' = WithDirs(P)
              /\ read' = read + 1
              /\ UNCHANGED <<tree, archive, left, skipped, outcome>>
         ELSE Refuse /\ UNCHANGED disk

\* Mutant of OverBudget: what fits exactly is refused.
OverBudgetAtEnd == Current.node.size >= left

OverBudget == Current.node.size > left

TooLarge == Admitted({"reg"}) /\ OverBudget /\ Refuse /\ UNCHANGED disk

ParentInTheWay ==
    /\ Admitted({"reg"}) /\ ~OverBudget /\ ~CanMake(Parents(Target))
    /\ Refuse /\ UNCHANGED disk

\* Mutant of Exists: a file that is there is opened and overwritten.
ExistsAsDir == Target \in DOMAIN disk /\ disk[Target] = Dir

\* O_EXCL: a path is written once.
Exists == Target \in DOMAIN disk

CanWrite == Admitted({"reg"}) /\ ~OverBudget /\ CanMake(Parents(Target))

Twice ==
    /\ CanWrite /\ Exists
    /\ Refuse /\ disk' = WithDirs(Parents(Target))

\* The file, or what came of it when the stream broke in the middle.
WithFile(n) ==
    LET made == WithDirs(Parents(Target)) IN
    [p \in DOMAIN made \cup {Target} |-> IF p = Target THEN File(n) ELSE made[p]]

Extract ==
    /\ CanWrite /\ ~Exists
    /\ disk' = WithFile(Current.node.size)
    /\ left' = left - Current.node.size
    /\ read' = read + 1
    /\ UNCHANGED <<tree, archive, skipped, outcome>>

StreamBreaks ==
    /\ CanWrite /\ ~Exists
    /\ \E n \in 0..(Current.node.size - 1) : disk' = WithFile(n)
    /\ outcome' = "broken"
    /\ UNCHANGED <<tree, archive, read, left, skipped>>

Skip ==
    /\ Admitted({"link"})
    /\ skipped' = skipped + 1 /\ read' = read + 1
    /\ UNCHANGED <<tree, archive, disk, left, outcome>>

UnpackNext ==
    \/ EndOfArchive \/ NotAdmitted
    \/ MakeDir
    \/ TooLarge \/ ParentInTheWay \/ Twice \/ Extract \/ StreamBreaks
    \/ Skip

UnpackSpec == UnpackInit /\ [][UnpackNext]_archiveVars
-----------------------------------------------------------------------------
Regular == {i \in DOMAIN archive : archive[i].node.kind = "reg"}
Extracted == {p \in DOMAIN disk : disk[p] # Dir}

(***************************************************************************)
(* "Entry names are confined to the destination": a name was accepted only *)
(* if, walked component by component, it never leaves the directory it     *)
(* starts from.                                                            *)
(***************************************************************************)
Ups(name) == Cardinality({k \in DOMAIN name : name[k] = ".."})
Downs(name) == Cardinality({k \in DOMAIN name : name[k] \notin {".", ".."}})

StaysInside ==
    \A i \in 1..read :
        LET name == archive[i].name IN
        /\ name \notin BadNames
        /\ \A n \in DOMAIN name : Ups(SubSeq(name, 1, n)) <= Downs(SubSeq(name, 1, n))

(***************************************************************************)
(* "maxBytes caps the total expanded output and maxEntries caps the number *)
(* of archive members", for what was written when it failed as well.       *)
(***************************************************************************)
\* The bytes of every file, as pairs of its path and a number.
Written == UNION {{p} \X (1..disk[p].size) : p \in Extracted}
WithinBudget ==
    /\ Cardinality(Written) <= MaxBytes
    /\ read <= MaxEntries

Contained == StaysInside /\ WithinBudget

(***************************************************************************)
(* "A duplicate entry name in the archive is suspicious": an archive that  *)
(* is accepted has every regular file of it on the disk under its own      *)
(* name, and nothing else; no entry has replaced another's file, by        *)
(* whatever spelling of its name.                                          *)
(***************************************************************************)
OkMeansFaithful ==
    outcome = "ok" =>
        /\ \A i \in Regular : disk[Clean(archive[i].name)] = archive[i].node
        /\ \A p \in Extracted : \E i \in Regular : p = Clean(archive[i].name)
        /\ skipped = Cardinality({i \in DOMAIN archive : archive[i].node = Link})

(***************************************************************************)
(* What Pack made of a directory within the budget, the last byte of it    *)
(* included, and without a backslash in a name, is never refused and       *)
(* unpacks to that directory without its links.                            *)
(***************************************************************************)
\* The bytes of the first n entries.
Contents(n) == UNION {{i} \X (1..archive[i].node.size) : i \in 1..n}
Fits ==
    /\ Cardinality(Contents(Len(archive))) <= MaxBytes
    /\ Len(archive) <= MaxEntries
    /\ \A i \in DOMAIN archive : archive[i].name \notin BadNames

RoundTrip ==
    tree # NoTree /\ Fits =>
        /\ outcome # "error"
        /\ outcome = "ok" =>
             disk = [p \in {<<>>} \cup {q \in DOMAIN tree : tree[q] # Link} |->
                         IF p = <<>> THEN Dir ELSE tree[p]]
=============================================================================
