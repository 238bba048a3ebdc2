----------------------------- MODULE Retention -----------------------------
(***************************************************************************)
(* The eviction loop of Mirror.GC (internal/mirror/mirror.go): which       *)
(* entries go, in what order, and when it stops.  Candidates come sorted   *)
(* least recently used first, so the expired ones form a prefix.  What a   *)
(* GC pass finds on disk is fixed while the loop runs; Mirror has the      *)
(* interleavings, and proofs use the two side by side: the specification   *)
(* here is LoopSpec.                                                       *)
(***************************************************************************)
EXTENDS Integers, FiniteSets

CONSTANTS
    N,          \* the number of index entries
    Sizes,      \* the recorded sizes an entry may have
    Caps        \* the values of max_mirror_bytes

ASSUME RetentionAssumption ==
    /\ N \in Nat \ {0}
    /\ Sizes \subseteq Nat /\ Sizes # {}
    /\ Caps \subseteq Nat /\ Caps # {}

Rank == 1 .. N

\* What the loop can find out about an entry: a clean copy nobody uses, an
\* entry of a pinned label, a copy missing from disk, edited by the user, open
\* in a program, or that os.RemoveAll cannot remove.
Kinds == {"plain", "pinned", "gone", "modified", "inUse", "stuck"}

VARIABLES
    size,       \* Entry.Size, by rank
    kind,       \* what is on disk, by rank
    expired,    \* the ranks unused for longer than the TTL: 1 .. expired
    cap,        \* maxBytes
    phase,      \* summing the recorded sizes, or evicting
    next,       \* the rank the loop is at; N + 1 when it is over
    total,      \* the running total of the loop
    removed,    \* GCResult.Removed
    dropped     \* entries dropped because their copy was gone

input == <<size, kind, expired, cap>>
loopVars == <<input, phase, next, total, removed, dropped>>

\* The recorded bytes of the entries in S, one by one, and how many they are.
BytesOf(S) == UNION {{i} \X (1 .. size[i]) : i \in S}
Bytes(S) == Cardinality(BytesOf(S))

LoopInit ==
    /\ size \in [Rank -> Sizes]
    /\ kind \in [Rank -> Kinds]
    /\ expired \in 0 .. N
    /\ cap \in Caps
    /\ phase = "summing"
    /\ next = 1
    /\ total = 0
    /\ removed = {}
    /\ dropped = {}

\* Index.TotalBytes.
Sum ==
    /\ phase = "summing"
    /\ next \in Rank
    /\ total' = total + size[next]
    /\ next' = next + 1
    /\ UNCHANGED <<input, phase, removed, dropped>>

\* Index.Candidates: the loop starts over the sorted entries.
Sort ==
    /\ phase = "summing"
    /\ next = N + 1
    /\ phase' = "evicting"
    /\ next' = 1
    /\ UNCHANGED <<input, total, removed, dropped>>

IsExpired(i) == i <= expired

\* Mutant of Due: the loop ends at the first entry that is not over the cap,
\* expired or not.
DueToSizeOnly(i) == total > cap

\* Mutant of Due: one entry too many is evicted at the cap.
DueAtCap(i) == IsExpired(i) \/ total >= cap

\* Mutant of Due: an entry larger than the excess is passed over.
DueIfNotTooLarge(i) == IsExpired(i) \/ (total > cap /\ size[i] <= total - cap)

Due(i) == IsExpired(i) \/ total > cap

At(kinds) == phase = "evicting" /\ next \in Rank /\ kind[next] \in kinds
Advance == next' = next + 1 /\ UNCHANGED <<input, phase>>

\* Neither expired nor over the cap.
Pass ==
    /\ At(Kinds)
    /\ ~Due(next)
    /\ Advance
    /\ UNCHANGED <<total, removed, dropped>>

\* Pinned, locally modified, in use, or os.RemoveAll fails.
Keep ==
    /\ At({"pinned", "modified", "inUse", "stuck"})
    /\ Due(next)
    /\ Advance
    /\ UNCHANGED <<total, removed, dropped>>

\* Already gone from disk: the entry is dropped, its size stays in the total.
DropGone ==
    /\ At({"gone"})
    /\ Due(next)
    /\ dropped' = dropped \cup {next}
    /\ Advance
    /\ UNCHANGED <<total, removed>>

\* Mutant of Evict: the total is reduced twice.
EvictCountsTwice ==
    /\ At({"plain"})
    /\ Due(next)
    /\ removed' = removed \cup {next}
    /\ total' = total - 2 * size[next]
    /\ Advance
    /\ UNCHANGED dropped

Evict ==
    /\ At({"plain"})
    /\ Due(next)
    /\ removed' = removed \cup {next}
    /\ total' = total - size[next]
    /\ Advance
    /\ UNCHANGED dropped

LoopNext == Sum \/ Sort \/ Pass \/ Keep \/ DropGone \/ Evict

LoopSpec == LoopInit /\ [][LoopNext]_loopVars
-----------------------------------------------------------------------------
Done == phase = "evicting" /\ next = N + 1

\* The entries left in the index.
Left == Rank \ (removed \cup dropped)

LoopTypeOK ==
    /\ size \in [Rank -> Sizes]
    /\ kind \in [Rank -> Kinds]
    /\ expired \in 0 .. N
    /\ cap \in Caps
    /\ phase \in {"summing", "evicting"}
    /\ next \in 1 .. N + 1
    /\ total \in Int
    /\ removed \subseteq Rank /\ dropped \subseteq Rank
    /\ removed \cap dropped = {}

(***************************************************************************)
(* "Anything not opened in 7 days is evicted": after a pass the only       *)
(* expired entries are pinned, modified, in use or cannot be removed.      *)
(***************************************************************************)
ExpiredAreGone ==
    Done => \A i \in Left : IsExpired(i) => kind[i] \notin {"plain", "gone"}

(***************************************************************************)
(* "If the mirror exceeds the cap, entries are evicted until under the     *)
(* cap": a pass leaves the recorded bytes at or under the cap unless all   *)
(* that is left may not be removed.                                        *)
(***************************************************************************)
UnderCapUnlessProtected ==
    Done => \/ Bytes(Left) <= cap
            \/ \A i \in Left : kind[i] \notin {"plain", "gone"}

(***************************************************************************)
(* "Least-recently-used entries are evicted": an entry evicted before its  *)
(* time leaves no removable entry behind that was used less recently.      *)
(***************************************************************************)
OldestFirst ==
    \A i \in removed : ~IsExpired(i) =>
        \A j \in Left : j < i => kind[j] \notin {"plain", "gone"}

(***************************************************************************)
(* The cap costs no more than it must: an entry goes before its time only  *)
(* while the entries the loop still counts, the missing copies included,   *)
(* are over the cap.                                                       *)
(***************************************************************************)
EvictsOnlyOverCap ==
    [][\A i \in removed' \ removed : IsExpired(i) \/ Bytes(Rank \ removed) > cap]_loopVars

(***************************************************************************)
(* "Evicted until under the cap": an entry goes before its time only while *)
(* the entries left in the index are over the cap.                         *)
(***************************************************************************)
EvictsUntilUnderCap ==
    [][\A i \in removed' \ removed : IsExpired(i) \/ Bytes(Left) > cap]_loopVars
=============================================================================
