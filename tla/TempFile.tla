------------------------------ MODULE TempFile ------------------------------
(***************************************************************************)
(* Replacing a file through one fixed temporary name: the temporary file   *)
(* is opened (and truncated), written, closed and renamed over the file.   *)
(* tunnel.go does so to agent.json of a remote host with a shell command,  *)
(* and scripts/lssh with the same one; config.go does so to config.json.   *)
(* Nothing keeps two writers apart.  Tunnel and Enrolment are built from   *)
(* these steps.                                                            *)
(***************************************************************************)
EXTENDS Naturals

CONSTANTS
    Writers,        \* whoever may replace the file
    Values,         \* what they write
    Length,         \* Length[v]: how long v is
    Absent,         \* there is no such file
    Empty,          \* it was truncated
    Torn            \* a longer value whose beginning was written over

\* What the modules that instantiate this one assume of their constants.
Told ==
    /\ Length \in [Values -> Nat]
    /\ {Absent, Empty, Torn} \cap Values = {}
    /\ Absent # Empty /\ Absent # Torn /\ Empty # Torn

VARIABLES
    temp,       \* what the temporary name leads to
    file,       \* what the file's own name leads to
    at,         \* each writer: "idle", at the file now named "temp" or "file" or at
                \* one no longer named ("lost"), or "closed": written, not yet renamed
    crossed     \* history: two writers were at work at the same time

vars == <<temp, file, at, crossed>>

Contents == Values \cup {Absent, Empty, Torn}

Init ==
    /\ temp = Absent
    /\ file \in Values \cup {Absent}
    /\ at = [w \in Writers |-> "idle"]
    /\ crossed = FALSE

\* Writing v from the start over what is there.
Over(old, v) ==
    IF old = Torn \/ (old \in Values /\ Length[old] > Length[v]) THEN Torn ELSE v

Begin(w, name) ==
    /\ at[w] = "idle"
    /\ at' = [at EXCEPT ![w] = name]
    /\ crossed' = (crossed \/ \E x \in Writers : at[x] # "idle")

\* Mutant of Open: the file itself is opened.
OpenInPlace(w) ==
    /\ Begin(w, "file")
    /\ file' = Empty
    /\ UNCHANGED temp

Open(w) ==
    /\ Begin(w, "temp")
    /\ temp' = Empty
    /\ UNCHANGED file

Write(w, v) ==
    /\ at[w] \in {"temp", "file", "lost"}
    /\ temp' = IF at[w] = "temp" THEN Over(temp, v) ELSE temp
    /\ file' = IF at[w] = "file" THEN Over(file, v) ELSE file
    /\ at' = [at EXCEPT ![w] = "closed"]
    /\ UNCHANGED crossed

\* Where x is once the temporary file has the file's name.
Renamed(x) == CASE at[x] = "temp" -> "file" [] at[x] = "file" -> "lost" [] OTHER -> at[x]

\* The rename fails when another writer has taken the temporary file away.
Rename(w) ==
    /\ at[w] = "closed"
    /\ IF temp = Absent
         THEN at' = [at EXCEPT ![w] = "idle"] /\ UNCHANGED <<temp, file>>
         ELSE /\ file' = temp
              /\ temp' = Absent
              /\ at' = [x \in Writers |-> IF x = w THEN "idle" ELSE Renamed(x)]
    /\ UNCHANGED crossed

\* Writers that die or give up leave their temporary file behind.
Abandon(W) ==
    /\ at' = [x \in Writers |-> IF x \in W THEN "idle" ELSE at[x]]
    /\ UNCHANGED <<temp, file, crossed>>

Next ==
    \/ \E w \in Writers : Open(w) \/ Rename(w) \/ \E v \in Values : Write(w, v)
    \/ \E W \in SUBSET Writers : Abandon(W)

Spec == Init /\ [][Next]_vars
-----------------------------------------------------------------------------
TypeOK ==
    /\ temp \in Contents
    /\ file \in Contents
    /\ at \in [Writers -> {"idle", "temp", "file", "lost", "closed"}]
    /\ crossed \in BOOLEAN

(***************************************************************************)
(* "Writing it atomically (temp + mv)": whoever reads the file finds a     *)
(* whole value, even when writers died half way, as long as no two were at *)
(* work together.                                                          *)
(***************************************************************************)
WholeUnlessCrossed == crossed \/ file \in Values \cup {Absent}
=============================================================================
