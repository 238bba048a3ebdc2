-------------------------------- MODULE Pull --------------------------------
(***************************************************************************)
(* Server.pull (internal/daemon/server.go): a pull-mode transfer reads the *)
(* output of a remote cat or tar from the pipe of an ssh child, stops at   *)
(* the payload cap or at an error of its own, and reaps the child.  The    *)
(* child may die at any time, and blocks while the pipe is full.  Proofs   *)
(* use this module beside Conversation: its specification is PullSpec.     *)
(***************************************************************************)
EXTENDS Naturals

CONSTANTS
    Lengths,    \* how many bytes the remote command may have to write
    MaxPayload, \* Config.MaxPayloadBytes
    PipeSize,   \* what the pipe between ssh and the daemon holds
    Padding     \* what tar writes after the end of its archive

ASSUME PullAssumption ==
    /\ Lengths \subseteq Nat
    /\ MaxPayload \in Nat /\ PipeSize \in Nat \ {0} /\ Padding \in Nat
    /\ Padding <= PipeSize

VARIABLES
    dir,        \* whether the request names a directory
    length,     \* the length of the file, or of the archive without its padding
    written,    \* bytes the child has put into the pipe
    got,        \* bytes taken out of it: MaxPayload + 1 - LimitedReader.N
    child,      \* the ssh child: running, or its exit status
    cancelled,  \* pctx is cancelled
    step,       \* where pull is
    copied,     \* copyErr: how the copy into the staging directory ended
    result      \* what pull returned

pullVars == <<dir, length, written, got, child, cancelled, step, copied, result>>

PullInit ==
    /\ dir \in BOOLEAN
    /\ length \in {n \in Lengths : dir => n > 0}
    /\ written = 0 /\ got = 0
    /\ child = "running"
    /\ cancelled = FALSE
    /\ step = "copying"
    /\ copied = "none"
    /\ result = "none"

Output == IF dir THEN length + Padding ELSE length
-----------------------------------------------------------------------------
(* The ssh child and what it runs.                                         *)

Produce ==
    /\ child = "running" /\ written < Output /\ written - got < PipeSize
    /\ written' = written + 1
    /\ UNCHANGED <<dir, length, got, child, cancelled, step, copied, result>>

Exit ==
    /\ child = "running" /\ written = Output
    /\ child' = "succeeded"
    /\ UNCHANGED <<dir, length, written, got, cancelled, step, copied, result>>

\* The connection breaks, the remote command fails, or the deadline of the
\* request kills the child.
Die ==
    /\ child = "running"
    /\ child' = "failed"
    /\ UNCHANGED <<dir, length, written, got, cancelled, step, copied, result>>

\* exec.CommandContext kills the child when pctx is cancelled.
Kill ==
    /\ child = "running" /\ cancelled
    /\ child' = "failed"
    /\ UNCHANGED <<dir, length, written, got, cancelled, step, copied, result>>
-----------------------------------------------------------------------------
(* pull.                                                                   *)

\* Mutant of Limit: the reader stops at the cap and cannot tell a payload of
\* that size from a larger one.
LimitAtCap == MaxPayload

Limit == MaxPayload + 1

Copy ==
    /\ step = "copying" /\ got < written /\ got < Limit
    /\ ~(dir /\ got = length)
    /\ got' = got + 1
    /\ UNCHANGED <<dir, length, written, child, cancelled, step, copied, result>>

CopyEnds(how) ==
    /\ step' = "reaping"
    /\ copied' = how
    /\ UNCHANGED <<dir, length, written, got, child, result>>

\* Mutant of CopyOver: an early stop is not told from the end of the stream,
\* and leaves the child running.
CopyOverUncancelled ==
    /\ step = "copying"
    /\ \/ got = Limit
       \/ dir /\ got = length
       \/ got = written /\ child # "running"
    /\ CopyEnds(IF dir /\ got < length THEN "failed" ELSE "ended")
    /\ UNCHANGED cancelled

\* The end of the stream (of the archive, for a directory) or the limit, which
\* a reader takes for the end of the stream; an archive may not end there.
CopyOver ==
    /\ step = "copying"
    /\ \/ got = Limit
       \/ dir /\ got = length
       \/ got = written /\ child # "running"
    /\ CopyEnds(IF dir /\ got < length THEN "failed" ELSE "ended")
    /\ cancelled' = (got = Limit \/ (dir /\ got < length))

\* The local disk is full, or the archive is rejected.
CopyFails ==
    /\ step = "copying"
    /\ CopyEnds("failed")
    /\ cancelled' = TRUE

\* Mutant of Reap: the exit status of the child is not looked at.
ReapUnchecked ==
    /\ step = "reaping" /\ child # "running"
    /\ step' = "done"
    /\ result' = IF copied = "failed" THEN "error"
                 ELSE IF got = Limit THEN "tooLarge"
                 ELSE "ok"
    /\ UNCHANGED <<dir, length, written, got, child, cancelled, copied>>

\* cmd.Wait returns.
Reap ==
    /\ step = "reaping" /\ child # "running"
    /\ step' = "done"
    /\ result' = IF copied = "failed" THEN "error"
                 ELSE IF got = Limit THEN "tooLarge"
                 ELSE IF child = "failed" THEN "error"
                 ELSE "ok"
    /\ UNCHANGED <<dir, length, written, got, child, cancelled, copied>>

PullNext == Produce \/ Exit \/ Die \/ Kill \/ Copy \/ CopyOver \/ CopyFails \/ Reap

PullSpec == PullInit /\ [][PullNext]_pullVars

\* The remote command, the network and pull all go on.  Nothing is assumed of
\* Die: the deadline of the request is not to be needed.
PullFairness ==
    /\ WF_pullVars(Produce)
    /\ WF_pullVars(Exit)
    /\ WF_pullVars(Kill)
    /\ WF_pullVars(Copy)
    /\ WF_pullVars(CopyOver)
    /\ WF_pullVars(Reap)

PullLiveSpec == PullSpec /\ PullFairness
-----------------------------------------------------------------------------
PullTypeOK ==
    /\ dir \in BOOLEAN /\ length \in Lengths
    /\ written \in 0 .. Output
    /\ got <= written
    /\ child \in {"running", "succeeded", "failed"}
    /\ cancelled \in BOOLEAN
    /\ step \in {"copying", "reaping", "done"}
    /\ copied \in {"none", "ended", "failed"}
    /\ result \in {"none", "ok", "error", "tooLarge"}
    /\ step = "done" <=> result # "none"
    /\ step = "done" => child # "running"

(***************************************************************************)
(* A pull succeeds only with the whole file or archive staged, however the *)
(* end of the stream came about: a truncated copy is never promoted.       *)
(***************************************************************************)
OkMeansWhole == result = "ok" => got = length

(***************************************************************************)
(* The cap is exact: what is over it is never taken for complete, and      *)
(* nothing up to it is refused as too large.                               *)
(***************************************************************************)
PullCapIsExact ==
    /\ result = "ok" => length <= MaxPayload
    /\ result = "tooLarge" => length > MaxPayload

(***************************************************************************)
(* Both together: what pull reports of a payload is true of its source.    *)
(***************************************************************************)
VerdictIsTrue == OkMeansWhole /\ PullCapIsExact

(***************************************************************************)
(* "If we stop reading early, we must kill the remote cat/tar, which would *)
(* otherwise keep writing, fill the ssh pipe, and block cmd.Wait until the *)
(* request timeout": once pull has stopped reading, a child it did not     *)
(* cancel has room in the pipe for everything it has left to write.        *)
(***************************************************************************)
WaitIsShort ==
    step = "reaping" /\ child = "running" /\ ~cancelled =>
        Output - got <= PipeSize

(***************************************************************************)
(* So a pull that has stopped reading ends without the help of the         *)
(* deadline, unless the network stalls.                                    *)
(***************************************************************************)
ReapingEnds == step = "reaping" ~> step = "done"
=============================================================================
