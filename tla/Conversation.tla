---------------------------- MODULE Conversation ----------------------------
(***************************************************************************)
(* One conversation between the remote command lopen                       *)
(* (internal/client/client.go) and its handler in the daemon               *)
(* (internal/daemon/server.go), over the wire format of                    *)
(* internal/protocol/protocol.go: a request header, a payload in           *)
(* length-prefixed chunks, and events back.  Between them is the ssh       *)
(* tunnel, which delivers both streams in order and may break at any       *)
(* byte.  The stream up is a sequence of tokens: the header, the size that *)
(* announces a chunk, a byte of payload, and the last byte of a            *)
(* directory's archive, by which the unpacker knows it is complete.        *)
(***************************************************************************)
EXTENDS Integers, Sequences

CONSTANTS
    Sizes,          \* the sizes (in bytes) of what lopen is asked to open
    MaxChunk,       \* MaxChunkBytes
    ClientCap,      \* Options.MaxSize
    DaemonCap,      \* Config.MaxPayloadBytes
    Buffer          \* what the sockets and the tunnel hold of the payload

ASSUME ConversationAssumption ==
    /\ Sizes \subseteq Nat
    /\ MaxChunk \in Nat \ {0}
    /\ ClientCap \in Nat /\ DaemonCap \in Nat
    /\ Buffer \in Nat /\ Buffer > MaxChunk

VARIABLES
    ask,        \* the command line, and the file or directory it names
    cli,        \* where Open is
    verdict,    \* what Open returned
    sent,       \* bytes of payload written
    up, down,   \* the two streams
    srv,        \* where handle is
    remaining,  \* ChunkReader.remaining
    total,      \* ChunkReader.total: the bytes staged
    said,       \* the events handle has written
    viewer,     \* whether the opener was started on the payload
    late,       \* the deadline of the request has passed
    cut         \* the tunnel broke

client == <<cli, verdict, sent>>
handler == <<srv, remaining, total, said, viewer>>
vars == <<ask, client, up, down, handler, late, cut>>

\* size is what lopen measured and declares, content what it reads afterwards;
\* the daemon cannot decode an odd header (it has a field it does not know).
Requests ==
    [size : Sizes, content : Sizes, dir : BOOLEAN, wait : BOOLEAN, force : BOOLEAN,
     odd : BOOLEAN]

Init ==
    /\ ask \in {a \in Requests : a.dir => a.content > 0}
    /\ cli = "start" /\ verdict = "none" /\ sent = 0
    /\ up = <<>> /\ down = <<>>
    /\ srv = "none" /\ remaining = 0 /\ total = 0 /\ said = <<>> /\ viewer = FALSE
    /\ late = FALSE
    /\ cut = FALSE

Header == -1
Byte == -2
LastByte == -3

Errors == {"tooLarge", "refused", "modified", "broken"}
Done == {"ok"} \cup Errors

-----------------------------------------------------------------------------
(* Open, in lopen.                                                         *)

Return(v) == cli' = "exited" /\ verdict' = v

\* The file is too large, or the daemon cannot be reached within Retry.
NotSent ==
    /\ cli = "start"
    /\ \/ ask.size > ClientCap /\ ~ask.force /\ Return("tooLarge")
       \/ Return("unreachable")
    /\ UNCHANGED <<ask, sent, up, down, handler, late, cut>>

\* The connection is made, its handler started, and the header written.
Ask ==
    /\ cli = "start"
    /\ ask.size <= ClientCap \/ ask.force
    /\ cli' = "asking"
    /\ up' = <<Header>>
    /\ srv' = "reading"
    /\ UNCHANGED <<ask, verdict, sent, down, remaining, total, said, viewer, late, cut>>

\* The first event: an early error, or leave to send the payload.
HearFirst ==
    /\ cli = "asking" /\ down # <<>>
    /\ IF Head(down) \in Done
         THEN Return(Head(down))
         ELSE cli' = "sending" /\ UNCHANGED verdict
    /\ down' = Tail(down)
    /\ UNCHANGED <<ask, sent, up, handler, late, cut>>

\* ChunkWriter: a chunk is its size and that many bytes.
Chunk(n) ==
    <<n>> \o [i \in 1 .. n |-> IF ask.dir /\ sent + i = ask.content THEN LastByte ELSE Byte]

\* A write blocks while the tunnel is full, and fails once the daemon has
\* closed the connection (a little later: see SendFails).
SendChunk(n) ==
    /\ cli = "sending" /\ ~cut
    /\ sent + n <= ask.content
    /\ Len(up) + n + 1 <= Buffer
    /\ up' = up \o Chunk(n)
    /\ sent' = sent + n
    /\ UNCHANGED <<ask, cli, verdict, down, handler, late, cut>>

\* The final chunk of length 0; without Wait, Open returns.
SendEnd ==
    /\ cli = "sending" /\ ~cut
    /\ sent = ask.content
    /\ Len(up) < Buffer
    /\ up' = Append(up, 0)
    /\ IF ask.wait THEN cli' = "awaiting" /\ UNCHANGED verdict ELSE Return("ok")
    /\ UNCHANGED <<ask, sent, down, handler, late, cut>>

SendFails ==
    /\ cli = "sending"
    /\ cut \/ srv = "closed"
    /\ Return("lost")
    /\ UNCHANGED <<ask, sent, up, down, handler, late, cut>>

\* The file cannot be read to its end, or shrinks while it is packed.
SourceFails ==
    /\ cli = "sending"
    /\ Return("unreadable")
    /\ UNCHANGED <<ask, sent, up, down, handler, late, cut>>

\* Mutant of HearVerdict: the status of the last event is not looked at.
HearVerdictAsOk ==
    /\ cli = "awaiting" /\ down # <<>>
    /\ IF Head(down) \in Done THEN Return("ok") ELSE UNCHANGED <<cli, verdict>>
    /\ down' = Tail(down)
    /\ UNCHANGED <<ask, sent, up, handler, late, cut>>

HearVerdict ==
    /\ cli = "awaiting" /\ down # <<>>
    /\ IF Head(down) \in Done THEN Return(Head(down)) ELSE UNCHANGED <<cli, verdict>>
    /\ down' = Tail(down)
    /\ UNCHANGED <<ask, sent, up, handler, late, cut>>

\* Mutant of HearNothing: the end of the stream is not noticed.
HearNothingOnCut ==
    /\ cli \in {"asking", "awaiting"} /\ down = <<>>
    /\ cut
    /\ Return("lost")
    /\ UNCHANGED <<ask, sent, up, down, handler, late, cut>>

\* End of file instead of an event.
HearNothing ==
    /\ cli \in {"asking", "awaiting"} /\ down = <<>>
    /\ cut \/ srv = "closed"
    /\ Return("lost")
    /\ UNCHANGED <<ask, sent, up, down, handler, late, cut>>
-----------------------------------------------------------------------------
(* handle, in the daemon.                                                  *)

\* WriteEvent: the deadline is the connection's, for writing too.
Say(e) ==
    IF late \/ cut
    THEN UNCHANGED <<said, down>>
    ELSE said' = Append(said, e) /\ down' = Append(down, e)

\* fail(err), or the last WriteEvent, and the deferred conn.Close.
Conclude(e) == Say(e) /\ srv' = "closed"

\* ReadRequest and Validate; then the label and the token (whatever they are
\* found wrong in is "refused").
ReadRequest ==
    /\ srv = "reading" /\ up # <<>>
    /\ up' = Tail(up)
    /\ IF ask.odd
         THEN srv' = "closed" /\ UNCHANGED <<said, down>>
         ELSE \/ Conclude("refused")
              \/ ask.size > DaemonCap /\ Conclude("tooLarge")
              \/ ask.size <= DaemonCap /\ srv' = "guarding" /\ UNCHANGED <<said, down>>
    /\ UNCHANGED <<ask, client, remaining, total, viewer, late, cut>>

\* Mutant of Guard: leave to send is given before the check.
GuardLate ==
    /\ srv = "guarding"
    /\ \/ Say("received") /\ srv' = "receiving"
       \/ ~ask.force /\ ~late /\ ~cut /\ srv' = "closed"
            /\ said' = said \o <<"received", "modified">>
            /\ down' = down \o <<"received", "modified">>
    /\ UNCHANGED <<ask, client, up, remaining, total, viewer, late, cut>>

\* The slot lock is taken and the local copy looked at (see Mirror).
Guard ==
    /\ srv = "guarding"
    /\ \/ ~ask.force /\ Conclude("modified")
       \/ Say("received") /\ srv' = "receiving"
    /\ UNCHANGED <<ask, client, up, remaining, total, viewer, late, cut>>

\* ChunkReader.Read at the start of a chunk.
ReadChunkHeader ==
    /\ srv = "receiving" /\ remaining = 0 /\ up # <<>>
    /\ up' = Tail(up)
    /\ CASE Head(up) = 0 -> srv' = "opening" /\ UNCHANGED <<remaining, said, down>>
         [] Head(up) > MaxChunk -> Conclude("broken") /\ UNCHANGED remaining
         [] OTHER -> remaining' = Head(up) /\ UNCHANGED <<srv, said, down>>
    /\ UNCHANGED <<ask, client, total, viewer, late, cut>>

\* Mutant of OverCap: only what is already staged is compared.
OverCapTooLate == total > DaemonCap

OverCap == remaining + total > DaemonCap

\* ChunkReader.Read inside a chunk; the unpacker stops at the end of the
\* archive, before the final chunk.
ReadData ==
    /\ srv = "receiving" /\ remaining > 0 /\ up # <<>> /\ ~OverCap
    /\ up' = Tail(up)
    /\ remaining' = remaining - 1
    /\ total' = total + 1
    /\ srv' = IF Head(up) = LastByte THEN "opening" ELSE srv
    /\ UNCHANGED <<ask, client, down, said, viewer, late, cut>>

RefuseRest ==
    /\ srv = "receiving" /\ remaining > 0 /\ OverCap
    /\ Conclude("tooLarge")
    /\ UNCHANGED <<ask, client, up, remaining, total, viewer, late, cut>>

\* Nothing more will come, or nothing may be read any more.
Starved == late \/ (up = <<>> /\ (cut \/ cli = "exited"))

NoRequest ==
    /\ srv = "reading" /\ Starved
    /\ srv' = "closed"
    /\ UNCHANGED <<ask, client, up, down, remaining, total, said, viewer, late, cut>>

\* Mutant of NoPayload: the end of the stream between two chunks, not wrapped
\* in an error, is the end of the payload to io.Copy.
NoPayloadAtBoundary ==
    /\ srv = "receiving" /\ Starved
    /\ IF remaining = 0 /\ ~late
         THEN srv' = "opening" /\ UNCHANGED <<said, down>>
         ELSE Conclude("broken")
    /\ UNCHANGED <<ask, client, up, remaining, total, viewer, late, cut>>

\* ChunkReader.Read returns an error, at the start of a chunk too.
NoPayload ==
    /\ srv = "receiving" /\ Starved
    /\ Conclude("broken")
    /\ UNCHANGED <<ask, client, up, remaining, total, viewer, late, cut>>

\* No staging directory, inline transfers disabled, a full disk, an archive
\* the unpacker rejects; Promote or the opener fails.
Fail ==
    /\ srv \in {"receiving", "opening", "opened"}
    /\ Conclude("broken")
    /\ UNCHANGED <<ask, client, up, remaining, total, viewer, late, cut>>

\* Promote, and the opener starts (it does not when the deadline has passed).
Open ==
    /\ srv = "opening" /\ ~late
    /\ srv' = "opened"
    /\ viewer' = TRUE
    /\ UNCHANGED <<ask, client, up, down, remaining, total, said, late, cut>>

\* Mutant of Opened: the last event is not written.
OpenedSilently ==
    /\ srv = "opened"
    /\ srv' = "closed"
    /\ UNCHANGED <<ask, client, up, down, remaining, total, said, viewer, late, cut>>

Opened ==
    /\ srv = "opened"
    /\ Conclude("ok")
    /\ UNCHANGED <<ask, client, up, remaining, total, viewer, late, cut>>
-----------------------------------------------------------------------------
(* The environment.                                                        *)

Expire ==
    /\ srv \notin {"none", "closed"} /\ ~late
    /\ late' = TRUE
    /\ UNCHANGED <<ask, client, up, down, handler, cut>>

\* The tunnel breaks: what is under way is lost from some byte on.
Cut ==
    /\ srv # "none" /\ ~cut
    /\ cut' = TRUE
    /\ \E i \in 0 .. Len(up) : up' = SubSeq(up, 1, i)
    /\ \E i \in 0 .. Len(down) : down' = SubSeq(down, 1, i)
    /\ UNCHANGED <<ask, client, handler, late>>

\* The user interrupts lopen.
Interrupt ==
    /\ cli \notin {"start", "exited"}
    /\ Return("interrupted")
    /\ UNCHANGED <<ask, sent, up, down, handler, late, cut>>

ClientStep ==
    \/ Ask
    \/ HearFirst \/ HearVerdict \/ HearNothing
    \/ \E n \in 1 .. MaxChunk : SendChunk(n)
    \/ SendEnd \/ SendFails

HandlerStep ==
    \/ ReadRequest \/ NoRequest
    \/ Guard
    \/ ReadChunkHeader \/ ReadData \/ RefuseRest \/ NoPayload
    \/ Open \/ Opened

Failure == NotSent \/ SourceFails \/ Interrupt \/ Fail \/ Expire \/ Cut

Next == ClientStep \/ HandlerStep \/ Failure

Spec == Init /\ [][Next]_vars

\* Both programs run.  The handler gets its slot (see Server), the opener ends
\* and lopen can read the file, but the peer of either may stall: what ends
\* the handler then is its deadline.
Fairness ==
    /\ WF_vars(ClientStep)
    /\ WF_vars(HandlerStep \/ (late /\ Fail))
    /\ WF_vars(Expire)

LiveSpec == Spec /\ Fairness
-----------------------------------------------------------------------------
TypeOK ==
    /\ ask \in Requests
    /\ cli \in {"start", "asking", "sending", "awaiting", "exited"}
    /\ verdict \in Done \cup {"none", "unreachable", "unreadable", "lost", "interrupted"}
    /\ verdict = "none" <=> cli # "exited"
    /\ sent \in 0 .. ask.content
    /\ Len(up) <= Buffer
    /\ srv \in {"none", "reading", "guarding", "receiving", "opening", "opened", "closed"}
    /\ remaining \in 0 .. MaxChunk
    /\ total \in Nat
    /\ viewer \in BOOLEAN /\ late \in BOOLEAN /\ cut \in BOOLEAN

(***************************************************************************)
(* Nothing is promoted and opened but the whole payload: wherever the      *)
(* tunnel breaks and wherever lopen stops, the handler can tell a payload  *)
(* that ended from one that broke off.                                     *)
(***************************************************************************)
OnlyWholePayloads == srv \in {"opening", "opened"} \/ viewer => total = ask.content

(***************************************************************************)
(* "A total-bytes cap": no more than DaemonCap bytes are ever staged,      *)
(* whatever size was declared, and nobody is told that a payload is too    *)
(* large when neither its declared nor its actual size is.                 *)
(***************************************************************************)
CapIsExact ==
    /\ total <= DaemonCap
    /\ \A i \in DOMAIN said : said[i] = "tooLarge" =>
         ask.size > DaemonCap \/ ask.content > DaemonCap

(***************************************************************************)
(* Both together: what the handler takes in is a whole payload of an       *)
(* allowed size, or it says what was wrong with it.                        *)
(***************************************************************************)
PayloadsAreExact == OnlyWholePayloads /\ CapIsExact

(***************************************************************************)
(* "Returns nil once the daemon reports the local open succeeded (or, with *)
(* Wait=false, once the daemon acknowledged receipt)": success is never    *)
(* reported of a file that was not opened, nor of a request that was not   *)
(* accepted.                                                               *)
(***************************************************************************)
SuccessIsTrue ==
    verdict = "ok" => IF ask.wait THEN viewer ELSE said # <<>> /\ said[1] = "received"

(***************************************************************************)
(* "Surface an early error (e.g. locally-modified guard) before we ship    *)
(* bytes": no byte of payload leaves for a request that is then refused by *)
(* the validation or the guard, and lopen reports that very error.         *)
(***************************************************************************)
EarlyErrorsComeFirst ==
    /\ sent > 0 => \A i \in DOMAIN said : said[i] \notin {"refused", "modified"}
    /\ said # <<>> /\ said[1] \in Errors /\ verdict \notin {"none", "interrupted"} =>
         verdict = said[1] \/ (cut /\ verdict = "lost")

(***************************************************************************)
(* A lopen that waits for its verdict hears one: unless the tunnel broke,  *)
(* the deadline passed or the header could not be decoded, the handler     *)
(* closes the connection only after a "done" event that lopen has read or  *)
(* can still read.                                                         *)
(***************************************************************************)
WaitersAreTold ==
    srv = "closed" /\ cli \in {"asking", "awaiting"} /\ ~cut /\ ~late /\ ~ask.odd =>
        \E i \in DOMAIN down : down[i] \in Done

(***************************************************************************)
(* "A stream of JSON events, one per line; the final event has Event ==    *)
(* done": a stream of events the handler began ends in "done" when it      *)
(* closes a connection that is not broken and somebody listens to.         *)
(***************************************************************************)
Abandoned == cut \/ cli \notin {"asking", "awaiting"}

DoneIsFinal ==
    srv = "closed" /\ ~Abandoned /\ said # <<>> => said[Len(said)] \in Done

(***************************************************************************)
(* The same for a request that is answered by no event at all before its   *)
(* deadline.                                                               *)
(***************************************************************************)
EveryRequestIsAnswered == srv = "closed" /\ ~Abandoned /\ ~late => said # <<>>

(***************************************************************************)
(* "--force: overwrite a locally-modified mirror copy / exceed the size    *)
(* cap": with force, nothing is refused for its size.                      *)
(***************************************************************************)
ForceLiftsCap == ask.force => verdict # "tooLarge"

(***************************************************************************)
(* lopen never hangs: once it has asked, it ends, even when the daemon     *)
(* stops reading in the middle of the payload.                             *)
(***************************************************************************)
ClientReturns == cli # "start" ~> cli = "exited"
=============================================================================
