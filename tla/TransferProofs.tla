--------------------------- MODULE TransferProofs ---------------------------
(***************************************************************************)
(* The two ways a payload reaches the daemon, for every size, chunk size,  *)
(* cap and capacity of tunnel or pipe.  Inline (Conversation): what is on  *)
(* its way is framed, so that the handler knows at each token how much of  *)
(* the payload it has and how much of the chunk is due.  By pull (Pull):   *)
(* how the copy ended and how the child ended decide the verdict together. *)
(* On both a directory travels packed (Archive): for every directory,      *)
(* archive and budget, Unpack is true to the entries it has read.          *)
(***************************************************************************)
EXTENDS Conversation, Pull, Archive, SequenceTheorems, FiniteSetTheorems,
        WellFoundedInduction, TLAPS

Events == Done \cup {"received"}
Data == {Byte, LastByte}

\* The events a handler may have written.
Answers ==
    {<<>>, <<"received">>}
    \cup {<<e>> : e \in {"refused", "modified", "tooLarge"}}
    \cup {<<"received", e>> : e \in {"ok", "tooLarge", "broken"}}

Streams == up \in Seq(Int) /\ down \in Seq(Events) /\ said \in Answers

\* Where the handler is when, and what it has written by then.
Stages ==
    /\ cli = "start" => srv = "none"
    /\ srv = "none" => cli \in {"start", "exited"} /\ down = <<>>
    /\ srv \in {"none", "reading", "guarding"} =>
         /\ cli \in {"start", "asking", "exited"}
         /\ sent = 0 /\ remaining = 0 /\ total = 0 /\ said = <<>> /\ ~viewer
    /\ srv \in {"none", "guarding"} => up = <<>>
    /\ srv = "reading" => up = <<Header>> \/ (cut /\ up = <<>>)
    /\ srv \in {"receiving", "opening", "opened"} =>
         said = <<"received">> \/ (said = <<>> /\ (late \/ cut))
    /\ srv \in {"receiving", "opening"} => ~viewer
    /\ srv = "opened" => viewer
    /\ sent > 0 \/ cli \in {"sending", "awaiting"} => said # <<>> /\ said[1] = "received"
    /\ cli = "awaiting" => ask.wait

\* The client has read none of the events, or the first.
Heard == IF cli \in {"sending", "awaiting"} THEN 1 ELSE 0
Pending ==
    cli \in {"asking", "sending", "awaiting"} =>
        /\ Len(down) + Heard <= Len(said)
        /\ ~cut => Len(down) + Heard = Len(said)
        /\ \A i \in 1 .. Len(down) : down[i] = said[i + Heard]

\* The tokens of a payload of content bytes, or some of them in a row: before
\* each, and after the last, pos bytes of the payload have passed and due are
\* due in the chunk.
Framing(tokens, content, pos, due) ==
    /\ pos \in [1 .. Len(tokens) + 1 -> Nat] /\ due \in [1 .. Len(tokens) + 1 -> Nat]
    /\ \A i \in 1 .. Len(tokens) :
        \/ /\ due[i] > 0 /\ tokens[i] \in Data
           /\ tokens[i] = LastByte => pos[i] + 1 = content
           /\ pos[i + 1] = pos[i] + 1 /\ due[i + 1] = due[i] - 1
        \/ /\ due[i] = 0 /\ tokens[i] \in 0 .. MaxChunk
           /\ tokens[i] = 0 => pos[i] = content
           /\ pos[i + 1] = pos[i] /\ due[i + 1] = tokens[i]
    /\ \A i \in 1 .. Len(tokens) + 1 : pos[i] + due[i] <= content

\* What is under way continues what the handler has received.
Framed ==
    srv = "receiving" =>
        \E pos, due :
            /\ Framing(up, ask.content, pos, due)
            /\ pos[1] = total /\ due[1] = remaining
            /\ ~cut => pos[Len(up) + 1] = sent /\ due[Len(up) + 1] = 0

\* Verdicts.
Told ==
    /\ said = <<"tooLarge">> => ask.size > DaemonCap
    /\ said = <<"received", "tooLarge">> => ask.content > DaemonCap
    /\ said = <<"received", "ok">> => viewer
    /\ srv = "closed" /\ cli # "exited" /\ ~cut /\ ~late /\ ~ask.odd =>
         said \notin {<<>>, <<"received">>}
    /\ cli = "exited" /\ verdict # "interrupted" /\ said = <<>> =>
         srv \in {"none", "closed"} \/ cut
    /\ cli = "exited" /\ said # <<>> /\ said[1] # "received" =>
         verdict \in {said[1], "interrupted"} \/ (cut /\ verdict = "lost")

IInv ==
    /\ TypeOK /\ Streams /\ Stages /\ Pending /\ Framed /\ Told
    /\ OnlyWholePayloads /\ total <= DaemonCap /\ SuccessIsTrue

-----------------------------------------------------------------------------
(* Sequences.                                                              *)

LEMMA Reading ==
    ASSUME NEW S, NEW s \in Seq(S), s # <<>>
    PROVE  /\ Len(s) \in Nat \ {0} /\ Head(s) = s[1] /\ s[1] \in S
           /\ Tail(s) \in Seq(S) /\ Len(Tail(s)) = Len(s) - 1
           /\ \A i \in 1 .. Len(s) - 1 : Tail(s)[i] = s[i + 1]
<1>1. Head(s) = s[1] /\ s[1] \in S /\ Len(s) \in Nat \ {0}
    OBVIOUS
<1>2. Tail(s) \in Seq(S) /\ Len(Tail(s)) = Len(s) - 1
    BY HeadTailProperties
<1>3. \A i \in 1 .. Len(s) - 1 : Tail(s)[i] = s[i + 1]
    OBVIOUS
<1> QED BY <1>1, <1>2, <1>3

LEMMA Truncating ==
    ASSUME NEW S, NEW s \in Seq(S), NEW n \in 0 .. Len(s)
    PROVE  /\ SubSeq(s, 1, n) \in Seq(S) /\ Len(SubSeq(s, 1, n)) = n
           /\ \A i \in 1 .. n : SubSeq(s, 1, n)[i] = s[i]
OBVIOUS

LEMMA Answering ==
    ASSUME NEW e
    PROVE  /\ Append(<<>>, e) = <<e>> /\ Append(<<"received">>, e) = <<"received", e>>
           /\ Len(<<e>>) = 1 /\ <<e>>[1] = e
           /\ Len(<<"received", e>>) = 2 /\ <<"received", e>>[1] = "received"
           /\ <<"received", e>>[2] = e
           /\ <<e>> # <<>> /\ <<"received", e>> # <<>> /\ <<"received", e>> # <<e>>
<1>1. Append(<<>>, e) = <<e>>
    <2>1. <<>> \in Seq({e}) /\ <<e>> \in Seq({e})
        OBVIOUS
    <2> QED BY <2>1, SeqEqual
<1>2. Append(<<"received">>, e) = <<"received", e>>
    <2>1. /\ <<"received">> \in Seq({"received", e})
          /\ <<"received", e>> \in Seq({"received", e})
        OBVIOUS
    <2>2. /\ Append(<<"received">>, e) \in Seq({"received", e})
          /\ Len(Append(<<"received">>, e)) = 2
          /\ Append(<<"received">>, e)[1] = "received" /\ Append(<<"received">>, e)[2] = e
        BY <2>1
    <2> DEFINE s == Append(<<"received">>, e)
               t == <<"received", e>>
    <2>3. Len(t) = 2 /\ t[1] = "received" /\ t[2] = e
        OBVIOUS
    <2> HIDE DEF s, t
    <2>4. \A i \in 1 .. Len(s) : s[i] = t[i]
        BY <2>2, <2>3 DEF s
    <2>5. Len(s) = Len(t)
        BY <2>2, <2>3 DEF s
    <2>6. s \in Seq({"received", e}) /\ t \in Seq({"received", e})
        BY <2>1, <2>2 DEF s, t
    <2>7. s = t
        BY <2>4, <2>5, <2>6, SeqEqual, Zenon
    <2> QED BY <2>7 DEF s, t
<1>3. /\ Len(<<e>>) = 1 /\ <<e>>[1] = e
      /\ Len(<<"received", e>>) = 2 /\ <<"received", e>>[1] = "received"
      /\ <<"received", e>>[2] = e
    OBVIOUS
<1>4. <<e>> # <<>> /\ <<"received", e>> # <<>> /\ <<"received", e>> # <<e>>
    <2>1. Len(<<>>) = 0
        OBVIOUS
    <2>2. Len(<<e>>) # Len(<<>>) /\ Len(<<"received", e>>) # Len(<<>>)
          /\ Len(<<"received", e>>) # Len(<<e>>)
        BY <1>3, <2>1
    <2>3. \A s, t : Len(s) # Len(t) => s # t
        OBVIOUS
    <2>4. <<e>> # <<>>
        BY <2>2, <2>3, Zenon
    <2>5. <<"received", e>> # <<>>
        BY <2>2, <2>3, Zenon
    <2>6. <<"received", e>> # <<e>>
        BY <2>2, <2>3, Zenon
    <2> QED BY <2>4, <2>5, <2>6
<1> QED BY <1>1, <1>2, <1>3, <1>4

\* A chunk of n is n + 1 tokens.
IsChunk(tokens, n, passed, content) ==
    /\ tokens \in Seq(Int) /\ Len(tokens) = n + 1 /\ tokens[1] = n
    /\ \A i \in 1 .. n :
         /\ tokens[i + 1] \in Data
         /\ tokens[i + 1] = LastByte => passed + i = content

LEMMA Chunking ==
    ASSUME ask.content \in Nat, sent \in Nat, NEW n \in Nat
    PROVE  IsChunk(Chunk(n), n, sent, ask.content)
<1> DEFINE first == <<n>>
           tokens == [i \in 1 .. n |-> IF ask.dir /\ sent + i = ask.content THEN LastByte ELSE Byte]
<1>1. tokens \in Seq(Int) /\ Len(tokens) = n
    BY DEF LastByte, Byte
<1>2. \A i \in 1 .. n :
         /\ tokens[i] \in Data
         /\ tokens[i] = LastByte => sent + i = ask.content
    BY DEF Data, LastByte, Byte
<1>3. first \in Seq(Int) /\ Len(first) = 1 /\ first[1] = n
    OBVIOUS
<1>4. Chunk(n) = first \o tokens
    BY DEF Chunk
<1> HIDE DEF tokens, first
<1>5. /\ first \o tokens \in Seq(Int) /\ Len(first \o tokens) = 1 + n
      /\ \A i \in 1 .. 1 + n :
           (first \o tokens)[i] = IF i <= 1 THEN first[i] ELSE tokens[i - 1]
    <2>1. /\ first \o tokens \in Seq(Int) /\ Len(first \o tokens) = Len(first) + Len(tokens)
          /\ \A i \in 1 .. Len(first) + Len(tokens) :
               (first \o tokens)[i] = IF i <= Len(first) THEN first[i] ELSE tokens[i - Len(first)]
        BY <1>1, <1>3, ConcatProperties, Zenon
    <2> QED BY <1>1, <1>3, <2>1
<1>6. \A i \in 1 .. n : i + 1 \in 1 .. 1 + n /\ ~(i + 1 <= 1) /\ (i + 1) - 1 = i
    OBVIOUS
<1>7. \A i \in 1 .. n : (first \o tokens)[i + 1] = tokens[i]
    BY <1>5, <1>6
<1>8. Chunk(n) \in Seq(Int) /\ Len(Chunk(n)) = n + 1
    BY <1>4, <1>5
<1>9. Chunk(n)[1] = n
    BY <1>3, <1>4, <1>5
<1>10. \A i \in 1 .. n :
         /\ Chunk(n)[i + 1] \in Data
         /\ Chunk(n)[i + 1] = LastByte => sent + i = ask.content
    BY <1>2, <1>4, <1>7
<1> QED BY <1>8, <1>9, <1>10 DEF IsChunk
-----------------------------------------------------------------------------
(* Types.                                                                  *)

LEMMA Constants ==
    ASSUME TypeOK
    PROVE  /\ ask.content \in Nat /\ ask.size \in Nat
           /\ ask.dir \in BOOLEAN /\ ask.wait \in BOOLEAN
           /\ ask.force \in BOOLEAN /\ ask.odd \in BOOLEAN
           /\ sent \in Nat /\ remaining \in Nat /\ total \in Nat
           /\ MaxChunk \in Nat /\ DaemonCap \in Nat /\ Buffer \in Nat
<1>1. /\ ask.content \in Sizes /\ ask.size \in Sizes
      /\ ask.dir \in BOOLEAN /\ ask.wait \in BOOLEAN
      /\ ask.force \in BOOLEAN /\ ask.odd \in BOOLEAN
    BY DEF TypeOK, Requests
<1>2. /\ sent \in 0 .. ask.content /\ remaining \in 0 .. MaxChunk /\ total \in Nat
    BY DEF TypeOK
<1>3. ask.content \in Nat /\ ask.size \in Nat /\ MaxChunk \in Nat
    BY <1>1, ConversationAssumption
<1>4. sent \in Nat /\ remaining \in Nat
    BY <1>2, <1>3
<1> QED BY <1>1, <1>2, <1>3, <1>4, ConversationAssumption

\* What Say does to the events, when e is one.
LEMMA Saying ==
    ASSUME Streams, NEW e \in Events, Say(e)
    PROVE  \/ (late \/ cut) /\ said' = said /\ down' = down
           \/ /\ ~late /\ ~cut /\ said' = Append(said, e) /\ down' = Append(down, e)
              /\ down' \in Seq(Events) /\ Len(down') = Len(down) + 1
              /\ down'[Len(down) + 1] = e
              /\ \A i \in 1 .. Len(down) : down'[i] = down[i]
<1>1. CASE late \/ cut
    BY <1>1 DEF Say
<1>2. CASE ~(late \/ cut)
    <2>1. said' = Append(said, e) /\ down' = Append(down, e)
        BY <1>2 DEF Say
    <2>2. down \in Seq(Events)
        BY DEF Streams
    <2>3. /\ Append(down, e) \in Seq(Events) /\ Len(Append(down, e)) = Len(down) + 1
          /\ Append(down, e)[Len(down) + 1] = e
          /\ \A i \in 1 .. Len(down) : Append(down, e)[i] = down[i]
        BY <2>2, AppendProperties
    <2> QED BY <1>2, <2>1, <2>3
<1> QED BY <1>1, <1>2

\* The first token a receiving handler meets.
LEMMA FirstToken ==
    ASSUME IInv, srv = "receiving", up # <<>>
    PROVE  \/ remaining > 0 /\ Head(up) \in Data
           \/ remaining = 0 /\ Head(up) \in 0 .. MaxChunk
<1>1. PICK pos, due :
        /\ Framing(up, ask.content, pos, due)
        /\ pos[1] = total /\ due[1] = remaining
    BY DEF IInv, Framed
<1>2. Len(up) \in Nat \ {0} /\ Head(up) = up[1]
    BY Reading DEF IInv, Streams
<1>3. 1 \in 1 .. Len(up)
    BY <1>2
<1> QED BY <1>1, <1>2, <1>3 DEF Framing

LEMMA TypeStep == IInv /\ [Next]_vars => TypeOK'
<1> SUFFICES ASSUME IInv, [Next]_vars PROVE TypeOK'
    OBVIOUS
<1> USE DEF TypeOK, client, handler
<1>0. TypeOK /\ Streams
    BY DEF IInv
<1>t. up # <<>> => Len(Tail(up)) = Len(up) - 1 /\ Len(up) \in Nat
    BY <1>0, Reading DEF Streams
<1>d. down # <<>> => Head(down) \in Done \cup {"received"}
    BY <1>0, Reading DEF Streams, Events
<1>1. CASE NotSent
    <2>1. cli' = "exited" /\ verdict' \in {"tooLarge", "unreachable"}
        BY <1>1 DEF NotSent, Return
    <2> QED BY <1>0, <1>1, <2>1 DEF NotSent, Done, Errors
<1>2. CASE Ask
    BY <1>0, <1>2, ConversationAssumption DEF Ask
<1>3. CASE HearFirst
    BY <1>0, <1>d, <1>3 DEF HearFirst, Return, Done, Errors
<1>4. CASE HearVerdict
    BY <1>0, <1>d, <1>4 DEF HearVerdict, Return, Done, Errors
<1>5. CASE HearNothing \/ SendFails \/ SourceFails \/ Interrupt
    BY <1>0, <1>5 DEF HearNothing, SendFails, SourceFails, Interrupt, Return
<1>6. ASSUME NEW n \in 1 .. MaxChunk, SendChunk(n) PROVE TypeOK'
    <2>1. n \in Nat /\ up \in Seq(Int)
        BY <1>0, Constants DEF Streams
    <2>2. Chunk(n) \in Seq(Int) /\ Len(Chunk(n)) = n + 1
        BY <1>0, <2>1, Constants, Chunking DEF IsChunk
    <2>3. Len(up \o Chunk(n)) = Len(up) + Len(Chunk(n)) /\ Len(up) \in Nat
        BY <2>1, <2>2
    <2>4. /\ up' = up \o Chunk(n) /\ sent' = sent + n /\ sent + n <= ask.content
          /\ Len(up) + n + 1 <= Buffer
          /\ UNCHANGED <<ask, cli, verdict, down, handler, late, cut>>
        BY <1>6 DEF SendChunk
    <2>5. Len(up') <= Buffer
        BY <2>1, <2>2, <2>3, <2>4, Constants
    <2>6. sent' \in 0 .. ask'.content
        BY <1>0, <2>1, <2>4
    <2> QED BY <1>0, <2>4, <2>5, <2>6
<1>7. CASE SendEnd
    <2>1. Len(Append(up, 0)) = Len(up) + 1 /\ Len(up) \in Nat
        BY <1>0 DEF Streams
    <2> QED BY <1>0, <1>7, <2>1, ConversationAssumption DEF SendEnd, Return, Done
<1>8. CASE ReadRequest
    BY <1>0, <1>t, <1>8, ConversationAssumption DEF ReadRequest, Conclude
<1>9. CASE NoRequest \/ Guard \/ RefuseRest \/ NoPayload \/ Fail \/ Open \/ Opened
    BY <1>0, <1>9 DEF NoRequest, Guard, RefuseRest, NoPayload, Fail, Open, Opened, Conclude
<1>10. CASE ReadChunkHeader
    <2>1. Head(up) \in 0 .. MaxChunk
        BY <1>10, FirstToken DEF ReadChunkHeader
    <2> QED BY <1>0, <1>t, <1>10, <2>1, Constants DEF ReadChunkHeader, Conclude
<1>11. CASE ReadData
    BY <1>0, <1>t, <1>11, Constants DEF ReadData
<1>12. CASE Expire
    BY <1>0, <1>12 DEF Expire
<1>13. CASE Cut
    <2>1. PICK i \in 0 .. Len(up) : up' = SubSeq(up, 1, i)
        BY <1>13 DEF Cut
    <2>2. Len(up') <= Len(up) /\ Len(up) \in Nat /\ Len(up') \in Nat
        BY <1>0, <2>1, Truncating DEF Streams
    <2> QED BY <1>0, <1>13, <2>2, Constants DEF Cut
<1>14. CASE UNCHANGED vars
    BY <1>0, <1>14 DEF vars
<1> QED BY <1>1, <1>2, <1>3, <1>4, <1>5, <1>6, <1>7, <1>8, <1>9, <1>10, <1>11, <1>12, <1>13, <1>14
        DEF Next, ClientStep, HandlerStep, Failure
-----------------------------------------------------------------------------
(* The streams.                                                            *)

\* Before leave to send, Say writes the only event.
LEMMA SayingFirst ==
    ASSUME IInv, srv \in {"reading", "guarding"},
           NEW e \in {"refused", "tooLarge", "modified", "received"}, Say(e)
    PROVE  \/ (late \/ cut) /\ said' = said /\ down' = down
           \/ /\ ~late /\ ~cut /\ said' = <<e>>
              /\ down' \in Seq(Events) /\ Len(down') = Len(down) + 1
              /\ down'[Len(down) + 1] = e
              /\ \A i \in 1 .. Len(down) : down'[i] = down[i]
<1>1. said = <<>> /\ Streams
    BY DEF IInv, Stages
<1>2. e \in Events
    BY DEF Events, Done, Errors
<1>3. Append(<<>>, e) = <<e>>
    BY Answering
<1> QED BY <1>1, <1>2, <1>3, Saying

\* After it, the last one.
LEMMA SayingLast ==
    ASSUME IInv, srv \in {"receiving", "opening", "opened"},
           NEW e \in {"ok", "tooLarge", "broken"}, Say(e)
    PROVE  \/ (late \/ cut) /\ said' = said /\ down' = down
           \/ /\ ~late /\ ~cut /\ said = <<"received">> /\ said' = <<"received", e>>
              /\ down' \in Seq(Events) /\ Len(down') = Len(down) + 1
              /\ down'[Len(down) + 1] = e
              /\ \A i \in 1 .. Len(down) : down'[i] = down[i]
<1>1. Streams /\ (said = <<"received">> \/ late \/ cut)
    BY DEF IInv, Stages
<1>2. e \in Events
    BY DEF Events, Done, Errors
<1>3. Append(<<"received">>, e) = <<"received", e>>
    BY Answering
<1>4. CASE late \/ cut
    BY <1>1, <1>2, <1>4, Saying
<1>5. CASE ~late /\ ~cut /\ said = <<"received">>
    <2>1. Append(said, e) = <<"received", e>>
        BY <1>3, <1>5
    <2> QED BY <1>1, <1>2, <1>5, <2>1, Saying
<1> QED BY <1>1, <1>4, <1>5

LEMMA StreamsStep == IInv /\ [Next]_vars => Streams'
<1> SUFFICES ASSUME IInv, [Next]_vars PROVE Streams'
    OBVIOUS
<1> USE DEF client, handler
<1>0. up \in Seq(Int) /\ down \in Seq(Events) /\ said \in Answers /\ TypeOK
    BY DEF IInv, Streams
<1>t. up # <<>> => Tail(up) \in Seq(Int)
    BY <1>0, Reading
<1>d. down # <<>> => Tail(down) \in Seq(Events)
    BY <1>0, Reading
<1>r. \A e : e \in {"refused", "tooLarge", "modified", "received"} => <<e>> \in Answers
    BY DEF Answers
<1>s. \A e : e \in {"ok", "tooLarge", "broken"} => <<"received", e>> \in Answers
    BY DEF Answers
<1>e. ASSUME NEW e \in {"refused", "tooLarge", "modified", "received"},
             srv \in {"reading", "guarding"}, Say(e)
      PROVE  said' \in Answers /\ down' \in Seq(Events)
    BY <1>0, <1>e, <1>r, SayingFirst
<1>l. ASSUME NEW e \in {"ok", "tooLarge", "broken"},
             srv \in {"receiving", "opening", "opened"}, Say(e)
      PROVE  said' \in Answers /\ down' \in Seq(Events)
    BY <1>0, <1>l, <1>s, SayingLast
<1> USE DEF Streams
<1>1. CASE NotSent \/ HearNothing \/ SendFails \/ SourceFails \/ Interrupt
           \/ NoRequest \/ Open \/ Expire \/ UNCHANGED vars
    BY <1>0, <1>1 DEF NotSent, HearNothing, SendFails, SourceFails, Interrupt, NoRequest, Open, Expire, vars
<1>2. CASE Ask
    BY <1>0, <1>2 DEF Ask, Header
<1>3. CASE HearFirst \/ HearVerdict
    BY <1>0, <1>d, <1>3 DEF HearFirst, HearVerdict
<1>4. ASSUME NEW n \in 1 .. MaxChunk, SendChunk(n) PROVE Streams'
    <2>0. n \in Nat
        BY <1>0, Constants
    <2>1. Chunk(n) \in Seq(Int)
        BY <1>0, <2>0, Constants, Chunking DEF IsChunk
    <2>2. up \o Chunk(n) \in Seq(Int)
        BY <1>0, <2>1
    <2> QED BY <1>0, <1>4, <2>2 DEF SendChunk
<1>5. CASE SendEnd
    <2>1. Append(up, 0) \in Seq(Int)
        BY <1>0
    <2> QED BY <1>0, <1>5, <2>1 DEF SendEnd
<1>6. CASE ReadRequest
    BY <1>0, <1>t, <1>e, <1>6 DEF ReadRequest, Conclude
<1>7. CASE Guard
    BY <1>0, <1>e, <1>7 DEF Guard, Conclude
<1>8. CASE ReadChunkHeader
    BY <1>0, <1>t, <1>l, <1>8 DEF ReadChunkHeader, Conclude
<1>9. CASE ReadData
    BY <1>0, <1>t, <1>9 DEF ReadData
<1>10. CASE RefuseRest \/ NoPayload \/ Fail \/ Opened
    BY <1>0, <1>l, <1>10 DEF RefuseRest, NoPayload, Fail, Opened, Conclude
<1>11. CASE Cut
    BY <1>0, <1>11, Truncating DEF Cut
<1> QED BY <1>1, <1>2, <1>3, <1>4, <1>5, <1>6, <1>7, <1>8, <1>9, <1>10, <1>11
        DEF Next, ClientStep, HandlerStep, Failure
-----------------------------------------------------------------------------
(* The stages.                                                             *)

LEMMA Events1 ==
    /\ \A e : <<e>> # <<>> /\ <<e>>[1] = e
    /\ \A e : <<"received", e>> # <<>> /\ <<"received", e>>[1] = "received"
BY Answering

\* What the client hears was said.
LEMMA Hearing ==
    ASSUME IInv, cli \in {"asking", "awaiting"}, down # <<>>
    PROVE  /\ cli = "asking" => said # <<>> /\ Head(down) = said[1]
           /\ cli = "awaiting" => Len(said) = 2 /\ Head(down) = said[2]
<1>1. Len(down) \in Nat \ {0} /\ Head(down) = down[1]
    BY Reading DEF IInv, Streams
<1>2. Pending /\ said \in Answers
    BY DEF IInv, Streams
<1>3. 1 \in 1 .. Len(down)
    BY <1>1
<1>4. CASE cli = "asking"
    <2>1. down[1] = said[1] /\ Len(down) <= Len(said)
        <3>1. Len(down) + 0 <= Len(said) /\ down[1] = said[1 + 0]
            BY <1>2, <1>3, <1>4 DEF Pending, Heard
        <3> QED BY <3>1, <1>2, Answering DEF Answers
    <2>2. said # <<>>
        BY <1>1, <2>1
    <2> QED BY <1>1, <1>4, <2>1, <2>2
<1>5. CASE cli = "awaiting"
    <2>1. Len(down) + 1 <= Len(said) /\ down[1] = said[1 + 1]
        BY <1>2, <1>3, <1>5 DEF Pending, Heard
    <2>2. Len(said) \in 0 .. 2
        BY <1>2, Answering DEF Answers
    <2>3. Len(said) = 2 /\ down[1] = said[2]
        BY <1>1, <2>1, <2>2
    <2> QED BY <1>1, <1>5, <2>3
<1> QED BY <1>4, <1>5

LEMMA StagesStep == IInv /\ [Next]_vars => Stages'
<1> SUFFICES ASSUME IInv, [Next]_vars PROVE Stages'
    OBVIOUS
<1> USE DEF client, handler
<1>0. Stages /\ TypeOK
    BY DEF IInv
<1>1. CASE NotSent
    BY <1>0, <1>1 DEF Stages, NotSent, Return
<1>2. CASE Ask
    BY <1>0, <1>2 DEF Stages, Ask
<1>3. CASE HearFirst
    <2>1. Head(down) \notin Done => said # <<>> /\ said[1] = "received"
        <3>1. said # <<>> /\ Head(down) = said[1]
            BY <1>3, Hearing DEF HearFirst
        <3>2. down \in Seq(Events) /\ down # <<>>
            BY <1>3 DEF IInv, Streams, HearFirst
        <3>3. Head(down) \in Done \cup {"received"}
            BY <3>2, Reading DEF Events
        <3> QED BY <3>1, <3>3
    <2>2. srv # "none"
        BY <1>0, <1>3 DEF Stages, HearFirst
    <2> QED BY <1>0, <1>3, <2>1, <2>2 DEF Stages, HearFirst, Return
<1>4. CASE HearVerdict
    BY <1>0, <1>4 DEF Stages, HearVerdict, Return
<1>5. CASE HearNothing \/ SendFails \/ SourceFails \/ Interrupt
    BY <1>0, <1>5 DEF Stages, HearNothing, SendFails, SourceFails, Interrupt, Return
<1>6. ASSUME NEW n \in 1 .. MaxChunk, SendChunk(n) PROVE Stages'
    BY <1>0, <1>6 DEF Stages, SendChunk
<1>7. CASE SendEnd
    BY <1>0, <1>7 DEF Stages, SendEnd, Return
<1>8. CASE ReadRequest
    <2>1. up = <<Header>>
        BY <1>0, <1>8 DEF Stages, ReadRequest
    <2>2. Tail(<<Header>>) = <<>>
        OBVIOUS
    <2>3. Tail(up) = <<>>
        BY <2>1, <2>2
    <2> QED BY <1>0, <1>8, <2>3, SayingFirst DEF Stages, ReadRequest, Conclude
<1>9. CASE Guard
    BY <1>0, <1>9, SayingFirst DEF Stages, Guard, Conclude
<1>10. CASE NoRequest
    BY <1>0, <1>10 DEF Stages, NoRequest
<1>11. CASE ReadChunkHeader
    BY <1>0, <1>11, SayingLast, Events1 DEF Stages, ReadChunkHeader, Conclude
<1>12. CASE ReadData
    BY <1>0, <1>12 DEF Stages, ReadData
<1>13. CASE RefuseRest \/ NoPayload \/ Fail \/ Opened
    BY <1>0, <1>13, SayingLast, Events1 DEF Stages, RefuseRest, NoPayload, Fail, Opened, Conclude
<1>14. CASE Open
    BY <1>0, <1>14 DEF Stages, Open
<1>15. CASE Expire
    BY <1>0, <1>15 DEF Stages, Expire
<1>16. CASE Cut
    <2>1. PICK i \in 0 .. Len(up) : up' = SubSeq(up, 1, i)
        BY <1>16 DEF Cut
    <2>2. up = <<>> => up' = <<>>
        BY <2>1
    <2>3. ASSUME up = <<Header>> PROVE up' = <<Header>> \/ up' = <<>>
        <3>1. up \in Seq(Int) /\ Len(up) = 1
            BY <2>3 DEF IInv, Streams
        <3>2. i = 0 \/ i = 1
            BY <3>1
        <3>3. up' \in Seq(Int) /\ Len(up') = i /\ \A j \in 1 .. i : up'[j] = up[j]
            BY <2>1, <3>1, Truncating
        <3>4. CASE i = 0
            BY <3>3, <3>4
        <3>5. CASE i = 1
            <4>1. up' = up
                BY <3>1, <3>3, <3>5, SeqEqual
            <4> QED BY <2>3, <4>1
        <3> QED BY <3>2, <3>4, <3>5
    <2> QED BY <1>0, <1>16, <2>2, <2>3 DEF Stages, Cut
<1>17. CASE UNCHANGED vars
    BY <1>0, <1>17 DEF Stages, vars
<1> QED BY <1>1, <1>2, <1>3, <1>4, <1>5, <1>6, <1>7, <1>8, <1>9, <1>10, <1>11, <1>12, <1>13, <1>14,
           <1>15, <1>16, <1>17
        DEF Next, ClientStep, HandlerStep, Failure
-----------------------------------------------------------------------------
(* What was said and not yet heard is under way.                           *)

LEMMA EventCounts ==
    ASSUME IInv
    PROVE  Len(down) \in Nat /\ Len(said) \in 0 .. 2
<1>1. down \in Seq(Events) /\ said \in Answers
    BY DEF IInv, Streams
<1> QED BY <1>1, Answering DEF Answers

LEMMA PendingStep == IInv /\ [Next]_vars => Pending'
<1> SUFFICES ASSUME IInv, [Next]_vars PROVE Pending'
    OBVIOUS
<1> USE DEF client, handler
<1>0. Pending /\ Len(down) \in Nat /\ Len(said) \in 0 .. 2
    BY EventCounts DEF IInv
<1>x. ASSUME cli' = "exited" PROVE Pending'
    BY <1>x DEF Pending
<1>u. ASSUME cli' = cli \/ (cli = "sending" /\ cli' = "awaiting"), UNCHANGED <<down, said, cut>>
      PROVE  Pending'
    BY <1>0, <1>u DEF Pending, Heard
<1>e. ASSUME NEW e \in {"refused", "tooLarge", "modified", "received"},
             srv \in {"reading", "guarding"}, Say(e), UNCHANGED <<cli, cut>>
      PROVE  Pending'
    <2>1. said = <<>> /\ cli \in {"start", "asking", "exited"}
        BY <1>e DEF IInv, Stages
    <2>2. CASE UNCHANGED <<said, down>>
        BY <1>e, <1>u, <2>2
    <2>3. CASE /\ ~late /\ ~cut /\ said' = <<e>> /\ Len(down') = Len(down) + 1
               /\ down'[Len(down) + 1] = e
        <3>1. SUFFICES ASSUME cli = "asking" PROVE Pending'
            BY <1>x, <1>e, <2>1 DEF Pending
        <3>2. Len(down) = 0
            BY <1>0, <2>1, <2>3, <3>1 DEF Pending, Heard
        <3>3. Len(down') = 1 /\ down'[1] = e
            BY <2>3, <3>2
        <3>4. Len(said') = 1 /\ said'[1] = e
            BY <2>3, Answering
        <3>5. Heard' = 0
            BY <1>e, <3>1 DEF Heard
        <3>6. \A i \in 1 .. 1 : i = 1 /\ i + 0 = 1
            OBVIOUS
        <3> QED BY <3>3, <3>4, <3>5, <3>6 DEF Pending
    <2> QED BY <1>e, <2>2, <2>3, SayingFirst
<1>l. ASSUME NEW e \in {"ok", "tooLarge", "broken"},
             srv \in {"receiving", "opening", "opened"}, Say(e), UNCHANGED <<cli, cut>>
      PROVE  Pending'
    <2>1. CASE UNCHANGED <<said, down>>
        BY <1>l, <1>u, <2>1
    <2>2. CASE /\ ~late /\ ~cut /\ said = <<"received">> /\ said' = <<"received", e>>
               /\ Len(down') = Len(down) + 1
               /\ down'[Len(down) + 1] = e
               /\ \A i \in 1 .. Len(down) : down'[i] = down[i]
        <3>1. SUFFICES ASSUME cli \in {"asking", "sending", "awaiting"} PROVE Pending'
            BY <1>l DEF Pending
        <3>2. Heard \in 0 .. 1 /\ Heard' = Heard
            BY <1>l DEF Heard
        <3>3. Len(said) = 1 /\ said[1] = "received"
            BY <2>2, Answering
        <3>4. Len(down) + Heard = 1 /\ \A i \in 1 .. Len(down) : down[i] = said[i + Heard]
            BY <1>0, <2>2, <3>1, <3>3 DEF Pending
        <3>5. Len(said') = 2 /\ said'[1] = "received" /\ said'[2] = e
            BY <2>2, Answering
        <3>6. Len(down') + Heard' = Len(said')
            BY <1>0, <2>2, <3>2, <3>4, <3>5
        <3>7. ASSUME NEW i \in 1 .. Len(down') PROVE down'[i] = said'[i + Heard']
            <4>1. CASE i = Len(down) + 1
                BY <1>0, <2>2, <3>2, <3>4, <3>5, <4>1
            <4>2. CASE i # Len(down) + 1
                <5>1. i \in 1 .. Len(down)
                    BY <1>0, <2>2, <4>2
                <5>2. i + Heard = 1
                    BY <1>0, <3>2, <3>4, <5>1
                <5> QED BY <2>2, <3>2, <3>3, <3>4, <3>5, <5>1, <5>2
            <4> QED BY <4>1, <4>2
        <3> QED BY <3>5, <3>6, <3>7 DEF Pending
    <2> QED BY <1>l, <2>1, <2>2, SayingLast
<1>1. CASE NotSent \/ HearNothing \/ SendFails \/ SourceFails \/ Interrupt
    BY <1>1, <1>x DEF NotSent, HearNothing, SendFails, SourceFails, Interrupt, Return
<1>2. CASE Ask
    <2>1. down = <<>> /\ said = <<>>
        BY <1>2 DEF IInv, Stages, Ask
    <2>2. Len(<<>>) = 0
        OBVIOUS
    <2>3. Len(down') = 0 /\ Len(said') = 0 /\ Heard' = 0
        BY <1>2, <2>1, <2>2 DEF Ask, Heard
    <2> QED BY <2>3 DEF Pending
<1>3. CASE HearFirst
    <2>1. SUFFICES ASSUME cli' = "sending" PROVE Pending'
        BY <1>3, <1>x DEF HearFirst, Return
    <2>2. /\ Len(down) \in Nat \ {0} /\ Len(down') = Len(down) - 1
          /\ \A i \in 1 .. Len(down) - 1 : down'[i] = down[i + 1]
        BY <1>3, Reading DEF IInv, Streams, HearFirst
    <2>3. Heard = 0 /\ Heard' = 1 /\ said' = said /\ cut' = cut
        BY <1>3, <2>1 DEF HearFirst, Heard
    <2>4. /\ Len(down) <= Len(said) /\ (~cut => Len(down) = Len(said))
          /\ \A i \in 1 .. Len(down) : down[i] = said[i]
        BY <1>0, <1>3, <2>3 DEF Pending, HearFirst
    <2>5. ASSUME NEW i \in 1 .. Len(down') PROVE down'[i] = said'[i + Heard']
        BY <2>2, <2>3, <2>4, <2>5
    <2>6. Len(down') + Heard' = Len(down)
        BY <2>2, <2>3
    <2>7. /\ Len(down') + Heard' <= Len(said')
          /\ ~cut' => Len(down') + Heard' = Len(said')
        BY <2>3, <2>4, <2>6
    <2> QED BY <2>5, <2>7 DEF Pending
<1>4. CASE HearVerdict
    <2>1. Len(said) = 2 /\ Head(down) = said[2]
        BY <1>4, Hearing DEF HearVerdict
    <2>2. said \in Answers
        BY DEF IInv, Streams
    <2>3. Len(<<>>) = 0 /\ \A x : Len(<<x>>) = 1
        BY Answering
    <2>4. PICK e \in {"ok", "tooLarge", "broken"} : said = <<"received", e>>
        <3>1. said # <<>> /\ \A x : said # <<x>>
            BY <2>1, <2>3
        <3> QED BY ZenonT(20), <2>2, <3>1 DEF Answers
    <2>5. Head(down) = e
        BY <2>1, <2>4, Answering
    <2>6. cli' = "exited"
        BY <1>4, <2>5 DEF HearVerdict, Return, Done, Errors
    <2> QED BY <1>x, <2>6
<1>5. ASSUME NEW n \in 1 .. MaxChunk, SendChunk(n) PROVE Pending'
    BY <1>5, <1>u DEF SendChunk
<1>6. CASE SendEnd
    BY <1>6, <1>u, <1>x DEF SendEnd, Return
<1>7. CASE ReadRequest
    BY <1>7, <1>u, <1>e DEF ReadRequest, Conclude
<1>8. CASE Guard
    BY <1>8, <1>e DEF Guard, Conclude
<1>9. CASE NoRequest \/ ReadData \/ Open \/ Expire \/ UNCHANGED vars
    BY <1>9, <1>u DEF NoRequest, ReadData, Open, Expire, vars
<1>10. CASE ReadChunkHeader
    BY <1>10, <1>u, <1>l DEF ReadChunkHeader, Conclude
<1>11. CASE RefuseRest \/ NoPayload \/ Fail \/ Opened
    BY <1>11, <1>l DEF RefuseRest, NoPayload, Fail, Opened, Conclude
<1>12. CASE Cut
    <2>1. PICK i \in 0 .. Len(down) : down' = SubSeq(down, 1, i)
        BY <1>12 DEF Cut
    <2>2. Len(down') = i /\ \A j \in 1 .. i : down'[j] = down[j]
        BY <2>1, Truncating DEF IInv, Streams
    <2>3. Heard' = Heard /\ Heard \in 0 .. 1 /\ said' = said /\ cut' /\ cli' = cli
        BY <1>12 DEF Cut, Heard
    <2>4. i <= Len(down) /\ i \in Nat /\ Len(down) \in Nat /\ \A j \in 1 .. i : j \in 1 .. Len(down)
        BY <1>0 DEF Streams
    <2>5. SUFFICES ASSUME cli \in {"asking", "sending", "awaiting"}
                   PROVE  /\ Len(down') + Heard <= Len(said)
                          /\ \A j \in 1 .. Len(down') : down'[j] = said[j + Heard]
        BY <2>3 DEF Pending
    <2>6. /\ Len(down) + Heard <= Len(said) /\ Len(said) \in Nat
          /\ \A j \in 1 .. Len(down) : down[j] = said[j + Heard]
        BY <1>0, <2>5 DEF Pending
    <2>7. Len(down') + Heard <= Len(said)
        BY <2>2, <2>3, <2>4, <2>6
    <2> QED BY <2>2, <2>4, <2>6, <2>7
<1> QED BY <1>1, <1>2, <1>3, <1>4, <1>5, <1>6, <1>7, <1>8, <1>9, <1>10, <1>11, <1>12
        DEF Next, ClientStep, HandlerStep, Failure
-----------------------------------------------------------------------------
(* The framing.                                                            *)

\* A chunk is written.
LEMMA FramingExtended ==
    ASSUME NEW tokens \in Seq(Int), NEW content \in Nat, NEW pos, NEW due,
           Framing(tokens, content, pos, due), due[Len(tokens) + 1] = 0,
           NEW passed \in Nat, pos[Len(tokens) + 1] = passed,
           MaxChunk \in Nat, NEW n \in 1 .. MaxChunk, passed + n <= content,
           NEW chunk, IsChunk(chunk, n, passed, content)
    PROVE  \E p, d : /\ Framing(tokens \o chunk, content, p, d)
                     /\ p[1] = pos[1] /\ d[1] = due[1]
                     /\ p[Len(tokens \o chunk) + 1] = passed + n
                     /\ d[Len(tokens \o chunk) + 1] = 0
<1> DEFINE L == Len(tokens)
           all == tokens \o chunk
           p == [k \in 1 .. L + n + 2 |-> IF k <= L + 1 THEN pos[k] ELSE passed + (k - (L + 2))]
           d == [k \in 1 .. L + n + 2 |-> IF k <= L + 1 THEN due[k] ELSE n - (k - (L + 2))]
<1>1. n \in Nat \ {0} /\ L \in Nat /\ L + 1 \in 1 .. L + 1
    OBVIOUS
<1>i. /\ \A k \in 1 .. L + 1 : k \in 1 .. L + n + 2 /\ k <= L + 1
      /\ \A k \in L + 2 .. L + n + 2 :
           /\ k \in 1 .. L + n + 2 /\ ~(k <= L + 1)
           /\ k - (L + 2) \in Nat /\ n - (k - (L + 2)) \in Nat
      /\ \A k \in 1 .. L + n + 2 : k \in 1 .. L + 1 \/ k \in L + 2 .. L + n + 2
    <2> HIDE DEF L
    <2>1. \A k \in 1 .. L + 1 : k \in 1 .. L + n + 2 /\ k <= L + 1
        BY <1>1
    <2>2. ASSUME NEW k \in L + 2 .. L + n + 2
          PROVE  /\ k \in 1 .. L + n + 2 /\ ~(k <= L + 1)
                 /\ k - (L + 2) \in Nat /\ n - (k - (L + 2)) \in Nat
        BY <1>1
    <2>3. \A k \in 1 .. L + n + 2 : k \in 1 .. L + 1 \/ k \in L + 2 .. L + n + 2
        BY <1>1
    <2> QED BY <2>1, <2>2, <2>3
<1>2. /\ pos \in [1 .. L + 1 -> Nat] /\ due \in [1 .. L + 1 -> Nat]
      /\ \A i \in 1 .. L + 1 : pos[i] + due[i] <= content
    BY DEF Framing
<1>3. pos[L + 1] = passed /\ due[L + 1] = 0
    OBVIOUS
<1>4. /\ Len(all) = L + n + 1
      /\ \A i \in 1 .. L + n + 1 : all[i] = IF i <= L THEN tokens[i] ELSE chunk[i - L]
    <2>0. chunk \in Seq(Int) /\ Len(chunk) = n + 1
        BY DEF IsChunk
    <2>1. /\ Len(all) = L + Len(chunk)
          /\ \A i \in 1 .. L + Len(chunk) :
               all[i] = IF i <= L THEN tokens[i] ELSE chunk[i - L]
        BY <2>0, ConcatProperties, Zenon
    <2>2. L + Len(chunk) = L + n + 1
        BY <1>1, <2>0
    <2> QED BY <2>1, <2>2
<1>6. /\ \A k \in 1 .. L + 1 : p[k] = pos[k] /\ d[k] = due[k]
      /\ \A k \in L + 2 .. L + n + 2 : p[k] = passed + (k - (L + 2)) /\ d[k] = n - (k - (L + 2))
    <2> HIDE DEF L
    <2> QED BY <1>i
<1>5. p \in [1 .. Len(all) + 1 -> Nat] /\ d \in [1 .. Len(all) + 1 -> Nat]
    <2>1. Len(all) + 1 = L + n + 2
        BY <1>1, <1>4
    <2> HIDE DEF L
    <2>2. ASSUME NEW k \in 1 .. L + n + 2 PROVE p[k] \in Nat /\ d[k] \in Nat
        <3> HIDE DEF p, d
        <3>1. CASE k \in 1 .. L + 1
            BY <1>2, <1>6, <3>1
        <3>2. CASE k \in L + 2 .. L + n + 2
            <4>1. k - (L + 2) \in Nat /\ n - (k - (L + 2)) \in Nat
                BY <1>i, <3>2
            <4>2. p[k] = passed + (k - (L + 2)) /\ d[k] = n - (k - (L + 2))
                BY <1>6, <3>2
            <4> QED BY <1>3, <4>1, <4>2
        <3> QED BY <1>i, <2>2, <3>1, <3>2
    <2> QED BY <2>1, <2>2
<1>7. \A i \in 1 .. n :
         /\ chunk[i + 1] \in Data
         /\ chunk[i + 1] = LastByte => passed + i = content
    BY DEF IsChunk
<1>8. chunk \in Seq(Int) /\ Len(chunk) = n + 1 /\ chunk[1] = n
    BY DEF IsChunk
<1> HIDE DEF p, d, all
<1>9. ASSUME NEW i \in 1 .. Len(all)
      PROVE  \/ /\ d[i] > 0 /\ all[i] \in Data
                /\ all[i] = LastByte => p[i] + 1 = content
                /\ p[i + 1] = p[i] + 1 /\ d[i + 1] = d[i] - 1
             \/ /\ d[i] = 0 /\ all[i] \in 0 .. MaxChunk
                /\ all[i] = 0 => p[i] = content
                /\ p[i + 1] = p[i] /\ d[i + 1] = all[i]
    <2>1. CASE i \in 1 .. L
        <3>1. all[i] = tokens[i] /\ p[i] = pos[i] /\ d[i] = due[i] /\ p[i + 1] = pos[i + 1] /\ d[i + 1] = due[i + 1]
            <4>1. i \in 1 .. L + n + 1 /\ i <= L /\ i \in 1 .. L + 1 /\ i + 1 \in 1 .. L + 1
                BY <1>1, <2>1
            <4> QED BY <1>4, <1>6, <4>1
        <3> QED BY <2>1, <3>1 DEF Framing
    <2>2. CASE i = L + 1
        <3>0. /\ i \in 1 .. L + n + 1 /\ ~(i <= L) /\ i - L = 1 /\ i \in 1 .. L + 1
              /\ i + 1 \in L + 2 .. L + n + 2 /\ (i + 1) - (L + 2) = 0
            BY <1>1, <2>2
        <3>1. all[i] = n
            BY <1>4, <1>8, <3>0
        <3>a. p[i] = pos[L + 1] /\ d[i] = due[L + 1]
            BY <1>6, <2>2, <3>0
        <3>b. p[i + 1] = passed + 0 /\ d[i + 1] = n - 0
            BY <1>6, <3>0
        <3>d. passed + 0 = passed /\ n - 0 = n
            BY <1>1
        <3>2. p[i] = passed /\ d[i] = 0 /\ p[i + 1] = passed /\ d[i + 1] = n
            BY <1>3, <3>a, <3>b, <3>d, Zenon
        <3>3. n \in 0 .. MaxChunk /\ n # 0
            BY <1>1
        <3> QED BY <3>1, <3>2, <3>3
    <2>3. CASE i \in L + 2 .. L + n + 1
        <3>1. i - L - 1 \in 1 .. n /\ (i - L - 1) + 1 = i - L /\ ~(i <= L) /\ i \in 1 .. L + n + 1
            BY <1>1, <2>3
        <3>2. all[i] = chunk[(i - L - 1) + 1]
            BY <1>4, <3>1
        <3>3. /\ all[i] \in Data
              /\ all[i] = LastByte => passed + (i - L - 1) = content
            BY <1>7, <3>1, <3>2
        <3>4. /\ p[i] = passed + (i - (L + 2)) /\ d[i] = n - (i - (L + 2))
              /\ p[i + 1] = passed + ((i + 1) - (L + 2)) /\ d[i + 1] = n - ((i + 1) - (L + 2))
            <4>1. i \in L + 2 .. L + n + 2 /\ i + 1 \in L + 2 .. L + n + 2
                BY <1>1, <2>3
            <4>2. p[i] = passed + (i - (L + 2)) /\ d[i] = n - (i - (L + 2))
                BY <1>6, <4>1, Zenon
            <4>3. p[i + 1] = passed + ((i + 1) - (L + 2)) /\ d[i + 1] = n - ((i + 1) - (L + 2))
                BY <1>6, <4>1, Zenon
            <4> QED BY <4>2, <4>3
        <3>5. /\ d[i] > 0 /\ p[i] + 1 = passed + (i - L - 1)
              /\ p[i + 1] = p[i] + 1 /\ d[i + 1] = d[i] - 1
            BY <1>1, <1>3, <2>3, <3>4
        <3> QED BY <3>3, <3>5
    <2> QED BY <1>1, <1>4, <2>1, <2>2, <2>3
<1>10. ASSUME NEW k \in 1 .. Len(all) + 1 PROVE p[k] + d[k] <= content
    <2>1. CASE k \in 1 .. L + 1
        BY <1>2, <1>6, <2>1
    <2>2. CASE k \in L + 2 .. L + n + 2
        <3>1. p[k] + d[k] = passed + n
            BY <1>1, <1>3, <1>6, <2>2
        <3> QED BY <1>3, <3>1
    <2> QED BY <1>1, <1>4, <2>1, <2>2
<1>11. p[Len(all) + 1] = passed + n /\ d[Len(all) + 1] = 0
    <2>1. Len(all) + 1 = L + n + 2
        BY <1>1, <1>4
    <2>2. L + n + 2 \in L + 2 .. L + n + 2 /\ (L + n + 2) - (L + 2) = n
        BY <1>1
    <2>3. p[L + n + 2] = passed + n /\ d[L + n + 2] = n - n
        BY <1>6, <2>2
    <2>4. n - n = 0
        BY <1>1
    <2> QED BY <2>1, <2>3, <2>4
<1>12. Framing(all, content, p, d)
    BY <1>5, <1>9, <1>10 DEF Framing
<1>13. p[1] = pos[1] /\ d[1] = due[1]
    BY <1>1, <1>6
<1> QED BY <1>11, <1>12, <1>13 DEF all

\* The final chunk is written.
LEMMA FramingEnded ==
    ASSUME NEW tokens \in Seq(Int), NEW content \in Nat, NEW pos, NEW due,
           Framing(tokens, content, pos, due),
           due[Len(tokens) + 1] = 0, pos[Len(tokens) + 1] = content, MaxChunk \in Nat
    PROVE  \E p, d : /\ Framing(Append(tokens, 0), content, p, d)
                     /\ p[1] = pos[1] /\ d[1] = due[1]
                     /\ p[Len(Append(tokens, 0)) + 1] = content
                     /\ d[Len(Append(tokens, 0)) + 1] = 0
<1> DEFINE L == Len(tokens)
           all == Append(tokens, 0)
           p == [k \in 1 .. L + 2 |-> IF k <= L + 1 THEN pos[k] ELSE content]
           d == [k \in 1 .. L + 2 |-> IF k <= L + 1 THEN due[k] ELSE 0]
<1>1. L \in Nat
    OBVIOUS
<1>2. /\ pos \in [1 .. L + 1 -> Nat] /\ due \in [1 .. L + 1 -> Nat]
      /\ \A i \in 1 .. L + 1 : pos[i] + due[i] <= content
    BY DEF Framing
<1>3. Len(all) = L + 1 /\ all[L + 1] = 0 /\ \A i \in 1 .. L : all[i] = tokens[i]
    BY AppendProperties
<1>4. p \in [1 .. Len(all) + 1 -> Nat] /\ d \in [1 .. Len(all) + 1 -> Nat]
    <2>1. Len(all) + 1 = L + 2
        BY <1>1, <1>3
    <2>2. \A k \in 1 .. L + 2 : p[k] \in Nat /\ d[k] \in Nat
        BY <1>1, <1>2
    <2> QED BY <2>1, <2>2
<1>5. /\ \A k \in 1 .. L + 1 : p[k] = pos[k] /\ d[k] = due[k]
      /\ p[L + 2] = content /\ d[L + 2] = 0
      /\ p[L + 1] = content /\ d[L + 1] = 0
    BY <1>1
<1> HIDE DEF p, d, all
<1>6. ASSUME NEW i \in 1 .. Len(all)
      PROVE  \/ /\ d[i] > 0 /\ all[i] \in Data
                /\ all[i] = LastByte => p[i] + 1 = content
                /\ p[i + 1] = p[i] + 1 /\ d[i + 1] = d[i] - 1
             \/ /\ d[i] = 0 /\ all[i] \in 0 .. MaxChunk
                /\ all[i] = 0 => p[i] = content
                /\ p[i + 1] = p[i] /\ d[i + 1] = all[i]
    <2>1. CASE i \in 1 .. L
        <3>1. all[i] = tokens[i] /\ p[i] = pos[i] /\ d[i] = due[i] /\ p[i + 1] = pos[i + 1] /\ d[i + 1] = due[i + 1]
            BY <1>1, <1>3, <1>5, <2>1
        <3> QED BY <2>1, <3>1 DEF Framing
    <2>2. CASE i = L + 1
        <3>1. all[i] = 0 /\ p[i] = content /\ d[i] = 0 /\ p[i + 1] = content /\ d[i + 1] = 0
            BY <1>1, <1>3, <1>5, <2>2
        <3> QED BY <3>1
    <2> QED BY <1>1, <1>3, <2>1, <2>2
<1>7. ASSUME NEW k \in 1 .. Len(all) + 1 PROVE p[k] + d[k] <= content
    <2>1. k \in 1 .. L + 1 \/ k = L + 2
        BY <1>1, <1>3
    <2>2. CASE k \in 1 .. L + 1
        BY <1>2, <1>5, <2>2
    <2>3. CASE k = L + 2
        BY <1>5, <2>3
    <2> QED BY <2>1, <2>2, <2>3
<1>8. Framing(all, content, p, d)
    BY <1>4, <1>6, <1>7 DEF Framing
<1>9. p[Len(all) + 1] = content /\ d[Len(all) + 1] = 0
    BY <1>1, <1>3, <1>5
<1>10. p[1] = pos[1] /\ d[1] = due[1]
    BY <1>1, <1>5
<1> QED BY <1>8, <1>9, <1>10 DEF all

\* A token is read.
LEMMA FramingRead ==
    ASSUME NEW tokens \in Seq(Int), tokens # <<>>, NEW content \in Nat, NEW pos, NEW due,
           Framing(tokens, content, pos, due)
    PROVE  \E p, d : /\ Framing(Tail(tokens), content, p, d)
                     /\ p[1] = pos[2] /\ d[1] = due[2]
                     /\ p[Len(Tail(tokens)) + 1] = pos[Len(tokens) + 1]
                     /\ d[Len(Tail(tokens)) + 1] = due[Len(tokens) + 1]
<1> DEFINE L == Len(tokens)
           rest == Tail(tokens)
           p == [k \in 1 .. L |-> pos[k + 1]]
           d == [k \in 1 .. L |-> due[k + 1]]
<1>1. L \in Nat \ {0} /\ Len(rest) = L - 1 /\ \A i \in 1 .. L - 1 : rest[i] = tokens[i + 1]
    BY Reading
<1>2. /\ pos \in [1 .. L + 1 -> Nat] /\ due \in [1 .. L + 1 -> Nat]
      /\ \A i \in 1 .. L + 1 : pos[i] + due[i] <= content
    BY DEF Framing
<1>3. p \in [1 .. Len(rest) + 1 -> Nat] /\ d \in [1 .. Len(rest) + 1 -> Nat]
    <2>1. Len(rest) + 1 = L
        BY <1>1
    <2>2. \A k \in 1 .. L : k + 1 \in 1 .. L + 1
        BY <1>1
    <2>3. \A k \in 1 .. L : p[k] \in Nat /\ d[k] \in Nat
        BY <1>2, <2>2
    <2> QED BY <2>1, <2>3
<1>4. \A k \in 1 .. L : p[k] = pos[k + 1] /\ d[k] = due[k + 1]
    OBVIOUS
<1> HIDE DEF p, d, rest
<1>5. ASSUME NEW i \in 1 .. Len(rest)
      PROVE  \/ /\ d[i] > 0 /\ rest[i] \in Data
                /\ rest[i] = LastByte => p[i] + 1 = content
                /\ p[i + 1] = p[i] + 1 /\ d[i + 1] = d[i] - 1
             \/ /\ d[i] = 0 /\ rest[i] \in 0 .. MaxChunk
                /\ rest[i] = 0 => p[i] = content
                /\ p[i + 1] = p[i] /\ d[i + 1] = rest[i]
    <2>1. i + 1 \in 1 .. L /\ i \in 1 .. L - 1
        BY <1>1
    <2>2. /\ rest[i] = tokens[i + 1] /\ p[i] = pos[i + 1] /\ d[i] = due[i + 1]
          /\ p[i + 1] = pos[(i + 1) + 1] /\ d[i + 1] = due[(i + 1) + 1]
        <3>1. i \in 1 .. L /\ i + 1 \in 1 .. L
            BY <1>1, <2>1
        <3> QED BY <1>1, <1>4, <2>1, <3>1
    <2> QED BY <2>1, <2>2 DEF Framing
<1>6. \A k \in 1 .. Len(rest) + 1 : p[k] + d[k] <= content
    BY <1>1, <1>2, <1>4
<1>7. Framing(rest, content, p, d)
    BY <1>3, <1>5, <1>6 DEF Framing
<1>8. p[Len(rest) + 1] = pos[L + 1] /\ d[Len(rest) + 1] = due[L + 1]
    BY <1>1, <1>4
<1>9. p[1] = pos[2] /\ d[1] = due[2]
    BY <1>1, <1>4
<1> QED BY <1>7, <1>8, <1>9 DEF rest

\* A framing that begins as pos and due do.
FramedFrom(tokens, content, pos, due) ==
    \E p, d : Framing(tokens, content, p, d) /\ p[1] = pos[1] /\ d[1] = due[1]

\* The tunnel breaks.
LEMMA FramingCut ==
    ASSUME NEW tokens \in Seq(Int), NEW content \in Nat, NEW pos, NEW due,
           Framing(tokens, content, pos, due), NEW n \in 0 .. Len(tokens)
    PROVE  FramedFrom(SubSeq(tokens, 1, n), content, pos, due)
<1> DEFINE some == SubSeq(tokens, 1, n)
           p == [k \in 1 .. n + 1 |-> pos[k]]
           d == [k \in 1 .. n + 1 |-> due[k]]
<1>1. n \in Nat /\ Len(tokens) \in Nat /\ Len(some) = n /\ \A i \in 1 .. n : some[i] = tokens[i]
    BY Truncating
<1>2. /\ pos \in [1 .. Len(tokens) + 1 -> Nat] /\ due \in [1 .. Len(tokens) + 1 -> Nat]
      /\ \A i \in 1 .. Len(tokens) + 1 : pos[i] + due[i] <= content
    BY DEF Framing
<1>3. p \in [1 .. Len(some) + 1 -> Nat] /\ d \in [1 .. Len(some) + 1 -> Nat]
    <2>1. \A k \in 1 .. n + 1 : p[k] \in Nat /\ d[k] \in Nat
        BY <1>1, <1>2
    <2> QED BY <1>1, <2>1
<1>4. \A k \in 1 .. n + 1 : p[k] = pos[k] /\ d[k] = due[k]
    OBVIOUS
<1> HIDE DEF p, d, some
<1>5. ASSUME NEW i \in 1 .. Len(some)
      PROVE  \/ /\ d[i] > 0 /\ some[i] \in Data
                /\ some[i] = LastByte => p[i] + 1 = content
                /\ p[i + 1] = p[i] + 1 /\ d[i + 1] = d[i] - 1
             \/ /\ d[i] = 0 /\ some[i] \in 0 .. MaxChunk
                /\ some[i] = 0 => p[i] = content
                /\ p[i + 1] = p[i] /\ d[i + 1] = some[i]
    <2>1. i \in 1 .. Len(tokens) /\ i \in 1 .. n /\ i + 1 \in 1 .. n + 1 /\ i \in 1 .. n + 1
        BY <1>1
    <2>2. /\ some[i] = tokens[i] /\ p[i] = pos[i] /\ d[i] = due[i]
          /\ p[i + 1] = pos[i + 1] /\ d[i + 1] = due[i + 1]
        BY <1>1, <1>4, <2>1
    <2> QED BY <2>1, <2>2 DEF Framing
<1>6. \A k \in 1 .. Len(some) + 1 : p[k] + d[k] <= content
    BY <1>1, <1>2, <1>4
<1>7. Framing(some, content, p, d)
    BY <1>3, <1>5, <1>6 DEF Framing
<1>8. p[1] = pos[1] /\ d[1] = due[1]
    BY <1>1, <1>4
<1> QED BY <1>7, <1>8 DEF some, FramedFrom

LEMMA FramedStep == IInv /\ [Next]_vars => Framed'
<1> SUFFICES ASSUME IInv, [Next]_vars, srv' = "receiving" PROVE Framed'
    BY DEF Framed
<1> USE DEF client, handler
<1>0. /\ TypeOK /\ up \in Seq(Int)
      /\ srv = "receiving" =>
            \E pos, due :
                /\ Framing(up, ask.content, pos, due)
                /\ pos[1] = total /\ due[1] = remaining
                /\ ~cut => pos[Len(up) + 1] = sent /\ due[Len(up) + 1] = 0
    BY DEF IInv, Framed, Streams
<1>u. ASSUME UNCHANGED <<ask, sent, up, srv, remaining, total, cut>> PROVE Framed'
    BY <1>0, <1>u DEF Framed
<1>1. CASE NotSent \/ HearFirst \/ HearVerdict \/ HearNothing \/ SendFails \/ SourceFails
           \/ Interrupt \/ Expire \/ UNCHANGED vars
    BY <1>1, <1>u DEF NotSent, HearFirst, HearVerdict, HearNothing, SendFails, SourceFails, Interrupt,
                      Expire, vars
<1>2. CASE Ask \/ ReadRequest \/ NoRequest \/ RefuseRest \/ NoPayload \/ Fail \/ Open \/ Opened
    BY <1>2 DEF Ask, ReadRequest, NoRequest, RefuseRest, NoPayload, Fail, Open, Opened, Conclude
<1>3. ASSUME NEW n \in 1 .. MaxChunk, SendChunk(n) PROVE Framed'
    <2>1. /\ srv = "receiving" /\ ~cut /\ up' = up \o Chunk(n) /\ sent' = sent + n
          /\ sent + n <= ask.content /\ UNCHANGED <<ask, total, remaining, cut>>
        BY <1>3 DEF SendChunk
    <2>2. PICK pos, due :
            /\ Framing(up, ask.content, pos, due)
            /\ pos[1] = total /\ due[1] = remaining
            /\ pos[Len(up) + 1] = sent /\ due[Len(up) + 1] = 0
        BY <1>0, <2>1
    <2>3. n \in Nat /\ MaxChunk \in Nat /\ ask.content \in Nat /\ sent \in Nat
        BY <1>0, Constants
    <2>4. IsChunk(Chunk(n), n, sent, ask.content)
        BY <2>3, Chunking
    <2>5. \E p, d : /\ Framing(up \o Chunk(n), ask.content, p, d)
                    /\ p[1] = pos[1] /\ d[1] = due[1]
                    /\ p[Len(up \o Chunk(n)) + 1] = sent + n
                    /\ d[Len(up \o Chunk(n)) + 1] = 0
        <3>1. up \in Seq(Int) /\ Framing(up, ask.content, pos, due)
            BY <1>0, <2>2
        <3>2. due[Len(up) + 1] = 0 /\ pos[Len(up) + 1] = sent /\ sent + n <= ask.content
            BY <2>1, <2>2
        <3> QED BY <2>3, <2>4, <3>1, <3>2, FramingExtended
    <2> QED BY <2>1, <2>2, <2>5 DEF Framed
<1>4. CASE SendEnd
    <2>1. /\ srv = "receiving" /\ ~cut /\ up' = Append(up, 0) /\ sent' = sent
          /\ sent = ask.content /\ UNCHANGED <<ask, total, remaining, cut>>
        BY <1>4 DEF SendEnd
    <2>2. PICK pos, due :
            /\ Framing(up, ask.content, pos, due)
            /\ pos[1] = total /\ due[1] = remaining
            /\ pos[Len(up) + 1] = ask.content /\ due[Len(up) + 1] = 0
        BY <1>0, <2>1
    <2>3. MaxChunk \in Nat /\ ask.content \in Nat
        BY <1>0, Constants
    <2>4. \E p, d : /\ Framing(Append(up, 0), ask.content, p, d)
                    /\ p[1] = pos[1] /\ d[1] = due[1]
                    /\ p[Len(Append(up, 0)) + 1] = ask.content
                    /\ d[Len(Append(up, 0)) + 1] = 0
        BY <1>0, <2>2, <2>3, FramingEnded
    <2> QED BY <2>1, <2>2, <2>4 DEF Framed
<1>5. CASE Guard
    <2>1. /\ up = <<>> /\ sent = 0 /\ remaining = 0 /\ total = 0
          /\ UNCHANGED <<ask, sent, up, remaining, total, cut>>
        BY <1>5 DEF Guard, IInv, Stages
    <2> DEFINE zero == [k \in {1} |-> 0]
    <2>2. Len(<<>>) = 0 /\ 1 .. 0 = {} /\ 1 .. 0 + 1 = {1}
        OBVIOUS
    <2>3. zero \in [1 .. 0 + 1 -> Nat] /\ zero[1] = 0 /\ zero[0 + 1] = 0
        OBVIOUS
    <2>4. ask.content \in Nat
        BY <1>0, Constants
    <2> HIDE DEF zero
    <2>5. Framing(<<>>, ask.content, zero, zero)
        BY <2>2, <2>3, <2>4 DEF Framing
    <2> QED BY <2>1, <2>2, <2>3, <2>5 DEF Framed
<1>6. CASE ReadChunkHeader
    <2>1. /\ srv = "receiving" /\ remaining = 0 /\ up # <<>> /\ up' = Tail(up) /\ remaining' = Head(up)
          /\ Head(up) # 0 /\ UNCHANGED <<ask, sent, total, cut>>
        BY <1>6 DEF ReadChunkHeader, Conclude
    <2>2. PICK pos, due :
            /\ Framing(up, ask.content, pos, due)
            /\ pos[1] = total /\ due[1] = remaining
            /\ ~cut => pos[Len(up) + 1] = sent /\ due[Len(up) + 1] = 0
        BY <1>0, <2>1
    <2>3. Head(up) = up[1] /\ 1 \in 1 .. Len(up)
        BY <1>0, <2>1, Reading
    <2>4. pos[1 + 1] = pos[1] /\ due[1 + 1] = Head(up)
        BY <2>1, <2>2, <2>3 DEF Framing
    <2>5. \E p, d : /\ Framing(Tail(up), ask.content, p, d)
                    /\ p[1] = pos[2] /\ d[1] = due[2]
                    /\ p[Len(Tail(up)) + 1] = pos[Len(up) + 1]
                    /\ d[Len(Tail(up)) + 1] = due[Len(up) + 1]
        BY <1>0, <2>1, <2>2, Constants, FramingRead
    <2> QED BY <2>1, <2>2, <2>4, <2>5 DEF Framed
<1>7. CASE ReadData
    <2>1. /\ srv = "receiving" /\ remaining > 0 /\ up # <<>> /\ up' = Tail(up)
          /\ remaining' = remaining - 1 /\ total' = total + 1 /\ UNCHANGED <<ask, sent, cut>>
        BY <1>7 DEF ReadData
    <2>2. PICK pos, due :
            /\ Framing(up, ask.content, pos, due)
            /\ pos[1] = total /\ due[1] = remaining
            /\ ~cut => pos[Len(up) + 1] = sent /\ due[Len(up) + 1] = 0
        BY <1>0, <2>1
    <2>3. Head(up) = up[1] /\ 1 \in 1 .. Len(up)
        BY <1>0, <2>1, Reading
    <2>4. pos[1 + 1] = pos[1] + 1 /\ due[1 + 1] = due[1] - 1
        <3>1. due[1] > 0 /\ ~(due[1] = 0)
            BY <1>0, <2>1, <2>2, Constants
        <3> QED BY <2>2, <2>3, <3>1, Zenon DEF Framing
    <2>5. \E p, d : /\ Framing(Tail(up), ask.content, p, d)
                    /\ p[1] = pos[2] /\ d[1] = due[2]
                    /\ p[Len(Tail(up)) + 1] = pos[Len(up) + 1]
                    /\ d[Len(Tail(up)) + 1] = due[Len(up) + 1]
        BY <1>0, <2>1, <2>2, Constants, FramingRead
    <2> QED BY <2>1, <2>2, <2>4, <2>5 DEF Framed
<1>8. CASE Cut
    <2>1. srv = "receiving" /\ cut' /\ UNCHANGED <<ask, sent, total, remaining>>
        BY <1>8 DEF Cut
    <2>2. PICK i \in 0 .. Len(up) : up' = SubSeq(up, 1, i)
        BY <1>8 DEF Cut
    <2>3. PICK pos, due :
            /\ Framing(up, ask.content, pos, due)
            /\ pos[1] = total /\ due[1] = remaining
        BY <1>0, <2>1
    <2>4. FramedFrom(SubSeq(up, 1, i), ask.content, pos, due)
        <3>1. up \in Seq(Int) /\ ask.content \in Nat /\ i \in 0 .. Len(up)
            BY <1>0, <2>2, Constants
        <3>2. Framing(up, ask.content, pos, due)
            BY <2>3
        <3> QED BY Zenon, <3>1, <3>2, FramingCut
    <2>5. PICK p, d : Framing(up', ask'.content, p, d) /\ p[1] = total' /\ d[1] = remaining'
        BY <2>1, <2>2, <2>3, <2>4 DEF FramedFrom
    <2>6. srv' = "receiving" /\ cut'
        BY <1>8, <2>1 DEF Cut
    <2> QED BY <2>5, <2>6 DEF Framed
<1> QED BY <1>1, <1>2, <1>3, <1>4, <1>5, <1>6, <1>7, <1>8
        DEF Next, ClientStep, HandlerStep, Failure
-----------------------------------------------------------------------------
(* What was received, said and reported.                                   *)

LEMMA WholeStep == IInv /\ [Next]_vars => OnlyWholePayloads' /\ (total <= DaemonCap)'
<1> SUFFICES ASSUME IInv, [Next]_vars PROVE OnlyWholePayloads' /\ (total <= DaemonCap)'
    OBVIOUS
<1> USE DEF client, handler
<1>0. OnlyWholePayloads /\ total <= DaemonCap /\ TypeOK
    BY DEF IInv
<1>s. /\ srv \in {"none", "reading", "guarding"} => ~viewer
      /\ srv \in {"receiving", "opening"} => ~viewer
    BY DEF IInv, Stages
<1>u. ASSUME UNCHANGED <<ask, total, viewer>>,
             srv' = srv \/ srv' \notin {"opening", "opened"}
      PROVE  OnlyWholePayloads' /\ (total <= DaemonCap)'
    BY <1>0, <1>u DEF OnlyWholePayloads
<1>t. ASSUME srv = "receiving", up # <<>>
      PROVE  /\ remaining = 0 /\ Head(up) = 0 => total = ask.content
             /\ remaining > 0 /\ Head(up) = LastByte => total + 1 = ask.content
    <2>1. PICK pos, due :
            /\ Framing(up, ask.content, pos, due)
            /\ pos[1] = total /\ due[1] = remaining
        BY <1>t DEF IInv, Framed
    <2>2. Head(up) = up[1] /\ 1 \in 1 .. Len(up)
        BY <1>t, Reading DEF IInv, Streams
    <2>3. LastByte # 0 /\ 0 \notin Data
        BY DEF LastByte, Byte, Data
    <2>4. LastByte \notin 0 .. MaxChunk
        BY <1>0, Constants DEF LastByte
    <2> QED BY <2>1, <2>2, <2>3, <2>4 DEF Framing
<1>1. CASE ClientStep \/ NotSent \/ SourceFails \/ Interrupt \/ Expire \/ Cut \/ UNCHANGED vars
    BY <1>1, <1>u DEF ClientStep, Ask, HearFirst, HearVerdict, HearNothing, SendChunk, SendEnd,
                      SendFails, NotSent, SourceFails, Interrupt, Expire, Cut, vars
<1>2. CASE ReadRequest \/ NoRequest \/ Guard \/ RefuseRest \/ NoPayload \/ Fail \/ Opened
    BY <1>2, <1>u DEF ReadRequest, NoRequest, Guard, RefuseRest, NoPayload, Fail, Opened, Conclude
<1>3. CASE ReadChunkHeader
    BY <1>0, <1>3, <1>t, <1>u DEF ReadChunkHeader, Conclude, OnlyWholePayloads
<1>4. CASE ReadData
    <2>1. total' <= DaemonCap
        BY <1>0, <1>4, Constants DEF ReadData, OverCap
    <2>2. srv' \in {"opening", "opened"} \/ viewer' => Head(up) = LastByte
        BY <1>4, <1>s DEF ReadData
    <2>3. Head(up) = LastByte => total' = ask'.content
        BY <1>4, <1>t DEF ReadData
    <2> QED BY <2>1, <2>2, <2>3 DEF OnlyWholePayloads
<1>5. CASE Open
    BY <1>0, <1>5 DEF Open, OnlyWholePayloads
<1> QED BY <1>1, <1>2, <1>3, <1>4, <1>5 DEF Next, HandlerStep, Failure

LEMMA SuccessStep == IInv /\ [Next]_vars => SuccessIsTrue'
<1> SUFFICES ASSUME IInv, [Next]_vars, verdict' = "ok" PROVE SuccessIsTrue'
    BY DEF SuccessIsTrue
<1> USE DEF client, handler
<1>0. /\ TypeOK /\ said \in Answers
      /\ verdict = "ok" => IF ask.wait THEN viewer ELSE said # <<>> /\ said[1] = "received"
    BY DEF IInv, SuccessIsTrue, Streams
<1>u. ASSUME UNCHANGED <<ask, verdict, said, viewer>> PROVE SuccessIsTrue'
    BY <1>0, <1>u DEF SuccessIsTrue
<1>e. ASSUME NEW e \in {"refused", "tooLarge", "modified", "received"},
             srv \in {"reading", "guarding"}, Say(e), UNCHANGED <<ask, verdict, viewer>>
      PROVE  SuccessIsTrue'
    <2>1. said = <<>> /\ ~viewer
        BY <1>e DEF IInv, Stages
    <2> QED BY <1>0, <1>e, <2>1
<1>l. ASSUME NEW e \in {"ok", "tooLarge", "broken"},
             srv \in {"receiving", "opening", "opened"}, Say(e), UNCHANGED <<ask, verdict, viewer>>
      PROVE  SuccessIsTrue'
    BY <1>0, <1>l, SayingLast, Events1 DEF SuccessIsTrue
<1>1. CASE NotSent \/ HearNothing \/ SendFails \/ SourceFails \/ Interrupt
    BY <1>1 DEF NotSent, HearNothing, SendFails, SourceFails, Interrupt, Return
<1>2. CASE Ask \/ Expire \/ Cut \/ NoRequest \/ ReadData \/ UNCHANGED vars
    BY <1>2, <1>u DEF Ask, Expire, Cut, NoRequest, ReadData, vars
<1>3. CASE HearFirst
    <2>1. Head(down) # "ok"
        BY <1>0, <1>3, Hearing, Answering DEF HearFirst, Answers
    <2>2. verdict' = verdict /\ UNCHANGED <<ask, said, viewer>>
        BY <1>3, <2>1 DEF HearFirst, Return
    <2> QED BY <1>u, <2>2
<1>4. CASE HearVerdict
    <2>1. verdict # "ok" /\ cli = "awaiting" /\ down # <<>> /\ UNCHANGED <<ask, said, viewer>>
        BY <1>0, <1>4 DEF HearVerdict, TypeOK
    <2>2. Head(down) = "ok"
        BY <1>4, <2>1 DEF HearVerdict, Return
    <2>3. Len(said) = 2 /\ said[2] = "ok"
        BY <2>1, <2>2, Hearing
    <2>4. said = <<"received", "ok">>
        BY <1>0, <2>3, Answering DEF Answers
    <2>5. viewer /\ ask.wait
        BY <2>1, <2>4 DEF IInv, Told, Stages
    <2> QED BY <2>1, <2>5 DEF SuccessIsTrue
<1>5. ASSUME NEW n \in 1 .. MaxChunk, SendChunk(n) PROVE SuccessIsTrue'
    BY <1>5, <1>u DEF SendChunk
<1>6. CASE SendEnd
    <2>1. said # <<>> /\ said[1] = "received"
        BY <1>6 DEF SendEnd, IInv, Stages
    <2>2. verdict # "ok" /\ UNCHANGED <<ask, said, viewer>>
        BY <1>0, <1>6 DEF SendEnd, TypeOK
    <2>3. ~ask.wait
        BY <1>6, <2>2 DEF SendEnd
    <2> QED BY <2>1, <2>2, <2>3 DEF SuccessIsTrue
<1>7. CASE ReadRequest
    BY <1>7, <1>e, <1>u DEF ReadRequest, Conclude
<1>8. CASE Guard
    BY <1>8, <1>e DEF Guard, Conclude
<1>9. CASE ReadChunkHeader
    BY <1>9, <1>l, <1>u DEF ReadChunkHeader, Conclude
<1>10. CASE RefuseRest \/ NoPayload \/ Fail \/ Opened
    BY <1>10, <1>l DEF RefuseRest, NoPayload, Fail, Opened, Conclude
<1>11. CASE Open
    BY <1>0, <1>11 DEF Open, SuccessIsTrue
<1> QED BY <1>1, <1>2, <1>3, <1>4, <1>5, <1>6, <1>7, <1>8, <1>9, <1>10, <1>11
        DEF Next, ClientStep, HandlerStep, Failure

\* What Told asks of a step that says nothing, of the first event and of the last.
LEMMA ToldStep == IInv /\ [Next]_vars => Told'
<1> SUFFICES ASSUME IInv, [Next]_vars PROVE Told'
    OBVIOUS
<1> USE DEF client, handler
<1>0. Told /\ Stages /\ TypeOK /\ said \in Answers
    BY DEF IInv, Streams
<1>q. /\ \A e : <<e>> # <<>> /\ <<e>>[1] = e
      /\ \A e : <<"received", e>> # <<>> /\ <<"received", e>>[1] = "received"
               /\ <<"received", e>>[2] = e
      /\ \A e, f : <<"received", e>> # <<f>>
    <2>1. \A e, f : Len(<<"received", e>>) # Len(<<f>>)
        OBVIOUS
    <2>2. \A e, f : <<"received", e>> # <<f>>
        BY <2>1, Zenon
    <2> QED BY <2>2, Answering
\* Nothing is said.
<1>u. ASSUME UNCHANGED <<ask, said>>, viewer => viewer', cut => cut', late => late',
             srv \in {"none", "closed"} => srv' = srv,
             srv' = "closed" => srv = "closed" \/ late \/ cut \/ ask.odd \/ cli = "exited",
             cli = "exited" => cli' = "exited" /\ verdict' = verdict,
             cli # "exited" /\ cli' = "exited" =>
                 \/ verdict' = "interrupted" \/ (said = <<>> /\ (srv' \in {"none", "closed"} \/ cut))
                 \/ said # <<>> /\ (said[1] = "received" \/ verdict' = said[1] \/ (cut /\ verdict' = "lost"))
      PROVE  Told'
    BY <1>0, <1>u DEF Told
<1>e. ASSUME NEW e \in {"refused", "tooLarge", "modified", "received"},
             srv \in {"reading", "guarding"}, Say(e), UNCHANGED <<ask, cli, verdict, viewer, cut, late>>,
             e = "tooLarge" => ask.size > DaemonCap,
             srv' = "closed" <=> e # "received", srv' # "none"
      PROVE  Told'
    <2>1. said = <<>>
        BY <1>0, <1>e DEF Stages
    <2>2. CASE (late \/ cut) /\ said' = said
        BY <1>0, <1>e, <2>1, <2>2, <1>q DEF Told
    <2>3. CASE ~late /\ ~cut /\ said' = <<e>>
        <3>1. said' # <<>> /\ said'[1] = e
            BY <2>3, <1>q
        <3>2. /\ said' = <<"tooLarge">> => ask'.size > DaemonCap
              /\ said' # <<"received", "tooLarge">> /\ said' # <<"received", "ok">>
            BY <1>e, <2>3, <1>q
        <3>3. srv' = "closed" => said' # <<"received">>
            BY <1>e, <2>3, <1>q
        <3>4. cli' = "exited" => verdict' = "interrupted"
            BY <1>0, <1>e, <2>1, <2>3 DEF Told
        <3> QED BY <3>1, <3>2, <3>3, <3>4 DEF Told
    <2> QED BY <1>e, <2>2, <2>3, SayingFirst
<1>l. ASSUME NEW e \in {"ok", "tooLarge", "broken"},
             srv \in {"receiving", "opening", "opened"}, Say(e), srv' = "closed",
             UNCHANGED <<ask, cli, verdict, viewer, cut, late>>,
             e = "tooLarge" => ask.content > DaemonCap,
             e = "ok" => viewer
      PROVE  Told'
    <2>1. CASE (late \/ cut) /\ said' = said
        BY <1>0, <1>l, <2>1 DEF Told
    <2>2. CASE ~late /\ ~cut /\ said' = <<"received", e>>
        <3>1. said' # <<>> /\ said'[1] = "received" /\ said'[2] = e
            BY <2>2, <1>q
        <3>2. \A f : said' # <<f>>
            BY <2>2, <1>q
        <3>3. /\ said' = <<"received", "tooLarge">> => e = "tooLarge"
              /\ said' = <<"received", "ok">> => e = "ok"
            BY <3>1, <1>q
        <3> QED BY <1>l, <3>1, <3>2, <3>3 DEF Told
    <2> QED BY <1>l, <2>1, <2>2, SayingLast
<1>r. cli \in {"sending", "awaiting"} => said # <<>> /\ said[1] = "received"
    BY <1>0 DEF Stages
<1>n. ASSUME cli \in {"asking", "awaiting"}, down = <<>> PROVE said # <<>> => said[1] = "received" \/ cut
    <2>1. CASE cli = "awaiting"
        BY <1>r, <2>1
    <2>2. CASE cli = "asking" /\ ~cut
        <3>1. Len(said) = 0
            <4>1. Len(down) = 0 /\ Heard = 0 /\ Len(said) \in Nat
                BY <1>n, <2>2, EventCounts DEF Heard
            <4> QED BY <2>2, <4>1 DEF IInv, Pending
        <3>2. said = <<>>
            BY <1>0, <3>1, Answering DEF Answers
        <3> QED BY <3>2
    <2> QED BY <1>n, <2>1, <2>2
<1>1. CASE NotSent
    <2>1. srv = "none" /\ said = <<>>
        BY <1>0, <1>1 DEF NotSent, Stages
    <2> QED BY <1>1, <1>u, <2>1 DEF NotSent, Return
<1>2. CASE Ask
    BY <1>0, <1>2 DEF Ask, Stages, Told
<1>3. CASE HearFirst
    <2>1. said # <<>> /\ Head(down) = said[1]
        BY <1>3, Hearing DEF HearFirst
    <2> QED BY <1>3, <1>u, <2>1 DEF HearFirst, Return
<1>4. CASE HearVerdict
    BY <1>4, <1>u, <1>r DEF HearVerdict, Return
<1>5. CASE HearNothing
    BY <1>5, <1>u, <1>n DEF HearNothing, Return
<1>6. CASE SendFails \/ SourceFails \/ Interrupt
    BY <1>6, <1>u, <1>r DEF SendFails, SourceFails, Interrupt, Return
<1>7. ASSUME NEW n \in 1 .. MaxChunk, SendChunk(n) PROVE Told'
    BY <1>7, <1>u DEF SendChunk
<1>8. CASE SendEnd
    BY <1>8, <1>u, <1>r DEF SendEnd, Return
<1>9. CASE ReadRequest
    BY <1>9, <1>u, <1>e DEF ReadRequest, Conclude
<1>10. CASE Guard
    BY <1>10, <1>e DEF Guard, Conclude
<1>11. CASE NoRequest
    BY <1>11, <1>u DEF NoRequest, Starved
<1>12. CASE ReadChunkHeader
    BY <1>12, <1>u, <1>l DEF ReadChunkHeader, Conclude
<1>13. CASE RefuseRest
    <2>1. PICK pos, due :
            /\ Framing(up, ask.content, pos, due)
            /\ pos[1] = total /\ due[1] = remaining
        BY <1>13 DEF RefuseRest, IInv, Framed
    <2>2. 1 \in 1 .. Len(up) + 1
        BY DEF IInv, Streams
    <2>3. total + remaining <= ask.content
        BY <2>1, <2>2 DEF Framing
    <2>4. ask.content > DaemonCap
        BY <1>0, <1>13, <2>3, Constants DEF RefuseRest, OverCap
    <2> QED BY <1>13, <1>l, <2>4 DEF RefuseRest, Conclude
<1>14. CASE NoPayload \/ Fail
    BY <1>14, <1>l DEF NoPayload, Fail, Conclude
<1>15. CASE Opened
    BY <1>0, <1>15, <1>l DEF Opened, Conclude, Stages
<1>16. CASE ReadData \/ Open \/ Expire \/ Cut \/ UNCHANGED vars
    BY <1>16, <1>u DEF ReadData, Open, Expire, Cut, vars
<1> QED BY <1>1, <1>2, <1>3, <1>4, <1>5, <1>6, <1>7, <1>8, <1>9, <1>10, <1>11, <1>12, <1>13, <1>14,
           <1>15, <1>16
        DEF Next, ClientStep, HandlerStep, Failure
-----------------------------------------------------------------------------
LEMMA Initially == Init => IInv
<1> SUFFICES ASSUME Init PROVE IInv
    OBVIOUS
<1> USE DEF Init
<1>1. ask \in Requests /\ ask.content \in Nat
    BY ConversationAssumption DEF Requests
<1>2. <<>> \in Seq(Int) /\ <<>> \in Seq(Events) /\ Len(<<>>) = 0
    OBVIOUS
<1>3. TypeOK
    <2>1. 0 \in 0 .. ask.content /\ 0 \in 0 .. MaxChunk /\ 0 <= Buffer /\ 0 \in Nat
        BY <1>1, ConversationAssumption
    <2>2. Len(up) <= Buffer
        BY <1>2, <2>1
    <2> QED BY <1>1, <2>1, <2>2 DEF TypeOK
<1>4. Streams
    BY <1>2 DEF Streams, Answers
<1>5. Stages
    BY DEF Stages
<1>6. Pending /\ Framed
    BY DEF Pending, Framed
<1>7. Told
    <2>1. \A e : <<>> # <<e>> /\ \A f : <<>> # <<f, e>>
        OBVIOUS
    <2> QED BY <2>1 DEF Told
<1>8. OnlyWholePayloads /\ total <= DaemonCap /\ SuccessIsTrue
    BY ConversationAssumption DEF OnlyWholePayloads, SuccessIsTrue
<1> QED BY <1>3, <1>4, <1>5, <1>6, <1>7, <1>8 DEF IInv

LEMMA Inductive == IInv /\ [Next]_vars => IInv'
<1> SUFFICES ASSUME IInv, [Next]_vars PROVE IInv'
    OBVIOUS
<1>1. TypeOK' /\ Streams' /\ Stages' /\ Pending' /\ Framed' /\ Told'
    BY TypeStep, StreamsStep, StagesStep, PendingStep, FramedStep, ToldStep
<1>2. OnlyWholePayloads' /\ (total <= DaemonCap)' /\ SuccessIsTrue'
    BY WholeStep, SuccessStep
<1> QED BY <1>1, <1>2 DEF IInv

LEMMA Invariance == Spec => []IInv
  BY Initially, Inductive, PTL DEF Spec

\* For every size, chunk size, cap and capacity of the tunnel the state of a
\* conversation is well-formed; in particular ChunkWriter and the tunnel never
\* hold more than Buffer, and the handler is never promised more than a chunk.
THEOREM Typing == Spec => []TypeOK
<1>1. IInv => TypeOK
    BY DEF IInv
<1> QED BY <1>1, Invariance, PTL

\* Wherever the tunnel breaks and wherever lopen stops, the handler
\* (server.go handle, protocol.go ChunkReader) opens a payload only when it has
\* all of it, stages no more than the cap, and says that a payload is too large
\* only when its declared or its actual size is.
THEOREM OpensWholePayloads == Spec => []PayloadsAreExact
<1>1. IInv => PayloadsAreExact
    <2> SUFFICES ASSUME IInv PROVE PayloadsAreExact
        OBVIOUS
    <2>1. OnlyWholePayloads /\ total <= DaemonCap /\ Told /\ said \in Answers
        BY DEF IInv, Streams
    <2>2. ASSUME NEW i \in DOMAIN said, said[i] = "tooLarge"
          PROVE  ask.size > DaemonCap \/ ask.content > DaemonCap
        <3>1. CASE said = <<>>
            BY <2>2, <3>1
        <3>2. CASE said = <<"received">>
            BY <2>2, <3>2
        <3>3. ASSUME NEW e, said = <<e>> PROVE said = <<"tooLarge">>
            BY <2>2, <3>3
        <3>4. ASSUME NEW e, said = <<"received", e>> PROVE said = <<"received", "tooLarge">>
            <4>1. DOMAIN said = 1 .. 2 /\ said[1] = "received" /\ said[2] = e
                BY <3>4
            <4>2. i = 2
                BY <2>2, <4>1
            <4> QED BY <2>2, <3>4, <4>1, <4>2
        <3>5. said = <<"tooLarge">> \/ said = <<"received", "tooLarge">>
            BY <2>1, <3>1, <3>2, <3>3, <3>4 DEF Answers
        <3> QED BY <2>1, <3>5 DEF Told
    <2> QED BY <2>1, <2>2 DEF PayloadsAreExact, CapIsExact
<1> QED BY <1>1, Invariance, PTL

\* lopen (client.go Open) reports success only of a payload the opener was
\* started on, or, without Wait, of a request the daemon accepted.
THEOREM SuccessIsEarned == Spec => []SuccessIsTrue
<1>1. IInv => SuccessIsTrue
    BY DEF IInv
<1> QED BY <1>1, Invariance, PTL

\* No byte of payload leaves for a request that validation or the guard then
\* refuses, and lopen reports that very error unless the tunnel breaks.
THEOREM EarlyErrorsAreReported == Spec => []EarlyErrorsComeFirst
<1>1. IInv => EarlyErrorsComeFirst
    <2> SUFFICES ASSUME IInv PROVE EarlyErrorsComeFirst
        OBVIOUS
    <2>1. Stages /\ Told /\ TypeOK /\ said \in Answers
        BY DEF IInv, Streams
    <2>2. ASSUME sent > 0, NEW i \in DOMAIN said PROVE said[i] \notin {"refused", "modified"}
        <3>1. said # <<>> /\ said[1] = "received"
            BY <2>1, <2>2 DEF Stages
        <3>2. said = <<"received">> \/ \E e \in {"ok", "tooLarge", "broken"} : said = <<"received", e>>
            BY <2>1, <3>1, Answering DEF Answers
        <3>3. CASE said = <<"received">>
            BY <2>2, <3>3
        <3>4. ASSUME NEW e \in {"ok", "tooLarge", "broken"}, said = <<"received", e>>
              PROVE  said[i] \notin {"refused", "modified"}
            <4>1. DOMAIN said = 1 .. 2 /\ said[1] = "received" /\ said[2] = e
                BY <3>4
            <4> QED BY <2>2, <3>4, <4>1
        <3> QED BY <3>2, <3>3, <3>4
    <2>3. ASSUME said # <<>>, said[1] \in Errors, verdict \notin {"none", "interrupted"}
          PROVE  verdict = said[1] \/ (cut /\ verdict = "lost")
        <3>1. cli = "exited" /\ said[1] # "received"
            BY <2>1, <2>3 DEF TypeOK, Errors
        <3> QED BY <2>1, <2>3, <3>1 DEF Told
    <2> QED BY <2>2, <2>3 DEF EarlyErrorsComeFirst
<1> QED BY <1>1, Invariance, PTL

\* A lopen that waits is told how its request ended: unless the tunnel broke,
\* the deadline passed or the header could not be decoded, the handler closes
\* the connection only behind a last event that lopen can still read.
THEOREM WaitersHear == Spec => []WaitersAreTold
<1>1. IInv => WaitersAreTold
    <2> SUFFICES ASSUME IInv, srv = "closed", cli \in {"asking", "awaiting"}, ~cut, ~late, ~ask.odd
                 PROVE  \E i \in DOMAIN down : down[i] \in Done
        BY DEF WaitersAreTold
    <2>1. /\ Stages /\ Told /\ TypeOK /\ Pending /\ said \in Answers
          /\ down \in Seq(Events) /\ Len(down) \in Nat
        BY DEF IInv, Streams
    <2>2. said \notin {<<>>, <<"received">>}
        BY <2>1 DEF Told
    <2>3. Len(down) + Heard = Len(said) /\ \A i \in 1 .. Len(down) : down[i] = said[i + Heard]
        BY <2>1 DEF Pending
    <2>4. DOMAIN down = 1 .. Len(down)
        BY <2>1
    <2>5. CASE \E e \in {"refused", "modified", "tooLarge"} : said = <<e>>
        <3>1. Len(said) = 1 /\ said[1] \in Done /\ said[1] # "received"
            BY <2>5, Answering DEF Done, Errors
        <3>2. cli = "asking" /\ Heard = 0
            BY <2>1, <3>1 DEF Stages, Heard
        <3>3. Len(down) = 1 /\ 1 \in 1 .. Len(down) /\ 1 + Heard = 1
            BY <2>1, <2>3, <3>1, <3>2
        <3> QED BY <2>3, <2>4, <3>1, <3>3
    <2>6. CASE \E e \in {"ok", "tooLarge", "broken"} : said = <<"received", e>>
        <3>1. Len(said) = 2 /\ said[2] \in Done
            BY <2>6, Answering DEF Done, Errors
        <3>2. Heard \in 0 .. 1
            BY DEF Heard
        <3>3. Len(down) \in 1 .. Len(down) /\ Len(down) + Heard = 2
            BY <2>1, <2>3, <3>1, <3>2
        <3> QED BY <2>3, <2>4, <3>1, <3>3
    <2> QED BY <2>1, <2>2, <2>5, <2>6 DEF Answers
<1> QED BY <1>1, Invariance, PTL
-----------------------------------------------------------------------------
(***************************************************************************)
(* By pull.  Three witnesses have to agree on what a copy was: how many    *)
(* bytes came, how the copy ended and how the child did.                   *)
(***************************************************************************)

\* The copy stops where it may, and tells how.
CopyIsExplained ==
    /\ got \in Nat /\ got <= Limit
    /\ dir => got <= length
    /\ child = "succeeded" => written = Output
    /\ copied = "none" <=> step = "copying"
    /\ copied = "ended" => \/ got = Limit
                           \/ dir /\ got = length
                           \/ got = written /\ child # "running" /\ (dir => got >= length)

\* What pull has returned rests on how the copy and the child ended.
VerdictIsExplained ==
    /\ result = "ok" => copied = "ended" /\ got # Limit /\ child = "succeeded"
    /\ result = "tooLarge" => copied = "ended" /\ got = Limit

PullInv == PullTypeOK /\ CopyIsExplained /\ VerdictIsExplained /\ WaitIsShort

LEMMA Lengthy ==
    ASSUME PullTypeOK
    PROVE  /\ length \in Nat /\ Output \in Nat /\ written \in Nat /\ length <= Output
           /\ Limit \in Nat /\ PipeSize \in Nat \ {0} /\ Padding \in Nat /\ MaxPayload \in Nat
           /\ Padding <= PipeSize /\ Limit = MaxPayload + 1
           /\ dir => Output = length + Padding
           /\ ~dir => Output = length
<1>1. length \in Nat /\ Padding \in Nat
    BY PullAssumption DEF PullTypeOK
<1>2. Output \in Nat /\ length <= Output /\ (dir => Output = length + Padding) /\ (~dir => Output = length)
    BY <1>1 DEF Output
<1>3. written \in Nat
    BY <1>2 DEF PullTypeOK
<1> QED BY <1>1, <1>2, <1>3, PullAssumption DEF Limit

LEMMA PullInitially == PullInit => PullInv
<1> SUFFICES ASSUME PullInit PROVE PullInv
    OBVIOUS
<1>1. length \in Lengths /\ length \in Nat /\ Padding \in Nat /\ MaxPayload \in Nat
    BY PullAssumption DEF PullInit
<1>2. Output \in Nat
    BY <1>1 DEF Output
<1>3. PullTypeOK
    <2>1. dir \in BOOLEAN /\ length \in Lengths /\ got <= written /\ written \in 0 .. Output
        BY <1>1, <1>2 DEF PullInit
    <2> QED BY <2>1 DEF PullInit, PullTypeOK
<1>4. CopyIsExplained
    BY <1>1 DEF PullInit, CopyIsExplained, Limit
<1>5. VerdictIsExplained /\ WaitIsShort
    BY DEF PullInit, VerdictIsExplained, WaitIsShort
<1> QED BY <1>3, <1>4, <1>5 DEF PullInv

LEMMA PullInductive == PullInv /\ [PullNext]_pullVars => PullInv'
<1> SUFFICES ASSUME PullInv, [PullNext]_pullVars PROVE PullInv'
    OBVIOUS
<1>0. PullTypeOK /\ CopyIsExplained /\ VerdictIsExplained /\ WaitIsShort
    BY DEF PullInv
<1>l. /\ length \in Nat /\ Output \in Nat /\ written \in Nat /\ length <= Output
      /\ Limit \in Nat /\ PipeSize \in Nat \ {0} /\ Padding \in Nat
      /\ Padding <= PipeSize
      /\ dir => Output = length + Padding
      /\ ~dir => Output = length
    BY <1>0, Lengthy
<1>o. UNCHANGED <<dir, length>> => Output' = Output /\ Limit' = Limit
    BY DEF Output, Limit
<1> USE DEF PullTypeOK, CopyIsExplained, VerdictIsExplained, WaitIsShort
<1>1. CASE Produce
    BY <1>0, <1>1, <1>l, <1>o DEF Produce, PullInv
<1>2. CASE Exit
    BY <1>0, <1>2, <1>l, <1>o DEF Exit, PullInv
<1>3. CASE Die \/ Kill
    BY <1>0, <1>3, <1>l, <1>o DEF Die, Kill, PullInv
<1>4. CASE Copy
    BY <1>0, <1>4, <1>l, <1>o DEF Copy, PullInv
<1>5. CASE CopyOver
    <2> USE <1>0, <1>5, <1>l, <1>o DEF CopyOver, CopyEnds
    <2>1. PullTypeOK'
        OBVIOUS
    <2>2. CopyIsExplained'
        <3>1. CASE dir
            BY <3>1
        <3>2. CASE ~dir
            BY <3>2
        <3> QED BY <3>1, <3>2
    <2>3. VerdictIsExplained'
        OBVIOUS
    \* Short of the limit, the whole of the file or of the archive has come.
    <2>4. WaitIsShort'
        <3>1. ASSUME child = "running", ~cancelled' PROVE dir /\ got = length
            BY <3>1
        <3>2. ASSUME child = "running", ~cancelled' PROVE Output - got <= PipeSize
            BY <3>1, <3>2
        <3> QED BY <3>2
    <2> QED BY <2>1, <2>2, <2>3, <2>4 DEF PullInv
<1>6. CASE CopyFails
    BY <1>0, <1>6, <1>l, <1>o DEF CopyFails, CopyEnds, PullInv
<1>7. CASE Reap
    BY <1>0, <1>7, <1>l, <1>o DEF Reap, PullInv
<1>8. CASE UNCHANGED pullVars
    BY <1>0, <1>8, <1>o DEF pullVars, PullInv
<1> QED BY <1>1, <1>2, <1>3, <1>4, <1>5, <1>6, <1>7, <1>8 DEF PullNext

LEMMA PullInvariance == PullSpec => []PullInv
  BY PullInitially, PullInductive, PTL DEF PullSpec

\* What pull (server.go) returns of a payload is true of its source: "ok" only of
\* the whole of one within the cap, "too large" only of one over it.
THEOREM PullTellsTheTruth == PullSpec => []VerdictIsTrue
<1>1. PullInv => VerdictIsTrue
    <2> SUFFICES ASSUME PullInv PROVE VerdictIsTrue
        OBVIOUS
    <2>0. PullTypeOK /\ CopyIsExplained /\ VerdictIsExplained
        BY DEF PullInv
    <2>l. /\ length \in Nat /\ Output \in Nat /\ written \in Nat
          /\ MaxPayload \in Nat /\ Limit = MaxPayload + 1 /\ Padding \in Nat
          /\ ~dir => Output = length
        BY <2>0, Lengthy
    <2>1. ASSUME result = "ok" PROVE got = length /\ length <= MaxPayload
        BY <2>0, <2>1, <2>l DEF PullTypeOK, CopyIsExplained, VerdictIsExplained
    <2>2. ASSUME result = "tooLarge" PROVE length > MaxPayload
        BY <2>0, <2>2, <2>l DEF PullTypeOK, CopyIsExplained, VerdictIsExplained
    <2> QED BY <2>1, <2>2 DEF VerdictIsTrue, OkMeansWhole, PullCapIsExact
<1> QED BY <1>1, PullInvariance, PTL

\* Once pull has stopped reading, a child it did not cancel has room in the pipe
\* for all it has left to write: cmd.Wait does not depend on the deadline.
THEOREM ReapingIsShort == PullSpec => []WaitIsShort
<1>1. PullInv => WaitIsShort
    BY DEF PullInv
<1> QED BY <1>1, PullInvariance, PTL

-----------------------------------------------------------------------------
(***************************************************************************)
(* Packed directories.  Clean and Pack are recursive functions: to unfold  *)
(* them, the least number that a property fails for is taken, once, and    *)
(* what is built one argument after the other is shown to exist.           *)
(***************************************************************************)

\* Every set of numbers has a least one.
LEMMA Least ==
    ASSUME NEW T, T \subseteq Nat, T # {}
    PROVE  \E n \in T : \A m \in T : n <= m
<1> DEFINE R == {ss \in Nat \X Nat : ss[1] < ss[2]}
<1>1. IsWellFoundedOn(R, Nat)
    BY NatLessThanWellFounded, Zenon DEF OpToRel
<1> HIDE DEF R
<1>2. PICK x \in T : \A y \in T : <<y, x>> \notin R
    BY <1>1, WFMin
<1>3. \A y \in T : ~(y < x)
    BY <1>2 DEF R
<1> QED BY <1>3

\* What holds of 0 and is passed on from n - 1 to n holds up to m.
LEMMA Climbing ==
    ASSUME NEW m \in Nat, NEW T, 0 \in T, \A n \in 1 .. m : n - 1 \in T => n \in T
    PROVE  \A n \in 0 .. m : n \in T
<1> SUFFICES ASSUME NEW k \in 0 .. m, k \notin T PROVE FALSE
    OBVIOUS
<1> DEFINE Missing == {n \in 0 .. m : n \notin T}
<1>1. PICK n \in Missing : \A j \in Missing : n <= j
    <2>1. Missing \subseteq Nat /\ Missing # {}
        OBVIOUS
    <2> HIDE DEF Missing
    <2> QED BY <2>1, Least
<1>2. n \in 1 .. m /\ n - 1 \in 0 .. m /\ n - 1 \notin Missing
    BY <1>1
<1> QED BY <1>1, <1>2

\* A function can be built up one argument after the other.
Built(f, m, S, first, grow) ==
    f \in [0 .. m -> S] /\ f[0] = first /\ \A n \in 1 .. m : f[n] = grow[n][f[n - 1]]

LEMMA Building ==
    ASSUME NEW m \in Nat, NEW S, NEW first \in S, NEW grow \in [1 .. m -> [S -> S]]
    PROVE  \E f : Built(f, m, S, first, grow)
<1> DEFINE T == {k \in 0 .. m : \E f : Built(f, k, S, first, grow)}
<1>1. 0 \in T
    <2>1. Built([n \in 0 .. 0 |-> first], 0, S, first, grow)
        BY DEF Built
    <2> QED BY <2>1
<1>2. ASSUME NEW k \in 1 .. m, k - 1 \in T PROVE k \in T
    <2>1. PICK f : Built(f, k - 1, S, first, grow)
        BY <1>2
    <2> DEFINE g == [n \in 0 .. k |-> IF n = k THEN grow[k][f[k - 1]] ELSE f[n]]
    <2>2. f[k - 1] \in S /\ grow[k][f[k - 1]] \in S
        BY <2>1 DEF Built
    <2>3. g \in [0 .. k -> S] /\ g[0] = first
        BY <2>1, <2>2 DEF Built
    <2>4. ASSUME NEW n \in 1 .. k PROVE g[n] = grow[n][g[n - 1]]
        BY <2>1, n \in 1 .. k - 1 \/ n = k DEF Built
    <2>5. Built(g, k, S, first, grow)
        BY <2>3, <2>4 DEF Built
    <2> HIDE DEF g
    <2> QED BY <2>5
<1>3. m \in T
    <2> HIDE DEF T
    <2>1. \A k \in 1 .. m : k - 1 \in T => k \in T
        BY <1>2
    <2>2. \A k \in 0 .. m : k \in T
        BY <1>1, <2>1, Climbing
    <2> QED BY <2>2
<1> QED BY <1>3
-----------------------------------------------------------------------------
Component == STRING
Strings == Seq(Component)

\* The stack of components that path.Clean has when it is through n of them.
Cleaning(name) ==
    CHOOSE done : done = [n \in 0..Len(name) |->
        IF n = 0 THEN <<>> ELSE CleanStep(done[n - 1], name[n])]

\* What Front and Append do to a sequence of components.
LEMMA FrontOf ==
    ASSUME NEW s \in Strings, s # <<>>
    PROVE  /\ Front(s) \in Strings /\ Len(s) \in Nat \ {0} /\ Len(Front(s)) = Len(s) - 1
           /\ \A k \in 1 .. Len(s) - 1 : Front(s)[k] = s[k]
<1>1. s \in Seq(Component) /\ Len(s) \in Nat \ {0}
    BY DEF Strings
<1>2. PICK last \in 0 .. Len(s) : last = Len(s) - 1
    BY <1>1
<1>3. /\ SubSeq(s, 1, last) \in Seq(Component) /\ Len(SubSeq(s, 1, last)) = last
      /\ \A k \in 1 .. last : SubSeq(s, 1, last)[k] = s[k]
    BY <1>1, <1>2, Truncating
<1> QED BY <1>1, <1>2, <1>3 DEF Front, Strings

LEMMA AppendTo ==
    ASSUME NEW s \in Strings, NEW c \in Component
    PROVE  /\ Append(s, c) \in Strings /\ Append(s, c) # <<>>
           /\ Len(s) \in Nat /\ Len(Append(s, c)) = Len(s) + 1
           /\ Append(s, c)[Len(s) + 1] = c
           /\ \A k \in 1 .. Len(s) : Append(s, c)[k] = s[k]
<1>1. s \in Seq(Component)
    BY DEF Strings
<1>2. Append(s, c) \in Seq(Component) /\ Len(s) \in Nat /\ Len(Append(s, c)) = Len(s) + 1
    BY <1>1
<1>3. Append(s, c)[Len(s) + 1] = c /\ \A k \in 1 .. Len(s) : Append(s, c)[k] = s[k]
    BY <1>1
<1>4. Append(s, c) # <<>>
    BY <1>1, AppendProperties
<1> QED BY <1>1, <1>2, <1>3, <1>4 DEF Strings

LEMMA CleanStepType ==
    ASSUME NEW s \in Strings, NEW c \in Component
    PROVE  CleanStep(s, c) \in Strings
BY FrontOf, AppendTo DEF CleanStep

\* Clean is what one CleanStep after the other leaves.
LEMMA CleanUnfolds ==
    ASSUME NEW name \in Strings
    PROVE  /\ Clean(name) = Cleaning(name)[Len(name)]
           /\ Cleaning(name) \in [0 .. Len(name) -> Strings]
           /\ Cleaning(name)[0] = <<>>
           /\ \A n \in 1 .. Len(name) : Cleaning(name)[n] = CleanStep(Cleaning(name)[n - 1], name[n])
<1> DEFINE grow == [n \in 1 .. Len(name) |-> [s \in Strings |-> CleanStep(s, name[n])]]
           Unfolded(f) == f = [n \in 0..Len(name) |->
                                 IF n = 0 THEN <<>> ELSE CleanStep(f[n - 1], name[n])]
<1>1. Len(name) \in Nat /\ <<>> \in Strings /\ \A n \in 1 .. Len(name) : name[n] \in Component
    BY DEF Strings
<1>2. grow \in [1 .. Len(name) -> [Strings -> Strings]]
    BY <1>1, CleanStepType
<1>3. PICK f : Built(f, Len(name), Strings, <<>>, grow)
    <2>1. Len(name) \in Nat /\ <<>> \in Strings
        BY <1>1
    <2> HIDE DEF grow, Strings
    <2> QED BY <1>2, <2>1, Building
<1>4. Unfolded(f)
    <2>1. ASSUME NEW n \in 1 .. Len(name) PROVE f[n] = CleanStep(f[n - 1], name[n])
        <3>1. f[n - 1] \in Strings /\ f[n] = grow[n][f[n - 1]]
            BY <1>1, <1>3 DEF Built
        <3>2. grow[n][f[n - 1]] = CleanStep(f[n - 1], name[n])
            BY <3>1
        <3> QED BY <3>1, <3>2
    <2> QED BY <1>1, <1>3, <2>1 DEF Built
<1>5. Unfolded(Cleaning(name))
    <2> HIDE DEF Unfolded
    <2>1. Unfolded(CHOOSE g : Unfolded(g))
        BY <1>4
    <2> QED BY <2>1, Zenon DEF Unfolded, Cleaning
<1>6. Clean(name) = Cleaning(name)[Len(name)]
    BY DEF Clean, Cleaning
<1> HIDE DEF grow
<1>7. /\ DOMAIN Cleaning(name) = 0 .. Len(name)
      /\ Cleaning(name)[0] = <<>>
      /\ \A n \in 1 .. Len(name) : Cleaning(name)[n] = CleanStep(Cleaning(name)[n - 1], name[n])
    BY <1>1, <1>5
<1>8. \A n \in 0 .. Len(name) : Cleaning(name)[n] \in Strings
    <2> DEFINE T == {n \in 0 .. Len(name) : Cleaning(name)[n] \in Strings}
    <2>1. 0 \in T
        BY <1>1, <1>7
    <2>2. ASSUME NEW n \in 1 .. Len(name), n - 1 \in T PROVE n \in T
        <3>1. Cleaning(name)[n - 1] \in Strings /\ name[n] \in Component
            BY <1>1, <2>2
        <3>2. CleanStep(Cleaning(name)[n - 1], name[n]) \in Strings
            BY <3>1, CleanStepType
        <3> QED BY <1>1, <1>7, <3>2
    <2> HIDE DEF T
    <2>3. \A n \in 0 .. Len(name) : n \in T
        BY <1>1, <2>1, <2>2, Climbing
    <2> QED BY <2>3 DEF T
<1>9. Cleaning(name) \in [0 .. Len(name) -> Strings]
    BY <1>5, <1>8
<1> QED BY <1>6, <1>7, <1>9

-----------------------------------------------------------------------------
(***************************************************************************)
(* Names that are accepted.  The stack of path.Clean begins with ".." as   *)
(* soon as the name has left the directory it starts from, and from then   *)
(* on; until then it is as high as the walk is deep.                       *)
(***************************************************************************)
Escaped(s) == s # <<>> /\ s[1] = ".."
OnlyDown(s) == \A k \in 1 .. Len(s) : s[k] \notin {".", ".."}

\* One component takes the walk nowhere, up or down, and never back from outside.
LEMMA CleanStepMoves ==
    ASSUME NEW s \in Strings, NEW c \in Component, ~Escaped(s) => OnlyDown(s)
    PROVE  LET t == CleanStep(s, c) IN
           /\ Escaped(s) => Escaped(t)
           /\ ~Escaped(t) => /\ OnlyDown(t)
                             /\ c = "." => Len(t) = Len(s)
                             /\ c = ".." => Len(t) = Len(s) - 1
                             /\ c \notin {".", ".."} => Len(t) = Len(s) + 1
<1> DEFINE t == CleanStep(s, c)
<1>1. Len(s) \in Nat /\ (s # <<>> => Len(s) >= 1) /\ Last(s) = s[Len(s)] /\ (s = <<>> => Len(s) = 0)
    BY DEF Strings, Last
<1>2. CASE c = "."
    BY <1>2 DEF CleanStep
<1>3. CASE c = ".." /\ s # <<>> /\ Last(s) # ".."
    <2>1. t = Front(s)
        BY <1>3 DEF CleanStep
    <2> HIDE DEF t
    <2>2. t \in Strings /\ Len(t) = Len(s) - 1 /\ \A k \in 1 .. Len(s) - 1 : t[k] = s[k]
        BY <1>3, <2>1, FrontOf
    <2>3. ASSUME Escaped(s) PROVE Escaped(t)
        <3>1. s[1] = ".." /\ Len(s) # 1
            BY <1>1, <1>3, <2>3 DEF Escaped
        <3>2. 1 \in 1 .. Len(s) - 1 /\ Len(t) > 0
            BY <1>1, <1>3, <2>2, <3>1
        <3> QED BY <2>2, <3>1, <3>2 DEF Escaped
    <2>4. ASSUME ~Escaped(t) PROVE OnlyDown(t)
        <3>1. OnlyDown(s) /\ \A k \in 1 .. Len(t) : k \in 1 .. Len(s)
            BY <1>1, <2>2, <2>3, <2>4
        <3> QED BY <2>2, <3>1 DEF OnlyDown
    <2> QED BY <1>3, <2>2, <2>3, <2>4 DEF t
<1>4. CASE c = ".." /\ ~(s # <<>> /\ Last(s) # "..")
    <2>1. t = Append(s, c)
        BY <1>4 DEF CleanStep
    <2> HIDE DEF t
    <2>2. t # <<>> /\ t[Len(s) + 1] = ".." /\ \A k \in 1 .. Len(s) : t[k] = s[k]
        BY <1>4, <2>1, AppendTo
    <2>3. t[1] = ".."
        <3>1. CASE s = <<>>
            BY <1>1, <2>2, <3>1
        <3>2. CASE s # <<>>
            <4>1. Len(s) \in 1 .. Len(s) /\ 1 \in 1 .. Len(s) /\ s[Len(s)] = ".."
                BY <1>1, <1>4, <3>2
            <4>2. s[1] = ".."
                BY <4>1 DEF Escaped, OnlyDown
            <4> QED BY <2>2, <4>1, <4>2
        <3> QED BY <3>1, <3>2
    <2> QED BY <2>2, <2>3 DEF Escaped, t
<1>5. CASE c \notin {".", ".."}
    <2>1. t = Append(s, c)
        BY <1>5 DEF CleanStep
    <2> HIDE DEF t
    <2>2. t # <<>> /\ Len(t) = Len(s) + 1 /\ t[Len(s) + 1] = c /\ \A k \in 1 .. Len(s) : t[k] = s[k]
        BY <2>1, AppendTo
    <2>3. ASSUME Escaped(s) PROVE Escaped(t)
        BY <1>1, <2>2, <2>3 DEF Escaped
    <2>4. ASSUME ~Escaped(t) PROVE OnlyDown(t)
        <3>1. OnlyDown(s)
            BY <2>3, <2>4
        <3>2. \A k \in 1 .. Len(t) : k \in 1 .. Len(s) \/ k = Len(s) + 1
            BY <1>1, <2>2
        <3> QED BY <1>5, <2>2, <3>1, <3>2 DEF OnlyDown
    <2> QED BY <1>5, <2>2, <2>3, <2>4 DEF t
<1> QED BY <1>2, <1>3, <1>4, <1>5

\* The components up to the nth that lead up, and those that lead down.
UpTo(name, n) == {k \in 1 .. n : name[k] = ".."}
DownTo(name, n) == {k \in 1 .. n : name[k] \notin {".", ".."}}

LEMMA OneFurther ==
    ASSUME NEW name, NEW n \in Nat \ {0}
    PROVE  /\ Cardinality(UpTo(name, n - 1)) \in Nat /\ Cardinality(DownTo(name, n - 1)) \in Nat
           /\ Cardinality(UpTo(name, n)) =
                Cardinality(UpTo(name, n - 1)) + IF name[n] = ".." THEN 1 ELSE 0
           /\ Cardinality(DownTo(name, n)) =
                Cardinality(DownTo(name, n - 1)) + IF name[n] \notin {".", ".."} THEN 1 ELSE 0
<1>1. IsFiniteSet(1 .. n) /\ IsFiniteSet(1 .. n - 1)
    BY FS_Interval
<1>2. /\ IsFiniteSet(UpTo(name, n)) /\ IsFiniteSet(DownTo(name, n))
      /\ IsFiniteSet(UpTo(name, n - 1)) /\ IsFiniteSet(DownTo(name, n - 1))
    BY <1>1, FS_Subset DEF UpTo, DownTo
<1>3. UpTo(name, n) = IF name[n] = ".." THEN UpTo(name, n - 1) \cup {n} ELSE UpTo(name, n - 1)
    BY DEF UpTo
<1>4. DownTo(name, n) =
        IF name[n] \notin {".", ".."} THEN DownTo(name, n - 1) \cup {n} ELSE DownTo(name, n - 1)
    BY DEF DownTo
<1>5. n \notin UpTo(name, n - 1) /\ n \notin DownTo(name, n - 1)
    BY DEF UpTo, DownTo
<1>6. /\ Cardinality(UpTo(name, n - 1)) \in Nat /\ Cardinality(DownTo(name, n - 1)) \in Nat
      /\ Cardinality(UpTo(name, n)) \in Nat /\ Cardinality(DownTo(name, n)) \in Nat
    BY <1>2, FS_CardinalityType
<1>7. Cardinality(UpTo(name, n)) = Cardinality(UpTo(name, n - 1)) + IF name[n] = ".." THEN 1 ELSE 0
    BY <1>2, <1>3, <1>5, <1>6, FS_AddElement
<1>8. Cardinality(DownTo(name, n)) =
        Cardinality(DownTo(name, n - 1)) + IF name[n] \notin {".", ".."} THEN 1 ELSE 0
    BY <1>2, <1>4, <1>5, <1>6, FS_AddElement
<1> QED BY <1>6, <1>7, <1>8

\* As long as the walk has not left, the stack is as high as the walk is deep.
LEMMA Depth ==
    ASSUME NEW name \in Strings, NEW m \in 0 .. Len(name), ~Escaped(Cleaning(name)[m])
    PROVE  \A n \in 0 .. m :
             /\ ~Escaped(Cleaning(name)[n]) /\ OnlyDown(Cleaning(name)[n])
             /\ Len(Cleaning(name)[n]) = Cardinality(DownTo(name, n)) - Cardinality(UpTo(name, n))
<1> DEFINE d == Cleaning(name)
           T == {n \in 0 .. m : ~Escaped(d[n])}
           Deep(n) == /\ OnlyDown(d[n])
                      /\ Len(d[n]) = Cardinality(DownTo(name, n)) - Cardinality(UpTo(name, n))
<1>1. /\ \A n \in 0 .. m : d[n] \in Strings
      /\ d[0] = <<>>
      /\ \A n \in 1 .. m : d[n] = CleanStep(d[n - 1], name[n]) /\ name[n] \in Component
      /\ m \in Nat
    <2>1. Len(name) \in Nat /\ \A n \in 1 .. Len(name) : name[n] \in Component
        BY DEF Strings
    <2>2. \A n \in 1 .. m : n \in 1 .. Len(name)
        BY <2>1
    <2> QED BY <2>1, <2>2, CleanUnfolds
<1> HIDE DEF d
<1>2. \A n \in 0 .. m : (~Escaped(d[n]) => Deep(n)) /\ (n > 0 /\ Escaped(d[n - 1]) => Escaped(d[n]))
    <2> DEFINE U == {n \in 0 .. m : /\ ~Escaped(d[n]) => Deep(n)
                                    /\ n > 0 /\ Escaped(d[n - 1]) => Escaped(d[n])}
    <2>1. 0 \in U
        <3>1. DownTo(name, 0) = {} /\ UpTo(name, 0) = {}
            BY DEF DownTo, UpTo
        <3>2. OnlyDown(d[0]) /\ Len(d[0]) = 0
            BY <1>1 DEF OnlyDown
        <3>3. Cardinality(DownTo(name, 0)) = 0 /\ Cardinality(UpTo(name, 0)) = 0
            BY <3>1, FS_EmptySet
        <3>4. Deep(0)
            BY <3>2, <3>3
        <3> HIDE DEF Deep
        <3> QED BY <1>1, <3>4
    <2>2. ASSUME NEW n \in 1 .. m, n - 1 \in U PROVE n \in U
        <3>1. d[n - 1] \in Strings /\ name[n] \in Component /\ d[n] = CleanStep(d[n - 1], name[n])
            BY <1>1
        <3>2. ~Escaped(d[n - 1]) => Deep(n - 1)
            BY <2>2
        <3>3. /\ Escaped(d[n - 1]) => Escaped(d[n])
              /\ ~Escaped(d[n]) => /\ OnlyDown(d[n])
                                   /\ name[n] = "." => Len(d[n]) = Len(d[n - 1])
                                   /\ name[n] = ".." => Len(d[n]) = Len(d[n - 1]) - 1
                                   /\ name[n] \notin {".", ".."} => Len(d[n]) = Len(d[n - 1]) + 1
            BY <3>1, <3>2, CleanStepMoves
        <3>4. ASSUME ~Escaped(d[n]) PROVE Deep(n)
            <4>1. Len(d[n - 1]) = Cardinality(DownTo(name, n - 1)) - Cardinality(UpTo(name, n - 1))
                BY <3>2, <3>3, <3>4
            <4>2. n \in Nat \ {0}
                OBVIOUS
            <4>3. /\ Cardinality(UpTo(name, n)) =
                        Cardinality(UpTo(name, n - 1)) + IF name[n] = ".." THEN 1 ELSE 0
                  /\ Cardinality(DownTo(name, n)) =
                        Cardinality(DownTo(name, n - 1)) + IF name[n] \notin {".", ".."} THEN 1 ELSE 0
                BY <4>2, OneFurther
            <4>4. Cardinality(UpTo(name, n - 1)) \in Int /\ Cardinality(DownTo(name, n - 1)) \in Int
                <5>1. Cardinality(UpTo(name, n - 1)) \in Nat /\ Cardinality(DownTo(name, n - 1)) \in Nat
                    BY <4>2, OneFurther
                <5> QED BY <5>1
            <4> QED BY <3>3, <3>4, <4>1, <4>3, <4>4
        <3> QED BY <3>3, <3>4
    <2> HIDE DEF U
    <2>3. \A n \in 0 .. m : n \in U
        BY <1>1, <2>1, <2>2, Climbing
    <2> QED BY <2>3 DEF U
<1>3. \A n \in 0 .. m : Escaped(d[n]) => Escaped(d[m])
    <2> DEFINE V == {k \in 0 .. m : \A n \in 0 .. k : Escaped(d[n]) => Escaped(d[k])}
    <2>1. 0 \in V
        OBVIOUS
    <2>2. ASSUME NEW k \in 1 .. m, k - 1 \in V PROVE k \in V
        <3>1. Escaped(d[k - 1]) => Escaped(d[k])
            BY <1>2
        <3>2. \A n \in 0 .. k : n = k \/ n \in 0 .. k - 1
            OBVIOUS
        <3> QED BY <2>2, <3>1, <3>2
    <2> HIDE DEF V
    <2>3. \A k \in 0 .. m : k \in V
        BY <1>1, <2>1, <2>2, Climbing
    <2>4. m \in V
        BY <1>1, <2>3
    <2> QED BY <2>4 DEF V
<1>4. ~Escaped(d[m])
    BY DEF d
<1> QED BY <1>2, <1>3, <1>4 DEF d

\* A name that is accepted is at no point of the walk above where it started.
LEMMA AcceptedNamesStayInside ==
    ASSUME NEW name \in Strings, Clean(name) # <<>> => Head(Clean(name)) # ".."
    PROVE  \A n \in DOMAIN name : Ups(SubSeq(name, 1, n)) <= Downs(SubSeq(name, 1, n))
<1>1. /\ Len(name) \in 0 .. Len(name) /\ DOMAIN name = 1 .. Len(name)
      /\ Clean(name) = Cleaning(name)[Len(name)]
    BY CleanUnfolds DEF Strings
<1>2. ~Escaped(Cleaning(name)[Len(name)])
    <2>1. Clean(name) \in Strings
        BY <1>1, CleanUnfolds
    <2> QED BY <1>1, <2>1 DEF Escaped, Strings
<1> SUFFICES ASSUME NEW n \in 1 .. Len(name)
             PROVE  Ups(SubSeq(name, 1, n)) <= Downs(SubSeq(name, 1, n))
    BY <1>1
<1> DEFINE part == SubSeq(name, 1, n)
<1>3. DOMAIN part = 1 .. n /\ \A k \in 1 .. n : part[k] = name[k]
    <2>1. \A k \in 1 .. n : name[k] \in Component
        BY DEF Strings
    <2>2. part \in Seq(Component) /\ Len(part) = n /\ \A k \in 1 .. n : part[k] = name[k]
        BY <2>1, SubSeqProperties
    <2> HIDE DEF part
    <2> QED BY <2>2
<1> HIDE DEF part
<1>4. Ups(part) = Cardinality(UpTo(name, n)) /\ Downs(part) = Cardinality(DownTo(name, n))
    <2>1. {k \in DOMAIN part : part[k] = ".."} = UpTo(name, n)
        BY <1>3 DEF UpTo
    <2>2. {k \in DOMAIN part : part[k] \notin {".", ".."}} = DownTo(name, n)
        BY <1>3 DEF DownTo
    <2> QED BY <2>1, <2>2 DEF Ups, Downs
<1>5. Len(Cleaning(name)[n]) = Cardinality(DownTo(name, n)) - Cardinality(UpTo(name, n))
    BY <1>1, <1>2, Depth
<1>6. Len(Cleaning(name)[n]) \in Nat
    BY CleanUnfolds DEF Strings
<1>7. Cardinality(UpTo(name, n)) \in Int /\ Cardinality(DownTo(name, n)) \in Int
    <2>1. n + 1 \in Nat \ {0} /\ (n + 1) - 1 = n
        OBVIOUS
    <2> QED BY <2>1, OneFurther
<1> QED BY <1>4, <1>5, <1>6, <1>7 DEF part

-----------------------------------------------------------------------------
(* Entries, and what is on the disk.                                       *)

Entries == [name : Strings, node : Nodes]
DiskNodes == {Dir} \cup {File(n) : n \in Nat}

ArchiveTypeOK ==
    /\ archive \in Seq(Entries) /\ read \in 0 .. Len(archive)
    /\ disk \in [DOMAIN disk -> DiskNodes] /\ DOMAIN disk \subseteq Strings
    /\ <<>> \in DOMAIN disk /\ disk[<<>>] = Dir
    /\ left \in Nat /\ skipped \in Nat
    /\ outcome \in {"none", "ok", "error", "broken"}

LEMMA KindsOfNode ==
    ASSUME NEW node \in Nodes
    PROVE  /\ node.kind \in {"dir", "reg", "link"} /\ node.size \in Nat
           /\ node.kind # "reg" => node.size = 0
           /\ node.kind = "dir" => node = Dir
           /\ node.kind = "link" <=> node = Link
           /\ node.kind = "reg" => node = File(node.size)
BY ArchiveAssumption DEF Nodes, Dir, File, Link

LEMMA CleanType ==
    ASSUME NEW name \in Strings
    PROVE  Clean(name) \in Strings
<1>1. Len(name) \in 0 .. Len(name)
    BY DEF Strings
<1> QED BY <1>1, CleanUnfolds

LEMMA ParentsType ==
    ASSUME NEW p \in Strings
    PROVE  Parents(p) \subseteq Strings /\ p \notin Parents(p)
<1> SUFFICES ASSUME NEW n \in 0 .. Len(p) - 1
             PROVE  SubSeq(p, 1, n) \in Strings /\ SubSeq(p, 1, n) # p
    BY DEF Parents
<1>1. Len(p) \in Nat /\ \A k \in 1 .. n : p[k] \in Component
    BY DEF Strings
<1>2. SubSeq(p, 1, n) \in Seq(Component) /\ Len(SubSeq(p, 1, n)) = n
    BY <1>1, SubSeqProperties
<1>3. Len(SubSeq(p, 1, n)) # Len(p)
    BY <1>1, <1>2
<1> QED BY <1>2, <1>3 DEF Strings

\* The entry Unpack is at.
LEMMA CurrentType ==
    ASSUME ArchiveTypeOK, read < Len(archive)
    PROVE  /\ read + 1 \in 1 .. Len(archive) /\ Current = archive[read + 1]
           /\ Current \in Entries /\ Current.name \in Strings /\ Current.node \in Nodes
           /\ Target = Clean(Current.name) /\ Target \in Strings
           /\ Parents(Target) \subseteq Strings /\ Target \notin Parents(Target)
<1>1. read + 1 \in 1 .. Len(archive) /\ Current = archive[read + 1] /\ Current \in Entries
    BY DEF ArchiveTypeOK, Current
<1>2. Current.name \in Strings /\ Current.node \in Nodes
    BY <1>1 DEF Entries
<1>3. Target = Clean(Current.name)
    BY DEF Target, SafeJoin
<1>4. Target \in Strings
    BY <1>2, <1>3, CleanType
<1> QED BY <1>1, <1>2, <1>3, <1>4, ParentsType

DiskType(d) ==
    /\ d \in [DOMAIN d -> DiskNodes] /\ DOMAIN d \subseteq Strings
    /\ <<>> \in DOMAIN d /\ d[<<>>] = Dir

\* What is on the disk after os.MkdirAll, and after a file was written.
LEMMA DirsAdded ==
    ASSUME DiskType(disk), NEW P \in SUBSET Strings, disk' = WithDirs(P)
    PROVE  /\ DiskType(disk)' /\ DOMAIN disk' = DOMAIN disk \cup P
           /\ \A p \in DOMAIN disk : disk'[p] = disk[p]
           /\ \A p \in P \ DOMAIN disk : disk'[p] = Dir
           /\ Extracted' = Extracted /\ Written' = Written
<1>1. /\ DOMAIN disk' = DOMAIN disk \cup P
      /\ \A p \in DOMAIN disk : disk'[p] = disk[p]
      /\ \A p \in P \ DOMAIN disk : disk'[p] = Dir
    BY DEF WithDirs
<1>2. DiskType(disk)'
    <2>1. disk' = [p \in DOMAIN disk' |-> disk'[p]]
        BY DEF WithDirs
    <2>2. \A p \in DOMAIN disk' : disk'[p] \in DiskNodes
        BY <1>1 DEF DiskType, DiskNodes
    <2> QED BY <1>1, <2>1, <2>2 DEF DiskType
<1>3. Extracted' = Extracted
    BY <1>1 DEF Extracted
<1>4. Written' = Written
    <2>1. \A p \in Extracted : disk'[p] = disk[p]
        BY <1>1 DEF Extracted
    <2> QED BY <1>3, <2>1 DEF Written
<1> QED BY <1>1, <1>2, <1>3, <1>4

LEMMA FileAdded ==
    ASSUME DiskType(disk), Target \in Strings, Parents(Target) \in SUBSET Strings,
           Target \notin Parents(Target), Target \notin DOMAIN disk,
           NEW n \in Nat, disk' = WithFile(n)
    PROVE  /\ DiskType(disk)' /\ DOMAIN disk' = DOMAIN disk \cup Parents(Target) \cup {Target}
           /\ \A p \in DOMAIN disk : disk'[p] = disk[p]
           /\ \A p \in Parents(Target) \ DOMAIN disk : disk'[p] = Dir
           /\ disk'[Target] = File(n)
           /\ Extracted' = Extracted \cup {Target}
           /\ Written' = Written \cup ({Target} \X (1 .. n)) /\ Written \cap ({Target} \X (1 .. n)) = {}
<1> DEFINE P == Parents(Target)  tgt == Target
<1>0. tgt \notin P /\ tgt \notin DOMAIN disk /\ tgt \in Strings /\ P \in SUBSET Strings
    OBVIOUS
<1>a. disk' = [p \in DOMAIN disk \cup P \cup {tgt} |->
                 IF p = tgt THEN File(n) ELSE IF p \in DOMAIN disk THEN disk[p] ELSE Dir]
    BY DEF WithFile, WithDirs
<1> HIDE DEF P, tgt
<1>1. /\ DOMAIN disk' = DOMAIN disk \cup P \cup {tgt}
      /\ \A p \in DOMAIN disk : disk'[p] = disk[p]
      /\ \A p \in P \ DOMAIN disk : disk'[p] = Dir
      /\ disk'[tgt] = File(n)
    BY <1>0, <1>a
<1>2. DiskType(disk)'
    <2>1. disk' = [p \in DOMAIN disk' |-> disk'[p]]
        BY <1>a
    <2>2. \A p \in DOMAIN disk' : disk'[p] \in DiskNodes
        BY <1>1 DEF DiskType, DiskNodes
    <2> QED BY <1>0, <1>1, <2>1, <2>2 DEF DiskType
<1>3. Extracted' = Extracted \cup {tgt} /\ tgt \notin Extracted
    <2>1. File(n) # Dir /\ File(n).size = n
        BY DEF File, Dir
    <2> QED BY <1>0, <1>1, <2>1 DEF Extracted
<1>4. \A p \in Extracted : disk'[p] = disk[p]
    BY <1>1 DEF Extracted
<1>5. disk'[tgt].size = n
    BY <1>1 DEF File
<1>6. Written' = Written \cup ({tgt} \X (1 .. n))
    BY <1>3, <1>4, <1>5 DEF Written
<1>7. Written \cap ({tgt} \X (1 .. n)) = {}
    BY <1>3 DEF Written
<1> QED BY <1>1, <1>2, <1>3, <1>6, <1>7 DEF P, tgt

-----------------------------------------------------------------------------
(* What Pack makes of a directory.                                         *)

Packing(t) ==
    CHOOSE made : made = [n \in 0..Len(Walk) |->
        IF n = 0 THEN <<>>
        ELSE IF Packed(t, Walk[n]) THEN Append(made[n - 1], Entry(Walk[n], t[Walk[n]]))
        ELSE made[n - 1]]

LEMMA WalkType ==
    /\ Len(Walk) \in Nat /\ DOMAIN Walk = 1 .. Len(Walk)
    /\ \A w \in 1 .. Len(Walk) : /\ Walk[w] \in Strings /\ Walk[w] # <<>>
                                 /\ \A k \in 1 .. Len(Walk[w]) : Walk[w][k] \notin {".", ".."}
    /\ \A v, w \in 1 .. Len(Walk) : Walk[v] = Walk[w] => v = w
    /\ \A v, w \in 1 .. Len(Walk) : Walk[v] \in Parents(Walk[w]) => v < w
<1> DEFINE S == Seq(Component) \ {<<>>}
<1>1. Walk \in Seq(S) /\ IsInjective(Walk)
    BY WalkAssumption DEF Component
<1>2. Len(Walk) \in Nat /\ DOMAIN Walk = 1 .. Len(Walk) /\ \A w \in 1 .. Len(Walk) : Walk[w] \in S
    <2> HIDE DEF S
    <2> QED BY <1>1
<1>3. \A v, w \in 1 .. Len(Walk) : Walk[v] = Walk[w] => v = w
    BY <1>1, <1>2 DEF IsInjective
<1>4. \A w \in 1 .. Len(Walk) : \A k \in DOMAIN Walk[w] : Walk[w][k] \notin {".", ".."}
    BY <1>2, WalkAssumption
<1>5. \A w \in 1 .. Len(Walk) : DOMAIN Walk[w] = 1 .. Len(Walk[w])
    BY <1>2
<1>6. \A v, w \in 1 .. Len(Walk) : Walk[v] \in Parents(Walk[w]) => v < w
    BY <1>2, WalkAssumption
<1> QED BY <1>2, <1>3, <1>4, <1>5, <1>6 DEF Strings

LEMMA TreeType ==
    ASSUME NEW t \in Trees
    PROVE  /\ \A p \in DOMAIN t : t[p] \in Nodes /\ \E w \in 1 .. Len(Walk) : p = Walk[w]
           /\ \A p \in DOMAIN t : \A q \in Parents(p) \ {<<>>} : q \in DOMAIN t /\ t[q] = Dir
<1>1. PICK P \in SUBSET Range(Walk) :
        t \in [P -> Nodes] /\ \A p \in P : \A q \in Parents(p) \ {<<>>} : q \in P /\ t[q] = Dir
    BY DEF Trees
<1> QED BY <1>1, WalkType DEF Range

\* Pack is what one node after the other leaves.
LEMMA PackUnfolds ==
    ASSUME NEW t \in Trees
    PROVE  /\ Pack(t) = Packing(t)[Len(Walk)]
           /\ Packing(t) \in [0 .. Len(Walk) -> Seq(Entries)]
           /\ Packing(t)[0] = <<>>
           /\ \A n \in 1 .. Len(Walk) :
                Packing(t)[n] = IF Packed(t, Walk[n])
                                  THEN Append(Packing(t)[n - 1], Entry(Walk[n], t[Walk[n]]))
                                  ELSE Packing(t)[n - 1]
<1> DEFINE S == Seq(Entries)
           next(n, s) == IF Packed(t, Walk[n]) THEN Append(s, Entry(Walk[n], t[Walk[n]])) ELSE s
           grow == [n \in 1 .. Len(Walk) |-> [s \in S |-> next(n, s)]]
           Unfolded(f) == f = [n \in 0 .. Len(Walk) |-> IF n = 0 THEN <<>> ELSE next(n, f[n - 1])]
<1>1. Len(Walk) \in Nat /\ <<>> \in S
    BY WalkType
<1>2. \A n \in 1 .. Len(Walk), s \in S : next(n, s) \in S
    <2>1. ASSUME NEW n \in 1 .. Len(Walk), NEW s \in S, Packed(t, Walk[n]) PROVE next(n, s) \in S
        <3>1. Entry(Walk[n], t[Walk[n]]) \in Entries
            BY <2>1, WalkType, TreeType DEF Packed, Entry, Entries
        <3> QED BY <2>1, <3>1
    <2> QED BY <2>1
<1> HIDE DEF S, next
<1>3. grow \in [1 .. Len(Walk) -> [S -> S]]
    BY <1>2
<1>4. PICK f : Built(f, Len(Walk), S, <<>>, grow)
    <2> HIDE DEF grow
    <2> QED BY <1>1, <1>3, Building
<1>5. Unfolded(f)
    <2>1. ASSUME NEW n \in 1 .. Len(Walk) PROVE f[n] = next(n, f[n - 1])
        <3>1. f[n - 1] \in S /\ f[n] = grow[n][f[n - 1]]
            BY <1>1, <1>4 DEF Built
        <3>2. grow[n][f[n - 1]] = next(n, f[n - 1])
            BY <3>1
        <3> QED BY <3>1, <3>2
    <2> QED BY <1>1, <1>4, <2>1 DEF Built
<1>6. Unfolded(Packing(t))
    <2> HIDE DEF Unfolded
    <2>1. Unfolded(CHOOSE g : Unfolded(g))
        BY <1>5
    <2> QED BY <2>1, Zenon DEF Unfolded, Packing, next
<1>7. Pack(t) = Packing(t)[Len(Walk)]
    BY DEF Pack, Packing
<1> HIDE DEF grow
<1>8. /\ DOMAIN Packing(t) = 0 .. Len(Walk)
      /\ Packing(t)[0] = <<>>
      /\ \A n \in 1 .. Len(Walk) : Packing(t)[n] = next(n, Packing(t)[n - 1])
    BY <1>1, <1>6
<1>9. \A n \in 0 .. Len(Walk) : Packing(t)[n] \in S
    <2> DEFINE T == {n \in 0 .. Len(Walk) : Packing(t)[n] \in S}
    <2>1. 0 \in T
        BY <1>1, <1>8
    <2>2. ASSUME NEW n \in 1 .. Len(Walk), n - 1 \in T PROVE n \in T
        BY <1>1, <1>2, <1>8, <2>2
    <2> HIDE DEF T
    <2>3. \A n \in 0 .. Len(Walk) : n \in T
        BY <1>1, <2>1, <2>2, Climbing
    <2> QED BY <2>3 DEF T
<1>10. Packing(t) \in [0 .. Len(Walk) -> S]
    BY <1>6, <1>9
<1> QED BY <1>7, <1>8, <1>10 DEF S, next

\* What is packed has the nodes of the directory but its links, each once and
\* each after the directories it lies in.
IsPacked(t, s) ==
    /\ \A i \in 1 .. Len(s) : /\ s[i].name \in DOMAIN t /\ t[s[i].name] # Link
                              /\ s[i].node = t[s[i].name]
    /\ \A i, j \in 1 .. Len(s) : s[i].name = s[j].name => i = j
    /\ \A i \in 1 .. Len(s) : \A q \in Parents(s[i].name) \ {<<>>} :
         \E j \in 1 .. i - 1 : s[j].name = q

PackedUpTo(t, s, n) ==
    /\ IsPacked(t, s)
    /\ \A i \in 1 .. Len(s) : \E w \in 1 .. n : s[i].name = Walk[w]
    /\ \A w \in 1 .. n : Packed(t, Walk[w]) => \E i \in 1 .. Len(s) : s[i].name = Walk[w]

LEMMA PackedFurther ==
    ASSUME NEW t \in Trees, NEW s \in Seq(Entries), NEW n \in 1 .. Len(Walk),
           PackedUpTo(t, s, n - 1), Packed(t, Walk[n])
    PROVE  PackedUpTo(t, Append(s, Entry(Walk[n], t[Walk[n]])), n)
<1> DEFINE e == Entry(Walk[n], t[Walk[n]])
           u == Append(s, e)
<1>0. Walk[n] \in DOMAIN t /\ t[Walk[n]] # Link /\ n \in Nat /\ Len(Walk) \in Nat
    BY WalkType DEF Packed
<1>1. e \in Entries /\ e.name = Walk[n] /\ e.node = t[Walk[n]]
    BY <1>0, WalkType, TreeType DEF Entry, Entries
<1>2. /\ Len(s) \in Nat /\ Len(u) = Len(s) + 1 /\ u[Len(s) + 1] = e
      /\ \A i \in 1 .. Len(s) : u[i] = s[i]
    BY <1>1
<1> HIDE DEF e, u
<1>3. \A i \in 1 .. Len(u) : i \in 1 .. Len(s) \/ i = Len(s) + 1
    BY <1>2
<1>4. \A w \in 1 .. n : w \in 1 .. n - 1 \/ w = n
    BY <1>0
<1>5. \A i \in 1 .. Len(s) : s[i].name # Walk[n]
    <2>1. SUFFICES ASSUME NEW i \in 1 .. Len(s), s[i].name = Walk[n] PROVE FALSE
        OBVIOUS
    <2>2. PICK w \in 1 .. n - 1 : s[i].name = Walk[w]
        BY DEF PackedUpTo
    <2>3. w \in 1 .. Len(Walk) /\ w # n
        BY <1>0
    <2> QED BY <2>1, <2>2, <2>3, WalkType
<1>6. \A i \in 1 .. Len(u) : /\ u[i].name \in DOMAIN t /\ t[u[i].name] # Link
                             /\ u[i].node = t[u[i].name]
    BY <1>0, <1>1, <1>2, <1>3 DEF PackedUpTo, IsPacked
<1>7. \A i, j \in 1 .. Len(u) : u[i].name = u[j].name => i = j
    BY <1>1, <1>2, <1>3, <1>5 DEF PackedUpTo, IsPacked
<1>8. ASSUME NEW i \in 1 .. Len(u), NEW q \in Parents(u[i].name) \ {<<>>}
      PROVE  \E j \in 1 .. i - 1 : u[j].name = q
    <2>1. CASE i \in 1 .. Len(s)
        <3>1. PICK j \in 1 .. i - 1 : s[j].name = q
            BY <1>2, <1>8, <2>1 DEF PackedUpTo, IsPacked
        <3>2. j \in 1 .. Len(s)
            BY <1>2, <2>1
        <3> QED BY <1>2, <3>1, <3>2
    <2>2. CASE i = Len(s) + 1
        <3>1. q \in Parents(Walk[n]) \ {<<>>}
            BY <1>1, <1>2, <1>8, <2>2
        <3>2. q \in DOMAIN t /\ t[q] = Dir
            BY <1>0, <3>1, TreeType
        <3>3. PICK w \in 1 .. Len(Walk) : q = Walk[w]
            BY <3>2, TreeType
        <3>4. w < n
            BY <3>1, <3>3, WalkType
        <3>5. w \in 1 .. n - 1 /\ Packed(t, Walk[w])
            BY <1>0, <3>2, <3>3, <3>4 DEF Packed, Dir, Link
        <3>6. PICK j \in 1 .. Len(s) : s[j].name = Walk[w]
            BY <3>5 DEF PackedUpTo
        <3>7. j \in 1 .. i - 1
            BY <1>2, <2>2
        <3> QED BY <1>2, <3>3, <3>6, <3>7
    <2> QED BY <1>3, <2>1, <2>2
<1>9. \A i \in 1 .. Len(u) : \E w \in 1 .. n : u[i].name = Walk[w]
    <2>1. ASSUME NEW i \in 1 .. Len(s) PROVE \E w \in 1 .. n : u[i].name = Walk[w]
        <3>1. PICK w \in 1 .. n - 1 : s[i].name = Walk[w]
            BY DEF PackedUpTo
        <3> QED BY <1>2, <1>0, <3>1
    <2>2. n \in 1 .. n /\ u[Len(s) + 1].name = Walk[n]
        BY <1>0, <1>1, <1>2
    <2> QED BY <1>3, <2>1, <2>2
<1>10. \A w \in 1 .. n : Packed(t, Walk[w]) => \E i \in 1 .. Len(u) : u[i].name = Walk[w]
    <2>1. ASSUME NEW w \in 1 .. n - 1, Packed(t, Walk[w])
          PROVE  \E i \in 1 .. Len(u) : u[i].name = Walk[w]
        <3>1. PICK i \in 1 .. Len(s) : s[i].name = Walk[w]
            BY <2>1 DEF PackedUpTo
        <3> QED BY <1>2, <3>1
    <2>2. Len(s) + 1 \in 1 .. Len(u) /\ u[Len(s) + 1].name = Walk[n]
        BY <1>1, <1>2
    <2> QED BY <1>4, <2>1, <2>2
<1>11. IsPacked(t, u)
    BY <1>6, <1>7, <1>8 DEF IsPacked
<1> QED BY <1>9, <1>10, <1>11 DEF PackedUpTo, u, e

\* What Pack makes of a directory, whatever its size.
LEMMA PackIsExact ==
    ASSUME NEW t \in Trees
    PROVE  /\ Pack(t) \in Seq(Entries) /\ IsPacked(t, Pack(t))
           /\ \A p \in DOMAIN t : t[p] # Link => \E i \in 1 .. Len(Pack(t)) : Pack(t)[i].name = p
<1> DEFINE m == Len(Walk)
           T == {n \in 0 .. m : PackedUpTo(t, Packing(t)[n], n)}
<1>1. m \in Nat /\ \A n \in 0 .. m : Packing(t)[n] \in Seq(Entries)
    BY WalkType, PackUnfolds
<1>2. 0 \in T
    <2>1. Packing(t)[0] = <<>> /\ Len(<<>>) = 0
        BY PackUnfolds
    <2> QED BY <1>1, <2>1 DEF PackedUpTo, IsPacked
<1>3. ASSUME NEW n \in 1 .. m, n - 1 \in T PROVE n \in T
    <2>1. PackedUpTo(t, Packing(t)[n - 1], n - 1) /\ Packing(t)[n - 1] \in Seq(Entries)
        BY <1>1, <1>3
    <2>2. CASE Packed(t, Walk[n])
        <3> DEFINE u == Append(Packing(t)[n - 1], Entry(Walk[n], t[Walk[n]]))
        <3>1. Packing(t)[n] = u
            BY <2>2, PackUnfolds
        <3>2. PackedUpTo(t, u, n)
            BY <2>1, <2>2, PackedFurther
        <3> HIDE DEF u
        <3> QED BY <3>1, <3>2
    <2>3. CASE ~Packed(t, Walk[n])
        <3>1. Packing(t)[n] = Packing(t)[n - 1]
            BY <2>3, PackUnfolds
        <3> DEFINE s == Packing(t)[n - 1]
        <3> HIDE DEF s
        <3>2. PackedUpTo(t, s, n)
            <4>1. PackedUpTo(t, s, n - 1)
                BY <2>1 DEF s
            <4>2. \A w \in 1 .. n : w \in 1 .. n - 1 \/ w = n
                OBVIOUS
            <4>3. \A w \in 1 .. n - 1 : w \in 1 .. n
                OBVIOUS
            <4>4. \A i \in 1 .. Len(s) : \E w \in 1 .. n : s[i].name = Walk[w]
                BY <4>1, <4>3 DEF PackedUpTo
            <4>5. \A w \in 1 .. n : Packed(t, Walk[w]) => \E i \in 1 .. Len(s) : s[i].name = Walk[w]
                <5> HIDE DEF Packed
                <5> QED BY <2>3, <4>1, <4>2 DEF PackedUpTo
            <4> QED BY <4>1, <4>4, <4>5 DEF PackedUpTo
        <3> QED BY <3>1, <3>2 DEF s
    <2> QED BY <2>2, <2>3
<1> HIDE DEF T
<1>4. m \in T
    <2>1. \A n \in 0 .. m : n \in T
        BY <1>1, <1>2, <1>3, Climbing
    <2> QED BY <1>1, <2>1
<1>5. PackedUpTo(t, Pack(t), m)
    BY <1>4, PackUnfolds DEF T
<1>6. Pack(t) \in Seq(Entries)
    BY <1>1, PackUnfolds
<1>7. \A p \in DOMAIN t : t[p] # Link => \E i \in 1 .. Len(Pack(t)) : Pack(t)[i].name = p
    BY <1>5, TreeType DEF PackedUpTo, Packed
<1> QED BY <1>5, <1>6, <1>7 DEF PackedUpTo

-----------------------------------------------------------------------------
(* What Unpack has done when it is through some of the entries.            *)

AcceptedSoFar ==
    /\ read <= MaxEntries
    /\ \A i \in 1 .. read : SafeJoin(archive[i].name).ok
    /\ outcome = "ok" => read = Len(archive)

BudgetSoFar ==
    /\ IsFiniteSet(Written)
    /\ Cardinality(Contents(read)) + left = MaxBytes
    /\ IF outcome = "broken" THEN Cardinality(Written) <= MaxBytes
                             ELSE Cardinality(Written) + left = MaxBytes

LinksAmong(n) == {i \in 1 .. n : archive[i].node = Link}

FaithfulSoFar ==
    /\ \A i \in 1 .. read : archive[i].node.kind = "reg" =>
         Clean(archive[i].name) \in DOMAIN disk /\ disk[Clean(archive[i].name)] = archive[i].node
    /\ outcome # "broken" => \A p \in Extracted :
         \E i \in 1 .. read : archive[i].node.kind = "reg" /\ p = Clean(archive[i].name)
    /\ IsFiniteSet(LinksAmong(read)) /\ skipped = Cardinality(LinksAmong(read))

\* A directory that was packed comes back node by node.
ComesBackSoFar ==
    tree # NoTree =>
        /\ tree \in Trees /\ archive = Pack(tree)
        /\ Fits => outcome # "error"
        /\ outcome \in {"none", "ok"} =>
             /\ DOMAIN disk = {<<>>} \cup {archive[i].name : i \in 1 .. read}
             /\ \A i \in 1 .. read : disk[archive[i].name] = archive[i].node

ArchiveInv ==
    ArchiveTypeOK /\ AcceptedSoFar /\ BudgetSoFar /\ FaithfulSoFar /\ ComesBackSoFar
-----------------------------------------------------------------------------
\* Bytes are counted as the elements of a set.
LEMMA BytesOfOne ==
    ASSUME NEW W, IsFiniteSet(W), NEW p, NEW n \in Nat, W \cap ({p} \X (1 .. n)) = {}
    PROVE  /\ IsFiniteSet(W \cup ({p} \X (1 .. n)))
           /\ Cardinality(W \cup ({p} \X (1 .. n))) = Cardinality(W) + n
<1> DEFINE own == {p} \X (1 .. n)
<1>1. IsFiniteSet(1 .. n) /\ Cardinality(1 .. n) = n
    <2>1. IsFiniteSet(1 .. n) /\ Cardinality(1 .. n) = IF 1 > n THEN 0 ELSE n - 1 + 1
        BY FS_Interval
    <2> QED BY <2>1
<1>2. IsFiniteSet({p}) /\ Cardinality({p}) = 1
    BY FS_Singleton
<1>3. IsFiniteSet(own) /\ Cardinality(own) = Cardinality({p}) * Cardinality(1 .. n)
    BY <1>1, <1>2, FS_Product, Zenon
<1>4. Cardinality(own) = n
    BY <1>1, <1>2, <1>3
<1>5. Cardinality({}) = 0 /\ W \cap own = {}
    BY FS_EmptySet
<1> HIDE DEF own
<1>6. /\ IsFiniteSet(W \cup own)
      /\ Cardinality(W \cup own) = Cardinality(W) + Cardinality(own) - Cardinality(W \cap own)
    BY <1>3, FS_Union
<1>7. Cardinality(W \cap own) = 0
    BY <1>5, Zenon
<1>8. Cardinality(W) \in Nat
    BY FS_CardinalityType
<1>9. Cardinality(W \cup own) = Cardinality(W) + n
    BY <1>4, <1>6, <1>7, <1>8
<1> QED BY <1>6, <1>9 DEF own

LEMMA OneMoreOfUnion ==
    ASSUME NEW own, NEW k \in Nat
    PROVE  UNION {own[i] : i \in 1 .. k + 1} = (UNION {own[i] : i \in 1 .. k}) \cup own[k + 1]
<1>1. \A i : i \in 1 .. k + 1 <=> i \in 1 .. k \/ i = k + 1
    OBVIOUS
<1> QED BY <1>1

LEMMA ContentsOfNext ==
    ASSUME ArchiveTypeOK, NEW k \in 0 .. Len(archive) - 1, IsFiniteSet(Contents(k))
    PROVE  /\ archive[k + 1].node.size \in Nat /\ IsFiniteSet(Contents(k + 1))
           /\ Cardinality(Contents(k + 1)) = Cardinality(Contents(k)) + archive[k + 1].node.size
<1> DEFINE n == archive[k + 1].node.size
           own == [i \in 1 .. k + 1 |-> {i} \X (1 .. archive[i].node.size)]
           last == {k + 1} \X (1 .. n)
<1>1. n \in Nat
    <2>1. archive[k + 1] \in Entries
        BY DEF ArchiveTypeOK
    <2> QED BY <2>1, KindsOfNode DEF Entries
<1>2. own[k + 1] = last
    <2>1. k + 1 \in 1 .. k + 1
        OBVIOUS
    <2> QED BY <2>1
<1>3. Contents(k) = UNION {own[i] : i \in 1 .. k} /\ Contents(k + 1) = UNION {own[i] : i \in 1 .. k + 1}
    <2>1. \A i \in 1 .. k + 1 : own[i] = {i} \X (1 .. archive[i].node.size)
        OBVIOUS
    <2>2. \A i \in 1 .. k : i \in 1 .. k + 1
        OBVIOUS
    <2> HIDE DEF own
    <2> QED BY <2>1, <2>2 DEF Contents
<1>4. Contents(k) \cap last = {}
    BY DEF Contents
<1>5. Contents(k + 1) = Contents(k) \cup last
    <2>1. k \in Nat
        OBVIOUS
    <2> HIDE DEF own, last
    <2> QED BY <1>2, <1>3, <2>1, OneMoreOfUnion
<1> HIDE DEF n
<1>6. /\ IsFiniteSet(Contents(k) \cup last)
      /\ Cardinality(Contents(k) \cup last) = Cardinality(Contents(k)) + n
    BY <1>1, <1>4, BytesOfOne
<1> QED BY <1>1, <1>5, <1>6 DEF n

LEMMA ContentsFinite ==
    ASSUME ArchiveTypeOK
    PROVE  \A k \in 0 .. Len(archive) : IsFiniteSet(Contents(k))
<1> DEFINE m == Len(archive)
           T == {k \in 0 .. m : IsFiniteSet(Contents(k))}
<1>1. m \in Nat
    BY DEF ArchiveTypeOK
<1>2. 0 \in T
    <2>1. Contents(0) = {}
        BY DEF Contents
    <2> QED BY <1>1, <2>1, FS_EmptySet
<1>3. ASSUME NEW k \in 1 .. m, k - 1 \in T PROVE k \in T
    <2>1. k - 1 \in 0 .. m - 1 /\ IsFiniteSet(Contents(k - 1)) /\ (k - 1) + 1 = k
        BY <1>3
    <2>2. IsFiniteSet(Contents((k - 1) + 1))
        BY <2>1, ContentsOfNext
    <2> QED BY <2>1, <2>2
<1> HIDE DEF T
<1>4. \A k \in 0 .. m : k \in T
    BY <1>1, <1>2, <1>3, Climbing
<1> QED BY <1>4 DEF T

LEMMA LinksOfNext ==
    ASSUME ArchiveTypeOK, FaithfulSoFar, read < Len(archive)
    PROVE  /\ IsFiniteSet(LinksAmong(read + 1))
           /\ Cardinality(LinksAmong(read + 1)) = IF Current.node = Link THEN skipped + 1 ELSE skipped
<1>1. read \in Nat /\ Current = archive[read + 1] /\ skipped \in Nat
    BY CurrentType DEF ArchiveTypeOK
<1>2. LinksAmong(read + 1) =
        IF Current.node = Link THEN LinksAmong(read) \cup {read + 1} ELSE LinksAmong(read)
    BY <1>1 DEF LinksAmong
<1>3. read + 1 \notin LinksAmong(read)
    BY <1>1 DEF LinksAmong
<1>4. IsFiniteSet(LinksAmong(read)) /\ skipped = Cardinality(LinksAmong(read))
    BY DEF FaithfulSoFar
<1> QED BY <1>2, <1>3, <1>4, FS_AddElement

\* A name that is spelt without "." and ".." is clean as it is.
LEMMA PlainIsClean ==
    ASSUME NEW p \in Strings, \A k \in 1 .. Len(p) : p[k] \notin {".", ".."}
    PROVE  Clean(p) = p
<1> DEFINE m == Len(p)
           d == Cleaning(p)
           T == {n \in 0 .. m : Len(d[n]) = n /\ \A k \in 1 .. n : d[n][k] = p[k]}
<1>1. /\ m \in Nat /\ \A n \in 0 .. m : d[n] \in Strings
      /\ d[0] = <<>> /\ \A n \in 1 .. m : d[n] = CleanStep(d[n - 1], p[n]) /\ p[n] \in Component
    <2>1. m \in Nat /\ \A n \in 1 .. m : p[n] \in Component
        BY DEF Strings
    <2> QED BY <2>1, CleanUnfolds
<1> HIDE DEF d
<1>2. 0 \in T
    BY <1>1
<1>3. ASSUME NEW n \in 1 .. m, n - 1 \in T PROVE n \in T
    <2>1. d[n] = Append(d[n - 1], p[n])
        BY <1>1 DEF CleanStep
    <2>2. d[n - 1] \in Strings /\ p[n] \in Component
        BY <1>1
    <2> DEFINE s == d[n - 1]
    <2> HIDE DEF s
    <2>3. /\ Len(Append(s, p[n])) = Len(s) + 1 /\ Append(s, p[n])[Len(s) + 1] = p[n]
          /\ \A k \in 1 .. Len(s) : Append(s, p[n])[k] = s[k]
        BY <2>2, AppendTo DEF s
    <2>4. Len(s) = n - 1 /\ \A k \in 1 .. n - 1 : s[k] = p[k]
        BY <1>3 DEF s
    <2>5. Len(d[n]) = n /\ d[n][n] = p[n] /\ \A k \in 1 .. n - 1 : d[n][k] = p[k]
        BY <2>1, <2>3, <2>4 DEF s
    <2>6. \A k \in 1 .. n : k = n \/ k \in 1 .. n - 1
        OBVIOUS
    <2> QED BY <2>5, <2>6
<1> HIDE DEF T
<1>4. m \in T
    <2>1. \A n \in 0 .. m : n \in T
        BY <1>1, <1>2, <1>3, Climbing
    <2> QED BY <1>1, <2>1
<1>5. /\ Clean(p) = d[m] /\ d[m] \in Strings /\ Len(d[m]) = Len(p)
      /\ \A k \in 1 .. Len(p) : d[m][k] = p[k]
    BY <1>1, <1>4, CleanUnfolds DEF T, d
<1> QED BY <1>5, SeqEqual DEF Strings

\* The entries of a packed directory.
LEMMA PackedEntries ==
    ASSUME ArchiveTypeOK, ComesBackSoFar, tree # NoTree
    PROVE  /\ IsPacked(tree, archive)
           /\ \A i \in 1 .. Len(archive) :
                LET name == archive[i].name IN
                /\ name \in Strings /\ name # <<>> /\ SafeJoin(name).path = name
                /\ name \notin BadNames => SafeJoin(name).ok
                /\ archive[i].node # Link
                /\ \A q \in Parents(name) \ {<<>>} :
                     \E j \in 1 .. i - 1 : archive[j].name = q /\ archive[j].node = Dir
<1>1. tree \in Trees /\ archive = Pack(tree)
    BY DEF ComesBackSoFar
<1>2. IsPacked(tree, archive)
    BY <1>1, PackIsExact
<1>3. ASSUME NEW i \in 1 .. Len(archive), NEW name, name = archive[i].name
      PROVE  /\ name \in Strings /\ name # <<>> /\ SafeJoin(name).path = name
             /\ name \notin BadNames => SafeJoin(name).ok
             /\ archive[i].node # Link
             /\ \A q \in Parents(name) \ {<<>>} :
                  \E j \in 1 .. i - 1 : archive[j].name = q /\ archive[j].node = Dir
    <2>1. name \in DOMAIN tree /\ tree[name] # Link /\ archive[i].node = tree[name]
        BY <1>2, <1>3 DEF IsPacked
    <2>2. PICK w \in 1 .. Len(Walk) : name = Walk[w]
        BY <1>1, <2>1, TreeType
    <2>3. /\ name \in Strings /\ name # <<>>
          /\ \A k \in 1 .. Len(name) : name[k] \notin {".", ".."}
        BY <2>2, WalkType
    <2>4. Clean(name) = name
        BY <2>3, PlainIsClean
    <2>5. Head(name) = name[1] /\ 1 \in 1 .. Len(name)
        BY <2>3 DEF Strings
    <2>6. SafeJoin(name).path = name /\ (name \notin BadNames => SafeJoin(name).ok)
        BY <2>3, <2>4, <2>5 DEF SafeJoin
    <2>7. ASSUME NEW q \in Parents(name) \ {<<>>}
          PROVE  \E j \in 1 .. i - 1 : archive[j].name = q /\ archive[j].node = Dir
        <3>1. PICK j \in 1 .. i - 1 : archive[j].name = q
            BY <1>2, <1>3 DEF IsPacked
        <3>2. j \in 1 .. Len(archive)
            BY DEF ArchiveTypeOK
        <3>3. tree[q] = Dir
            BY <1>1, <2>1, TreeType
        <3>4. archive[j].node = tree[archive[j].name]
            BY <1>2, <3>2 DEF IsPacked
        <3> QED BY <3>1, <3>3, <3>4
    <2> QED BY <2>1, <2>3, <2>6, <2>7
<1> QED BY <1>2, <1>3

LEMMA ArchiveStarts ==
    ASSUME UnpackInit
    PROVE  ArchiveInv
<1>1. archive \in Seq(Entries) /\ (tree # NoTree => tree \in Trees /\ archive = Pack(tree))
    <2>1. CASE tree \in Trees /\ archive = Pack(tree)
        BY <2>1, PackIsExact
    <2>2. CASE tree = NoTree /\ archive \in BoundedSeq([name : Names, node : Nodes], MaxLength)
        <3>1. PICK n \in 0 .. MaxLength : archive \in [1 .. n -> [name : Names, node : Nodes]]
            BY <2>2 DEF BoundedSeq, SeqOf
        <3>2. [name : Names, node : Nodes] \subseteq Entries /\ n \in Nat
            BY ArchiveAssumption DEF Entries, Strings, Component
        <3>3. archive \in [1 .. n -> Entries]
            BY <3>1, <3>2
        <3> QED BY <2>2, <3>2, <3>3
    <2> QED BY <2>1, <2>2 DEF UnpackInit
<1>2. read = 0 /\ disk = [p \in {<<>>} |-> Dir] /\ left = MaxBytes /\ skipped = 0 /\ outcome = "none"
    BY DEF UnpackInit
<1>3. DOMAIN disk = {<<>>} /\ disk[<<>>] = Dir /\ disk \in [DOMAIN disk -> DiskNodes] /\ <<>> \in Strings
    BY <1>2 DEF DiskNodes, Strings
<1>4. ArchiveTypeOK
    <2>1. 0 \in 0 .. Len(archive) /\ MaxBytes \in Nat
        BY <1>1, ArchiveAssumption
    <2> QED BY <1>1, <1>2, <1>3, <2>1 DEF ArchiveTypeOK
<1>5. AcceptedSoFar
    BY <1>2, ArchiveAssumption DEF AcceptedSoFar
<1>6. Extracted = {} /\ Written = {} /\ Contents(0) = {} /\ LinksAmong(0) = {}
    BY <1>3 DEF Extracted, Written, Contents, LinksAmong
<1>7. BudgetSoFar
    BY <1>2, <1>6, FS_EmptySet, ArchiveAssumption DEF BudgetSoFar
<1>8. FaithfulSoFar
    BY <1>2, <1>6, FS_EmptySet DEF FaithfulSoFar
<1>9. ComesBackSoFar
    BY <1>1, <1>2, <1>3 DEF ComesBackSoFar
<1> QED BY <1>4, <1>5, <1>7, <1>8, <1>9 DEF ArchiveInv

LEMMA DiskTyped == ArchiveTypeOK => DiskType(disk)
BY DEF ArchiveTypeOK, DiskType

\* Nothing of a packed directory that fits gives Unpack a reason to refuse.
LEMMA NoReason ==
    ASSUME ArchiveInv, outcome = "none", read < Len(archive), tree # NoTree
    PROVE  /\ Current.node # Link
           /\ Target = Current.name /\ Target # <<>> /\ Target \notin DOMAIN disk
           /\ Parents(Target) \subseteq DOMAIN disk \cup {<<>>} /\ CanMake(Parents(Target))
           /\ Fits => SafeJoin(Current.name).ok /\ read < MaxEntries /\ Current.node.size <= left
<1>0. ArchiveTypeOK /\ BudgetSoFar /\ ComesBackSoFar /\ <<>> \in DOMAIN disk /\ disk[<<>>] = Dir
    BY DEF ArchiveInv, ArchiveTypeOK
<1>1. read + 1 \in 1 .. Len(archive) /\ Current = archive[read + 1]
    BY <1>0, CurrentType
<1>2. /\ DOMAIN disk = {<<>>} \cup {archive[i].name : i \in 1 .. read}
      /\ \A i \in 1 .. read : disk[archive[i].name] = archive[i].node
    BY <1>0 DEF ComesBackSoFar
<1>3. /\ Current.name # <<>> /\ Target = Current.name
      /\ Current.name \notin BadNames => SafeJoin(Current.name).ok
      /\ Current.node # Link
      /\ \A q \in Parents(Current.name) \ {<<>>} :
           \E j \in 1 .. read : archive[j].name = q /\ archive[j].node = Dir
    <2>1. (read + 1) - 1 = read
        BY <1>0 DEF ArchiveTypeOK
    <2> DEFINE name == archive[read + 1].name
    <2>2. /\ name # <<>> /\ (name \notin BadNames => SafeJoin(name).ok) /\ SafeJoin(name).path = name
          /\ archive[read + 1].node # Link
          /\ \A q \in Parents(name) \ {<<>>} :
               \E j \in 1 .. (read + 1) - 1 : archive[j].name = q /\ archive[j].node = Dir
        BY <1>0, <1>1, PackedEntries
    <2>3. Current.name = name /\ Target = SafeJoin(name).path
        BY <1>1 DEF Target
    <2> HIDE DEF name
    <2> QED BY <1>1, <2>1, <2>2, <2>3
<1>4. Current.name \notin DOMAIN disk
    <2>1. SUFFICES ASSUME NEW i \in 1 .. read, archive[i].name = Current.name PROVE FALSE
        BY <1>2, <1>3
    <2>2. i \in 1 .. Len(archive) /\ i # read + 1
        BY <1>0 DEF ArchiveTypeOK
    <2>3. archive[i].name = archive[read + 1].name
        BY <1>1, <2>1
    <2> QED BY <1>0, <1>1, <2>2, <2>3, PackedEntries DEF IsPacked
<1>5. /\ Parents(Target) \subseteq DOMAIN disk \cup {<<>>}
      /\ \A q \in Parents(Target) \ {<<>>} : disk[q] = Dir
    BY <1>2, <1>3
<1>6. CanMake(Parents(Target))
    BY <1>0, <1>5 DEF CanMake
<1>7. ASSUME Fits PROVE SafeJoin(Current.name).ok /\ read < MaxEntries /\ Current.node.size <= left
    <2>1. read \in 0 .. Len(archive) - 1 /\ Len(archive) \in Nat /\ left \in Nat
        BY <1>0 DEF ArchiveTypeOK
    <2>2. IsFiniteSet(Contents(read)) /\ IsFiniteSet(Contents(Len(archive)))
        BY <1>0, <2>1, ContentsFinite
    <2>3. /\ Current.node.size \in Nat /\ IsFiniteSet(Contents(read + 1))
          /\ Cardinality(Contents(read + 1)) = Cardinality(Contents(read)) + Current.node.size
        BY <1>0, <1>1, <2>1, <2>2, ContentsOfNext
    <2>4. Contents(read + 1) \subseteq Contents(Len(archive))
        <3>1. \A i \in 1 .. read + 1 : i \in 1 .. Len(archive)
            BY <2>1
        <3> QED BY <3>1 DEF Contents
    <2>5. Cardinality(Contents(read + 1)) <= Cardinality(Contents(Len(archive)))
        BY <2>2, <2>4, FS_Subset
    <2>6. /\ Cardinality(Contents(read)) \in Nat /\ Cardinality(Contents(read + 1)) \in Nat
          /\ Cardinality(Contents(Len(archive))) \in Nat
        BY <2>2, <2>3, FS_CardinalityType
    <2>7. Cardinality(Contents(read)) + left = MaxBytes
        BY <1>0 DEF BudgetSoFar
    <2>8. Cardinality(Contents(Len(archive))) <= MaxBytes /\ Len(archive) <= MaxEntries
        BY <1>7 DEF Fits
    <2>9. SafeJoin(Current.name).ok
        <3>1. Current.name \notin BadNames
            BY <1>0, <1>1, <1>7 DEF Fits, ArchiveTypeOK
        <3> QED BY <1>3, <3>1
    <2>10. read < MaxEntries
        BY <2>1, <2>8, ArchiveAssumption
    <2> DEFINE now == Cardinality(Contents(read))  next == Cardinality(Contents(read + 1))
               all == Cardinality(Contents(Len(archive)))  size == Current.node.size
    <2>11. /\ now \in Nat /\ next \in Nat /\ all \in Nat /\ size \in Nat /\ MaxBytes \in Nat
           /\ next = now + size /\ next <= all /\ all <= MaxBytes /\ now + left = MaxBytes
        BY <2>3, <2>5, <2>6, <2>7, <2>8, ArchiveAssumption
    <2> HIDE DEF now, next, all, size
    <2>12. size <= left
        BY <2>1, <2>11
    <2> QED BY <2>10, <2>12, <2>9 DEF size
<1> QED BY <1>3, <1>4, <1>5, <1>6, <1>7

\* What the invariants read of the entries does not change with them.
LEMMA EntriesStay ==
    ASSUME archive' = archive, NEW k, read' = k
    PROVE  Contents(read)' = Contents(k) /\ LinksAmong(read)' = LinksAmong(k) /\ (Fits' <=> Fits)
<1>1. Contents(Len(archive))' = Contents(Len(archive))
    BY DEF Contents
<1> QED BY <1>1 DEF Contents, LinksAmong, Fits

\* Unpack gives up: at most directories were added.
LEMMA RefusalKeeps ==
    ASSUME ArchiveInv, outcome = "none", Refuse, DiskType(disk)',
           \A p \in DOMAIN disk : p \in DOMAIN disk' /\ disk'[p] = disk[p],
           Extracted' = Extracted, Written' = Written, tree # NoTree => ~Fits
    PROVE  ArchiveInv'
<1>0. /\ tree' = tree /\ archive' = archive /\ read' = read /\ left' = left /\ skipped' = skipped
      /\ outcome' = "error"
    BY DEF Refuse
<1>1. Contents(read)' = Contents(read) /\ LinksAmong(read)' = LinksAmong(read) /\ (Fits' <=> Fits)
    BY <1>0, EntriesStay
<1>2. ArchiveTypeOK'
    BY <1>0 DEF ArchiveInv, ArchiveTypeOK, DiskType
<1>3. AcceptedSoFar'
    BY <1>0 DEF ArchiveInv, AcceptedSoFar
<1>4. BudgetSoFar'
    BY <1>0, <1>1 DEF ArchiveInv, BudgetSoFar
<1>5. FaithfulSoFar'
    BY <1>0, <1>1 DEF ArchiveInv, FaithfulSoFar
<1>6. ComesBackSoFar'
    BY <1>0, <1>1 DEF ArchiveInv, ComesBackSoFar
<1> QED BY <1>2, <1>3, <1>4, <1>5, <1>6 DEF ArchiveInv

LEMMA EndOfArchiveKeeps ==
    ASSUME ArchiveInv, EndOfArchive
    PROVE  ArchiveInv'
<1>0. /\ tree' = tree /\ archive' = archive /\ read' = read /\ left' = left /\ skipped' = skipped
      /\ disk' = disk /\ outcome = "none" /\ outcome' = "ok" /\ read = Len(archive)
    BY DEF EndOfArchive
<1>1. /\ Contents(read)' = Contents(read) /\ LinksAmong(read)' = LinksAmong(read) /\ (Fits' <=> Fits)
      /\ Extracted' = Extracted /\ Written' = Written
    BY <1>0, EntriesStay DEF Extracted, Written
<1>2. ArchiveTypeOK'
    BY <1>0 DEF ArchiveInv, ArchiveTypeOK
<1>3. AcceptedSoFar'
    BY <1>0 DEF ArchiveInv, AcceptedSoFar
<1>4. BudgetSoFar'
    BY <1>0, <1>1 DEF ArchiveInv, BudgetSoFar
<1>5. FaithfulSoFar'
    BY <1>0, <1>1 DEF ArchiveInv, FaithfulSoFar
<1>6. ComesBackSoFar'
    BY <1>0, <1>1 DEF ArchiveInv, ComesBackSoFar
<1> QED BY <1>2, <1>3, <1>4, <1>5, <1>6 DEF ArchiveInv

\* Unpack has dealt with an entry: what is new on the disk is that entry.
LEMMA AdvanceKeeps ==
    ASSUME ArchiveInv, NEW K, Admitted(K), read' = read + 1, tree' = tree, archive' = archive,
           outcome' = "none", left' \in Nat, left' = left - Current.node.size,
           skipped' = IF Current.node = Link THEN skipped + 1 ELSE skipped,
           DiskType(disk)',
           \A p \in DOMAIN disk : p \in DOMAIN disk' /\ disk'[p] = disk[p],
           IF Current.node.kind = "reg"
             THEN /\ Target \in DOMAIN disk' /\ disk'[Target] = Current.node
                  /\ Extracted' = Extracted \cup {Target}
                  /\ IsFiniteSet(Written') /\ Cardinality(Written') = Cardinality(Written) + Current.node.size
             ELSE Extracted' = Extracted /\ Written' = Written,
           tree # NoTree => /\ DOMAIN disk' = DOMAIN disk \cup {Target}
                            /\ disk'[Target] = Current.node
    PROVE  ArchiveInv'
<1>0. /\ ArchiveTypeOK /\ AcceptedSoFar /\ BudgetSoFar /\ FaithfulSoFar /\ ComesBackSoFar
      /\ outcome = "none" /\ read < Len(archive) /\ read < MaxEntries /\ SafeJoin(Current.name).ok
      /\ read \in Nat /\ Len(archive) \in Nat /\ left \in Nat /\ skipped \in Nat
    BY DEF ArchiveInv, ArchiveTypeOK, Admitted
<1>1. /\ read + 1 \in 1 .. Len(archive) /\ Current = archive[read + 1] /\ Current.node \in Nodes
      /\ Target = Clean(Current.name)
    BY <1>0, CurrentType
<1>2. /\ Contents(read)' = Contents(read + 1) /\ LinksAmong(read)' = LinksAmong(read + 1)
      /\ (Fits' <=> Fits)
    BY EntriesStay
<1>3. \A i \in 1 .. read + 1 : i \in 1 .. read \/ i = read + 1
    BY <1>0
<1>4. \A i \in 1 .. read : i \in 1 .. read + 1
    BY <1>0
<1>5. ArchiveTypeOK'
    BY <1>0, <1>1 DEF ArchiveTypeOK, DiskType
<1>6. AcceptedSoFar'
    BY <1>0, <1>1, <1>3, ArchiveAssumption DEF AcceptedSoFar
<1>7. BudgetSoFar'
    <2>1. read \in 0 .. Len(archive) - 1 /\ IsFiniteSet(Contents(read))
        BY <1>0, ContentsFinite
    <2>2. /\ Cardinality(Contents(read + 1)) = Cardinality(Contents(read)) + Current.node.size
          /\ Current.node.size \in Nat
        BY <1>0, <1>1, <2>1, ContentsOfNext
    <2>3. Cardinality(Contents(read)) \in Nat /\ Cardinality(Written) \in Nat
        BY <1>0, <2>1, FS_CardinalityType DEF BudgetSoFar
    <2>4. Current.node.kind # "reg" => Current.node.size = 0
        BY <1>1, KindsOfNode
    <2>5. IsFiniteSet(Written) /\ Cardinality(Contents(read)) + left = MaxBytes
          /\ Cardinality(Written) + left = MaxBytes
        BY <1>0 DEF BudgetSoFar
    <2>6. IsFiniteSet(Written') /\ Cardinality(Written') = Cardinality(Written) + Current.node.size
        BY <2>3, <2>4, <2>5
    <2> DEFINE now == Cardinality(Contents(read))  wrote == Cardinality(Written)
               size == Current.node.size
    <2>7. /\ Cardinality(Contents(read)') = now + size /\ Cardinality(Written') = wrote + size
          /\ now + left = MaxBytes /\ wrote + left = MaxBytes /\ left' = left - size
          /\ now \in Nat /\ wrote \in Nat /\ size \in Nat /\ left \in Nat
        BY <1>0, <1>2, <2>2, <2>3, <2>5, <2>6
    <2> HIDE DEF now, wrote, size
    <2>8. Cardinality(Contents(read)') + left' = MaxBytes /\ Cardinality(Written') + left' = MaxBytes
        BY <2>7
    <2> QED BY <2>6, <2>8 DEF BudgetSoFar
<1>8. FaithfulSoFar'
    <2>1. ASSUME NEW i \in 1 .. read', archive[i].node.kind = "reg"
          PROVE  /\ Clean(archive[i].name) \in DOMAIN disk'
                 /\ disk'[Clean(archive[i].name)] = archive[i].node
        BY <1>0, <1>1, <1>3, <2>1 DEF FaithfulSoFar
    <2>2. ASSUME NEW p \in Extracted'
          PROVE  \E i \in 1 .. read' : archive[i].node.kind = "reg" /\ p = Clean(archive[i].name)
        <3>1. CASE p \in Extracted
            BY <1>0, <1>4, <3>1 DEF FaithfulSoFar
        <3>2. CASE p \notin Extracted
            <4>1. Current.node.kind = "reg" /\ p = Target
                BY <2>2, <3>2
            <4>2. read + 1 \in 1 .. read'
                BY <1>0
            <4> QED BY <1>1, <4>1, <4>2
        <3> QED BY <3>1, <3>2
    <2>3. IsFiniteSet(LinksAmong(read)') /\ skipped' = Cardinality(LinksAmong(read)')
        BY <1>0, <1>2, LinksOfNext
    <2> QED BY <2>1, <2>2, <2>3 DEF FaithfulSoFar
<1>9. ComesBackSoFar'
    <2>1. SUFFICES ASSUME tree # NoTree PROVE ComesBackSoFar'
        BY DEF ComesBackSoFar
    <2>2. /\ DOMAIN disk = {<<>>} \cup {archive[i].name : i \in 1 .. read}
          /\ \A i \in 1 .. read : disk[archive[i].name] = archive[i].node
          /\ tree \in Trees /\ archive = Pack(tree)
        BY <1>0, <2>1 DEF ComesBackSoFar
    <2>3. Target = archive[read + 1].name
        BY <1>0, <1>1, <2>1, NoReason
    <2>4. DOMAIN disk' = {<<>>} \cup {archive[i].name : i \in 1 .. read'}
        BY <1>0, <1>3, <1>4, <2>1, <2>2, <2>3
    <2>5. \A i \in 1 .. read' : disk'[archive[i].name] = archive[i].node
        BY <1>0, <1>1, <1>3, <2>1, <2>2, <2>3
    <2>6. outcome' = "none" /\ tree' = tree /\ archive' = archive
        OBVIOUS
    <2> QED BY <2>2, <2>4, <2>5, <2>6 DEF ComesBackSoFar
<1> QED BY <1>5, <1>6, <1>7, <1>8, <1>9 DEF ArchiveInv

\* Nothing has been touched when it refuses.
LEMMA RefusedAtOnce ==
    ASSUME ArchiveInv, outcome = "none", Refuse, disk' = disk, tree # NoTree => ~Fits
    PROVE  ArchiveInv'
<1>1. DiskType(disk)'
    BY DiskTyped DEF ArchiveInv, DiskType
<1>2. Extracted' = Extracted /\ Written' = Written
    BY DEF Extracted, Written
<1> QED BY <1>1, <1>2, RefusalKeeps

LEMMA NotAdmittedKeeps ==
    ASSUME ArchiveInv, NotAdmitted
    PROVE  ArchiveInv'
<1>1. /\ outcome = "none" /\ read < Len(archive) /\ read \in Nat
      /\ read >= MaxEntries \/ ~SafeJoin(Current.name).ok
      /\ Refuse /\ disk' = disk
    BY DEF NotAdmitted, ArchiveInv, ArchiveTypeOK
<1>2. tree # NoTree => ~Fits
    BY <1>1, NoReason, ArchiveAssumption
<1> QED BY <1>1, <1>2, RefusedAtOnce

LEMMA TooLargeKeeps ==
    ASSUME ArchiveInv, TooLarge
    PROVE  ArchiveInv'
<1>1. outcome = "none" /\ read < Len(archive) /\ Current.node.size > left /\ Refuse /\ disk' = disk
    BY DEF TooLarge, Admitted, OverBudget
<1>2. Current.node.size \in Nat /\ left \in Nat
    BY <1>1, CurrentType, KindsOfNode DEF ArchiveInv, ArchiveTypeOK
<1>3. tree # NoTree => ~Fits
    BY <1>1, <1>2, NoReason
<1> QED BY <1>1, <1>3, RefusedAtOnce

LEMMA ParentInTheWayKeeps ==
    ASSUME ArchiveInv, ParentInTheWay
    PROVE  ArchiveInv'
<1>1. /\ outcome = "none" /\ read < Len(archive) /\ ~CanMake(Parents(Target)) /\ Refuse /\ disk' = disk
    BY DEF ParentInTheWay, Admitted
<1>2. tree = NoTree
    BY <1>1, NoReason
<1> QED BY <1>1, <1>2, RefusedAtOnce

\* What holds of a path that a file is to be written to.
LEMMA AtFile ==
    ASSUME ArchiveInv, CanWrite
    PROVE  /\ outcome = "none" /\ read < Len(archive) /\ Admitted({"reg"})
           /\ Current.node \in Nodes /\ Current.node.kind = "reg" /\ Current.node = File(Current.node.size)
           /\ Current.node.size \in Nat /\ left \in Nat /\ Current.node.size <= left
           /\ DiskType(disk) /\ Target \in Strings /\ Parents(Target) \in SUBSET Strings
           /\ Target \notin Parents(Target)
<1>1. /\ outcome = "none" /\ read < Len(archive) /\ Admitted({"reg"}) /\ Current.node.kind = "reg"
      /\ ~(Current.node.size > left)
    BY DEF CanWrite, Admitted, OverBudget
<1>2. ArchiveTypeOK /\ DiskType(disk) /\ left \in Nat
    BY DiskTyped DEF ArchiveInv, ArchiveTypeOK
<1>3. /\ Current.node \in Nodes /\ Target \in Strings /\ Parents(Target) \subseteq Strings
      /\ Target \notin Parents(Target)
    BY <1>1, <1>2, CurrentType
<1>4. Current.node.size \in Nat /\ Current.node = File(Current.node.size)
    BY <1>1, <1>3, KindsOfNode
<1>5. Current.node.size <= left
    BY <1>1, <1>2, <1>4
<1> QED BY <1>1, <1>2, <1>3, <1>4, <1>5

LEMMA TwiceKeeps ==
    ASSUME ArchiveInv, Twice
    PROVE  ArchiveInv'
<1>1. CanWrite /\ Target \in DOMAIN disk /\ Refuse /\ disk' = WithDirs(Parents(Target))
    BY DEF Twice, Exists
<1>2. outcome = "none" /\ read < Len(archive) /\ DiskType(disk) /\ Parents(Target) \in SUBSET Strings
    BY <1>1, AtFile
<1>3. tree = NoTree
    BY <1>1, <1>2, NoReason
<1>4. /\ DiskType(disk)' /\ Extracted' = Extracted /\ Written' = Written
      /\ \A p \in DOMAIN disk : p \in DOMAIN disk' /\ disk'[p] = disk[p]
    BY <1>1, <1>2, DirsAdded
<1> QED BY <1>1, <1>2, <1>3, <1>4, RefusalKeeps

LEMMA MakeDirKeeps ==
    ASSUME ArchiveInv, MakeDir
    PROVE  ArchiveInv'
<1> DEFINE P == Parents(Target) \cup {Target}
<1>1. /\ Admitted({"dir"}) /\ outcome = "none" /\ read < Len(archive) /\ Current.node.kind = "dir"
      /\ ArchiveTypeOK /\ DiskType(disk) /\ left \in Nat
    BY DiskTyped DEF MakeDir, Admitted, ArchiveInv, ArchiveTypeOK
<1>2. /\ Current.node \in Nodes /\ Target \in Strings /\ P \in SUBSET Strings
    BY <1>1, CurrentType
<1>3. Current.node = Dir /\ Current.node.size = 0 /\ Current.node # Link
    BY <1>1, <1>2, KindsOfNode DEF Dir, Link
<1>4. ASSUME tree # NoTree
      PROVE  CanMake(P) /\ P \subseteq DOMAIN disk \cup {Target} /\ Target \notin DOMAIN disk
    <2>1. /\ Target \notin DOMAIN disk /\ CanMake(Parents(Target))
          /\ Parents(Target) \subseteq DOMAIN disk \cup {<<>>}
        BY <1>1, <1>4, NoReason
    <2>2. <<>> \in DOMAIN disk
        BY <1>1 DEF DiskType
    <2>3. CanMake(P)
        BY <2>1 DEF CanMake
    <2> QED BY <2>1, <2>2, <2>3
<1>5. CASE CanMake(P)
    <2>1. /\ disk' = WithDirs(P) /\ read' = read + 1
          /\ tree' = tree /\ archive' = archive /\ left' = left /\ skipped' = skipped /\ outcome' = outcome
        BY <1>5 DEF MakeDir
    <2>2. /\ DiskType(disk)' /\ Extracted' = Extracted /\ Written' = Written
          /\ DOMAIN disk' = DOMAIN disk \cup P
          /\ \A p \in DOMAIN disk : disk'[p] = disk[p]
          /\ \A p \in P \ DOMAIN disk : disk'[p] = Dir
        BY <1>1, <1>2, <2>1, DirsAdded
    <2>3. tree # NoTree => DOMAIN disk' = DOMAIN disk \cup {Target} /\ disk'[Target] = Current.node
        BY <1>3, <1>4, <2>2
    <2>4. /\ left' = left - Current.node.size /\ left' \in Nat /\ outcome' = "none"
          /\ skipped' = IF Current.node = Link THEN skipped + 1 ELSE skipped
        BY <1>1, <1>3, <2>1
    <2>5. \A p \in DOMAIN disk : p \in DOMAIN disk' /\ disk'[p] = disk[p]
        BY <2>2
    <2>6. Current.node.kind # "reg"
        BY <1>1
    <2> QED BY <1>1, <2>1, <2>2, <2>3, <2>4, <2>5, <2>6, AdvanceKeeps
<1>6. CASE ~CanMake(P)
    <2>1. Refuse /\ disk' = disk
        BY <1>6 DEF MakeDir
    <2> QED BY <1>1, <1>4, <1>6, <2>1, RefusedAtOnce
<1> QED BY <1>5, <1>6

LEMMA ExtractKeeps ==
    ASSUME ArchiveInv, Extract
    PROVE  ArchiveInv'
<1> DEFINE n == Current.node.size
<1>1. /\ CanWrite /\ Target \notin DOMAIN disk /\ disk' = WithFile(n) /\ left' = left - n
      /\ read' = read + 1 /\ tree' = tree /\ archive' = archive /\ skipped' = skipped
      /\ outcome' = outcome
    BY DEF Extract, Exists
<1>2. /\ outcome = "none" /\ read < Len(archive) /\ Admitted({"reg"})
      /\ Current.node.kind = "reg" /\ Current.node = File(n) /\ n \in Nat /\ left \in Nat /\ n <= left
      /\ DiskType(disk) /\ Target \in Strings /\ Parents(Target) \in SUBSET Strings
      /\ Target \notin Parents(Target)
    BY <1>1, AtFile
<1>3. /\ DiskType(disk)' /\ DOMAIN disk' = DOMAIN disk \cup Parents(Target) \cup {Target}
      /\ \A p \in DOMAIN disk : disk'[p] = disk[p]
      /\ disk'[Target] = File(n) /\ Extracted' = Extracted \cup {Target}
      /\ Written' = Written \cup ({Target} \X (1 .. n)) /\ Written \cap ({Target} \X (1 .. n)) = {}
    BY <1>1, <1>2, FileAdded
<1>4. IsFiniteSet(Written') /\ Cardinality(Written') = Cardinality(Written) + n
    <2>1. IsFiniteSet(Written)
        BY DEF ArchiveInv, BudgetSoFar
    <2> HIDE DEF n
    <2> QED BY <1>2, <1>3, <2>1, BytesOfOne
<1>5. Current.node # Link
    BY <1>2 DEF Link
<1>6. tree # NoTree => DOMAIN disk' = DOMAIN disk \cup {Target} /\ disk'[Target] = Current.node
    <2>1. <<>> \in DOMAIN disk
        BY <1>2 DEF DiskType
    <2> QED BY <1>2, <1>3, <2>1, NoReason
<1>7. /\ left' = left - Current.node.size /\ left' \in Nat /\ outcome' = "none"
      /\ skipped' = IF Current.node = Link THEN skipped + 1 ELSE skipped
    BY <1>1, <1>2, <1>5
<1>8. \A p \in DOMAIN disk : p \in DOMAIN disk' /\ disk'[p] = disk[p]
    BY <1>3
<1>9. Target \in DOMAIN disk' /\ disk'[Target] = Current.node
    BY <1>2, <1>3
<1> QED BY <1>1, <1>2, <1>3, <1>4, <1>6, <1>7, <1>8, <1>9, AdvanceKeeps

LEMMA StreamBreaksKeeps ==
    ASSUME ArchiveInv, StreamBreaks
    PROVE  ArchiveInv'
<1>1. /\ CanWrite /\ Target \notin DOMAIN disk /\ outcome' = "broken"
      /\ read' = read /\ tree' = tree /\ archive' = archive /\ left' = left /\ skipped' = skipped
    BY DEF StreamBreaks, Exists
<1>2. PICK n \in 0 .. Current.node.size - 1 : disk' = WithFile(n)
    BY DEF StreamBreaks
<1>3. /\ Current.node.size \in Nat /\ left \in Nat /\ Current.node.size <= left
      /\ DiskType(disk) /\ Target \in Strings /\ Parents(Target) \in SUBSET Strings
      /\ Target \notin Parents(Target) /\ outcome = "none"
    BY <1>1, AtFile
<1>4. n \in Nat /\ n <= left
    BY <1>3
<1>5. /\ DiskType(disk)' /\ \A p \in DOMAIN disk : p \in DOMAIN disk' /\ disk'[p] = disk[p]
      /\ Written' = Written \cup ({Target} \X (1 .. n)) /\ Written \cap ({Target} \X (1 .. n)) = {}
    BY <1>1, <1>2, <1>3, <1>4, FileAdded
<1>6. /\ Contents(read)' = Contents(read) /\ LinksAmong(read)' = LinksAmong(read) /\ (Fits' <=> Fits)
    BY <1>1, EntriesStay
<1>7. ArchiveTypeOK'
    BY <1>1, <1>5 DEF ArchiveInv, ArchiveTypeOK, DiskType
<1>8. AcceptedSoFar'
    BY <1>1 DEF ArchiveInv, AcceptedSoFar
<1>9. BudgetSoFar'
    <2>1. /\ IsFiniteSet(Written) /\ Cardinality(Written) + left = MaxBytes
          /\ Cardinality(Contents(read)) + left = MaxBytes
        BY <1>3 DEF ArchiveInv, BudgetSoFar
    <2>2. IsFiniteSet(Written') /\ Cardinality(Written') = Cardinality(Written) + n
        BY <1>4, <1>5, <2>1, BytesOfOne
    <2>3. Cardinality(Written) \in Nat
        BY <2>1, FS_CardinalityType
    <2>4. Cardinality(Written') <= MaxBytes
        BY <1>3, <1>4, <2>1, <2>2, <2>3
    <2> QED BY <1>1, <1>6, <2>1, <2>2, <2>4 DEF BudgetSoFar
<1>10. FaithfulSoFar'
    BY <1>1, <1>5, <1>6 DEF ArchiveInv, FaithfulSoFar
<1>11. ComesBackSoFar'
    BY <1>1, <1>6 DEF ArchiveInv, ComesBackSoFar
<1> QED BY <1>7, <1>8, <1>9, <1>10, <1>11 DEF ArchiveInv

LEMMA SkipKeeps ==
    ASSUME ArchiveInv, Skip
    PROVE  ArchiveInv'
<1>1. /\ Admitted({"link"}) /\ outcome = "none" /\ read < Len(archive) /\ Current.node.kind = "link"
      /\ skipped' = skipped + 1 /\ read' = read + 1 /\ tree' = tree /\ archive' = archive
      /\ disk' = disk /\ left' = left /\ outcome' = outcome
      /\ ArchiveTypeOK /\ DiskType(disk) /\ left \in Nat
    BY DiskTyped DEF Skip, Admitted, ArchiveInv, ArchiveTypeOK
<1>2. Current.node \in Nodes
    BY <1>1, CurrentType
<1>3. Current.node = Link /\ Current.node.size = 0
    BY <1>1, <1>2, KindsOfNode DEF Link
<1>4. tree = NoTree
    BY <1>1, <1>3, NoReason
<1>5. Extracted' = Extracted /\ Written' = Written /\ DiskType(disk)'
    BY <1>1 DEF Extracted, Written, DiskType
<1>6. /\ left' = left - Current.node.size /\ left' \in Nat /\ outcome' = "none"
      /\ skipped' = IF Current.node = Link THEN skipped + 1 ELSE skipped
      /\ Current.node.kind # "reg"
      /\ \A p \in DOMAIN disk : p \in DOMAIN disk' /\ disk'[p] = disk[p]
    BY <1>1, <1>3
<1>7. tree # NoTree => DOMAIN disk' = DOMAIN disk \cup {Target} /\ disk'[Target] = Current.node
    BY <1>4
<1>8. archive' = archive /\ tree' = tree /\ read' = read + 1 /\ Admitted({"link"})
    BY <1>1
<1> QED BY <1>5, <1>6, <1>7, <1>8, AdvanceKeeps

LEMMA ArchiveStands ==
    ASSUME ArchiveInv, UNCHANGED archiveVars
    PROVE  ArchiveInv'
<1>0. /\ tree' = tree /\ archive' = archive /\ read' = read /\ left' = left /\ skipped' = skipped
      /\ disk' = disk /\ outcome' = outcome
    BY DEF archiveVars
<1>1. /\ Contents(read)' = Contents(read) /\ LinksAmong(read)' = LinksAmong(read) /\ (Fits' <=> Fits)
      /\ Extracted' = Extracted /\ Written' = Written
    BY <1>0, EntriesStay DEF Extracted, Written
<1>2. ArchiveTypeOK'
    BY <1>0 DEF ArchiveInv, ArchiveTypeOK
<1>3. AcceptedSoFar'
    BY <1>0 DEF ArchiveInv, AcceptedSoFar
<1>4. BudgetSoFar'
    BY <1>0, <1>1 DEF ArchiveInv, BudgetSoFar
<1>5. FaithfulSoFar'
    BY <1>0, <1>1 DEF ArchiveInv, FaithfulSoFar
<1>6. ComesBackSoFar'
    BY <1>0, <1>1 DEF ArchiveInv, ComesBackSoFar
<1> QED BY <1>2, <1>3, <1>4, <1>5, <1>6 DEF ArchiveInv

(***************************************************************************)
(* The whole of Unpack keeps to the entries it has read: names, budget,    *)
(* disk and, for what Pack made, the directory.                            *)
(***************************************************************************)
THEOREM UnpackInvariant == UnpackSpec => []ArchiveInv
<1>1. UnpackInit => ArchiveInv
    BY ArchiveStarts
<1>2. ArchiveInv /\ [UnpackNext]_archiveVars => ArchiveInv'
    <2> SUFFICES ASSUME ArchiveInv, [UnpackNext]_archiveVars PROVE ArchiveInv'
        OBVIOUS
    <2>1. CASE EndOfArchive
        BY <2>1, EndOfArchiveKeeps
    <2>2. CASE NotAdmitted
        BY <2>2, NotAdmittedKeeps
    <2>3. CASE MakeDir
        BY <2>3, MakeDirKeeps
    <2>4. CASE TooLarge
        BY <2>4, TooLargeKeeps
    <2>5. CASE ParentInTheWay
        BY <2>5, ParentInTheWayKeeps
    <2>6. CASE Twice
        BY <2>6, TwiceKeeps
    <2>7. CASE Extract
        BY <2>7, ExtractKeeps
    <2>8. CASE StreamBreaks
        BY <2>8, StreamBreaksKeeps
    <2>9. CASE Skip
        BY <2>9, SkipKeeps
    <2>10. CASE UNCHANGED archiveVars
        BY <2>10, ArchiveStands
    <2> QED BY <2>1, <2>2, <2>3, <2>4, <2>5, <2>6, <2>7, <2>8, <2>9, <2>10 DEF UnpackNext
<1> QED BY <1>1, <1>2, PTL DEF UnpackSpec

\* No name that Unpack accepted leads out of the destination, and no more bytes
\* than maxBytes nor entries than maxEntries were taken, however Unpack ended.
THEOREM ExtractionIsContained == UnpackSpec => []Contained
<1>1. ArchiveInv => Contained
    <2> SUFFICES ASSUME ArchiveInv PROVE Contained
        OBVIOUS
    <2>1. StaysInside
        <3>1. ASSUME NEW i \in 1 .. read, NEW name, name = archive[i].name
              PROVE  /\ name \notin BadNames
                     /\ \A n \in DOMAIN name : Ups(SubSeq(name, 1, n)) <= Downs(SubSeq(name, 1, n))
            <4>1. i \in 1 .. Len(archive) /\ archive \in Seq(Entries)
                BY DEF ArchiveInv, ArchiveTypeOK
            <4>2. name \in Strings
                <5>1. archive[i] \in Entries
                    BY <4>1
                <5> QED BY <3>1, <5>1 DEF Entries
            <4>3. SafeJoin(name).ok
                BY <3>1 DEF ArchiveInv, AcceptedSoFar
            <4>4. name \notin BadNames /\ (Clean(name) # <<>> => Head(Clean(name)) # "..")
                BY <4>3 DEF SafeJoin
            <4> QED BY <4>2, <4>4, AcceptedNamesStayInside
        <3> QED BY <3>1 DEF StaysInside
    <2>2. Cardinality(Written) <= MaxBytes
        <3>1. IsFiniteSet(Written) /\ left \in Nat /\ MaxBytes \in Nat
              /\ (Cardinality(Written) <= MaxBytes \/ Cardinality(Written) + left = MaxBytes)
            BY ArchiveAssumption DEF ArchiveInv, ArchiveTypeOK, BudgetSoFar
        <3>2. Cardinality(Written) \in Nat
            BY <3>1, FS_CardinalityType
        <3> QED BY <3>1, <3>2
    <2>3. read <= MaxEntries
        BY DEF ArchiveInv, AcceptedSoFar
    <2> QED BY <2>1, <2>2, <2>3 DEF Contained, WithinBudget
<1> QED BY <1>1, UnpackInvariant, PTL

\* When Unpack returns no error, every regular file of the archive is on the disk
\* under its cleaned name with its own size, no other file is, and as many entries
\* were counted as skipped as there were links.
THEOREM AcceptedInFull == UnpackSpec => []OkMeansFaithful
<1>1. ArchiveInv => OkMeansFaithful
    <2> SUFFICES ASSUME ArchiveInv, outcome = "ok"
                 PROVE  /\ \A i \in Regular : disk[Clean(archive[i].name)] = archive[i].node
                        /\ \A p \in Extracted : \E i \in Regular : p = Clean(archive[i].name)
                        /\ skipped = Cardinality({i \in DOMAIN archive : archive[i].node = Link})
        BY DEF OkMeansFaithful
    <2>1. read = Len(archive) /\ DOMAIN archive = 1 .. read
        BY DEF ArchiveInv, AcceptedSoFar, ArchiveTypeOK
    <2>2. \A i \in Regular : disk[Clean(archive[i].name)] = archive[i].node
        BY <2>1 DEF Regular, ArchiveInv, FaithfulSoFar
    <2>3. \A p \in Extracted : \E i \in Regular : p = Clean(archive[i].name)
        BY <2>1 DEF Regular, ArchiveInv, FaithfulSoFar
    <2>4. {i \in DOMAIN archive : archive[i].node = Link} = LinksAmong(read)
        BY <2>1 DEF LinksAmong
    <2>5. skipped = Cardinality(LinksAmong(read))
        BY DEF ArchiveInv, FaithfulSoFar
    <2> QED BY <2>2, <2>3, <2>4, <2>5
<1> QED BY <1>1, UnpackInvariant, PTL

\* Whatever directory is packed, with any number of nodes: if it is within the
\* budget and none of its names has a backslash, Unpack does not refuse it and
\* what it makes of the archive is the directory without its links.
THEOREM PackedComesBack == UnpackSpec => []RoundTrip
<1>1. ArchiveInv => RoundTrip
    <2> SUFFICES ASSUME ArchiveInv, tree # NoTree, Fits, outcome = "ok"
                 PROVE  disk = [p \in {<<>>} \cup {q \in DOMAIN tree : tree[q] # Link} |->
                                  IF p = <<>> THEN Dir ELSE tree[p]]
        BY DEF RoundTrip, ArchiveInv, ComesBackSoFar
    <2>1. /\ ArchiveTypeOK /\ ComesBackSoFar /\ read = Len(archive) /\ tree \in Trees
          /\ archive = Pack(tree)
          /\ DOMAIN disk = {<<>>} \cup {archive[i].name : i \in 1 .. read}
          /\ \A i \in 1 .. read : disk[archive[i].name] = archive[i].node
          /\ disk[<<>>] = Dir /\ disk \in [DOMAIN disk -> DiskNodes]
        BY DEF ArchiveInv, AcceptedSoFar, ComesBackSoFar, ArchiveTypeOK
    <2>2. \A i \in 1 .. read : /\ archive[i].name \in DOMAIN tree /\ tree[archive[i].name] # Link
                               /\ archive[i].node = tree[archive[i].name]
        BY <2>1, PackIsExact DEF IsPacked
    <2>3. \A p \in DOMAIN tree : tree[p] # Link => \E i \in 1 .. read : archive[i].name = p
        BY <2>1, PackIsExact
    <2>4. DOMAIN disk = {<<>>} \cup {q \in DOMAIN tree : tree[q] # Link}
        BY <2>1, <2>2, <2>3
    <2>5. \A p \in DOMAIN disk : disk[p] = IF p = <<>> THEN Dir ELSE tree[p]
        BY <2>1, <2>2
    <2> QED BY <2>1, <2>4, <2>5
<1> QED BY <1>1, UnpackInvariant, PTL
=============================================================================
