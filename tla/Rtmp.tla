-------------------------------- MODULE Rtmp -------------------------------
(***************************************************************************)
(* Two ends of RTMP (pkg/rtmp): the client that plays from a server or       *)
(* publishes to it, and the server, both of this program.  They shake hands, *)
(* say how long their packets are, exchange the commands, and then one of    *)
(* them writes FLV tags that the other one reads as FLV again.  A message    *)
(* longer than a packet goes in several, and whoever reads with another      *)
(* length than was written loses the place in the stream for good.           *)
(***************************************************************************)
EXTENDS Integers, SequencesExt

CONSTANTS FirstSize,   \* rdPacketSize before the other end has said its own (128)
          PacketSize,  \* wrPacketSize (4096)
          TimeLimit,   \* 2^24: times are written with 24 bits
          Shows,       \* what may be streamed: tags [type, time, size], the first "init" of
                       \* which GetInit makes (metadata and configuration)
          ReadSizes    \* bound: how much the FLV reader asks for at once

VARIABLES kind,        \* what the client wants: "play" or "publish"
          show,        \* what is streamed
          up, down,    \* the connection: pieces from the client and to it
          open,        \* both ends can still write
          client, server,
          sent,        \* messages written: the first and the last tag in each
          rdBuf, flv,  \* rdBuf of the reader, and what its FLV reader has not taken yet
          got          \* tags read

vars == <<kind, show, up, down, open, client, server, sent, rdBuf, flv, got>>

\* "rd" is rdPacketSize, "step" the client's place in the commands.
Init ==
    /\ kind \in {"play", "publish"} /\ show \in Shows
    /\ up = <<>> /\ down = <<>> /\ open = TRUE
    /\ client = [at |-> "c0", rd |-> FirstSize, step |-> 1]
    /\ server = [at |-> "c0", rd |-> FirstSize, intent |-> "", listed |-> FALSE]
    /\ sent = <<>> /\ rdBuf = << <<"FLV">> >> /\ flv = <<>> /\ got = <<>>

media == <<sent, rdBuf, flv, got>>
-----------------------------------------------------------------------------
Header(type, time, size) == [type |-> type, time |-> time, size |-> size]
IsHeader(p) == p[1] = "header"

\* writeMessage: one full header, and a byte that says "the same again" before every further
\* packet.  The time loses what is above 24 bits.
Chunked(type, time, data) ==
    << <<"header", Header(type, time % TimeLimit, Len(data))>> >> \o
    FlattenSeq([i \in DOMAIN data |-> IF i > 1 /\ (i - 1) % PacketSize = 0 THEN << <<"type3">>, data[i] >>
                                                                           ELSE << data[i] >>])

\* Commands come whole in one or two units; the second one names the command.
Command(name, id) == Chunked("command", 0, << <<"amf", name>>, <<name, id>> >>)
SetPacketSize == Chunked("size", 0, << <<"size", PacketSize>> >>)
Tag(t) == show.tags[t]
Payload(t) == [i \in 1..Tag(t).size |-> <<"tag", t>>]

\* What Conn.Write makes of several tags in one piece: the payload of the first, and then the
\* size, header and payload of every other one.
Joined(m) ==
    Payload(m[1]) \o FlattenSeq([k \in 1..(m[2] - m[1]) |-> << <<"tag header", m[1] + k>> >> \o Payload(m[1] + k)])

\* readMessage: the loop skips a byte for every further packet, and "hopefully" it is its
\* header.
ExtraPieces(size, rd) == IF size = 0 THEN 0 ELSE (size - 1) \div rd

\* A time of 24 bits that are all set announces another field, which our writer never writes.
Extended(h) == IF h.time = TimeLimit - 1 THEN 1 ELSE 0

\* What the next message takes from the stream, if all of it is there.
Needs(s, rd) ==
    LET h == s[1][2] IN 1 + Extended(h) + h.size + ExtraPieces(h.size, rd) * (1 + Extended(h))
Garbled(s) == s # <<>> /\ ~IsHeader(s[1])
HasMessage(s, rd) == s # <<>> /\ IsHeader(s[1]) /\ Len(s) >= Needs(s, rd)
Message(s, rd) ==
    LET h == s[1][2]
        e == Extended(h)
    IN  [type |-> h.type, time |-> IF e = 1 THEN TimeLimit ELSE h.time,
         data |-> [i \in 1..h.size |-> s[1 + e + i + ((i - 1) \div rd) * (1 + e)]],
         rest |-> SubSeq(s, Needs(s, rd) + 1, Len(s))]

\* A read ends with an error when nothing more can come, or by losing its place.
ReadFails(s, rd) == Garbled(s) \/ (~open /\ ~HasMessage(s, rd))
-----------------------------------------------------------------------------
\* clienHandshake and serverHandshake.  Only the server's has a deadline.
ClientHello ==
    /\ client.at = "c0" /\ open
    /\ up' = up \o << <<"C0">>, <<"C1">> >> /\ client' = [client EXCEPT !.at = "s1"]
    /\ UNCHANGED <<kind, show, down, open, server, media>>

ClientEcho ==
    /\ client.at = "s1" /\ Len(down) >= 2 /\ open
    /\ down' = SubSeq(down, 3, Len(down)) /\ up' = Append(up, <<"C2">>)
    /\ client' = [client EXCEPT !.at = "s2"]
    /\ UNCHANGED <<kind, show, open, server, media>>

\* The last of the handshake, and writePacketSize.
ClientReady ==
    /\ client.at = "s2" /\ down # <<>> /\ open
    /\ down' = Tail(down) /\ up' = up \o SetPacketSize
    /\ client' = [client EXCEPT !.at = "say"]
    /\ UNCHANGED <<kind, show, open, server, media>>

ServerAnswers(at, next, said) ==
    /\ server.at = at /\ up # <<>> /\ open
    /\ up' = Tail(up) /\ down' = down \o said
    /\ server' = [server EXCEPT !.at = next]
    /\ UNCHANGED <<kind, show, open, client, media>>

\* NewServer: S0 and S1 after C0, S2 after C1, the packet size after C2.
ServerHandshake ==
    \/ ServerAnswers("c0", "c1", << <<"S0">>, <<"S1">> >>)
    \/ ServerAnswers("c1", "c2", << <<"S2">> >>)
    \/ ServerAnswers("c2", "commands", SetPacketSize)

\* tcpHandle returns the error and leaves the connection open.
ServerTimeout ==
    /\ server.at \in {"c0", "c1", "c2"} /\ server' = [server EXCEPT !.at = "failed"]
    /\ UNCHANGED <<kind, show, up, down, open, client, media>>
-----------------------------------------------------------------------------
Say(name, id) == [do |-> "say", name |-> name, id |-> id]
Await(name, id) == [do |-> "await", name |-> name, id |-> id]

\* play and publish of the client.
Steps ==
    << Say("connect", 1), Await("_result", 1) >> \o
    (IF kind = "publish" THEN << Say("releaseStream", 2), Say("FCPublish", 3) >> ELSE <<>>) \o
    << Say("createStream", 4), Await("_result", 4), Say(kind, 5), Await("onStatus", 0) >>

\* The step after "step", which says or waits, or the dial is done.
Advance(step) ==
    IF step = Len(Steps) THEN [client EXCEPT !.at = "ok"]
    ELSE [client EXCEPT !.step = step + 1, !.at = Steps[step + 1].do]

ClientSays ==
    /\ client.at = "say" /\ open
    /\ up' = up \o Command(Steps[client.step].name, Steps[client.step].id)
    /\ client' = Advance(client.step)
    /\ UNCHANGED <<kind, show, down, open, server, media>>

\* Mutant: any result is the one awaited.
AwaitedAny(m) == m.data[2][1] = Steps[client.step].name

\* The results carry the number of their command; the status does not, "Reolink response with
\* ID=0, other software respose with ID=5".
Awaited(m) == m.data[2] = <<Steps[client.step].name, Steps[client.step].id>>

\* writeCreateStream wants the number of the stream in the result.
RightAnswer(m) == Steps[client.step].id = 4 => m.data[2][2] = 4

\* readResponse: packet sizes are taken, other commands passed over.
ReadResponse ==
    /\ client.at = "await" /\ HasMessage(down, client.rd)
    /\ LET m == Message(down, client.rd)
       IN  /\ down' = m.rest
           /\ client' = CASE m.type = "size" -> [client EXCEPT !.rd = m.data[1][2]]
                          [] m.type = "command" /\ Awaited(m) /\ RightAnswer(m) -> Advance(client.step)
                          [] m.type = "command" /\ Awaited(m) -> [client EXCEPT !.at = "failed"]
                          [] OTHER -> client
    /\ UNCHANGED <<kind, show, up, open, server, media>>

\* writePlay and writePublish return nil for an error of their last read.
ReadResponseFails ==
    /\ client.at = "await" /\ ReadFails(down, client.rd)
    /\ client' = [client EXCEPT !.at = IF client.step = Len(Steps) THEN "ok" ELSE "failed"]
    /\ UNCHANGED <<kind, show, up, down, open, server, media>>

\* A write on a connection that is gone, and a read in the handshake.
ClientFails ==
    /\ ~open /\ client.at \in {"c0", "s1", "s2", "say"} /\ client' = [client EXCEPT !.at = "failed"]
    /\ UNCHANGED <<kind, show, up, down, open, server, media>>

\* acceptCommand: what is answered at once.
Reply(name, id) ==
    IF name \in {"connect", "releaseStream", "createStream"} THEN Command("_result", id) ELSE <<>>

\* Mutant: the commands are read with the length of the start.
TakesSizeNever(m) == server.rd

TakesSize(m) == IF m.type = "size" THEN m.data[1][2] ELSE server.rd

ReadCommands ==
    /\ server.at = "commands" /\ HasMessage(up, server.rd)
    /\ LET m == Message(up, server.rd)
           name == IF m.type = "command" THEN m.data[2][1] ELSE ""
           said == IF m.type = "command" THEN Reply(name, m.data[2][2]) ELSE <<>>
           intent == IF name \in {"play", "publish"} THEN name ELSE ""
       IN  /\ up' = m.rest /\ (open \/ said = <<>>)
           /\ down' = down \o said
           /\ server' = [server EXCEPT !.rd = TakesSize(m), !.intent = intent,
                                       !.at = IF intent = "" THEN "commands" ELSE "found"]
    /\ UNCHANGED <<kind, show, open, client, media>>

ServerFails ==
    /\ \/ server.at \in {"c0", "c1", "c2", "found"} /\ ~open
       \/ server.at = "commands" /\ (~open \/ Garbled(up))
    /\ server' = [server EXCEPT !.at = "failed"]
    /\ UNCHANGED <<kind, show, up, down, open, client, media>>

\* tcpHandle: a stream that is not there, or that the viewer cannot be added to, is an
\* error; otherwise the viewer is added before the status is written, and a publisher after
\* its tags were looked at.
Refuse ==
    /\ server.at = "found" /\ server' = [server EXCEPT !.at = "failed"]
    /\ UNCHANGED <<kind, show, up, down, open, client, media>>

WriteStart ==
    /\ server.at = "found" /\ open
    /\ down' = down \o Command("onStatus", 0)
    /\ server' = [server EXCEPT !.at = "media", !.listed = server.intent = "play"]
    /\ UNCHANGED <<kind, show, up, open, client, media>>

AddProducer ==
    /\ server.at = "media" /\ server.intent = "publish" /\ ~server.listed /\ got # <<>>
    /\ server' = [server EXCEPT !.listed = TRUE]
    /\ UNCHANGED <<kind, show, up, down, open, client, media>>
-----------------------------------------------------------------------------
\* Consumer.WriteTo: what GetInit made begins with the FLV header and is written tag by tag.
\* Then WriteBuffer.Reset flushes the tags it holds since AddConsumer in one piece, which
\* becomes one message; whatever comes later has one tag.
WrittenTags == IF sent = <<>> THEN 0 ELSE Last(sent)[2]
Flushed == {<<WrittenTags + 1, t>> : t \in WrittenTags + 1..Len(show.tags)}
Writes ==
    IF sent = <<>> THEN {[t \in 1..show.init |-> <<t, t>>]}
    ELSE {<<m>> : m \in {f \in Flushed : Len(sent) = show.init \/ f[1] = f[2]}}
WriteTags(ms) == FlattenSeq([i \in DOMAIN ms |-> Chunked(Tag(ms[i][1]).type, Tag(ms[i][1]).time, Joined(ms[i]))])

Write ==
    /\ open /\ \E ms \in Writes :
       /\ sent' = sent \o ms
       /\ \/ /\ kind = "play" /\ server.at = "media" /\ down' = down \o WriteTags(ms) /\ up' = up
          \/ /\ kind = "publish" /\ client.at = "ok" /\ up' = up \o WriteTags(ms) /\ down' = down
    /\ UNCHANGED <<kind, show, open, client, server, rdBuf, flv, got>>

Reading == IF kind = "play" THEN client.at = "ok" ELSE server.at = "media"
From == IF kind = "play" THEN down ELSE up
Rd == IF kind = "play" THEN client.rd ELSE server.rd
TakeFrom(rest) == IF kind = "play" THEN down' = rest /\ up' = up ELSE up' = rest /\ down' = down

\* encodeFLV: time's upper bits included.
EncodeFLV(m) == << <<"header", Header(m.type, m.time, Len(m.data))>> >> \o m.data

Leftover(b, n) == SubSeq(b, n + 1, Len(b))

\* Read: a message that fits is given at once, what does not is kept in rdBuf.
Read(n) ==
    /\ Reading
    /\ \E b \in IF rdBuf # <<>> THEN {rdBuf}
                ELSE IF HasMessage(From, Rd) THEN {EncodeFLV(Message(From, Rd))} ELSE {} :
       /\ flv' = flv \o SubSeq(b, 1, IF n < Len(b) THEN n ELSE Len(b))
       /\ rdBuf' = Leftover(b, n)
    /\ IF rdBuf # <<>> THEN UNCHANGED <<up, down>> ELSE TakeFrom(Message(From, Rd).rest)
    /\ UNCHANGED <<kind, show, open, client, server, sent, got>>

\* flv: readHeader, and readPacket once a tag is whole.
ReadPacket ==
    /\ flv # <<>>
    /\ \/ /\ flv[1][1] = "FLV" /\ flv' = Tail(flv) /\ got' = got
       \/ /\ IsHeader(flv[1]) /\ Len(flv) > flv[1][2].size
          /\ got' = Append(got, [type |-> flv[1][2].type, time |-> flv[1][2].time,
                                 data |-> SubSeq(flv, 2, 1 + flv[1][2].size)])
          /\ flv' = SubSeq(flv, 2 + flv[1][2].size, Len(flv))
    /\ UNCHANGED <<kind, show, up, down, open, client, server, sent, rdBuf>>

\* The reader goroutine of a publisher reads what the server says, sizes included, and
\* throws it away.
Discard ==
    /\ kind = "publish" /\ client.at = "ok" /\ HasMessage(down, client.rd)
    /\ down' = Message(down, client.rd).rest
    /\ UNCHANGED <<kind, show, up, open, client, server, media>>

\* Start of a publisher, or WriteTo of a viewer, ends, and what was added is removed.
ServerEnds ==
    /\ server.at = "media"
    /\ \/ kind = "publish" /\ rdBuf = <<>> /\ ReadFails(up, server.rd)
       \/ kind = "play" /\ ~open
    /\ server' = [server EXCEPT !.at = "done", !.listed = FALSE]
    /\ UNCHANGED <<kind, show, up, down, open, client, media>>

\* The connection is cut; what arrived can still be read.
Cut ==
    /\ open /\ open' = FALSE
    /\ UNCHANGED <<kind, show, up, down, client, server, media>>

Next ==
    \/ ClientHello \/ ClientEcho \/ ClientReady \/ ServerHandshake \/ ServerTimeout
    \/ ClientSays \/ ReadResponse \/ ReadResponseFails \/ ClientFails
    \/ ReadCommands \/ ServerFails \/ Refuse \/ WriteStart \/ AddProducer
    \/ Write \/ Discard \/ ReadPacket \/ ServerEnds \/ Cut
    \/ \E n \in ReadSizes : Read(n)

Spec == Init /\ [][Next]_vars
-----------------------------------------------------------------------------
\* No message written so far has the one time that reads as "extended".
NoMarker == \A i \in DOMAIN sent : Tag(sent[i][1]).time % TimeLimit # TimeLimit - 1

\* What is read is what was written, each message whole and once, in order, its time modulo
\* 2^24; and neither end loses its place in the stream, in the commands or after them.  A
\* message is one tag, except that the tags which were buffered before WriteTo arrive as one,
\* in the payload of the first of them.
TagsArrive ==
    NoMarker =>
        /\ Len(got) <= Len(sent)
        /\ \A i \in DOMAIN got :
               LET first == Tag(sent[i][1])
               IN  got[i] = [type |-> first.type, time |-> first.time % TimeLimit, data |-> Joined(sent[i])]
        /\ client.at \in {"say", "await", "ok"} => ~Garbled(down)
        /\ server.at \in {"commands", "media"} => ~Garbled(up)

\* A client whose dial succeeded on a connection that still stands was heard by the server,
\* and one whose dial failed lost its connection.
DialIsHeard ==
    /\ client.at = "ok" /\ open => server.intent = kind
    /\ client.at = "failed" => ~open

\* Both ends never wait for each other; only for a server that gave up, which leaves the
\* connection open, a client waits for ever.
ClientWaits ==
    \/ client.at = "s1" /\ Len(down) < 2
    \/ client.at = "s2" /\ down = <<>>
    \/ client.at = "await" /\ ~HasMessage(down, client.rd) /\ ~ReadFails(down, client.rd)
ServerWaits ==
    \/ server.at \in {"c0", "c1", "c2"} /\ up = <<>>
    \/ server.at = "commands" /\ ~HasMessage(up, server.rd) /\ ~ReadFails(up, server.rd)
NobodyWaits == open => ~(ClientWaits /\ ServerWaits)

\* Only while its connection is served does a viewer or publisher stay on the stream.
NobodyIsLeft == server.listed => server.at = "media"

Promise ==
    /\ [](TagsArrive /\ DialIsHeard)
    /\ [](NobodyWaits /\ NobodyIsLeft)
=============================================================================
