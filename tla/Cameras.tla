------------------------------- MODULE Cameras -------------------------------
(***************************************************************************)
(* Sources that are a session with one camera: the clients of pkg/tapo, kasa, *)
(* dvrip, bubble, xiaomi/miss, xiaomi/legacy, wyze, ivideon, eseecloud,       *)
(* multitrans, isapi and doorbird, and those that read a stream over HTTP,    *)
(* TCP, a pipe or RTMP: MPEG-TS, FLV, a bitstream, ADTS, WAV, Y4M and parts   *)
(* with JPEG.  A dial connects, asks its questions and                        *)
(* most often probes: it reads the first packets to learn the codecs, and     *)
(* what it has read is read again by Start (core.ReadBuffer) or lost.  Then   *)
(* one goroutine reads packets, and a viewer may talk to the camera.  Packets *)
(* of most have to be cut out of a stream of units.                           *)
(***************************************************************************)
EXTENDS Integers, Sequences, SequencesExt

CONSTANTS MaxPackets,      \* bound: packets the camera sends
          ProbeSize,       \* units: core.ProbeSize
          PeekSize,        \* units: what a probe peeks at
          QueueSize,       \* the channel of ivideon
          MaxSaid,         \* bound: frames that are said to the camera
          Block,           \* units: a packet of sound that dvrip and xiaomi send
          MaxTries         \* bound: talk tracks that are asked for

VARIABLES kind, wanted, talks,  \* the client; its probe waits for audio; it is used to talk
          packets,              \* what the camera sends: "key", "frame" or "audio"
          i, result,            \* the next step of the dial, and its result
          conn, pos,            \* the connection, and the units it has delivered
          kept,                 \* core.ReadBuffer: [mode, buf, pos]
          buf,                  \* units read and not yet cut (client.buf, bufio.Reader)
          head, late, seen,     \* probe: at the loop's head; its timeouts; what it found
          skipped, misread,     \* packets that only the probe or a request saw; one was cut wrongly
          reader, got, queue,   \* Start, what it delivered, and ivideon's channel
          session1, conn2, op,  \* tapo: the stream has an ID, the other connection, a request
          asked, tracked,       \* tapo: the stream was asked for, and a track handed out
          leaked,               \* history: tapo has forgotten an open connection
          talk, tried,          \* the talk track; how often it was asked for
          said, held, spoken,   \* units said, held back, and packets sent
          stopped

camera == <<kind, wanted, talks, packets>>
dial == <<i, result>>
io == <<pos, kept, buf>>
probing == <<head, late, seen, skipped>>
reading == <<reader, got, queue>>
tapo == <<session1, conn2, op, asked, tracked, leaked>>
talking == <<talk, tried, said, held, spoken>>
vars == <<camera, dial, conn, io, probing, misread, reading, tapo, talking, stopped>>

\* A client: the steps of its dial ("ask" waits for an answer, "try" ignores how it
\* ended), the units of a packet, whether a failed dial closes its connection, what is
\* limited in time ("dial", and "read": every read of Start), and whether it talks.
Plain == [dial |-> <<"connect">>, units |-> 1, closing |-> FALSE, limits |-> {}, talks |-> "no"]
Http == <<"connect", "ask">>
Streamed == [Plain EXCEPT !.dial = Http \o <<"probe">>, !.units = 2]
Talker == [Plain EXCEPT !.talks = "only"]
TapoConn == <<"connect", "ask", "ask">>
Tapo == [Plain EXCEPT !.dial = TapoConn, !.talks = "also"]
Kasa == [Plain EXCEPT !.dial = <<"connect", "ask", "probe">>, !.units = 2]
DvripConn == <<"connect">>
DvripLogin == <<"ask">>
DvripPlay == <<"ask", "send">>
Dvrip == [Plain EXCEPT !.dial = DvripConn \o DvripLogin \o DvripPlay \o <<"probe">>, !.units = 2,
                       !.limits = {"dial", "read"}]
DvripTalk == [Talker EXCEPT !.dial = DvripConn \o DvripLogin, !.limits = {"dial"}]
BubbleDial == <<"connect", "ask", "ask", "ask">>
Bubble == [Plain EXCEPT !.dial = BubbleDial, !.limits = {"dial", "read"}]
MissLogin == <<"ask">>
MissMedia == <<"send">>
Miss == [Plain EXCEPT !.dial = <<"connect">> \o MissLogin \o MissMedia \o <<"probe">>, !.closing = TRUE,
                      !.limits = {"read"}, !.talks = "also"]
XiaofangLogin == <<"ask", "ask">>
LegacyMedia == <<"send">>
LegacyXiaomi == [Plain EXCEPT !.dial = <<"connect">> \o XiaofangLogin \o LegacyMedia \o <<"probe">>,
                        !.closing = TRUE, !.limits = {"read"}]
WyzeConn == <<"connect">>
WyzeLogin == <<"ask">>
KAuth == <<"ask", "ask">>
Resolution == <<"try">>
Wyze == [Plain EXCEPT !.dial = WyzeConn \o WyzeLogin \o KAuth \o Resolution \o <<"probe">>, !.closing = TRUE,
                      !.limits = {"dial", "read"}, !.talks = "also"]
LiveStream == <<"api">>
Ivideon == [Plain EXCEPT !.dial = LiveStream \o <<"connect", "probe">>, !.closing = TRUE]
Eseecloud == [Plain EXCEPT !.dial = <<"connect", "ask", "probe">>, !.units = 2]
Handshake == <<"ask", "ask">>
TalkChannel == <<"ask">>
Multitrans == [Talker EXCEPT !.dial = <<"connect">> \o Handshake \o TalkChannel, !.closing = TRUE]
Isapi == [Talker EXCEPT !.dial = <<"api">>]
Doorbird == [Talker EXCEPT !.dial = <<"connect", "send">>]
RtmpConnect == <<"ask">>
RtmpCreateStream == <<"ask">>
RtmpPlay == <<"ask">>
Rtmp == [Streamed EXCEPT !.dial = Http \o RtmpConnect \o RtmpCreateStream \o RtmpPlay \o <<"probe">>]
Parts == [Streamed EXCEPT !.dial = Http]
Kinds == {"tapo", "kasa", "dvrip", "dvripTalk", "bubble", "miss", "legacy", "wyze", "ivideon", "eseecloud",
          "multitrans", "isapi", "doorbird", "mpegts", "flv", "rtmp", "bitstream", "adts", "wav", "y4m", "mpjpeg"}
Client == [k \in Kinds |->
    CASE k = "tapo" -> Tapo   [] k = "kasa" -> Kasa   [] k = "dvrip" -> Dvrip   [] k = "dvripTalk" -> DvripTalk
      [] k = "bubble" -> Bubble   [] k = "miss" -> Miss   [] k = "legacy" -> LegacyXiaomi   [] k = "wyze" -> Wyze
      [] k = "ivideon" -> Ivideon   [] k = "eseecloud" -> Eseecloud   [] k = "multitrans" -> Multitrans
      [] k = "isapi" -> Isapi   [] k = "doorbird" -> Doorbird   [] k = "rtmp" -> Rtmp   [] k = "mpjpeg" -> Parts
      [] OTHER -> Streamed]
Steps == Client[kind].dial
At(s) == result = "dialing" /\ Steps[i] = s
Closing == Client[kind].closing
TimedDial == "dial" \in Client[kind].limits
TimedRead == "read" \in Client[kind].limits
OnlyTalks == Client[kind].talks = "only"
Blocks == {"dvripTalk", "miss"}
\* Streams of one medium; those that begin with a header; whose probe only peeks; that
\* end a packet where the next one begins; and whose probe is undone by the end of it.
Single == {"bitstream", "adts", "wav", "y4m", "mpjpeg"}
Headed == {"eseecloud", "wav", "y4m"}
Peeking == {"eseecloud", "bitstream", "adts", "wav", "y4m"}
Delimited == kind = "bitstream"
Replayed == {"dvrip", "kasa", "mpegts", "flv", "rtmp"}

Medium(p) == IF packets[p] = "audio" THEN "audio" ELSE "video"
\* The units on the wire: packet and place in it; eseecloud begins with a header.
Units == Client[kind].units
Packet(p) == [u \in 1..Units |-> <<p, u>>]
Wire == (IF kind \in Headed THEN Packet(0) ELSE <<>>) \o FlattenSeq([p \in DOMAIN packets |-> Packet(p)])

InitOf(kinds) ==
    /\ kind \in kinds
    /\ wanted \in IF kind \in {"miss", "wyze", "flv"} THEN BOOLEAN ELSE {FALSE}
    /\ talks \in IF OnlyTalks THEN {TRUE} ELSE {FALSE, Client[kind].talks = "also"}
    /\ packets \in IF OnlyTalks THEN {<<>>}
                   ELSE IF talks \/ kind = "tapo" THEN {<<>>, <<"key", "audio">>}
                   ELSE LET media == IF kind \in Single THEN {"key"} ELSE {"key", "frame", "audio"}
                        IN  UNION {[1..n -> media] : n \in 0..MaxPackets}
    /\ i = 0 /\ result = "new" /\ conn = "none" /\ pos = 0
    /\ kept = [mode |-> "off", buf |-> <<>>, pos |-> 0] /\ buf = <<>>
    /\ head = FALSE /\ late = 0 /\ seen = {} /\ skipped = {} /\ misread = FALSE
    /\ reader = "off" /\ got = <<>> /\ queue = <<>>
    /\ session1 = FALSE /\ conn2 = "none" /\ op = "idle"
    /\ asked = FALSE /\ tracked = FALSE /\ leaked = FALSE
    /\ talk = "off" /\ tried = 0 /\ said = 0 /\ held = 0 /\ spoken = <<>> /\ stopped = FALSE
Init == InitOf(Kinds)
-----------------------------------------------------------------------------
\* The dial.

Dial ==
    /\ result = "new" /\ result' = "dialing" /\ i' = 1
    /\ UNCHANGED <<camera, conn, io, probing, misread, reading, tapo, talking, stopped>>

\* Mutant: the connection of a failed dial stays open.
FailedKeeps == result' = "error" /\ UNCHANGED <<i, conn>>

\* A dial fails.
Failed ==
    /\ result' = "error" /\ UNCHANGED i
    /\ conn' = IF Closing /\ conn # "none" THEN "closed" ELSE conn

\* A step comes off; the probe of dvrip, kasa and eseecloud records what is read.
Step ==
    /\ result = "dialing" /\ ~At("probe")
    /\ At("connect") \/ At("api") \/ conn = "open" \/ At("try")
    /\ conn' = IF At("connect") THEN "open" ELSE conn
    /\ LET next == IF i < Len(Steps) THEN Steps[i + 1] ELSE "none"
       IN  /\ i' = (IF next = "none" THEN i ELSE i + 1)
           /\ result' = (IF next = "none" THEN "ok" ELSE result)
           /\ head' = (next = "probe")
           /\ kept' = IF next = "probe" /\ Units = 2 THEN [kept EXCEPT !.mode = "probe"] ELSE kept
    /\ UNCHANGED <<camera, pos, buf, late, seen, skipped, misread, reading, tapo, talking, stopped>>

\* A step is refused, or the connection is lost or silent for too long.
StepFails ==
    /\ result = "dialing" /\ ~At("probe") /\ ~At("try") /\ Failed
    /\ UNCHANGED <<camera, io, probing, misread, reading, tapo, talking, stopped>>
-----------------------------------------------------------------------------
\* Reading.

\* core.ReadBuffer.Read: at most n units; [data, kept, pos, ok].
FromConn(n, k) == [data |-> SubSeq(Wire, pos + 1, pos + n), kept |-> k, pos |-> pos + n, ok |-> TRUE]
BufferRead(n) ==
    IF kept.mode = "off" THEN FromConn(n, kept)
    ELSE IF kept.pos < Len(kept.buf)
    THEN LET to == IF kept.pos + n < Len(kept.buf) THEN kept.pos + n ELSE Len(kept.buf)
         IN  [data |-> SubSeq(kept.buf, kept.pos + 1, to), kept |-> [kept EXCEPT !.pos = to],
              pos |-> pos, ok |-> TRUE]
    ELSE IF kept.mode = "drain" THEN FromConn(n, [mode |-> "off", buf |-> <<>>, pos |-> 0])
    ELSE LET r == FromConn(n, kept)
         IN  [r EXCEPT !.kept.buf = @ \o r.data, !.kept.pos = @ + n,
                       !.ok = Len(kept.buf) + n <= ProbeSize]

Buffered == kept.mode # "off" /\ kept.pos < Len(kept.buf)
Active == reader = "on" \/ (At("probe") /\ ~head)

\* One read: a chunk, or what TCP has (Bufio); the others ask for what they need, and a
\* probe that peeks for PeekSize units, which stay in the buffer.
Whole == Len(buf) >= Units + (IF Delimited THEN 1 ELSE 0)
Bufio == kind \in {"kasa", "dvrip", "bitstream", "mpjpeg"} /\ ~(kind \in Peeking /\ At("probe"))
Peeks == kind \in Peeking /\ At("probe")
Read(n) ==
    /\ Active /\ ~Whole /\ (kind = "tapo" => asked)
    /\ ~OnlyTalks
    /\ Buffered \/ (conn = "open" /\ pos + n <= Len(Wire))
    /\ ~Bufio => n <= IF Peeks THEN PeekSize - Len(kept.buf) ELSE Units - Len(buf)
    /\ LET r == BufferRead(n)
       IN  /\ pos' = r.pos /\ kept' = r.kept
           /\ IF ~r.ok THEN Failed /\ UNCHANGED buf
              ELSE buf' = (IF Peeks THEN buf ELSE buf \o r.data) /\ UNCHANGED <<dial, conn>>
    /\ UNCHANGED <<camera, probing, misread, reading, tapo, talking, stopped>>

\* The connection is closed or broken, or the read took too long.
ReadFails ==
    /\ Active /\ ~Whole /\ ~Buffered /\ ~OnlyTalks
    /\ \/ conn # "open"
       \/ reader = "on" /\ TimedRead
       \/ At("probe") /\ kind \in {"dvrip", "miss", "legacy", "wyze"}
    /\ IF reader = "on" THEN reader' = "ended" /\ UNCHANGED <<dial, conn>>
       ELSE Failed /\ UNCHANGED reader
    /\ UNCHANGED <<camera, io, probing, misread, got, queue, tapo, talking, stopped>>

Next1 == buf[1][1]
Aligned == SubSeq(buf, 1, Units) = Packet(Next1)
Cut == buf' = SubSeq(buf, Units + 1, Len(buf))
Misread ==
    /\ misread' = TRUE /\ UNCHANGED buf
    /\ IF reader = "on" THEN reader' = "ended" /\ UNCHANGED <<dial, conn>>
       ELSE Failed /\ UNCHANGED reader
-----------------------------------------------------------------------------
\* The probes.

\* dvrip takes its video codec from a keyframe, kasa from any part, xiaomi and wyze
\* from a frame that begins with parameter sets.
Tells(p) == packets[p] # "frame" \/ kind \in {"kasa", "mpegts"}
Both == {"video", "audio"} \subseteq seen
Announced == {Medium(p) : p \in DOMAIN packets}
KasaProbed == Both \/ late > 0
DvripProbed == (late = 0 /\ Both) \/ (late = 1 /\ seen # {})
LegacyProbed == Both
MissProbed == "video" \in seen /\ (wanted => "audio" \in seen)
WyzeProbed == MissProbed
MpegtsProbed == late > 0 \/ (seen # {} /\ Announced \subseteq seen)
FlvProbed == late > 0 \/ IF wanted THEN Both ELSE seen # {} /\ Announced \subseteq seen
ProbeDone ==
    \/ kind = "kasa" /\ KasaProbed
    \/ kind = "dvrip" /\ DvripProbed
    \/ kind = "legacy" /\ LegacyProbed
    \/ kind = "miss" /\ MissProbed
    \/ kind = "wyze" /\ WyzeProbed
    \/ kind = "mpegts" /\ MpegtsProbed
    \/ kind \in {"flv", "rtmp"} /\ FlvProbed

\* Mutant: what was read of the next packet stays.
FinishKeepsBuf ==
    /\ result' = "ok" /\ UNCHANGED buf
    /\ kept' = IF kind \in Replayed THEN [kept EXCEPT !.mode = "drain", !.pos = 0] ELSE kept

\* The deferred calls of the probe: everything will be read again.
Finish ==
    /\ result' = "ok"
    /\ IF kind \in Replayed
       THEN buf' = <<>> /\ kept' = [kept EXCEPT !.mode = "drain", !.pos = 0]
       ELSE UNCHANGED <<buf, kept>>

\* The loop's head; dvrip gives up at its second timeout.
ProbeHead ==
    /\ At("probe") /\ head /\ head' = FALSE
    /\ IF ProbeDone THEN Finish /\ UNCHANGED <<i, conn>>
       ELSE IF kind = "dvrip" /\ late = 2 THEN Failed /\ UNCHANGED <<buf, kept>>
       ELSE UNCHANGED <<dial, conn, buf, kept>>
    /\ UNCHANGED <<camera, pos, late, seen, skipped, misread, reading, tapo, talking, stopped>>

\* ProbeTimeout, and dvrip's 15 seconds.
Later ==
    /\ At("probe") /\ late < (IF kind = "dvrip" THEN 2 ELSE IF kind \in Replayed THEN 1 ELSE 0)
    /\ late' = late + 1
    /\ UNCHANGED <<camera, dial, conn, io, head, seen, skipped, misread, reading, tapo, talking, stopped>>

ProbePacket ==
    /\ At("probe") /\ ~head /\ Whole /\ kind \notin Peeking \cup {"ivideon"}
    /\ IF ~Aligned THEN Misread /\ UNCHANGED <<head, seen, skipped>>
       ELSE /\ Cut /\ head' = TRUE
            /\ seen' = IF Tells(Next1) THEN seen \cup {Medium(Next1)} ELSE seen
            /\ skipped' = IF kind \in Replayed THEN {} ELSE skipped \cup {Next1}
            /\ UNCHANGED <<dial, conn, misread, reader>>
    /\ UNCHANGED <<camera, pos, kept, late, got, queue, tapo, talking, stopped>>

\* ivideon keeps the first fragment for Start; its codecs come before it.
ProbeFragment ==
    /\ At("probe") /\ ~head /\ Whole /\ kind = "ivideon"
    /\ Cut /\ queue' = <<Next1>> /\ result' = "ok"
    /\ UNCHANGED <<camera, i, conn, pos, kept, probing, misread, reader, got, tapo, talking, stopped>>

\* The others peek, and those of Headed read the header alone.
ProbeHeader ==
    /\ Peeks /\ ~head /\ Len(kept.buf) >= PeekSize
    /\ kept' = [kept EXCEPT !.mode = "drain", !.pos = IF kind \in Headed THEN Units ELSE 0]
    /\ result' = "ok"
    /\ UNCHANGED <<camera, i, conn, pos, buf, probing, misread, reading, tapo, talking, stopped>>

Probe == ProbeHead \/ ProbePacket \/ ProbeFragment \/ ProbeHeader
-----------------------------------------------------------------------------
\* The producer: Start, and Stop.

Heard == IF kind \in Replayed \cup {"miss", "legacy", "wyze"} THEN seen ELSE {"video", "audio"}
\* Isapi opens its channel first, and has a connection when that is done.
Start ==
    /\ result = "ok" /\ reader = "off" /\ ~stopped /\ op = "idle"
    /\ IF kind = "tapo" THEN tracked \/ talk = "on"
       ELSE Heard # {} /\ (OnlyTalks => talk = "on")
    /\ reader' = IF kind = "isapi" THEN "opening" ELSE "on"
    /\ UNCHANGED <<camera, dial, conn, io, probing, misread, got, queue, tapo, talking, stopped>>
Open ==
    /\ reader = "opening"
    /\ \/ conn' = "open" /\ reader' = "on"
       \/ reader' = "ended" /\ UNCHANGED conn
    /\ UNCHANGED <<camera, dial, io, probing, misread, got, queue, tapo, talking, stopped>>

\* One packet is taken; those of a medium that nobody asked for are dropped.
Take(heard) ==
    /\ reader = "on" /\ Whole
    /\ IF ~Aligned THEN Misread /\ UNCHANGED <<got, queue>>
       ELSE /\ Cut /\ UNCHANGED <<dial, conn, misread, reader, queue>>
            /\ got' = IF Medium(Next1) \in heard THEN Append(got, Next1) ELSE got
    /\ UNCHANGED <<camera, pos, kept, probing, tapo, talking, stopped>>
TapoHandle == kind = "tapo" /\ Take({"video", "audio"})
KasaStart == kind = "kasa" /\ Take(seen)
DvripStart == kind = "dvrip" /\ Take(seen)
BubbleHandle == kind = "bubble" /\ Take({"video", "audio"})
MissStart == kind = "miss" /\ Take(seen)
LegacyStart == kind = "legacy" /\ Take(seen)
WyzeStart == kind = "wyze" /\ Take(seen)
EseecloudStart == kind = "eseecloud" /\ Take({"video", "audio"})
MpegtsStart == kind = "mpegts" /\ Take(seen)
FlvStart == kind \in {"flv", "rtmp"} /\ Take(seen)
BitstreamStart == kind = "bitstream" /\ Take({"video"})
AdtsStart == kind = "adts" /\ Take({"video"})
WavStart == kind = "wav" /\ Take({"video"})
Y4mStart == kind = "y4m" /\ Take({"video"})
PartsStart == kind = "mpjpeg" /\ Take({"video"})
IvideonStart ==
    /\ kind = "ivideon" /\ reader = "on" /\ Whole /\ Len(queue) < QueueSize
    /\ Cut /\ queue' = Append(queue, Next1)
    /\ UNCHANGED <<camera, dial, conn, pos, kept, probing, misread, reader, got, tapo, talking, stopped>>
Packets == \/ TapoHandle \/ KasaStart \/ DvripStart \/ BubbleHandle \/ MissStart
           \/ LegacyStart \/ WyzeStart \/ EseecloudStart \/ IvideonStart \/ MpegtsStart \/ FlvStart
           \/ BitstreamStart \/ AdtsStart \/ WavStart \/ Y4mStart \/ PartsStart

\* The goroutine of ivideon; it goes on until the channel is closed and empty.
Deliver ==
    /\ kind = "ivideon" /\ reader \in {"on", "ended"} /\ queue # <<>>
    /\ queue' = Tail(queue) /\ got' = Append(got, Head(queue))
    /\ UNCHANGED <<camera, dial, conn, io, probing, misread, reader, tapo, talking, stopped>>

\* Multitrans waits for its own Stop only, the others for their connection.
Woken == reader = "on" /\ OnlyTalks /\ (IF kind = "multitrans" THEN stopped ELSE conn # "open")
StartReturns ==
    /\ Woken /\ reader' = "ended"
    /\ UNCHANGED <<camera, dial, conn, io, probing, misread, got, queue, tapo, talking, stopped>>

\* Mutant: the second connection of tapo stays open.
ClosesFirst == conn' = (IF conn = "none" THEN "none" ELSE "closed") /\ UNCHANGED conn2

\* Close; isapi has none before it is open.
Closes ==
    /\ conn' = IF conn = "none" THEN "none" ELSE "closed"
    /\ conn2' = IF conn2 = "none" THEN "none" ELSE "closed"

\* The bridge holds the producer's mutex, so no request runs.
Stop ==
    /\ result = "ok" /\ ~stopped /\ op = "idle" /\ stopped' = TRUE /\ Closes
    /\ UNCHANGED <<camera, dial, io, probing, misread, reading, session1, op, asked, tracked,
                   leaked, talking>>

\* The camera or the network drops the connection.
Drops ==
    /\ conn = "open" /\ conn' = "broken"
    /\ UNCHANGED <<camera, dial, io, probing, misread, reading, tapo, talking, stopped>>
-----------------------------------------------------------------------------
\* Talking.

\* Tapo: SetupStream, when a track is asked for and the stream has no ID.
SetupStream ==
    /\ kind = "tapo" /\ result = "ok" /\ op = "idle" /\ ~stopped /\ ~session1
    /\ op' = "setup" /\ asked' = TRUE
    /\ UNCHANGED <<camera, dial, conn, io, probing, misread, reading, session1, conn2, tracked, leaked,
                   talking, stopped>>

\* Request looks for its answer with a reader of its own and drops it, with what that
\* has read of the media; Handle's finds the next part at its boundary.
AskedOnFirst == op = "setup" \/ (op = "talk" /\ conn2 = "shared")
RequestReads(n) ==
    /\ AskedOnFirst /\ asked /\ conn = "open" /\ pos + n <= Len(Wire) /\ pos' = pos + n
    /\ skipped' = skipped \cup {Wire[u][1] : u \in pos + 1..pos + n}
    /\ UNCHANGED <<camera, dial, conn, kept, buf, head, late, seen, misread, reading, tapo, talking, stopped>>

\* An answer without an ID is no error: a track is handed out, and Start will read.
StreamIsSet ==
    /\ op = "setup" /\ op' = "idle"
    /\ \/ session1' \in BOOLEAN /\ tracked' = TRUE
       \/ UNCHANGED <<session1, tracked>>
    /\ UNCHANGED <<camera, dial, conn, io, probing, misread, reading, conn2, asked, leaked, talking, stopped>>

\* Mutant: the first connection serves both.
SetupBackchannelShares ==
    /\ kind = "tapo" /\ op = "idle" /\ op' = "talk" /\ conn2' = "shared"
    /\ UNCHANGED session1

\* SetupBackchannel: the first connection, if it is not used, or one of its own.
SetupBackchannel ==
    /\ kind = "tapo" /\ op = "idle"
    /\ IF session1 THEN op' = "dial2" /\ UNCHANGED conn2 ELSE op' = "talk" /\ conn2' = "shared"
    /\ UNCHANGED session1

\* newConn overwrites conn2, and that of a try before is never closed; one that is
\* dialled and refuses is not closed either.
Dial2 ==
    /\ op = "dial2"
    /\ \/ op' = "talk" /\ conn2' = "own" /\ UNCHANGED talk /\ leaked' = (leaked \/ conn2 = "own")
       \/ op' = "idle" /\ conn2' = "none" /\ talk' = "failed" /\ leaked' \in {leaked \/ conn2 = "own", TRUE}
    /\ UNCHANGED <<camera, dial, conn, io, probing, misread, reading, session1, asked, tracked,
                   tried, said, held, spoken, stopped>>
TalkIsSet ==
    /\ op = "talk" /\ op' = "idle" /\ talk' \in {"on", "failed"}
    /\ UNCHANGED <<camera, dial, conn, io, probing, misread, reading, session1, conn2, asked, tracked,
                   leaked, tried, said, held, spoken, stopped>>

\* AddTrack: tapo, dvrip, miss and wyze ask the camera first, and again for the next
\* viewer if it failed.
Ask == talk' \in {"on", "failed"} /\ UNCHANGED tapo
Agree == talk' = "on" /\ UNCHANGED tapo
TapoAddTrack == kind = "tapo" /\ SetupBackchannel /\ UNCHANGED <<talk, asked, tracked, leaked>>
DvripAddTrack == kind = "dvripTalk" /\ Ask
MissAddTrack == kind = "miss" /\ Ask
WyzeAddTrack == kind = "wyze" /\ Ask
MultitransAddTrack == kind = "multitrans" /\ Agree
IsapiAddTrack == kind = "isapi" /\ Agree
DoorbirdAddTrack == kind = "doorbird" /\ Agree
AddTrack ==
    /\ talks /\ result = "ok" /\ talk \in {"off", "failed"} /\ ~stopped
    /\ tried < MaxTries /\ tried' = tried + 1
    /\ \/ TapoAddTrack \/ DvripAddTrack \/ MissAddTrack \/ WyzeAddTrack
       \/ MultitransAddTrack \/ IsapiAddTrack \/ DoorbirdAddTrack
    /\ UNCHANGED <<camera, dial, conn, io, probing, misread, reading, said, held, spoken, stopped>>

\* Mutant: the rest of a frame is dropped.
SayDrops(n) ==
    /\ said' = said + n
    /\ IF kind \in Blocks
       THEN held' = 0 /\ spoken' = spoken \o [b \in 1..(held + n) \div Block |-> Block]
       ELSE held' = 0 /\ spoken' = (IF kind = "isapi" /\ conn = "none" THEN spoken ELSE Append(spoken, n))

\* The sender's handler: dvrip and xiaomi cut what is said into packets of one size.
Say(n) ==
    /\ said' = said + n
    /\ IF kind \in Blocks
       THEN /\ held' = (held + n) % Block
            /\ spoken' = spoken \o [b \in 1..(held + n) \div Block |-> Block]
       ELSE held' = 0 /\ spoken' = (IF kind = "isapi" /\ conn = "none" THEN spoken ELSE Append(spoken, n))
Speak ==
    /\ talk = "on" /\ ~stopped /\ said < MaxSaid /\ \E n \in 1..Block + 1 : Say(n)
    /\ UNCHANGED <<camera, dial, conn, io, probing, misread, reading, tapo, talk, tried, stopped>>
-----------------------------------------------------------------------------
Reader == Packets \/ Deliver \/ Open \/ StartReturns \/ \E n \in 1..2 : Read(n)
Requests == SetupStream \/ StreamIsSet \/ Dial2 \/ TalkIsSet \/ \E n \in 1..2 : RequestReads(n)
Next == Dial \/ Step \/ StepFails \/ Later \/ Probe \/ Reader \/ ReadFails \/ Start \/ Stop \/ Drops
        \/ Requests \/ AddTrack \/ Speak

\* Goroutines run, and a deadline passes; the camera may keep silent.
InTime == result = "dialing" /\ TimedDial /\ (Step \/ StepFails \/ Probe)
Reads == Packets \/ Deliver \/ StartReturns \/ ReadFails \/ (Buffered /\ \E n \in 1..2 : Read(n))
Fairness == WF_vars(InTime) /\ WF_vars(Reads)
Spec == Init /\ [][Next]_vars /\ Fairness
-----------------------------------------------------------------------------
\* Every variable has its type.
TypeOK ==
    /\ kind \in Kinds /\ {wanted, talks, head, misread, stopped} \subseteq BOOLEAN
    /\ {session1, asked, tracked, leaked} \subseteq BOOLEAN /\ tried \in 0..MaxTries
    /\ i \in 0..Len(Steps) /\ result \in {"new", "dialing", "ok", "error"}
    /\ conn \in {"none", "open", "broken", "closed"} /\ conn2 \in {"none", "own", "shared", "closed"}
    /\ pos \in 0..Len(Wire) /\ kept.mode \in {"off", "probe", "drain"} /\ kept.pos \in 0..Len(kept.buf)
    /\ late \in 0..2 /\ seen \subseteq {"video", "audio"} /\ skipped \subseteq 1..MaxPackets
    /\ reader \in {"off", "opening", "on", "ended"} /\ op \in {"idle", "setup", "dial2", "talk"}
    /\ talk \in {"off", "on", "failed"} /\ Len(queue) <= QueueSize

\* Viewers get the packets from the first on, or from the first that the probe did not
\* take, each once and in order, whatever the probe had read of the next one; of tapo,
\* all but those that were read with the answer to a request.
Rest == SelectSeq([p \in DOMAIN packets |-> p], LAMBDA p : p \notin skipped)
Expected == SelectSeq(Rest, LAMBDA p : kind = "ivideon" \/ Medium(p) \in Heard)
InOrder == result = "ok" => IsPrefix(got \o queue, Expected)
Drained == reader = "on" /\ pos = Len(Wire) /\ ~Buffered /\ ~Whole
AllOfIt ==
    Drained =>
        IF Delimited /\ buf # <<>> THEN buf = Packet(Len(packets)) /\ got = Front(Expected)
        ELSE buf = <<>> /\ got \o queue = Expected

\* However the bytes are cut, no packet is taken from the middle of another.
NoMisread == ~misread

\* A dial that fails closes its connection (the clients that close at all).
FailedReleases == result = "error" /\ Closing => conn \in {"none", "closed"}

\* Nobody asks on the connection that Start reads once tapo's stream has its ID; before,
\* a request and Start may take from each other.
OneReader == reader = "on" /\ session1 => ~AskedOnFirst

\* What is said arrives whole but for less than a packet, which is held back.
TalkWhole == kind # "isapi" => FoldLeft(LAMBDA a, b : a + b, 0, spoken) + held = said

\* A stopped source has no connection left, but isapi's that was being opened, and those
\* that tapo forgot, which it does only when a talk track was refused.
StopReleases ==
    /\ stopped /\ kind # "isapi" => conn # "open" /\ conn2 \notin {"own", "shared"}
    /\ leaked => tried > 1 \/ talk = "failed"

\* The dials with a limit end, and so does the goroutine that reads when its source
\* is stopped or its read has a deadline.
MustEnd == \/ result = "dialing" /\ TimedDial
           \/ reader = "on" /\ (TimedRead \/ (stopped /\ conn # "open"))
Ends == MustEnd ~> ~MustEnd

\* What the module promises.
Promise == /\ [](TypeOK /\ InOrder /\ AllOfIt /\ NoMisread /\ FailedReleases /\ OneReader /\ TalkWhole /\ StopReleases)
           /\ Ends
=============================================================================
