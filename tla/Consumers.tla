----------------------------- MODULE Consumers -----------------------------
(***************************************************************************)
(* A viewer that is written to: the senders of its tracks mux packets and    *)
(* write them to a core.WriteBuffer, which keeps them until the request       *)
(* hands it its writer (WriteTo).  "use" says which muxer writes to which     *)
(* sink: a HTTP response, the messages of a websocket, a RTMP connection, the  *)
(* RTMP connection of a publisher that is dialed meanwhile, or the OnceBuffer  *)
(* of a snapshot.                                                             *)
(***************************************************************************)
EXTENDS Integers, Sequences, SequencesExt

CONSTANTS MaxPackets,   \* of the first track; a second one has one
          Rate,         \* ticks of a second, of which MinStep make a millisecond and one
          MinStep

VARIABLES use, tracks,      \* the muxer and sink; "video", "audio" in the order they are added
          step, added,      \* of the request; how many tracks are bound
          pc, hand, count,  \* of each track: its goroutine, the message in its hand, its packets
          start, lock,      \* mp4: a keyframe was seen; who holds Consumer.mu
          clock, raced,     \* of each track: what its muxer keeps; an append ran into it
          to, buf, wait, err,   \* the WriteBuffer
          out, made,        \* what each write to the sink brought; what was muxed (history)
          gone, listening, closed, removed, early  \* the other side; OnClose; Stop, before Reset

goroutines == <<pc, hand, count, start, lock, clock, made>>
buffer == <<to, buf, wait, err, out>>
request == <<use, tracks, step, added>>
other == <<gone, listening, closed, removed, early>>
vars == <<request, goroutines, raced, buffer, other>>

Use(kind, sink) == [kind |-> kind, sink |-> sink]
OutputFLV == Use("flv", "http")
PlayFLV == Use("flv", "rtmp")
PublishFLV == Use("flv", "publish")
OutputMpegTS == Use("mpegts", "http")
StreamAAC == Use("adts", "http")
StreamY4M == Use("y4m", "http")
OutputMjpeg == Use("mjpeg", "parts")
MjpegWS == Use("mjpeg", "ws")
StreamMP4 == Use("mp4", "http")
MSE == Use("mp4", "ws")
FrameMP4 == Use("mp4frame", "once")
MP4WS == Use("mp4frame", "ws")
FrameJPEG == Use("keyframe", "once")
Uses == {OutputFLV, PlayFLV, PublishFLV, OutputMpegTS, StreamAAC, StreamY4M, OutputMjpeg, MjpegWS,
         StreamMP4, MSE, FrameMP4, MP4WS, FrameJPEG}
Kind == use.kind
Sink == use.sink

FlvMedias == {<<"video">>, <<"video", "audio">>}
MpegtsMedias == {<<"audio">>, <<"video", "audio">>}
Mp4Medias == {<<"audio">>, <<"video", "audio">>, <<"audio", "video">>}
Tracks == CASE Kind = "flv" -> FlvMedias [] Kind = "mpegts" -> MpegtsMedias [] Kind = "mp4" -> Mp4Medias
            [] Kind = "adts" -> {<<"audio">>} [] OTHER -> {<<"video">>}
Headed == Kind \in {"flv", "mpegts", "mp4"}
KeysOnly == Kind \in {"keyframe", "mp4frame"}
Closer == Sink \in {"rtmp", "publish"}
Bound == 1..added

NewClock == [ts |-> 0, base |-> 0, out |-> 0, first |-> -1, even |-> TRUE]
Nothing == [track |-> 0, key |-> FALSE, n |-> 0, part |-> "none"]
\* A header names the tracks that are bound.
Header(n) == [track |-> 0, key |-> FALSE, n |-> n, part |-> "init"]

InitOf(uses) ==
    /\ use \in uses /\ tracks \in Tracks /\ step = "add" /\ added = 0
    /\ pc = <<>> /\ hand = <<>> /\ count = <<>> /\ clock = <<>>
    /\ start = FALSE /\ lock = 0 /\ raced = FALSE
    /\ to = "buffer" /\ buf = <<>> /\ wait = "none" /\ err = FALSE /\ out = <<>> /\ made = <<>>
    /\ gone = FALSE /\ listening = FALSE /\ closed = FALSE /\ removed = FALSE /\ early = FALSE
Init == InitOf(Uses)
-----------------------------------------------------------------------------
\* The tracks.

\* Muxer.AddTrack writes a map (mpegts) or appends to slices (mp4) that GetPayload of an
\* earlier track may be using: the map ends the process, the slices lose its update.
Overlaps == \E t \in Bound : pc[t] = "got"
AddTrack ==
    /\ step = "add" /\ added < Len(tracks)
    /\ added' = added + 1
    /\ pc' = Append(pc, "idle") /\ count' = Append(count, 0) /\ clock' = Append(clock, NewClock)
    /\ buf' = IF Kind = "y4m" THEN Append(buf, Header(1)) ELSE buf
    /\ \/ hand' = Append(hand, Nothing) /\ UNCHANGED <<step, raced>>
       \/ Overlaps /\ Kind = "mpegts" /\ step' = "crashed" /\ hand' = Append(hand, Nothing) /\ UNCHANGED raced
       \/ Overlaps /\ Kind = "mp4" /\ raced' = TRUE /\ UNCHANGED step
          /\ hand' = Append([t \in Bound |-> IF pc[t] = "got" THEN [hand[t] EXCEPT !.part = "lost"] ELSE hand[t]],
                            Nothing)
    /\ UNCHANGED <<use, tracks, start, lock, to, wait, err, out, made, other>>

\* Stamps count on from a track's first packet: an addition of what the packets' times
\* advance (mpegts, whose time 0 means none yet), a difference from the first one that is
\* not 0 (flv), or a sum of durations between MinStep and Rate (mp4).
Moved(c, ts) == [c EXCEPT !.ts = ts, !.first = IF @ = -1 THEN ts ELSE @,
                          !.even = @ /\ (c.first = -1 \/ ts - c.ts \in MinStep + 1..Rate)]
MpegtsStamp(c, ts) == [Moved(c, ts) EXCEPT !.out = IF c.ts = 0 THEN @ ELSE @ + ts - c.ts]
FlvStamp(c, ts) == [Moved(c, ts) EXCEPT !.base = IF @ = 0 THEN ts ELSE @,
                                        !.out = IF c.base = 0 THEN 0 ELSE ts - c.base]
Short(d) == d <= 0 \/ d > Rate

\* Mutant: what was added to a short step is not taken from the next one.
Mp4StampDrifts(c, ts) ==
    LET d == ts - c.base
    IN  [Moved(c, ts) EXCEPT !.base = ts, !.out = @ + IF Short(d) THEN MinStep ELSE d]
Mp4Stamp(c, ts) ==
    LET d == ts - c.base
    IN  [Moved(c, ts) EXCEPT !.base = IF Short(d) THEN ts + MinStep ELSE ts,
                             !.out = @ + IF Short(d) THEN MinStep ELSE d]
\* The times that the first track's packets may have: they begin at 0 or later, and
\* advance by a frame or by more than a second.
Times(t) == IF Kind \notin {"mpegts", "flv", "mp4"} THEN {0}
            ELSE IF count[t] = 0 THEN (IF t = 1 THEN {0, Rate + 1} ELSE {Rate + 1})
            ELSE {clock[t].ts + MinStep + 1} \cup (IF t = 1 THEN {clock[t].ts + Rate + 2} ELSE {})

\* A packet comes to the goroutine of a track.
Mp4Passes(t, key) == start \/ (tracks[t] = "video" /\ key)
Passes(t, key) == /\ KeysOnly => key
                  /\ Kind = "mp4" => Mp4Passes(t, key)
Take(t) ==
    /\ step # "crashed" /\ pc[t] = "idle" /\ ~removed
    /\ count[t] < (IF t = 1 THEN MaxPackets ELSE 1)
    /\ count' = [count EXCEPT ![t] = @ + 1]
    /\ \E key \in IF tracks[t] = "video" /\ Kind \in {"mp4", "mp4frame", "keyframe"} THEN BOOLEAN ELSE {TRUE},
          ts \in Times(t) :
          IF Passes(t, key)
          THEN /\ pc' = [pc EXCEPT ![t] = "got"]
               /\ hand' = [hand EXCEPT ![t] = [track |-> t, key |-> key, n |-> count'[t], part |-> "packet", ts |-> ts]]
               /\ start' = (start \/ Kind = "mp4")
          ELSE UNCHANGED <<pc, hand, start>>
    /\ UNCHANGED <<lock, clock, made, request, raced, buffer, other>>

\* A handler makes of its packet what it will write, in one or two pieces.
Piece(t, part) == [track |-> t, key |-> hand[t].key, n |-> hand[t].n, part |-> part]
Muxes(t, c, parts) ==
    /\ step # "crashed" /\ pc[t] = "got" /\ pc' = [pc EXCEPT ![t] = "muxed"]
    /\ clock' = IF hand[t].part = "lost" THEN clock ELSE [clock EXCEPT ![t] = c]
    /\ hand' = [hand EXCEPT ![t] = Piece(t, parts[1])]
    /\ made' = made \o [k \in DOMAIN parts |-> Piece(t, parts[k])]
    /\ UNCHANGED <<count, start, request, raced, buffer, other>>
Frame == <<"frame">>
FlvHandler(t) == Kind = "flv" /\ Muxes(t, FlvStamp(clock[t], hand[t].ts), Frame) /\ UNCHANGED lock
MpegtsHandler(t) == Kind = "mpegts" /\ Muxes(t, MpegtsStamp(clock[t], hand[t].ts), Frame) /\ UNCHANGED lock
\* Mutant: the lock is not taken.
Mp4HandlerUnlocked(t) == Kind = "mp4" /\ UNCHANGED lock /\ Muxes(t, Mp4Stamp(clock[t], hand[t].ts), Frame)
\* Mp4 holds a lock until the fragment is written.
Mp4Handler(t) == Kind = "mp4" /\ lock = 0 /\ lock' = t /\ Muxes(t, Mp4Stamp(clock[t], hand[t].ts), Frame)
AdtsHandler(t) == Kind = "adts" /\ Muxes(t, clock[t], Frame) /\ UNCHANGED lock
MjpegHandler(t) == Kind = "mjpeg" /\ Muxes(t, clock[t], Frame) /\ UNCHANGED lock
Y4mHandler(t) == Kind = "y4m" /\ Muxes(t, clock[t], <<"header", "frame">>) /\ UNCHANGED lock
KeyframeHandler(t) == Kind = "keyframe" /\ hand[t].key /\ Muxes(t, clock[t], Frame) /\ UNCHANGED lock
FrameHandler(t) == Kind = "mp4frame" /\ hand[t].key /\ Muxes(t, clock[t], <<"init and frame">>) /\ UNCHANGED lock
Handler(t) ==
    \/ FlvHandler(t) \/ MpegtsHandler(t) \/ Mp4Handler(t) \/ AdtsHandler(t) \/ MjpegHandler(t)
    \/ Y4mHandler(t) \/ KeyframeHandler(t) \/ FrameHandler(t)
-----------------------------------------------------------------------------
\* The write buffer.

\* A write to the sink; it may succeed some time after the other side is gone, but a
\* websocket that its reader closed refuses it.  Each write is a part of a multipart
\* response, a message of a websocket, and one of RTMP but for the header's.
Accepts(messages) == out' = Append(out, messages) /\ err' = FALSE
Refuses == gone /\ err' = TRUE /\ UNCHANGED out
HttpWrite(messages) == Sink = "http" /\ (Accepts(messages) \/ Refuses)
PartsWrite(messages) == Sink = "parts" /\ (Accepts(messages) \/ Refuses)
WsWrite(messages) == Sink = "ws" /\ IF gone THEN Refuses ELSE Accepts(messages)
RtmpWrite(messages) == Closer /\ (Accepts(messages) \/ Refuses)
\* OnceBuffer keeps the first write and reports the end.
OnceWrite(messages) == Sink = "once" /\ out' = Append(out, messages) /\ err' = TRUE
SinkWrite(messages) == HttpWrite(messages) \/ PartsWrite(messages) \/ WsWrite(messages)
                       \/ RtmpWrite(messages) \/ OnceWrite(messages)
Done == IF wait = "start" THEN "end" ELSE wait

\* WriteBuffer.Write of a packet; y4m writes twice.
Write(t) ==
    /\ step # "crashed" /\ pc[t] \in {"muxed", "half"}
    /\ pc' = [pc EXCEPT ![t] = IF Kind = "y4m" /\ pc[t] = "muxed" THEN "half" ELSE "idle"]
    /\ lock' = IF lock = t THEN 0 ELSE lock
    /\ hand' = [hand EXCEPT ![t] = IF pc'[t] = "half" THEN [@ EXCEPT !.part = "frame"] ELSE Nothing]
    /\ IF err THEN UNCHANGED <<buf, out, wait, err>>
       ELSE IF to = "buffer" THEN buf' = Append(buf, hand[t]) /\ UNCHANGED <<out, wait, err>>
       ELSE SinkWrite(<<hand[t]>>) /\ wait' = (IF err' THEN Done ELSE wait) /\ UNCHANGED buf
    /\ UNCHANGED <<count, start, clock, made, request, raced, to, other>>

\* Mutant: what was buffered is not written to the new writer.
FlushLeaves == out' = out /\ err' = FALSE /\ UNCHANGED buf
\* Reset: what was buffered goes to the writer in one piece.
Flush == IF buf = <<>> THEN UNCHANGED <<out, err, buf>> ELSE SinkWrite(buf) /\ buf' = <<>>
-----------------------------------------------------------------------------
\* The request.

Ready == step = "add" /\ added = Len(tracks)

\* DialPublish, or the answer to a player: either may fail.
DialPublish ==
    /\ Ready /\ Closer /\ step' \in {"dialed", "leaving"}
    /\ UNCHANGED <<use, tracks, added, goroutines, raced, buffer, other>>

\* WriteTo begins with the header, past the buffer.
Begins == IF Closer THEN step = "dialed" ELSE Ready
WriteHeader(header) ==
    /\ Begins
    /\ \/ (Sink = "ws" => ~gone) /\ step' = "reset" /\ out' = Append(out, <<header>>)
       \/ gone /\ step' = "leaving" /\ UNCHANGED out
    /\ UNCHANGED <<use, tracks, added, pc, hand, count, lock, clock, made, raced, to, buf, wait, err, other>>
FlvInit == Header(added)
MpegtsHeader == Header(added)
Mp4Init == Header(added)
FlvWriteTo == Kind = "flv" /\ WriteHeader(FlvInit) /\ UNCHANGED start
MpegtsWriteTo == Kind = "mpegts" /\ WriteHeader(MpegtsHeader) /\ UNCHANGED start
\* Audio alone needs no keyframe.
Mp4WriteTo ==
    /\ Kind = "mp4" /\ start' = (start \/ tracks = <<"audio">>)
    /\ WriteHeader(Mp4Init)
\* The other consumers write no header.
PlainWriteTo ==
    /\ ~Headed /\ Begins /\ step' = "reset"
    /\ UNCHANGED <<use, tracks, added, goroutines, raced, buffer, other>>

\* WriteBuffer.WriteTo.
WriteTo ==
    /\ step = "reset" /\ step' = "waiting" /\ to' = "sink"
    /\ Flush /\ wait' = IF err' THEN "end" ELSE "start"
    /\ UNCHANGED <<use, tracks, added, goroutines, raced, other>>
WriteToReturns ==
    /\ step = "waiting" /\ wait = "end" /\ step' = "leaving"
    /\ UNCHANGED <<use, tracks, added, goroutines, raced, buffer, other>>

\* Mutant: Close does not wake the request.
WokenNever == wait
\* WriteBuffer.Close: it closes a writer that can be closed, or wakes the request.
Woken == IF to = "sink" /\ Closer THEN wait ELSE Done
Shut == gone \/ (to = "sink" /\ Closer)

\* Stream.RemoveConsumer: the senders end with the packet in their hand.
RemoveConsumer ==
    /\ removed' = TRUE /\ early' = (early \/ (~removed /\ to = "buffer"))
    /\ wait' = Woken

\* The request leaves the stream (the writer goroutine of a websocket does not).
Leave ==
    /\ step = "leaving" /\ step' = "left"
    /\ IF Sink = "ws" THEN UNCHANGED <<removed, early, wait, gone>> ELSE RemoveConsumer /\ gone' = Shut
    /\ UNCHANGED <<use, tracks, added, goroutines, raced, to, buf, err, out, listening, closed>>

\* The other side goes away; a websocket's transport then closes.
Gone ==
    /\ step # "crashed" /\ ~gone /\ Sink # "once" /\ added > 0 /\ (Sink = "publish" => step \notin {"add", "dialed"})
    /\ IF Sink = "ws" /\ listening THEN RemoveConsumer ELSE UNCHANGED <<removed, early, wait>>
    /\ gone' = TRUE /\ closed' = (Sink = "ws")
    /\ UNCHANGED <<request, goroutines, raced, to, buf, err, out, listening>>

\* Mutant: a transport that is closed already keeps the function.
RegistersLate == UNCHANGED <<removed, early, wait>>
Registers == IF closed THEN RemoveConsumer ELSE UNCHANGED <<removed, early, wait>>

\* Transport.OnClose, once the writer goroutine is started.
OnClose ==
    /\ Sink = "ws" /\ ~listening /\ added = Len(tracks) /\ listening' = TRUE
    /\ Registers
    /\ UNCHANGED <<request, goroutines, raced, to, buf, err, out, gone, closed>>

\* The goroutine of stream.mp4 that waits for the request's context or its duration.
ContextDone ==
    /\ Kind = "mp4" /\ Sink = "http" /\ added = Len(tracks) /\ step # "crashed" /\ ~removed
    /\ RemoveConsumer
    /\ UNCHANGED <<request, goroutines, raced, to, buf, err, out, gone, listening, closed>>

Next ==
    \/ AddTrack \/ DialPublish \/ FlvWriteTo \/ MpegtsWriteTo \/ Mp4WriteTo \/ PlainWriteTo
    \/ WriteTo \/ WriteToReturns \/ Leave
    \/ Gone \/ OnClose \/ ContextDone
    \/ \E t \in Bound : Take(t) \/ Handler(t) \/ Write(t)

Spec == Init /\ [][Next]_vars
-----------------------------------------------------------------------------
\* Correctness.

TypeOK ==
    /\ use \in Uses /\ step \in {"add", "dialed", "reset", "waiting", "leaving", "left", "crashed"}
    /\ Len(pc) = added /\ Len(hand) = added /\ Len(clock) = added
    /\ to \in {"buffer", "sink"} /\ wait \in {"none", "start", "end"} /\ lock \in 0..added

Of(messages, t) == SelectSeq(messages, LAMBDA m : m.track = t)
Sent == FlattenSeq(out) \o buf
Pending(t) == CASE pc[t] = "muxed" -> (IF Kind = "y4m" THEN 2 ELSE 1) [] pc[t] = "half" -> 1 [] OTHER -> 0

\* Before and after the request hands over its writer, everything that a track muxed
\* is written, once and in order, while the writer takes it.
AllInOrder ==
    \A t \in Bound : /\ IsPrefix(Of(Sent, t), Of(made, t))
                     /\ ~err => Len(Of(Sent, t)) + Pending(t) = Len(Of(made, t))

\* The header comes first and names every track.
HeaderFirst == (Headed \/ Kind = "y4m") /\ out # <<>> => out[1][1] = Header(Len(tracks))

\* The fragments of a mp4 leave in the order of their numbers, whatever track they are of.
FragmentOrder == Kind = "mp4" => IsPrefix(SelectSeq(Sent, LAMBDA m : m.track # 0), made)

\* A picture can be decoded: the first one of a mp4 and all snapshots are keyframes.
Videos == SelectSeq(made, LAMBDA m : tracks[m.track] = "video")
KeyFirst == /\ Kind = "mp4" /\ Videos # <<>> => Videos[1].key
            /\ KeysOnly => \A k \in DOMAIN Videos : Videos[k].key

\* Only what was buffered reaches the writer in one piece.
OneByOne == \A k \in DOMAIN out : Len(out[k]) > 1 => \A j \in 1..k - 1 : out[j] = <<Header(added)>>

\* The stamps advance by what the packets' times advance, for a track that does not
\* begin at time 0 (in a mp4: in its first second, and while the packets come evenly).
Steady ==
    \A t \in Bound :
        LET c == clock[t]
        IN  /\ Kind \in {"mpegts", "flv", "mp4"} /\ (Kind = "mp4" => c.even /\ c.first > Rate)
            /\ c.first > 0 /\ c.ts # c.first /\ ~raced
            => c.out = c.ts - c.first

\* A request waits only for a writer that works, and not after it was removed, unless
\* that was before it waited; nor does a websocket that closed leave its consumer.
NobodyWaits == step = "waiting" /\ wait = "start" => ~err /\ (removed => early)
LeftOnClose == closed /\ listening => removed

\* What the module promises.
Promise ==
    /\ [](TypeOK /\ AllInOrder /\ HeaderFirst /\ FragmentOrder /\ KeyFirst /\ OneByOne /\ Steady)
    /\ [](NobodyWaits /\ LeftOnClose)
=============================================================================
