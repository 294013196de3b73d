------------------------------- MODULE Frames ------------------------------
(***************************************************************************)
(* The frame handler of DTLS cameras (pkg/tutk/frame.go): video frames come  *)
(* in packets on two channels, one for keyframes and one for the others, and *)
(* audio in single packets.  The handler joins them, turns the camera's clock*)
(* that starts over every second into one that does not, and queues what is  *)
(* whole for the reader, who may be slow or gone.  The camera's packets may  *)
(* be lost, doubled, or overtake each other on the way.                      *)
(***************************************************************************)
EXTENDS Integers, SequencesExt

CONSTANTS Shots,      \* the camera's frames: [channel, no, total, first, time], in their order
          Wrap,       \* tsWrapPeriod (1000000)
          Marker,     \* the index that says "frame info follows" (0x28)
          QueueSize,  \* places in output (128)
          InFlight,   \* bound: packets in flight
          MaxFaults   \* bound: faults of the network

VARIABLES place,      \* of the camera: frame and packet sent next
          wire, faults,
          channels, videoTS, audioTS,   \* FrameHandler
          output, closed,
          queued,     \* history: what went into output, in order
          received,   \* history: how many of them the reader took or the queue dropped
          dropped,    \* history: the places in "queued" of what the queue dropped
          joined,     \* history: the packets that reached handleVideo, by channel
          panicked    \* send on a closed channel

vars == <<place, wire, faults, channels, videoTS, audioTS, output, closed, queued, received, dropped,
          joined, panicked>>

Audio == 3            \* ChannelAudio
Video == {5, 7}       \* ChannelIVideo, ChannelPVideo

\* newly made channelState and its reset; only frameNo, pktTotal, waitSeq, waitData and
\* frameInfo are ever read.
Reset == [frameNo |-> 0, pktTotal |-> 0, waitSeq |-> 0, waitData |-> <<>>, frameInfo |-> FALSE]
NewTracker == [firstTS |-> FALSE, lastRawTS |-> 0, accumUS |-> 0]

Init ==
    /\ place = <<1, 0>> /\ wire = <<>> /\ faults = MaxFaults
    /\ channels = [c \in Video |-> Reset] /\ videoTS = NewTracker /\ audioTS = NewTracker
    /\ output = <<>> /\ closed = FALSE
    /\ queued = <<>> /\ received = 0 /\ dropped = {} /\ joined = [c \in Video |-> <<>>]
    /\ panicked = FALSE

handler == <<channels, videoTS, audioTS, output, closed, queued, received, dropped, joined, panicked>>
-----------------------------------------------------------------------------
\* What the camera writes: the last packet of a frame carries the frame info and the marker,
\* the first one of several has the long header.
FrameType(f, k) ==
    IF Shots[f].total = 1 THEN Shots[f].first
    ELSE IF k = 0 THEN "start" ELSE IF k = Shots[f].total - 1 THEN "endMulti" ELSE "cont"
Packet(f, k) ==
    [frame |-> f, k |-> k, type |-> FrameType(f, k),
     idx |-> IF k = Shots[f].total - 1 THEN Marker ELSE k]

IsEndFrame(type) == type \in {"endSingle", "endMulti", "endExt"}

\* Mutant: the marker is one wherever it stands.
HasFrameInfoAnywhere(p) == p.idx = Marker

\* ParsePacketHeader: the marker is one only in a last packet; in the middle of a long frame
\* it is an index like any other.
HasFrameInfo(p) == p.idx = Marker /\ (IsEndFrame(p.type) \/ Shots[p.frame].total = 1)
PktIdx(p) == IF HasFrameInfo(p) THEN Shots[p.frame].total - 1 ELSE p.idx

\* extractPayload looks at the type again: the frame info is cut off an end, or off a StartAlt
\* that is alone.
InfoCut(p) == IsEndFrame(p.type) \/ (p.type = "startAlt" /\ Shots[p.frame].total = 1)

\* Mutant: a clock that went back is taken for one that stands.
TrackDeltaStands(t, raw) == IF raw >= t.lastRawTS THEN raw - t.lastRawTS ELSE 0

\* tsTracker.update.
TrackDelta(t, raw) == IF raw >= t.lastRawTS THEN raw - t.lastRawTS ELSE (Wrap - t.lastRawTS) + raw
Update(t, raw) ==
    [firstTS |-> TRUE, lastRawTS |-> raw, accumUS |-> IF t.firstTS THEN t.accumUS + TrackDelta(t, raw) ELSE 0]

Raw(p) == Shots[p.frame].time % Wrap

\* queue: nothing after Close; a full queue drops its oldest packet, all under closeMu.
Queue(pkt) ==
    IF closed
    THEN UNCHANGED <<output, queued, received, dropped, panicked>>
    ELSE /\ queued' = Append(queued, pkt)
         /\ output' = Append(IF Len(output) = QueueSize THEN Tail(output) ELSE output, pkt)
         /\ received' = received + (IF Len(output) = QueueSize THEN 1 ELSE 0)
         /\ dropped' = dropped \cup (IF Len(output) = QueueSize THEN {received + 1} ELSE {})
         /\ UNCHANGED panicked

HandleAudio(p) ==
    /\ UNCHANGED <<channels, videoTS, joined>>
    /\ IF ~InfoCut(p)
       THEN UNCHANGED <<audioTS, output, queued, received, dropped, panicked>>
       ELSE /\ audioTS' = Update(audioTS, Raw(p))
            /\ Queue([frame |-> p.frame, data |-> <<p.k>>, ts |-> audioTS'.accumUS])

\* Mutant: the packets of the frame before are kept.
StartsOverKeeping(cs, p) ==
    IF Shots[p.frame].no # cs.frameNo
    THEN [cs EXCEPT !.frameNo = Shots[p.frame].no, !.pktTotal = Shots[p.frame].total, !.waitSeq = 0]
    ELSE cs

\* A new frame number starts over, number 0 being none.
StartsOver(cs, p) ==
    IF Shots[p.frame].no # cs.frameNo
    THEN [Reset EXCEPT !.frameNo = Shots[p.frame].no, !.pktTotal = Shots[p.frame].total]
    ELSE cs
Joins(cs, p) ==
    [cs EXCEPT !.waitData = Append(@, <<p.frame, p.k>>), !.waitSeq = @ + 1,
               !.frameInfo = @ \/ InfoCut(p)]

\* A packet that is not the next one forgets the frame, with its number.  A frame whose size
\* is not the one its info names is dropped.
HandleVideo(c, p) ==
    LET cs == StartsOver(channels[c], p)
        js == Joins(cs, p)
        Whole == js.waitSeq = js.pktTotal /\ js.frameInfo
    IN  /\ joined' = [joined EXCEPT ![c] = Append(@, <<p.frame, p.k>>)]
        /\ UNCHANGED audioTS
        /\ IF PktIdx(p) # cs.waitSeq
           THEN /\ channels' = [channels EXCEPT ![c] = Reset]
                /\ UNCHANGED <<videoTS, output, queued, received, dropped, panicked>>
           ELSE IF ~Whole
           THEN /\ channels' = [channels EXCEPT ![c] = js]
                /\ UNCHANGED <<videoTS, output, queued, received, dropped, panicked>>
           ELSE /\ channels' = [channels EXCEPT ![c] = Reset]
                /\ IF Len(js.waitData) # Shots[p.frame].total
                   THEN UNCHANGED <<videoTS, output, queued, received, dropped, panicked>>
                   ELSE /\ videoTS' = Update(videoTS, Raw(p))
                        /\ Queue([frame |-> p.frame, data |-> js.waitData, ts |-> videoTS'.accumUS])

Handle(p) ==
    /\ IF Shots[p.frame].channel = Audio THEN HandleAudio(p) ELSE HandleVideo(Shots[p.frame].channel, p)
    /\ UNCHANGED closed
-----------------------------------------------------------------------------
CameraSends ==
    /\ place[1] <= Len(Shots) /\ Len(wire) < InFlight
    /\ wire' = Append(wire, Packet(place[1], place[2]))
    /\ place' = IF place[2] = Shots[place[1]].total - 1 THEN <<place[1] + 1, 0>>
                                                        ELSE <<place[1], place[2] + 1>>
    /\ UNCHANGED <<faults, handler>>

NetworkLoses(i) ==
    /\ faults > 0 /\ i \in DOMAIN wire /\ wire' = RemoveAt(wire, i) /\ faults' = faults - 1
    /\ UNCHANGED <<place, handler>>

\* The connection's worker takes a packet; one that is not the oldest, or stays to be taken
\* again, is a fault.
Receive(i, double) ==
    /\ i \in DOMAIN wire
    /\ faults' = faults - (IF i > 1 THEN 1 ELSE 0) - (IF double THEN 1 ELSE 0) /\ faults' >= 0
    /\ wire' = IF double THEN wire ELSE RemoveAt(wire, i)
    /\ Handle(wire[i])
    /\ UNCHANGED place

\* AVRecvFrameData.
Recv ==
    /\ output # <<>> /\ output' = Tail(output) /\ received' = received + 1
    /\ UNCHANGED <<place, wire, faults, channels, videoTS, audioTS, closed, queued, dropped, joined, panicked>>

\* What is in the queue can still be read.
Close ==
    /\ ~closed /\ closed' = TRUE
    /\ UNCHANGED <<place, wire, faults, channels, videoTS, audioTS, output, queued, received, dropped,
                   joined, panicked>>

Next ==
    \/ CameraSends \/ Recv \/ Close
    \/ \E i \in DOMAIN wire : NetworkLoses(i) \/ \E double \in BOOLEAN : Receive(i, double)

Spec == Init /\ [][Next]_vars
-----------------------------------------------------------------------------
IsVideo(q) == Shots[q.frame].channel \in Video

\* A frame that was queued is the packets of one frame, all of them, in their order,
\* whatever was lost, doubled or swapped on either channel.
WholeFrames ==
    \A i \in DOMAIN queued : IsVideo(queued[i]) =>
        queued[i].data = [k \in 1..Shots[queued[i].frame].total |-> <<queued[i].frame, k - 1>>]

\* A frame with a number whose packets reached the handler one behind the other was queued:
\* nothing that came before it on the channel can spoil it, but a packet of its own (its
\* first one doubled is two of one frame, and the rest is dropped with it).
ArrivedIsQueued ==
    ~closed => \A c \in Video, f \in DOMAIN Shots : \A e \in DOMAIN joined[c] :
        /\ Shots[f].no # 0 /\ Shots[f].channel = c /\ Shots[f].total <= e
        /\ \A k \in 1..Shots[f].total : joined[c][e - Shots[f].total + k] = <<f, k - 1>>
        /\ (e > Shots[f].total => joined[c][e - Shots[f].total][1] # f)
        => \E i \in DOMAIN queued : queued[i].frame = f

\* The clock the viewers get runs like the camera's from one video frame to the next, over
\* the start of its second, as long as they are in order and less than a second apart.
ClockRuns ==
    \A kind \in {TRUE, FALSE} :
        LET q == SelectSeq(queued, LAMBDA x : IsVideo(x) = kind)
        IN  \A i \in 1..(Len(q) - 1) :
                LET passed == Shots[q[i + 1].frame].time - Shots[q[i].frame].time
                IN  passed \in 0..(Wrap - 1) => q[i + 1].ts - q[i].ts = passed

\* The clock never runs back, whatever the order the frames come in.
ClockNeverBack ==
    \A i, j \in DOMAIN queued : i < j /\ IsVideo(queued[i]) = IsVideo(queued[j]) => queued[i].ts <= queued[j].ts

\* The queue holds the newest of what was queued, and dropped only what was the oldest.
NewestKept ==
    /\ Len(output) <= QueueSize
    /\ output = SubSeq(queued, Len(queued) - Len(output) + 1, Len(queued))
    /\ \A d \in dropped : Len(queued) >= d + QueueSize

\* Close does not crash a worker that has a frame in hand.
NothingAfterClose == ~panicked

Promise ==
    /\ [](WholeFrames /\ ArrivedIsQueued)
    /\ [](ClockRuns /\ ClockNeverBack)
    /\ [](NewestKept /\ NothingAfterClose)
=============================================================================
