-------------------------------- MODULE Tutk -------------------------------
(***************************************************************************)
(* Media frames over TUTK (pkg/tutk/session16.go, session25.go, frame.go): a *)
(* frame comes in chunks over UDP.  The sessions of protocol 16 follow the   *)
(* place of a chunk in its frame; those of protocol 25 number the chunks     *)
(* through and put them in order with a small reorder buffer first; the      *)
(* frame handler of DTLS cameras looks at frame number and place.  The camera*)
(* sends the same layout of frames in every lap of the numbers; the network  *)
(* loses, doubles and overtakes as often as the budget "faults" allows.      *)
(***************************************************************************)
EXTENDS Integers, SequencesExt

CONSTANTS Layout,      \* for each chunk number of a lap: <<place, chunks of its frame>>
          BufferSize,  \* NewReorderBuffer(5)
          QueueSize,   \* places in rawPkt (100)
          MaxFaults,   \* bound: faults of the network
          InFlight     \* bound: datagrams in flight

VARIABLES version,     \* of the camera: 16, 25 or DTLS; 0 until it has answered
          sending,        \* the camera's sending chunk
          inflight, faults, \* datagrams in flight, in order, and faults left
          session,     \* the session: see NewSession
          queued,      \* frames in rawPkt
          last,        \* the frame delivered last
          late         \* history: a chunk came after its number was passed

vars == <<version, sending, inflight, faults, session, queued, last, late>>

DTLS == 42            \* stands for the frame handler of DTLS cameras
Lap == Len(Layout)
Chunks == [seq : 0..(Lap - 1), lap : {0, 1}]
Place(c) == Layout[c.seq + 1][1]
Count(c) == Layout[c.seq + 1][2]
IsLast(c) == Place(c) = Count(c) - 1
FrameNo(c) == c.seq - Place(c) + Lap * c.lap
After(c) == [seq |-> (c.seq + 1) % Lap, lap |-> IF c.seq = Lap - 1 THEN 1 - c.lap ELSE c.lap]

\* waitSeq and waitData of the frame; seq and buf of the reorder buffer; the
\* frames of this datagram and what SessionRead returns for it; frame is the frame
\* number of the DTLS handler.
Sessions == [frame : 0..(2 * Lap), wait : 0..(Lap - 1), data : Seq(Chunks), seq : 0..(Lap - 1), buf : SUBSET Chunks,
             out : Seq(Seq(Chunks)), res : {"none", "lost", "chunk", "reorder", "frame", "error", "panic"}]
NewSession == [frame |-> 0, wait |-> 0, data |-> <<>>, seq |-> 0, buf |-> {}, out |-> <<>>, res |-> "none"]

Init ==
    /\ version = 0
    /\ sending = [seq |-> 0, lap |-> 0] /\ inflight = <<>> /\ faults = MaxFaults
    /\ session = NewSession
    /\ queued = 0 /\ last = <<>> /\ late = FALSE
-----------------------------------------------------------------------------
\* Dial: the camera's version decides between NewSession16 and NewSession25.
Dial ==
    /\ version = 0 /\ version' \in {16, 25, DTLS}
    /\ UNCHANGED <<sending, inflight, faults, session, queued, last, late>>

CameraSends ==
    /\ version # 0 /\ Len(inflight) < InFlight
    /\ inflight' = Append(inflight, sending) /\ sending' = After(sending)
    /\ UNCHANGED <<version, faults, session, queued, last, late>>

NetworkLoses(k) ==
    /\ faults > 0 /\ k \in DOMAIN inflight /\ inflight' = RemoveAt(inflight, k) /\ faults' = faults - 1
    /\ UNCHANGED <<version, sending, session, queued, last, late>>
-----------------------------------------------------------------------------
\* A complete frame goes to the reader, or the queue is full; the DTLS handler
\* drops the oldest frame instead.
Deliver(s, data) ==
    IF queued + Len(s.out) < QueueSize THEN [s EXCEPT !.out = Append(@, data), !.res = "frame"]
                                       ELSE [s EXCEPT !.res = "error"]

\* Session16: place by place; the frame of the first chunk says how many bytes
\* are awaited, that of the last one where they are cut, beyond the end too.
Read16(s, c) ==
    IF Place(c) # s.wait THEN [s EXCEPT !.wait = 0, !.res = "lost"]
    ELSE LET data == Append(IF Place(c) = 0 THEN <<>> ELSE s.data, c) IN
         IF Len(data) < Count(data[1])
         THEN [s EXCEPT !.data = data, !.wait = @ + 1, !.res = "chunk"]
         ELSE IF Count(c) > Len(data)
         THEN [s EXCEPT !.res = "panic"]
         ELSE Deliver([s EXCEPT !.data = data, !.wait = 0], data)

\* Mutant: the number of the chunk is not compared with the one awaited.
HandleChunkAny(s, c) ==
    LET data == Append(IF Place(c) = 0 THEN <<>> ELSE s.data, c)
        t == [s EXCEPT !.data = data, !.wait = c.seq]
    IN  IF IsLast(c) THEN Deliver(t, data)
                     ELSE [t EXCEPT !.wait = (c.seq + 1) % Lap, !.res = "chunk"]

\* Session25.handleChunk behind the reorder buffer.
HandleChunk(s, c) ==
    IF Place(c) # 0 /\ c.seq # s.wait THEN [s EXCEPT !.res = "lost"]
    ELSE LET data == Append(IF Place(c) = 0 THEN <<>> ELSE s.data, c)
             t == [s EXCEPT !.data = data, !.wait = c.seq]
         IN  IF IsLast(c) THEN Deliver(t, data)
                          ELSE [t EXCEPT !.wait = (c.seq + 1) % Lap, !.res = "chunk"]

\* ReorderBuffer.Pop until it has nothing: the next number if it is there; with
\* no slot left, numbers are given up one by one until one is there.
Pops[s \in Sessions] ==
    LET Held(seq) == {c \in s.buf : c.seq = seq}
        next == (s.seq + 1) % Lap
    IN  IF Held(s.seq) # {}
        THEN Pops[HandleChunk([s EXCEPT !.seq = next, !.buf = @ \ Held(s.seq)],
                              CHOOSE c \in Held(s.seq) : TRUE)]
        ELSE IF Cardinality(s.buf) < BufferSize THEN s ELSE Pops[[s EXCEPT !.seq = next]]

\* Mutant: a full buffer gives nothing up.
Read25Keeps(s, c) ==
    IF c.seq = s.seq THEN Pops[HandleChunk([s EXCEPT !.seq = (c.seq + 1) % Lap], c)]
    ELSE [s EXCEPT !.buf = {d \in @ : d.seq # c.seq} \cup {c}, !.res = "reorder"]

Read25(s, c) ==
    IF c.seq = s.seq
    THEN Pops[HandleChunk([s EXCEPT !.seq = (c.seq + 1) % Lap], c)]
    ELSE Pops[[s EXCEPT !.buf = {d \in @ : d.seq # c.seq} \cup {c}, !.res = "reorder"]]

\* FrameHandler.handleVideo: a new frame number starts over, a wrong place
\* forgets the frame, number included, so that its rest is dropped; the last
\* chunk brings the frame info.  Frame number 0 is no new number.
ReadDtls(s, c) ==
    LET new == FrameNo(c) # s.frame
        t == IF new THEN [s EXCEPT !.frame = FrameNo(c), !.wait = 0, !.data = <<>>] ELSE s
        u == [t EXCEPT !.data = Append(@, c), !.wait = @ + 1]
        forgotten == [t EXCEPT !.frame = 0, !.wait = 0, !.data = <<>>]
    IN  IF Place(c) # t.wait THEN [forgotten EXCEPT !.res = "lost"]
        ELSE IF u.wait < Count(c) \/ FrameNo(c) = 0 THEN [u EXCEPT !.res = "chunk"]
        ELSE [forgotten EXCEPT !.out = <<u.data>>, !.res = "frame"]

Read(s, c) ==
    CASE version = 16 -> Read16(s, c) [] version = 25 -> Read25(s, c) [] OTHER -> ReadDtls(s, c)

\* Mutant: a lost chunk ends the worker too.
RunningUndisturbed == session.res \notin {"error", "panic", "lost"}

\* Nothing but a full queue ends the worker; with protocol 25 a chunk that is
\* handled after the full queue hides it.
Running == session.res \notin {"error", "panic"}

\* A chunk whose number was passed already.
Behind(seq) == (session.seq + Lap - seq) % Lap \in 1..(Lap \div 2)

\* One round of the worker.
Receive(k, double) ==
    /\ Running /\ k \in DOMAIN inflight
    /\ faults' = faults - (IF k > 1 THEN 1 ELSE 0) - (IF double THEN 1 ELSE 0) /\ faults' >= 0
    /\ inflight' = IF double THEN inflight ELSE RemoveAt(inflight, k)
    /\ \E s \in {Read(session, inflight[k])} :
       /\ session' = [s EXCEPT !.out = <<>>]
       /\ queued' = Min({queued + Len(s.out), QueueSize})
       /\ last' = IF s.out = <<>> THEN last ELSE Last(s.out)
       /\ late' = (late \/ (version = 25 /\ Behind(inflight[k].seq)))
    /\ UNCHANGED <<version, sending>>

RecvFrameData ==
    /\ queued > 0 /\ queued' = queued - 1
    /\ UNCHANGED <<version, sending, inflight, faults, session, last, late>>

Next ==
    \/ Dial \/ CameraSends \/ RecvFrameData
    \/ \E k \in 1..InFlight : NetworkLoses(k) \/ \E double \in BOOLEAN : Receive(k, double)

\* The camera goes on, the worker reads, the reader reads.
Fairness == WF_vars(CameraSends) /\ WF_vars(Receive(1, FALSE)) /\ WF_vars(RecvFrameData)
-----------------------------------------------------------------------------
TypeOK ==
    /\ version \in {0, 16, 25, DTLS} /\ sending \in Chunks /\ faults \in 0..MaxFaults
    /\ Len(inflight) <= InFlight /\ ToSet(inflight) \subseteq Chunks
    /\ session \in Sessions /\ queued \in 0..QueueSize /\ late \in BOOLEAN

\* The reorder buffer has a slot left after every datagram, so that the sending
\* chunk out of order is stored without a check (ReorderBuffer.Push, Pop).
BufferHasRoom == Cardinality(session.buf) < BufferSize

\* A frame handed on consists of its chunks in order, whatever was lost or
\* overtaken.  Protocol 25 keeps that as long as no chunk came after its number
\* was passed (it would stay in the reorder buffer until the numbers wrap);
\* protocol 16, which does not look at the frame number, keeps the places and
\* the length but may join the chunks of two frames.
FramesWhole ==
    last # <<>> /\ ~late =>
        /\ Len(last) = Count(last[1])
        /\ \A i \in DOMAIN last : Place(last[i]) = i - 1
        /\ version # 16 => \A i \in 2..Len(last) : last[i] = After(last[i - 1])

\* After the faults are over frames come again: neither session waits for ever
\* for a chunk that is lost, nor does a full reorder buffer stop it.
KeepsDelivering == (version # 0) ~> (session.res \in {"frame", "error", "panic"})

\* What the module promises.  Frames are whole, the reorder buffer never overflows, and after losses frames
\* come again (Session16, Session25, FrameHandler).
Promise == [](TypeOK /\ BufferHasRoom /\ FramesWhole) /\ KeepsDelivering
=============================================================================
