-------------------------------- MODULE Cs2 --------------------------------
(***************************************************************************)
(* The CS2 connection to a camera (pkg/xiaomi/miss/cs2/conn.go): the UDP     *)
(* handshake, the worker that puts one data channel back in order out of     *)
(* numbered datagrams, the acknowledgements it sends and the reader of the   *)
(* channel.  Its commands are in CommandAck.                                 *)
(* The camera and the network around it are external: datagrams are lost,    *)
(* doubled and reordered, and the camera repeats what was not acknowledged.  *)
(***************************************************************************)
EXTENDS Integers, SequencesExt

CONSTANTS Wire,       \* the camera's packets: sequences of units of 4 bytes
          Written,    \* the messages those packets carry
          PushSizes,  \* sizes of the reorder buffer: channel 0 has none
          PopSize,    \* places in the reader's queue
          Numbers      \* sequence numbers are taken modulo this (2^16)

VARIABLES phase, isTCP, pushSize,
          next, net, acked,          \* camera and network
          waitSeq, pushBuf, waitData, waitSize,
          got, unread, told          \* the reader's queue and its end

dialing == <<phase, isTCP, pushSize>>
network == <<next, net, acked>>
channel == <<waitSeq, pushBuf, waitData, waitSize>>
reading == <<got, unread, told>>

Packets == 1..Len(Wire)
Seq16(i) == (i - 1) % Numbers
Half == Numbers \div 2                \* int16(diff) < 0 from here on

Init ==
    /\ phase = "search" /\ isTCP = FALSE /\ pushSize \in PushSizes
    /\ next = 1 /\ net = {} /\ acked = {}
    /\ waitSeq = 0 /\ pushBuf = <<>> /\ waitData = <<>> /\ waitSize = 0
    /\ got = <<>> /\ unread = 0 /\ told = FALSE
-----------------------------------------------------------------------------
\* WriteUntil repeats the request each second until an answer of the kind it
\* waits for; five seconds bound both steps of the handshake together.
HandshakePunch == phase = "search" /\ phase' = "ready"

HandshakeReady(tcp) ==
    /\ phase = "ready"
    /\ phase' = "up" /\ isTCP' = tcp

HandshakeFails == phase \in {"search", "ready"} /\ phase' = "failed"

Dial ==
    /\ \/ HandshakePunch /\ UNCHANGED isTCP
       \/ \E tcp \in BOOLEAN : HandshakeReady(tcp)
       \/ HandshakeFails /\ UNCHANGED isTCP
    /\ UNCHANGED <<pushSize, network, channel, reading>>
-----------------------------------------------------------------------------
\* The camera: a window of Half - 1 packets is open at a time, what is not
\* acknowledged is sent again, and a double older than the window is gone; over
\* TCP everything is written once, in order.
CameraSends(i) ==
    /\ phase = "up" /\ i \in Packets
    /\ i = next \/ (~isTCP /\ i < next /\ i \notin acked)
    /\ isTCP \/ \A j \in Packets \ acked : i < j + Half
    /\ net' = {j \in net : isTCP \/ i < j + Half} \cup {i}
    /\ next' = IF i = next THEN next + 1 ELSE next
    /\ UNCHANGED <<acked, dialing, channel, reading>>

NetworkLoses(i) ==
    /\ ~isTCP /\ i \in net /\ net' = net \ {i}
    /\ UNCHANGED <<next, acked, dialing, channel, reading>>
-----------------------------------------------------------------------------
\* dataChannel.Push: cut whole messages off the front of the collected bytes
\* while there is room for them; "more than four bytes" is more than one unit.
Cut[data \in Seq(Nat \X Nat), size \in Nat, room \in Nat] ==
    IF Len(data) <= 1 THEN [data |-> data, size |-> size, out |-> <<>>, full |-> FALSE]
    ELSE LET need == IF size = 0 THEN Head(data)[2] ELSE size
             body == IF size = 0 THEN Tail(data) ELSE data
         IN  IF need > Len(body)
             THEN [data |-> body, size |-> need, out |-> <<>>, full |-> FALSE]
             ELSE IF room = 0
             THEN [data |-> body, size |-> need, out |-> <<>>, full |-> TRUE]
             ELSE LET rest == Cut[SubSeq(body, need + 1, Len(body)), 0, room - 1]
                  IN  [rest EXCEPT !.out = <<[k \in 1..need |-> body[k][1]]>> \o @]

\* The end of the worker: both channels are closed.
End == phase' = "ended"

Push(data) ==
    \E cut \in {Cut[waitData \o data, waitSize, PopSize - unread]} :
    /\ waitData' = cut.data /\ waitSize' = cut.size
    /\ got' = got \o cut.out /\ unread' = unread + Len(cut.out)
    /\ IF cut.full THEN End ELSE UNCHANGED phase

\* How many buffered packets follow the one just waited for.
RunLength ==
    CHOOSE n \in 0..Cardinality(DOMAIN pushBuf) :
        /\ \A k \in 1..n : (waitSeq + k) % Numbers \in DOMAIN pushBuf
        /\ (waitSeq + n + 1) % Numbers \notin DOMAIN pushBuf

\* Mutant: a packet of the past is kept as one of the future.
NotAwaited(seq) == seq # waitSeq

\* dataChannel.PushSeq: a packet of the future is kept if there is a place, one
\* of the past is dropped, the awaited one goes on with all that follow it.
FromFuture(seq) == (seq + Numbers - waitSeq) % Numbers \in 1..(Half - 1)

PushSeq(i) ==
    LET seq == Seq16(i) IN
    \/ /\ FromFuture(seq)
       /\ pushBuf' = IF seq \in DOMAIN pushBuf \/ Cardinality(DOMAIN pushBuf) >= pushSize
                     THEN pushBuf
                     ELSE [s \in DOMAIN pushBuf \cup {seq} |-> IF s = seq THEN i ELSE pushBuf[s]]
       /\ UNCHANGED <<waitSeq, waitData, waitSize, got, unread, phase>>
    \/ /\ seq = waitSeq
       /\ LET run == [k \in 1..RunLength |-> pushBuf[(waitSeq + k) % Numbers]] IN
          /\ waitSeq' = (waitSeq + 1 + Len(run)) % Numbers
          /\ pushBuf' = [s \in DOMAIN pushBuf \ {Seq16(run[k]) : k \in DOMAIN run} |-> pushBuf[s]]
          /\ Push(FlattenSeq(<<Wire[i]>> \o [k \in DOMAIN run |-> Wire[run[k]]]))
    \/ /\ seq # waitSeq /\ ~FromFuture(seq)
       /\ UNCHANGED <<channel, got, unread, phase>>

\* Mutant: every packet is acknowledged, kept or not.
AcknowledgesAll(seq) == TRUE

\* What the worker acknowledges: all but a packet it had no place for.
Acknowledges(seq) ==
    FromFuture(seq) =>
        pushSize > 0 /\ (seq \in DOMAIN pushBuf \/ Cardinality(DOMAIN pushBuf) < pushSize)

\* One round of the worker: a datagram, which the network may have doubled, or
\* the next frame of the TCP stream.  The acknowledgement may be lost.
WorkerData(i) ==
    /\ phase = "up" /\ i \in net
    /\ IF isTCP
       THEN /\ \A j \in net : i <= j
            /\ net' = net \ {i} /\ acked' = acked \cup {i} /\ Push(Wire[i])
            /\ UNCHANGED <<waitSeq, pushBuf>>
       ELSE /\ net' \in {net, net \ {i}} /\ PushSeq(i)
            /\ acked' \in {acked, IF Acknowledges(Seq16(i)) THEN acked \cup {i} ELSE acked}
    /\ UNCHANGED <<next, isTCP, pushSize, told>>

\* Read fails: a deadline the producer set passed, or Close was called.
WorkerFails ==
    /\ phase = "up" /\ End
    /\ UNCHANGED <<isTCP, pushSize, network, channel, reading>>

\* ReadCommand and ReadPacket: a queued message, or the error after the last.
Pop ==
    /\ IF unread > 0 THEN unread' = unread - 1 /\ UNCHANGED told
                     ELSE phase = "ended" /\ ~told /\ told' = TRUE /\ UNCHANGED unread
    /\ UNCHANGED <<got, dialing, network, channel>>
-----------------------------------------------------------------------------
Next ==
    \/ Dial \/ WorkerFails \/ Pop
    \/ \E i \in Packets : CameraSends(i) \/ NetworkLoses(i) \/ WorkerData(i)

vars == <<dialing, network, channel, reading>>

\* The camera repeats what is not acknowledged, and the network is not dead.
Oldest == CHOOSE i \in Packets : i \notin acked /\ 1..(i - 1) \subseteq acked

Fairness ==
    /\ WF_vars(acked # Packets /\ CameraSends(Oldest))
    /\ SF_vars(acked # Packets /\ WorkerData(Oldest) /\ Oldest \in acked')
-----------------------------------------------------------------------------
TypeOK ==
    /\ phase \in {"search", "ready", "up", "failed", "ended"} /\ isTCP \in BOOLEAN
    /\ pushSize \in PushSizes /\ next \in 1..(Len(Wire) + 1)
    /\ net \subseteq Packets /\ acked \subseteq Packets
    /\ waitSeq \in 0..(Numbers - 1) /\ waitSize \in Nat
    /\ DOMAIN pushBuf \subseteq 0..(Numbers - 1) /\ Cardinality(DOMAIN pushBuf) <= pushSize
    /\ unread \in 0..PopSize /\ told \in BOOLEAN

Abstract == INSTANCE Channel WITH over <- phase = "ended"

\* Through losses, doubles, reordering and a wrap of the numbers the reader
\* gets the camera's messages whole and in order (PushSeq and Push).
InOrder == Abstract!Spec

\* What the camera writes arrives, unless the connection ends: nothing the
\* worker acknowledged was thrown away (PushSeq's -1 and the worker's ack).
AllArrive == (phase = "up") ~> (phase = "ended" \/ got = Written)

\* What the module promises.  The channel implements Channel, and brings everything (cs2 Conn).
Promise == []TypeOK /\ InOrder /\ AllArrive
=============================================================================
