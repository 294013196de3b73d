--------------------------- MODULE ServersProofs ---------------------------
(***************************************************************************)
(* Proofs about the parts of MCServers that every viewer and every dial      *)
(* passes through: the queue of a viewer (Sender), the waiter that dials,    *)
(* child processes and signalling wait on (Waiter), and the registry of      *)
(* streams and preloads (Registry); about the sessions of three servers, HLS,*)
(* WebRTC and RTSP with its child processes; and about the RTSP client       *)
(* (Rtsp).  Each is instantiated with constants and variables of its own, so *)
(* a theorem is about any number of workers, waiters, callers, names,        *)
(* requests, connections and tracks.                                         *)
(***************************************************************************)
EXTENDS Integers, Sequences, FiniteSets, SequenceTheorems, TLAPS

CONSTANTS Workers, BufSize, MaxPackets            \* Sender
CONSTANTS Waiters, Callers, Errors, NoError       \* Waiter
CONSTANTS Names, StreamIds, Requests, Queries, None, AtStart  \* Registry

CONSTANTS Conns, Candidates                       \* WebRtc
CONSTANTS Starts, Nothing, MaxStarts              \* RtspServer
CONSTANTS Tracks, NoTrack, MaxAsks                \* Rtsp

VARIABLES buf, queue, done, running, held, packets, drops, input, output, panicked
VARIABLES state, group, err, mu, waiter, result, caller, says, final
VARIABLES streams, unused, preloads, configured, attached, preloadsMu, step, of, joined,
          query, met, unsaved
VARIABLES format, fed, found, alive, leaving, init, buffer, written, taken, asking
VARIABLES role, offering, sendAnswer, given, local, pc, event, onStream, sessions,
          ctxConn, ctxList, remote, added
VARIABLES at, kind, closer, listed, socket, phase, waits, chan, process, started
VARIABLES mode, link, backchannel, receivers, call, wanted, todo, answered, setups, played, start,
          reading, asks, halfway

Viewer == INSTANCE Sender
Waiting == INSTANCE Waiter
Registered == INSTANCE Registry WITH held <- joined
Session == INSTANCE Hls
             WITH attached <- fed, listed <- found, got <- taken, at <- asking
Peers == INSTANCE WebRtc
           WITH kind <- role, step <- offering, answered <- given, attached <- onStream
Server == INSTANCE RtspServer WITH waiter <- waits
Client == INSTANCE Rtsp WITH state <- mode

(***************************************************************************)
(* The queue of a viewer                                                   *)
(***************************************************************************)
\* Sequences of packet numbers: rising, and how they lie to a number and to
\* each other.
Rising(s) == \A i, j \in 1..Len(s) : i < j => s[i] < s[j]
Below(s, n) == \A i \in 1..Len(s) : s[i] < n
Above(s, n) == \A i \in 1..Len(s) : n < s[i]
Before(s, t) == \A i \in 1..Len(s), j \in 1..Len(t) : s[i] < t[j]

\* A packet at the end of a sequence.
LEMMA Appended ==
    ASSUME NEW s \in Seq(Nat), NEW t \in Seq(Nat), NEW n \in Nat, NEW m \in Nat
    PROVE  /\ Rising(s) /\ Below(s, n) => Rising(Append(s, n))
           /\ Below(s, m) /\ n < m => Below(Append(s, n), m)
           /\ Above(s, m) /\ m < n => Above(Append(s, n), m)
           /\ Before(t, s) /\ Below(t, n) => Before(t, Append(s, n))
           /\ Before(s, t) /\ Above(t, n) => Before(Append(s, n), t)
<1> DEFINE a == Append(s, n)
<1>1. /\ Len(s) \in Nat /\ Len(a) = Len(s) + 1 /\ a[Len(s) + 1] = n
      /\ \A i \in 1..Len(s) : a[i] = s[i] /\ s[i] \in Nat
  BY AppendProperties, LenProperties, ElementOfSeq
<1>2. \A i \in 1..Len(a) : i = Len(s) + 1 \/ i \in 1..Len(s)
  BY <1>1
<1>3. Len(t) \in Nat /\ \A j \in 1..Len(t) : t[j] \in Nat
  BY LenProperties, ElementOfSeq
<1> HIDE DEF a
<1>4. ASSUME Rising(s), Below(s, n) PROVE Rising(a)
  <2> SUFFICES ASSUME NEW i \in 1..Len(a), NEW j \in 1..Len(a), i < j PROVE a[i] < a[j]
    BY DEF Rising
  <2>1. i \in 1..Len(s)
    BY <1>1
  <2>2. QED
    BY <1>1, <1>2, <1>4, <2>1 DEF Rising, Below
<1>5. ASSUME Below(s, m), n < m PROVE Below(a, m)
  BY <1>1, <1>2, <1>5 DEF Below
<1>6. ASSUME Above(s, m), m < n PROVE Above(a, m)
  BY <1>1, <1>2, <1>6 DEF Above
<1>7. ASSUME Before(t, s), Below(t, n) PROVE Before(t, a)
  BY <1>1, <1>2, <1>7 DEF Before, Below
<1>8. ASSUME Before(s, t), Above(t, n) PROVE Before(a, t)
  BY <1>1, <1>2, <1>8 DEF Before, Above
<1>9. QED
  BY <1>4, <1>5, <1>6, <1>7, <1>8 DEF a

\* The packet at the front of a sequence, and what is left of it.
LEMMA TakenOff ==
    ASSUME NEW s \in Seq(Nat), NEW t \in Seq(Nat), NEW m \in Nat, s # <<>>
    PROVE  /\ Rising(s) => Rising(Tail(s)) /\ Above(Tail(s), Head(s))
           /\ Below(s, m) => Below(Tail(s), m) /\ Head(s) < m
           /\ Before(t, s) => Before(t, Tail(s)) /\ Below(t, Head(s))
<1> DEFINE r == Tail(s)
<1>1. /\ Len(s) \in Nat \ {0} /\ Len(r) = Len(s) - 1 /\ Head(s) = s[1]
      /\ \A i \in 1..Len(r) : r[i] = s[i + 1]
  BY HeadTailProperties, EmptySeq DEF Head
<1>2. \A i \in 1..Len(r) : i + 1 \in 1..Len(s) /\ 1 < i + 1
  BY <1>1
<1>3. 1 \in 1..Len(s)
  BY <1>1
<1> HIDE DEF r
<1>4. ASSUME Rising(s) PROVE Rising(r) /\ Above(r, Head(s))
  <2>1. ASSUME NEW i \in 1..Len(r), NEW j \in 1..Len(r), i < j PROVE r[i] < r[j]
    <3>1. i + 1 < j + 1
      BY <1>1, <2>1
    <3>2. QED
      BY <1>1, <1>2, <1>4, <3>1 DEF Rising
  <2>2. Above(r, Head(s))
    BY <1>1, <1>2, <1>3, <1>4 DEF Rising, Above
  <2>3. QED
    BY <2>1, <2>2 DEF Rising
<1>5. ASSUME Below(s, m) PROVE Below(r, m) /\ Head(s) < m
  BY <1>1, <1>2, <1>3, <1>5 DEF Below
<1>6. ASSUME Before(t, s) PROVE Before(t, r) /\ Below(t, Head(s))
  BY <1>1, <1>2, <1>3, <1>6 DEF Before, Below
<1>7. QED
  BY <1>4, <1>5, <1>6 DEF r

\* Start makes one worker at most, and only a worker holds a packet.
OneWorker ==
    /\ \A v, w \in running : v = w
    /\ running # {} => done
    /\ \A w \in Workers : held[w] # 0 => w \in running

\* The packets behind the source are in its order: those the viewer has, the
\* one its worker holds, those in the queue, and then those not yet fed.
Ordered ==
    /\ Rising(output) /\ Rising(queue) /\ Before(output, queue)
    /\ \A w \in Workers : held[w] # 0 => Below(output, held[w]) /\ Above(queue, held[w])
    /\ Below(output, input + 1) /\ Below(queue, input + 1)
    /\ \A w \in Workers : held[w] < input + 1

\* What was queued is with the viewer, in the worker's hand or in the queue.
Accounted ==
    packets = Len(output) + Len(queue) + IF \E w \in Workers : held[w] # 0 THEN 1 ELSE 0

ViewerTypes ==
    /\ queue \in Seq(1..MaxPackets) /\ output \in Seq(1..MaxPackets)
    /\ held \in [Workers -> 0..MaxPackets] /\ running \subseteq Workers
    /\ buf \in {"open", "nil"} /\ done \in BOOLEAN /\ panicked = FALSE
    /\ input \in 0..MaxPackets /\ packets \in Nat /\ drops \in Nat
    /\ packets + drops <= input /\ Len(queue) <= BufSize

ViewerInv == ViewerTypes /\ OneWorker /\ Ordered /\ Accounted

LEMMA ViewerStep ==
    ASSUME BufSize \in Nat, MaxPackets \in Nat, ViewerInv, [Viewer!Next]_(Viewer!vars)
    PROVE  ViewerInv'
<1> USE DEF Viewer!counts
<1>0. ViewerTypes /\ OneWorker /\ Ordered /\ Accounted
  BY DEF ViewerInv
<1>a. /\ queue \in Seq(Nat) /\ output \in Seq(Nat) /\ Len(queue) \in Nat /\ Len(output) \in Nat
      /\ \A w \in Workers : held[w] \in 0..MaxPackets
      /\ input \in Nat /\ input + 1 \in Nat /\ input + 1 + 1 \in Nat
  <2>1. 1..MaxPackets \subseteq Nat
    OBVIOUS
  <2>2. queue \in Seq(Nat) /\ output \in Seq(Nat)
    BY <1>0, <2>1, SeqMonotonic DEF ViewerTypes
  <2>3. QED
    BY <1>0, <2>2, LenProperties DEF ViewerTypes
<1>1. CASE Viewer!Input
  <2>0. /\ input < MaxPackets /\ input' = input + 1 /\ panicked' = FALSE
        /\ UNCHANGED <<buf, done, running, held, output>>
    BY <1>0, <1>1 DEF Viewer!Input, ViewerTypes
  <2>1. /\ Below(output, input' + 1) /\ Below(queue, input' + 1)
        /\ \A w \in Workers : held[w] < input' + 1 /\ held[w] < input + 1
    <3>1. \A i \in 1..Len(output) : output[i] \in Nat
      BY <1>a, ElementOfSeq
    <3>2. \A i \in 1..Len(queue) : queue[i] \in Nat
      BY <1>a, ElementOfSeq
    <3>3. \A n \in Nat : n < input + 1 => n < input' + 1
      BY <1>a, <2>0
    <3>4. QED
      BY <1>0, <1>a, <3>1, <3>2, <3>3 DEF Ordered, Below
  <2>2. OneWorker'
    BY <1>0, <2>0 DEF OneWorker
  <2>3. CASE buf = "open" /\ Len(queue) < BufSize
    <3>1. queue' = Append(queue, input + 1) /\ packets' = packets + 1 /\ drops' = drops
      BY <1>1, <2>0, <2>3 DEF Viewer!Input
    <3>2. input + 1 \in 1..MaxPackets
      BY <1>a, <2>0
    <3>3. queue' \in Seq(1..MaxPackets) /\ Len(queue') = Len(queue) + 1
      BY <1>0, <3>1, <3>2, AppendProperties DEF ViewerTypes
    <3>4. ViewerTypes'
      BY <1>0, <1>a, <2>0, <2>3, <3>1, <3>2, <3>3 DEF ViewerTypes
    <3>5. /\ Rising(queue') /\ Before(output, queue') /\ Below(queue', input' + 1)
          /\ \A w \in Workers : held[w] # 0 => Above(queue', held[w])
      <4>1. Rising(queue')
        BY <1>0, <1>a, <3>1, Appended DEF Ordered
      <4>2. Before(output, queue')
        BY <1>0, <1>a, <3>1, Appended DEF Ordered
      <4>3. Below(queue', input' + 1)
        <5>1. input' + 1 \in Nat /\ input + 1 < input' + 1
          BY <1>a, <2>0
        <5>2. QED
          BY <1>a, <2>1, <3>1, <5>1, Appended
      <4>4. ASSUME NEW w \in Workers, held[w] # 0 PROVE Above(queue', held[w])
        <5>1. held[w] \in Nat /\ held[w] < input + 1 /\ Above(queue, held[w])
          BY <1>0, <1>a, <2>1, <4>4 DEF Ordered
        <5>2. QED
          BY <1>a, <3>1, <5>1, Appended
      <4>5. QED
        BY <4>1, <4>2, <4>3, <4>4
    <3>6. Ordered'
      BY <1>0, <2>0, <2>1, <3>5 DEF Ordered
    <3>7. Accounted'
      BY <1>0, <1>a, <2>0, <3>1, <3>3 DEF ViewerTypes, Accounted
    <3>8. QED
      BY <2>2, <3>4, <3>6, <3>7 DEF ViewerInv
  <2>4. CASE ~(buf = "open" /\ Len(queue) < BufSize)
    <3>1. drops' = drops + 1 /\ queue' = queue /\ packets' = packets
      BY <1>1, <2>4 DEF Viewer!Input
    <3>2. ViewerTypes'
      BY <1>0, <1>a, <2>0, <3>1 DEF ViewerTypes
    <3>3. Ordered'
      BY <1>0, <2>0, <2>1, <3>1 DEF Ordered
    <3>4. Accounted'
      BY <1>0, <2>0, <3>1 DEF Accounted
    <3>5. QED
      BY <2>2, <3>2, <3>3, <3>4 DEF ViewerInv
  <2>5. QED
    BY <2>3, <2>4
<1>2. CASE Viewer!Start
  <2>1. PICK w \in Workers \ running : running' = running \cup {w}
    BY <1>2 DEF Viewer!Start
  <2>2. ~done /\ done' = TRUE /\ UNCHANGED <<buf, queue, held, packets, drops, input, output, panicked>>
    BY <1>2 DEF Viewer!Start
  <2>3. running = {}
    BY <1>0, <2>2 DEF OneWorker
  <2>4. OneWorker'
    BY <1>0, <2>1, <2>2, <2>3 DEF OneWorker
  <2>5. ViewerTypes'
    BY <1>0, <2>1, <2>2 DEF ViewerTypes
  <2>6. Ordered' /\ Accounted'
    BY <1>0, <2>2 DEF Ordered, Accounted
  <2>7. QED
    BY <2>4, <2>5, <2>6 DEF ViewerInv
<1>3. ASSUME NEW w \in Workers, Viewer!Take(w) PROVE ViewerInv'
  <2>1. /\ w \in running /\ held[w] = 0 /\ queue # <<>>
        /\ held' = [held EXCEPT ![w] = Head(queue)] /\ queue' = Tail(queue)
        /\ UNCHANGED <<buf, done, running, packets, drops, input, output, panicked>>
    BY <1>3 DEF Viewer!Take
  <2>2. /\ queue' \in Seq(1..MaxPackets) /\ Len(queue') = Len(queue) - 1
        /\ Head(queue) \in 1..MaxPackets
    BY <1>0, <2>1, HeadTailProperties DEF ViewerTypes
  <2>3. \A v \in Workers : held'[v] = IF v = w THEN Head(queue) ELSE 0
    BY <1>0, <2>1 DEF OneWorker, ViewerTypes
  <2>4. ViewerTypes'
    <3>1. held' \in [Workers -> 0..MaxPackets]
      BY <1>0, <2>1, <2>2 DEF ViewerTypes
    <3>2. Len(queue') <= BufSize
      BY <1>0, <1>a, <2>2 DEF ViewerTypes
    <3>3. QED
      BY <1>0, <2>1, <2>2, <3>1, <3>2 DEF ViewerTypes
  <2>5. OneWorker'
    BY <1>0, <2>1, <2>3 DEF OneWorker
  <2>6. Ordered'
    <3>1. /\ Rising(queue') /\ Above(queue', Head(queue)) /\ Before(output, queue')
          /\ Below(output, Head(queue)) /\ Below(queue', input + 1) /\ Head(queue) < input + 1
      <4>1. Rising(queue) /\ Below(queue, input + 1) /\ Before(output, queue)
        BY <1>0 DEF Ordered
      <4>2. QED
        BY <1>a, <2>1, <4>1, TakenOff
    <3>2. 0 < input + 1
      BY <1>a
    <3>3. QED
      BY <1>0, <2>1, <2>3, <3>1, <3>2 DEF Ordered
  <2>7. Accounted'
    <3>1. \A v \in Workers : held[v] = 0
      BY <1>0, <2>1 DEF OneWorker
    <3>2. \E v \in Workers : held'[v] # 0
      BY <2>2, <2>3
    <3>3. packets = Len(output) + Len(queue)
      BY <1>0, <1>a, <3>1 DEF Accounted
    <3>4. packets' = Len(output') + Len(queue') + 1
      BY <1>a, <2>1, <2>2, <3>3
    <3>5. QED
      BY <3>2, <3>4 DEF Accounted
  <2>8. QED
    BY <2>4, <2>5, <2>6, <2>7 DEF ViewerInv
<1>4. ASSUME NEW w \in Workers, Viewer!Output(w) PROVE ViewerInv'
  <2>1. /\ held[w] # 0 /\ output' = Append(output, held[w]) /\ held' = [held EXCEPT ![w] = 0]
        /\ UNCHANGED <<buf, queue, done, running, packets, drops, input, panicked>>
    BY <1>4 DEF Viewer!Output
  <2>2. held[w] \in 1..MaxPackets /\ held[w] \in Nat
    BY <1>a, <2>1
  <2>3. output' \in Seq(1..MaxPackets) /\ Len(output') = Len(output) + 1
    BY <1>0, <2>1, <2>2, AppendProperties DEF ViewerTypes
  <2>4. \A v \in Workers : held'[v] = 0
    BY <1>0, <2>1 DEF OneWorker, ViewerTypes
  <2>5. ViewerTypes'
    <3>1. held' \in [Workers -> 0..MaxPackets]
      BY <1>0, <2>1 DEF ViewerTypes
    <3>2. QED
      BY <1>0, <2>1, <2>3, <3>1 DEF ViewerTypes
  <2>6. OneWorker'
    BY <1>0, <2>1, <2>4 DEF OneWorker
  <2>7. Ordered'
    <3>1. /\ Rising(output') /\ Before(output', queue) /\ Below(output', input + 1)
      BY <1>0, <1>a, <2>1, <2>2, Appended DEF Ordered
    <3>2. 0 < input + 1
      BY <1>a
    <3>3. QED
      BY <1>0, <2>1, <2>4, <3>1, <3>2 DEF Ordered
  <2>8. Accounted'
    <3>1. packets = Len(output) + Len(queue) + 1
      BY <1>0, <2>1 DEF Accounted
    <3>2. packets' = Len(output') + Len(queue') + 0
      BY <1>a, <2>1, <2>3, <3>1
    <3>3. QED
      BY <2>4, <3>2 DEF Accounted
  <2>9. QED
    BY <2>5, <2>6, <2>7, <2>8 DEF ViewerInv
<1>5. ASSUME NEW w \in Workers, Viewer!Ends(w) PROVE ViewerInv'
  <2>1. /\ held[w] = 0 /\ running' = running \ {w}
        /\ UNCHANGED <<buf, queue, done, held, packets, drops, input, output, panicked>>
    BY <1>5 DEF Viewer!Ends
  <2>2. OneWorker'
    BY <1>0, <2>1 DEF OneWorker
  <2>3. ViewerTypes'
    BY <1>0, <2>1 DEF ViewerTypes
  <2>4. Ordered' /\ Accounted'
    BY <1>0, <2>1 DEF Ordered, Accounted
  <2>5. QED
    BY <2>2, <2>3, <2>4 DEF ViewerInv
<1>6. CASE Viewer!Close \/ UNCHANGED Viewer!vars
  <2>1. /\ buf' \in {"open", "nil"}
        /\ UNCHANGED <<queue, done, running, held, packets, drops, input, output, panicked>>
    BY <1>0, <1>6 DEF Viewer!Close, Viewer!vars, ViewerTypes
  <2>2. OneWorker' /\ Ordered' /\ Accounted'
    BY <1>0, <2>1 DEF OneWorker, Ordered, Accounted
  <2>3. ViewerTypes'
    BY <1>0, <2>1 DEF ViewerTypes
  <2>4. QED
    BY <2>2, <2>3 DEF ViewerInv
<1>7. QED
  BY <1>1, <1>2, <1>3, <1>4, <1>5, <1>6 DEF Viewer!Next, Viewer!Worker

LEMMA ViewerInvariance ==
    ASSUME BufSize \in Nat, MaxPackets \in Nat
    PROVE  Viewer!Spec => []ViewerInv
<1>1. Viewer!Init => ViewerInv
  <2> SUFFICES ASSUME Viewer!Init PROVE ViewerInv
    OBVIOUS
  <2>1. /\ queue = <<>> /\ output = <<>> /\ Len(<<>>) = 0 /\ <<>> \in Seq(1..MaxPackets)
        /\ \A w \in Workers : held[w] = 0
    BY EmptySeq DEF Viewer!Init
  <2>2. OneWorker
    BY <2>1 DEF Viewer!Init, OneWorker
  <2>3. Ordered
    <3>1. \A i \in 1..Len(<<>>) : FALSE
      BY <2>1
    <3>2. input = 0
      BY DEF Viewer!Init
    <3>3. /\ Rising(output) /\ Rising(queue) /\ Before(output, queue)
          /\ Below(output, input + 1) /\ Below(queue, input + 1)
      BY <2>1, <3>1 DEF Rising, Before, Below
    <3>4. \A w \in Workers : held[w] < input + 1
      BY <2>1, <3>2
    <3>5. \A w \in Workers : ~(held[w] # 0)
      BY <2>1
    <3>6. QED
      BY <3>3, <3>4, <3>5, Zenon DEF Ordered
  <2>4. Accounted
    BY <2>1 DEF Viewer!Init, Accounted
  <2>5. ViewerTypes
    <3>1. held \in [Workers -> 0..MaxPackets]
      BY DEF Viewer!Init
    <3>2. queue \in Seq(1..MaxPackets) /\ output \in Seq(1..MaxPackets) /\ Len(queue) <= BufSize
      BY <2>1
    <3>3. /\ input \in 0..MaxPackets /\ packets \in Nat /\ drops \in Nat
          /\ packets + drops <= input
      BY DEF Viewer!Init
    <3>4. /\ running \subseteq Workers /\ buf \in {"open", "nil"}
          /\ done \in BOOLEAN /\ panicked = FALSE
      BY Zenon DEF Viewer!Init
    <3>5. QED
      BY <3>1, <3>2, <3>3, <3>4 DEF ViewerTypes
  <2>6. QED
    BY <2>2, <2>3, <2>4, <2>5 DEF ViewerInv
<1>2. ViewerInv /\ [Viewer!Next]_(Viewer!vars) => ViewerInv'
  BY ViewerStep
<1>3. QED
  BY <1>1, <1>2, PTL DEF Viewer!Spec

\* However often Start is called, from however many goroutines, and whatever
\* the sizes of queue and stream: the viewer gets its packets in the order of
\* the source and each once, and a source that goes on feeding a viewer being
\* closed never sends on a closed channel (track.go, Start and Close).
THEOREM ViewerInOrder ==
    ASSUME BufSize \in Nat, MaxPackets \in Nat
    PROVE  Viewer!Spec => [](Viewer!TypeOK /\ Viewer!NeverPanics /\ Viewer!InOrder)
<1>1. ViewerInv => Viewer!TypeOK /\ Viewer!NeverPanics /\ Viewer!InOrder
  BY DEF ViewerInv, ViewerTypes, Ordered, Rising, Viewer!TypeOK, Viewer!NeverPanics, Viewer!InOrder
<1>2. QED
  BY <1>1, ViewerInvariance, PTL

\* No packet that was queued is lost, also not the one the worker holds while
\* the viewer is closed: the safety half of Drains (track.go, the range over
\* the channel).
THEOREM QueuedIsKept ==
    ASSUME BufSize \in Nat, MaxPackets \in Nat
    PROVE  Viewer!Spec => []Accounted
<1>1. ViewerInv => Accounted
  BY DEF ViewerInv
<1>2. QED
  BY <1>1, ViewerInvariance, PTL

(***************************************************************************)
(* The waiter                                                              *)
(***************************************************************************)
\* The mutex is held by at most one Done, between its two halves.
OneDone ==
    /\ mu <=> \E c \in Callers : caller[c] = "finish"
    /\ \A b, c \in Callers : caller[b] = "finish" /\ caller[c] = "finish" => b = c

\* The group counts the one task that the first Wait adds, and a Wait that was
\* called leaves it behind until a Done takes it.
OneTask ==
    /\ group = IF state = 1 THEN 1 ELSE 0
    /\ state = -1 => \E c \in Callers : caller[c] # "new"
    /\ \A w \in Waiters : waiter[w] # "new" =>
          state = 1 \/ \E c \in Callers : caller[c] # "new"

\* The waiter is finished once: until then it has no error, and what anybody
\* returned with is its error or none.
OneError ==
    /\ err = final /\ (state # -1 => final = NoError)
    /\ \A w \in Waiters : result[w] \in {NoError, final}
    /\ \A w \in Waiters : waiter[w] = "back" => \E c \in Callers : caller[c] # "new"

WaiterTypes ==
    /\ state \in {-1, 0, 1} /\ group \in {0, 1} /\ mu \in BOOLEAN
    /\ err \in Errors \cup {NoError} /\ final \in Errors \cup {NoError}
    /\ waiter \in [Waiters -> {"new", "waits", "back"}]
    /\ caller \in [Callers -> {"new", "finish", "done"}]
    /\ result \in [Waiters -> Errors \cup {NoError}]
    /\ says \in [Callers -> Errors \cup {NoError}]

WaiterInv == WaiterTypes /\ OneDone /\ OneTask /\ OneError

LEMMA WaiterStep ==
    ASSUME WaiterInv, [Waiting!Next]_(Waiting!vars)
    PROVE  WaiterInv'
<1>0. WaiterTypes /\ OneDone /\ OneTask /\ OneError
  BY DEF WaiterInv
<1>1. ASSUME NEW w \in Waiters, Waiting!Wait(w) PROVE WaiterInv'
  <2>1. /\ waiter[w] = "new" /\ waiter' = [waiter EXCEPT ![w] = "waits"]
        /\ UNCHANGED <<err, mu, result, caller, says, final>>
        /\ IF state = 0 THEN state' = 1 /\ group' = group + 1 ELSE UNCHANGED <<state, group>>
    BY <1>1 DEF Waiting!Wait
  <2>2. state' = (IF state = 0 THEN 1 ELSE state) /\ group' = IF state' = 1 THEN 1 ELSE 0
    BY <1>0, <2>1 DEF OneTask, WaiterTypes
  <2>3. \A v \in Waiters : waiter'[v] = IF v = w THEN "waits" ELSE waiter[v]
    BY <1>0, <2>1 DEF WaiterTypes
  <2>4. WaiterTypes'
    BY <1>0, <2>1, <2>2 DEF WaiterTypes
  <2>5. OneDone'
    BY <1>0, <2>1 DEF OneDone
  <2>6. OneTask'
    BY <1>0, <2>1, <2>2 DEF OneTask, WaiterTypes
  <2>7. OneError'
    BY <1>0, <2>1, <2>2, <2>3 DEF OneError
  <2>8. QED
    BY <2>4, <2>5, <2>6, <2>7 DEF WaiterInv
<1>2. ASSUME NEW w \in Waiters, Waiting!Return(w) PROVE WaiterInv'
  <2>1. /\ waiter[w] = "waits" /\ group = 0 /\ waiter' = [waiter EXCEPT ![w] = "back"]
        /\ result' = [result EXCEPT ![w] = err]
        /\ UNCHANGED <<state, group, err, mu, caller, says, final>>
    BY <1>2 DEF Waiting!Return
  <2>2. \E c \in Callers : caller[c] # "new"
    BY <1>0, <2>1 DEF OneTask
  <2>3. WaiterTypes'
    BY <1>0, <2>1 DEF WaiterTypes
  <2>4. OneDone' /\ OneTask'
    BY <1>0, <2>1, <2>2 DEF OneDone, OneTask
  <2>5. OneError'
    BY <1>0, <2>1, <2>2 DEF OneError, WaiterTypes
  <2>6. QED
    BY <2>3, <2>4, <2>5 DEF WaiterInv
<1>3. ASSUME NEW c \in Callers, Waiting!Done(c) PROVE WaiterInv'
  <2>1. /\ ~mu /\ mu' = TRUE /\ caller' = [caller EXCEPT ![c] = "finish"]
        /\ IF state > 0 THEN state' = state - 1 /\ group' = group - 1 ELSE UNCHANGED <<state, group>>
        /\ UNCHANGED <<err, waiter, result, says, final>>
    BY <1>3 DEF Waiting!Done
  <2>2. /\ state' = (IF state = 1 THEN 0 ELSE state) /\ group' = 0
    BY <1>0, <2>1 DEF WaiterTypes, OneTask
  <2>3. \A b \in Callers : caller'[b] = IF b = c THEN "finish" ELSE caller[b]
    BY <1>0, <2>1 DEF WaiterTypes
  <2>4. caller'[c] # "new"
    BY <2>3
  <2>5. WaiterTypes'
    BY <1>0, <2>1, <2>2 DEF WaiterTypes
  <2>6. OneDone'
    <3>1. \A b \in Callers : caller[b] # "finish"
      BY <1>0, <2>1 DEF OneDone
    <3>2. QED
      BY <2>1, <2>3, <3>1 DEF OneDone
  <2>7. OneTask'
    BY <1>0, <2>2, <2>4 DEF OneTask, WaiterTypes
  <2>8. OneError'
    BY <1>0, <2>1, <2>2, <2>4 DEF OneError
  <2>9. QED
    BY <2>5, <2>6, <2>7, <2>8 DEF WaiterInv
<1>4. ASSUME NEW c \in Callers, Waiting!Finish(c) PROVE WaiterInv'
  <2>1. /\ caller[c] = "finish" /\ mu' = FALSE /\ caller' = [caller EXCEPT ![c] = "done"]
        /\ IF state = 0 THEN state' = -1 /\ err' = says[c] /\ final' = says[c]
                        ELSE UNCHANGED <<state, err, final>>
        /\ UNCHANGED <<group, waiter, result, says>>
    BY <1>4 DEF Waiting!Finish
  <2>2. \A b \in Callers : caller'[b] = IF b = c THEN "done" ELSE caller[b]
    BY <1>0, <2>1 DEF WaiterTypes
  <2>3. caller'[c] # "new"
    BY <2>2
  <2>4. WaiterTypes'
    BY <1>0, <2>1 DEF WaiterTypes
  <2>5. OneDone'
    BY <1>0, <2>1, <2>2 DEF OneDone
  <2>6. OneTask'
    BY <1>0, <2>1, <2>3 DEF OneTask, WaiterTypes
  <2>7. OneError'
    <3>1. CASE state = 0
      <4>1. \A w \in Waiters : result[w] = NoError
        BY <1>0, <3>1 DEF OneError
      <4>2. QED
        BY <2>1, <2>3, <3>1, <4>1 DEF OneError
    <3>2. CASE state # 0
      BY <1>0, <2>1, <2>3, <3>2 DEF OneError
    <3>3. QED
      BY <3>1, <3>2
  <2>8. QED
    BY <2>4, <2>5, <2>6, <2>7 DEF WaiterInv
<1>5. CASE UNCHANGED Waiting!vars
  BY <1>0, <1>5 DEF WaiterInv, WaiterTypes, OneDone, OneTask, OneError, Waiting!vars
<1>6. QED
  BY <1>1, <1>2, <1>3, <1>4, <1>5 DEF Waiting!Next

\* In whatever order and number Wait and Done are called: the group never goes
\* below zero, nobody passes before a Done, and what a Wait returns is the
\* error of the Done that finished the waiter, or none (waiter.go).
THEOREM FirstDoneWins == Waiting!Spec => [](Waiting!TypeOK /\ Waiting!FirstDoneCounts)
<1>1. Waiting!Init => WaiterInv
  <2> SUFFICES ASSUME Waiting!Init PROVE WaiterInv
    OBVIOUS
  <2>1. /\ state = 0 /\ group = 0 /\ err = NoError /\ mu = FALSE /\ final = NoError
        /\ waiter = [w \in Waiters |-> "new"] /\ result = [w \in Waiters |-> NoError]
        /\ caller = [c \in Callers |-> "new"] /\ says \in [Callers -> Errors \cup {NoError}]
    BY DEF Waiting!Init
  <2>2. mu \in BOOLEAN
    BY <2>1, Zenon
  <2>3. WaiterTypes
    BY <2>1, <2>2 DEF WaiterTypes
  <2>4. OneDone
    BY <2>1 DEF OneDone
  <2>5. OneTask
    BY <2>1 DEF OneTask
  <2>6. OneError
    BY <2>1 DEF OneError
  <2>7. QED
    BY <2>3, <2>4, <2>5, <2>6 DEF WaiterInv
<1>2. WaiterInv /\ [Waiting!Next]_(Waiting!vars) => WaiterInv'
  BY WaiterStep
<1>3. WaiterInv => Waiting!TypeOK /\ Waiting!FirstDoneCounts
  BY DEF WaiterInv, WaiterTypes, OneError, Waiting!TypeOK, Waiting!FirstDoneCounts
<1>4. QED
  BY <1>1, <1>2, <1>3, PTL DEF Waiting!Spec

(***************************************************************************)
(* The registry of streams and preloads                                    *)
(***************************************************************************)
Stages == {"new", "probe", "publish", "sleep", "add", "attach", "save", "del", "clear",
           "done"}
Preload == [stream : StreamIds, cons : Requests, query : {Registered!Parsed(q) : q \in Queries}]

\* The file can name a stream or not; "none" is nothing else.
RegistryAssumption ==
    /\ AtStart \in [Names -> StreamIds \cup {None}]
    /\ None \notin Names /\ None \notin StreamIds /\ None \notin Requests
    /\ None \notin Queries /\ None \notin Preload

RegistryTypes ==
    /\ streams \in [Names -> StreamIds \cup {None}] /\ unused \subseteq StreamIds
    /\ preloads \in [Names -> Preload \cup {None}]
    /\ configured \in [Names -> Queries \cup {None}]
    /\ attached \in [StreamIds -> SUBSET Requests] /\ preloadsMu \in Requests \cup {None}
    /\ step \in [Requests -> Stages] /\ of \in [Requests -> Names \cup {None}]
    /\ joined \in [Requests -> StreamIds \cup {None}]
    /\ query \in [Requests -> Queries \cup {None}]
    /\ met \subseteq Requests /\ unsaved \subseteq Names

\* A preload request knows its name and its query; one with a consumer to attach
\* or to take off knows the stream.
RequestsKnow ==
    \A r \in Requests :
        /\ step[r] \in {"add", "attach", "save", "del", "clear"}
             => of[r] \in Names /\ query[r] \in Queries
        /\ step[r] \in {"new", "probe", "publish", "sleep", "done"} => of[r] = None
        /\ step[r] \in {"probe", "publish", "sleep", "attach"} => joined[r] \in StreamIds

\* The request that is about to attach its consumer holds the lock, and the consumer
\* it replaces has already left its stream.
LockIsHeld ==
    \A r \in Requests : step[r] = "attach" =>
        /\ preloadsMu = r
        /\ preloads[of[r]] # None =>
              preloads[of[r]].cons \notin attached[preloads[of[r]].stream]

\* A preload the registry names was made by a request that has got so far.
PreloadWasMade ==
    \A n \in Names : preloads[n] # None => step[preloads[n].cons] \in {"save", "done"}

RegistryInv == RegistryTypes /\ RequestsKnow /\ LockIsHeld /\ PreloadWasMade
               /\ Registered!NobodyLeft

\* The stages by name, which no leaf below has to unfold again.
LEMMA RegistryInit ==
    ASSUME RegistryAssumption, Registered!Init
    PROVE  RegistryInv
<1> USE DEF RegistryAssumption
<1>1. /\ streams = AtStart /\ unused = StreamIds \ {AtStart[n] : n \in Names}
      /\ preloads = [n \in Names |-> None] /\ configured = preloads
      /\ attached = [s \in StreamIds |-> {}] /\ preloadsMu = None
      /\ step = [r \in Requests |-> "new"] /\ of = [r \in Requests |-> None]
      /\ joined = of /\ query = of /\ met = {} /\ unsaved = {}
  BY DEF Registered!Init
<1>2. RegistryTypes
  BY <1>1 DEF RegistryTypes, Stages
<1>3. RequestsKnow /\ LockIsHeld /\ PreloadWasMade
  BY <1>1 DEF RequestsKnow, LockIsHeld, PreloadWasMade
<1>4. Registered!NobodyLeft
  BY <1>1 DEF Registered!NobodyLeft
<1>5. QED
  BY <1>2, <1>3, <1>4 DEF RegistryInv

\* A request that changes the names alone and is answered at once.
LEMMA NamesOnly ==
    ASSUME RegistryAssumption, RegistryInv,
           NEW r \in Requests, step[r] = "new", Registered!Answered(r),
           streams' \in [Names -> StreamIds \cup {None}], unused' \subseteq StreamIds,
           UNCHANGED <<attached, preloads, configured, preloadsMu, met, unsaved>>
    PROVE  RegistryInv'
<1> USE DEF RegistryAssumption
<1>0. RegistryTypes /\ RequestsKnow /\ LockIsHeld /\ PreloadWasMade /\ Registered!NobodyLeft
  BY DEF RegistryInv
<1>1. /\ step' = [step EXCEPT ![r] = "done"] /\ of' = [of EXCEPT ![r] = None]
      /\ joined' = [joined EXCEPT ![r] = None] /\ query' = [query EXCEPT ![r] = None]
  BY DEF Registered!Answered
<1>2. RegistryTypes'
  BY <1>0, <1>1 DEF RegistryTypes, Stages
<1>3. RequestsKnow'
  BY <1>0, <1>1 DEF RequestsKnow, RegistryTypes
<1>4. LockIsHeld' /\ PreloadWasMade'
  BY <1>0, <1>1 DEF LockIsHeld, PreloadWasMade, RegistryTypes, Preload
<1>5. Registered!NobodyLeft'
  BY <1>0, <1>1 DEF Registered!NobodyLeft, RegistryTypes
<1>6. QED
  BY <1>2, <1>3, <1>4, <1>5 DEF RegistryInv

LEMMA RegistryStep ==
    ASSUME RegistryAssumption, RegistryInv, [Registered!Next]_(Registered!vars)
    PROVE  RegistryInv'
<1> USE DEF RegistryAssumption
<1>0. RegistryTypes /\ RequestsKnow /\ LockIsHeld /\ PreloadWasMade /\ Registered!NobodyLeft
  BY DEF RegistryInv
<1>1. ASSUME NEW r \in Requests, NEW n \in Names, Registered!Put(r, n) PROVE RegistryInv'
  <2>1. PICK s \in unused : streams' = [streams EXCEPT ![n] = s] /\ unused' = unused \ {s}
    BY <1>1 DEF Registered!Put, Registered!Name
  <2>2. streams' \in [Names -> StreamIds \cup {None}] /\ unused' \subseteq StreamIds
    BY <1>0, <2>1 DEF RegistryTypes
  <2>3. QED
    BY <1>1, <2>2, NamesOnly DEF Registered!Put, Registered!history
<1>2. ASSUME NEW r \in Requests, NEW n \in Names, Registered!Delete(r, n) PROVE RegistryInv'
  <2>1. streams' \in [Names -> StreamIds \cup {None}] /\ unused' \subseteq StreamIds
    BY <1>0, <1>2 DEF RegistryTypes, Registered!Delete
  <2>2. QED
    BY <1>2, <2>1, NamesOnly DEF Registered!Delete, Registered!history
<1>3. ASSUME NEW r \in Requests, NEW n \in Names, Registered!Patch(r, n) PROVE RegistryInv'
  <2>1. streams' \in [Names -> StreamIds \cup {None}] /\ unused' \subseteq StreamIds
    <3>1. CASE \E m \in Names : streams' = [streams EXCEPT ![n] = streams[m]] /\ UNCHANGED unused
      BY <1>0, <3>1 DEF RegistryTypes
    <3>2. CASE UNCHANGED <<streams, unused>>
      BY <1>0, <3>2 DEF RegistryTypes
    <3>3. CASE \E s \in unused : Registered!Name(n, s)
      BY <1>0, <3>3 DEF RegistryTypes, Registered!Name
    <3>4. QED
      BY <1>3, <3>1, <3>2, <3>3 DEF Registered!Patch
  <2>2. QED
    BY <1>3, <2>1, NamesOnly DEF Registered!Patch, Registered!history
<1>4. ASSUME NEW r \in Requests, NEW n \in Names, Registered!AskPreload(r, n) PROVE RegistryInv'
  <2>1. PICK s \in {"add", "del"}, q \in Queries :
           /\ step[r] = "new" /\ step' = [step EXCEPT ![r] = s]
           /\ of' = [of EXCEPT ![r] = n] /\ query' = [query EXCEPT ![r] = q]
           /\ met' \subseteq met \cup {r} \cup Registered!Preloading(n)
           /\ UNCHANGED <<streams, unused, attached, preloads, configured, preloadsMu, joined,
                          unsaved>>
    BY <1>4 DEF Registered!AskPreload, Registered!maps
  <2>2. RegistryTypes'
    <3>1. met' \subseteq Requests
      BY <1>0, <2>1 DEF RegistryTypes, Registered!Preloading
    <3>2. QED
      BY <1>0, <2>1, <3>1 DEF RegistryTypes, Stages
  <2>3. RequestsKnow'
    BY <1>0, <2>1 DEF RequestsKnow, RegistryTypes
  <2>4. LockIsHeld' /\ PreloadWasMade'
    BY <1>0, <2>1 DEF LockIsHeld, PreloadWasMade, RegistryTypes, Preload
  <2>5. Registered!NobodyLeft'
    BY <1>0, <2>1 DEF Registered!NobodyLeft, RegistryTypes
  <2>6. QED
    BY <2>2, <2>3, <2>4, <2>5 DEF RegistryInv
<1>5. ASSUME NEW r \in Requests, NEW n \in Names, NEW s \in {"probe", "publish"},
             Registered!Join(r, n, s)
      PROVE  RegistryInv'
  <2>1. /\ step[r] = "new" /\ streams[n] # None /\ step' = [step EXCEPT ![r] = s]
        /\ attached' = [attached EXCEPT ![streams[n]] = @ \cup {r}]
        /\ joined' = [joined EXCEPT ![r] = streams[n]]
        /\ UNCHANGED <<streams, unused, preloads, configured, preloadsMu, of, query, met,
                       unsaved>>
    BY <1>5 DEF Registered!Join, Registered!Attach, Registered!history
  <2>2. streams[n] \in StreamIds
    BY <1>0, <2>1 DEF RegistryTypes
  <2>3. RegistryTypes'
    BY <1>0, <2>1, <2>2 DEF RegistryTypes, Stages
  <2>4. RequestsKnow'
    BY <1>0, <2>1, <2>2 DEF RequestsKnow, RegistryTypes
  <2>5. PreloadWasMade'
    BY <1>0, <2>1 DEF PreloadWasMade, RegistryTypes, Preload
  <2>6. \A m \in Names : preloads[m] # None => preloads[m].cons # r
    BY <1>0, <2>1 DEF PreloadWasMade
  <2>7. LockIsHeld'
    BY <1>0, <2>1, <2>2, <2>6 DEF LockIsHeld, RequestsKnow, RegistryTypes, Preload
  <2>8. Registered!NobodyLeft'
    BY <1>0, <2>1, <2>2 DEF Registered!NobodyLeft, RegistryTypes
  <2>9. QED
    BY <2>3, <2>4, <2>5, <2>7, <2>8 DEF RegistryInv
<1>6. ASSUME NEW r \in Requests, Registered!ProbeLeaves(r) PROVE RegistryInv'
  <2>1. /\ step[r] = "probe" /\ attached' = [attached EXCEPT ![joined[r]] = @ \ {r}]
        /\ step' = [step EXCEPT ![r] = "done"] /\ of' = [of EXCEPT ![r] = None]
        /\ joined' = [joined EXCEPT ![r] = None] /\ query' = [query EXCEPT ![r] = None]
        /\ UNCHANGED <<streams, unused, preloads, configured, preloadsMu, met, unsaved>>
    BY <1>6 DEF Registered!ProbeLeaves, Registered!Answered, Registered!Detach,
                Registered!history
  <2>2. joined[r] \in StreamIds
    BY <1>0, <2>1 DEF RequestsKnow
  <2>3. RegistryTypes'
    BY <1>0, <2>1 DEF RegistryTypes, Stages
  <2>4. RequestsKnow'
    BY <1>0, <2>1 DEF RequestsKnow, RegistryTypes
  <2>5. PreloadWasMade'
    BY <1>0, <2>1 DEF PreloadWasMade, RegistryTypes, Preload
  <2>6. LockIsHeld'
    BY <1>0, <2>1 DEF LockIsHeld, RequestsKnow, RegistryTypes, Preload
  <2>7. Registered!NobodyLeft'
    BY <1>0, <2>1, <2>2 DEF Registered!NobodyLeft, RegistryTypes
  <2>8. QED
    BY <2>3, <2>4, <2>5, <2>6, <2>7 DEF RegistryInv
<1>7. ASSUME NEW r \in Requests, Registered!RunEnds(r) PROVE RegistryInv'
  <2>1. /\ step[r] = "publish" /\ attached' = [attached EXCEPT ![joined[r]] = @ \ {r}]
        /\ step' = [step EXCEPT ![r] = "sleep"]
        /\ UNCHANGED <<streams, unused, preloads, configured, preloadsMu, of, joined, query,
                       met, unsaved>>
    BY <1>7 DEF Registered!RunEnds, Registered!Goto, Registered!request, Registered!Detach,
                Registered!history
  <2>2. joined[r] \in StreamIds
    BY <1>0, <2>1 DEF RequestsKnow
  <2>3. RegistryTypes'
    BY <1>0, <2>1 DEF RegistryTypes, Stages
  <2>4. RequestsKnow'
    BY <1>0, <2>1 DEF RequestsKnow, RegistryTypes
  <2>5. PreloadWasMade'
    BY <1>0, <2>1 DEF PreloadWasMade, RegistryTypes, Preload
  <2>6. LockIsHeld'
    BY <1>0, <2>1 DEF LockIsHeld, RequestsKnow, RegistryTypes, Preload
  <2>7. Registered!NobodyLeft'
    BY <1>0, <2>1, <2>2 DEF Registered!NobodyLeft, RegistryTypes
  <2>8. QED
    BY <2>3, <2>4, <2>5, <2>6, <2>7 DEF RegistryInv
<1>8. ASSUME NEW r \in Requests, Registered!PublishAgain(r) PROVE RegistryInv'
  <2>1. step[r] = "sleep" /\ joined[r] \in StreamIds
    BY <1>0, <1>8 DEF Registered!PublishAgain, RequestsKnow
  <2>2. UNCHANGED <<streams, unused, preloads, configured, preloadsMu, met, unsaved>>
    BY <1>8 DEF Registered!PublishAgain, Registered!history
  <2>3. CASE Registered!Goto(r, "publish") /\ Registered!Attach(r, joined[r])
    <3>1. /\ step' = [step EXCEPT ![r] = "publish"] /\ UNCHANGED <<of, joined, query>>
          /\ attached' = [attached EXCEPT ![joined[r]] = @ \cup {r}]
      BY <2>3 DEF Registered!Goto, Registered!request, Registered!Attach
    <3>2. RegistryTypes'
      BY <1>0, <2>1, <2>2, <3>1 DEF RegistryTypes, Stages
    <3>3. RequestsKnow'
      BY <1>0, <2>1, <2>2, <3>1 DEF RequestsKnow, RegistryTypes
    <3>4. PreloadWasMade'
      BY <1>0, <2>1, <2>2, <3>1 DEF PreloadWasMade, RegistryTypes, Preload
    <3>5. \A m \in Names : preloads[m] # None => preloads[m].cons # r
      BY <1>0, <2>1 DEF PreloadWasMade
    <3>6. LockIsHeld'
      BY <1>0, <2>1, <2>2, <3>1, <3>5 DEF LockIsHeld, RequestsKnow, RegistryTypes, Preload
    <3>7. Registered!NobodyLeft'
      BY <1>0, <2>1, <2>2, <3>1 DEF Registered!NobodyLeft, RegistryTypes
    <3>8. QED
      BY <3>2, <3>3, <3>4, <3>6, <3>7 DEF RegistryInv
  <2>4. CASE Registered!Answered(r) /\ UNCHANGED attached
    <3>1. /\ step' = [step EXCEPT ![r] = "done"] /\ of' = [of EXCEPT ![r] = None]
          /\ joined' = [joined EXCEPT ![r] = None] /\ query' = [query EXCEPT ![r] = None]
          /\ UNCHANGED attached
      BY <2>4 DEF Registered!Answered
    <3>2. RegistryTypes'
      BY <1>0, <2>2, <3>1 DEF RegistryTypes, Stages
    <3>3. RequestsKnow'
      BY <1>0, <2>2, <3>1 DEF RequestsKnow, RegistryTypes
    <3>4. PreloadWasMade' /\ LockIsHeld'
      BY <1>0, <2>1, <2>2, <3>1 DEF PreloadWasMade, LockIsHeld, RegistryTypes, Preload
    <3>5. Registered!NobodyLeft'
      BY <1>0, <2>1, <2>2, <3>1 DEF Registered!NobodyLeft, RegistryTypes
    <3>6. QED
      BY <3>2, <3>3, <3>4, <3>5 DEF RegistryInv
  <2>5. QED
    BY <1>8, <2>3, <2>4 DEF Registered!PublishAgain
<1>9. ASSUME NEW r \in Requests, Registered!AddPreload(r) PROVE RegistryInv'
  <2>1. step[r] = "add" /\ preloadsMu = None /\ of[r] \in Names /\ query[r] \in Queries
    BY <1>0, <1>9 DEF Registered!AddPreload, RequestsKnow
  <2>2. UNCHANGED <<streams, unused, preloads, configured, met, unsaved>>
    BY <1>9 DEF Registered!AddPreload, Registered!history
  <2>3. \A b \in Requests : step[b] # "attach"
    BY <1>0, <2>1 DEF LockIsHeld
  <2>4. IF preloads[of[r]] # None
        THEN attached' = [attached EXCEPT ![preloads[of[r]].stream] = @ \ {preloads[of[r]].cons}]
        ELSE UNCHANGED attached
    BY <1>9 DEF Registered!AddPreload, Registered!Detach
  <2>5. /\ attached' \in [StreamIds -> SUBSET Requests]
        /\ \A s \in StreamIds : attached'[s] \subseteq attached[s]
        /\ preloads[of[r]] # None =>
              preloads[of[r]].cons \notin attached'[preloads[of[r]].stream]
    BY <1>0, <2>1, <2>4 DEF RegistryTypes, Preload
  <2>6. CASE Registered!Answered(r) /\ UNCHANGED preloadsMu
    <3>1. /\ step' = [step EXCEPT ![r] = "done"] /\ of' = [of EXCEPT ![r] = None]
          /\ joined' = [joined EXCEPT ![r] = None] /\ query' = [query EXCEPT ![r] = None]
          /\ UNCHANGED preloadsMu
      BY <2>6 DEF Registered!Answered
    <3>2. RegistryTypes'
      BY <1>0, <2>2, <2>5, <3>1 DEF RegistryTypes, Stages
    <3>3. RequestsKnow'
      BY <1>0, <2>2, <3>1 DEF RequestsKnow, RegistryTypes
    <3>4. PreloadWasMade'
      BY <1>0, <2>1, <2>2, <3>1 DEF PreloadWasMade, RegistryTypes, Preload
    <3>5. LockIsHeld'
      BY <1>0, <2>3, <3>1 DEF LockIsHeld, RegistryTypes
    <3>6. Registered!NobodyLeft'
      BY <1>0, <2>1, <2>2, <2>5, <3>1 DEF Registered!NobodyLeft, RegistryTypes
    <3>7. QED
      BY <3>2, <3>3, <3>4, <3>5, <3>6 DEF RegistryInv
  <2>7. CASE /\ streams[of[r]] # None
             /\ step' = [step EXCEPT ![r] = "attach"] /\ preloadsMu' = r
             /\ joined' = [joined EXCEPT ![r] = streams[of[r]]] /\ UNCHANGED <<of, query>>
    <3>1. streams[of[r]] \in StreamIds
      BY <1>0, <2>1, <2>7 DEF RegistryTypes
    <3>2. RegistryTypes'
      BY <1>0, <2>2, <2>5, <2>7, <3>1 DEF RegistryTypes, Stages
    <3>3. RequestsKnow'
      BY <1>0, <2>1, <2>2, <2>7, <3>1 DEF RequestsKnow, RegistryTypes
    <3>4. PreloadWasMade'
      BY <1>0, <2>1, <2>2, <2>7 DEF PreloadWasMade, RegistryTypes, Preload
    <3>5. LockIsHeld'
      BY <1>0, <2>2, <2>3, <2>5, <2>7 DEF LockIsHeld, RegistryTypes
    <3>6. Registered!NobodyLeft'
      BY <1>0, <2>1, <2>2, <2>5, <2>7 DEF Registered!NobodyLeft, RegistryTypes
    <3>7. QED
      BY <3>2, <3>3, <3>4, <3>5, <3>6 DEF RegistryInv
  <2>8. QED
    BY <1>9, <2>6, <2>7 DEF Registered!AddPreload
<1>10. ASSUME NEW r \in Requests, Registered!AddConsumer(r) PROVE RegistryInv'
  <2>1. /\ step[r] = "attach" /\ preloadsMu = r /\ preloadsMu' = None
        /\ of[r] \in Names /\ query[r] \in Queries /\ joined[r] \in StreamIds
        /\ UNCHANGED <<streams, unused, configured, met, unsaved>>
    BY <1>0, <1>10 DEF Registered!AddConsumer, Registered!history, RequestsKnow, LockIsHeld
  <2>2. \A b \in Requests : step[b] = "attach" => b = r
    BY <1>0, <2>1 DEF LockIsHeld
  <2>3. CASE /\ Registered!Attach(r, joined[r]) /\ Registered!Goto(r, "save")
             /\ preloads' = [preloads EXCEPT ![of[r]] =
                               [stream |-> joined[r], cons |-> r,
                                query |-> Registered!Parsed(query[r])]]
    <3> DEFINE p == [stream |-> joined[r], cons |-> r, query |-> Registered!Parsed(query[r])]
    <3>1. /\ step' = [step EXCEPT ![r] = "save"] /\ UNCHANGED <<of, joined, query>>
          /\ attached' = [attached EXCEPT ![joined[r]] = @ \cup {r}]
          /\ preloads' = [preloads EXCEPT ![of[r]] = p]
      BY <2>3 DEF Registered!Goto, Registered!request, Registered!Attach
    <3>2. p \in Preload /\ p # None /\ p.stream = joined[r] /\ p.cons = r
      BY <2>1 DEF Preload
    <3> HIDE DEF p
    <3>3. \A n \in Names : preloads'[n] = IF n = of[r] THEN p ELSE preloads[n]
      BY <1>0, <2>1, <3>1 DEF RegistryTypes
    <3>4. \A b \in Requests : step'[b] = IF b = r THEN "save" ELSE step[b]
      BY <1>0, <3>1 DEF RegistryTypes
    <3>5. RegistryTypes'
      <4>1. preloads' \in [Names -> Preload \cup {None}]
        BY <1>0, <2>1, <3>1, <3>2 DEF RegistryTypes
      <4>2. attached' \in [StreamIds -> SUBSET Requests]
        BY <1>0, <3>1 DEF RegistryTypes
      <4>3. step' \in [Requests -> Stages]
        BY <1>0, <3>1 DEF RegistryTypes, Stages
      <4>4. QED
        BY <1>0, <2>1, <3>1, <4>1, <4>2, <4>3 DEF RegistryTypes
    <3>6. RequestsKnow'
      BY <1>0, <2>1, <3>1, <3>4 DEF RequestsKnow
    <3>7. LockIsHeld'
      BY <2>2, <3>4 DEF LockIsHeld
    <3>8. PreloadWasMade'
      <4>1. \A n \in Names : preloads[n] # None => preloads[n].cons \in Requests
        BY <1>0 DEF RegistryTypes, Preload
      <4>2. QED
        BY <1>0, <2>1, <3>2, <3>3, <3>4, <4>1 DEF PreloadWasMade
    <3>9. Registered!NobodyLeft'
      <4> SUFFICES ASSUME NEW s \in StreamIds, NEW c \in attached'[s]
                   PROVE  \/ step'[c] \in {"probe", "publish"} /\ joined'[c] = s
                          \/ \E n \in Names : /\ preloads'[n] # None
                                              /\ preloads'[n].cons = c
                                              /\ preloads'[n].stream = s
        BY DEF Registered!NobodyLeft
      <4>1. CASE c = r /\ s = joined[r]
        BY <2>1, <3>2, <3>3, <4>1
      <4>2. CASE ~(c = r /\ s = joined[r])
        <5>1. c \in attached[s] /\ c \in Requests
          BY <1>0, <3>1, <4>2 DEF RegistryTypes
        <5>2. CASE step[c] \in {"probe", "publish"} /\ joined[c] = s
          BY <2>1, <3>1, <3>4, <5>1, <5>2
        <5>3. CASE \E n \in Names : preloads[n] # None /\ preloads[n].cons = c
                                    /\ preloads[n].stream = s
          <6>1. PICK n \in Names : preloads[n] # None /\ preloads[n].cons = c
                                   /\ preloads[n].stream = s
            BY <5>3
          <6>2. n # of[r]
            BY <1>0, <2>1, <5>1, <6>1 DEF LockIsHeld
          <6>3. QED
            BY <3>3, <6>1, <6>2
        <5>4. QED
          BY <1>0, <5>1, <5>2, <5>3 DEF Registered!NobodyLeft
      <4>3. QED
        BY <4>1, <4>2
    <3>10. QED
      BY <3>5, <3>6, <3>7, <3>8, <3>9 DEF RegistryInv
  <2>4. CASE Registered!Answered(r) /\ UNCHANGED <<attached, preloads>>
    <3>1. /\ step' = [step EXCEPT ![r] = "done"] /\ of' = [of EXCEPT ![r] = None]
          /\ joined' = [joined EXCEPT ![r] = None] /\ query' = [query EXCEPT ![r] = None]
          /\ UNCHANGED <<attached, preloads>>
      BY <2>4 DEF Registered!Answered
    <3>2. RegistryTypes'
      BY <1>0, <2>1, <3>1 DEF RegistryTypes, Stages
    <3>3. RequestsKnow'
      BY <1>0, <3>1 DEF RequestsKnow, RegistryTypes
    <3>4. PreloadWasMade'
      BY <1>0, <2>1, <3>1 DEF PreloadWasMade, RegistryTypes, Preload
    <3>5. LockIsHeld'
      BY <1>0, <2>2, <3>1 DEF LockIsHeld, RegistryTypes
    <3>6. Registered!NobodyLeft'
      BY <1>0, <2>1, <3>1 DEF Registered!NobodyLeft, RegistryTypes
    <3>7. QED
      BY <3>2, <3>3, <3>4, <3>5, <3>6 DEF RegistryInv
  <2>5. QED
    BY <1>10, <2>3, <2>4 DEF Registered!AddConsumer
<1>11. ASSUME NEW r \in Requests, Registered!DelPreload(r) PROVE RegistryInv'
  <2>1. /\ step[r] = "del" /\ preloadsMu = None /\ of[r] \in Names
        /\ UNCHANGED <<streams, unused, configured, preloadsMu, met, unsaved>>
    BY <1>0, <1>11 DEF Registered!DelPreload, Registered!history, RequestsKnow
  <2>2. \A b \in Requests : step[b] # "attach"
    BY <1>0, <2>1 DEF LockIsHeld
  <2>3. CASE Registered!Answered(r) /\ UNCHANGED <<attached, preloads>>
    <3>1. /\ step' = [step EXCEPT ![r] = "done"] /\ of' = [of EXCEPT ![r] = None]
          /\ joined' = [joined EXCEPT ![r] = None] /\ query' = [query EXCEPT ![r] = None]
          /\ UNCHANGED <<attached, preloads>>
      BY <2>3 DEF Registered!Answered
    <3>2. RegistryTypes'
      BY <1>0, <2>1, <3>1 DEF RegistryTypes, Stages
    <3>3. RequestsKnow'
      BY <1>0, <3>1 DEF RequestsKnow, RegistryTypes
    <3>4. PreloadWasMade'
      BY <1>0, <2>1, <3>1 DEF PreloadWasMade, RegistryTypes, Preload
    <3>5. LockIsHeld'
      BY <1>0, <2>2, <3>1 DEF LockIsHeld, RegistryTypes
    <3>6. Registered!NobodyLeft'
      BY <1>0, <2>1, <3>1 DEF Registered!NobodyLeft, RegistryTypes
    <3>7. QED
      BY <3>2, <3>3, <3>4, <3>5, <3>6 DEF RegistryInv
  <2>4. CASE /\ preloads[of[r]] # None /\ Registered!Goto(r, "clear")
             /\ Registered!Detach(preloads[of[r]].cons, preloads[of[r]].stream)
             /\ preloads' = [preloads EXCEPT ![of[r]] = None]
    <3> DEFINE p == preloads[of[r]]
    <3>1. /\ step' = [step EXCEPT ![r] = "clear"] /\ UNCHANGED <<of, joined, query>>
          /\ attached' = [attached EXCEPT ![p.stream] = @ \ {p.cons}]
          /\ preloads' = [preloads EXCEPT ![of[r]] = None]
      BY <2>4 DEF Registered!Goto, Registered!request, Registered!Detach
    <3>2. p.stream \in StreamIds /\ p.cons \in Requests
      BY <1>0, <2>1, <2>4 DEF RegistryTypes, Preload
    <3>3. \A n \in Names : preloads'[n] = IF n = of[r] THEN None ELSE preloads[n]
      BY <1>0, <2>1, <3>1 DEF RegistryTypes
    <3>4. \A b \in Requests : step'[b] = IF b = r THEN "clear" ELSE step[b]
      BY <1>0, <3>1 DEF RegistryTypes
    <3>5. \A n \in Names : preloads[n] # None => preloads[n].cons \in Requests
      BY <1>0 DEF RegistryTypes, Preload
    <3>6. RegistryTypes'
      <4>1. preloads' \in [Names -> Preload \cup {None}]
        BY <1>0, <2>1, <3>1 DEF RegistryTypes
      <4>2. attached' \in [StreamIds -> SUBSET Requests]
        BY <1>0, <3>1 DEF RegistryTypes
      <4>3. step' \in [Requests -> Stages]
        BY <1>0, <3>1 DEF RegistryTypes, Stages
      <4>4. QED
        BY <1>0, <2>1, <3>1, <4>1, <4>2, <4>3 DEF RegistryTypes
    <3>7. RequestsKnow'
      BY <1>0, <2>1, <3>1, <3>4 DEF RequestsKnow
    <3>8. LockIsHeld'
      BY <2>2, <3>4 DEF LockIsHeld
    <3>9. PreloadWasMade'
      BY <1>0, <2>1, <3>3, <3>4, <3>5 DEF PreloadWasMade
    <3>10. Registered!NobodyLeft'
      <4> SUFFICES ASSUME NEW s \in StreamIds, NEW c \in attached'[s]
                   PROVE  \/ step'[c] \in {"probe", "publish"} /\ joined'[c] = s
                          \/ \E n \in Names : /\ preloads'[n] # None
                                              /\ preloads'[n].cons = c
                                              /\ preloads'[n].stream = s
        BY DEF Registered!NobodyLeft
      <4>1. c \in attached[s] /\ c \in Requests /\ ~(c = p.cons /\ s = p.stream)
        BY <1>0, <3>1, <3>2 DEF RegistryTypes
      <4>2. CASE step[c] \in {"probe", "publish"} /\ joined[c] = s
        BY <2>1, <3>1, <3>4, <4>1, <4>2
      <4>3. CASE \E n \in Names : preloads[n] # None /\ preloads[n].cons = c
                                  /\ preloads[n].stream = s
        BY <3>3, <4>1, <4>3
      <4>4. QED
        BY <1>0, <4>1, <4>2, <4>3 DEF Registered!NobodyLeft
    <3>11. QED
      BY <3>6, <3>7, <3>8, <3>9, <3>10 DEF RegistryInv
  <2>5. QED
    BY <1>11, <2>3, <2>4 DEF Registered!DelPreload
<1>12. ASSUME NEW r \in Requests, Registered!PatchConfig(r) PROVE RegistryInv'
  <2>1. /\ step[r] \in {"save", "clear"} /\ of[r] \in Names /\ query[r] \in Queries
        /\ step' = [step EXCEPT ![r] = "done"] /\ of' = [of EXCEPT ![r] = None]
        /\ joined' = [joined EXCEPT ![r] = None] /\ query' = [query EXCEPT ![r] = None]
        /\ UNCHANGED <<streams, unused, attached, preloads, preloadsMu, met>>
    BY <1>0, <1>12 DEF Registered!PatchConfig, Registered!Answered, Registered!maps, RequestsKnow
  <2>2. configured' \in [Names -> Queries \cup {None}] /\ unsaved' \subseteq Names
    BY <1>0, <1>12, <2>1 DEF Registered!PatchConfig, RegistryTypes
  <2>3. RegistryTypes'
    BY <1>0, <2>1, <2>2 DEF RegistryTypes, Stages
  <2>4. RequestsKnow'
    BY <1>0, <2>1 DEF RequestsKnow, RegistryTypes
  <2>5. PreloadWasMade'
    BY <1>0, <2>1 DEF PreloadWasMade, RegistryTypes, Preload
  <2>6. LockIsHeld'
    BY <1>0, <2>1 DEF LockIsHeld, RegistryTypes
  <2>7. Registered!NobodyLeft'
    BY <1>0, <2>1 DEF Registered!NobodyLeft, RegistryTypes
  <2>8. QED
    BY <2>3, <2>4, <2>5, <2>6, <2>7 DEF RegistryInv
<1>13. CASE UNCHANGED Registered!vars
  BY <1>0, <1>13 DEF RegistryInv, RegistryTypes, RequestsKnow, LockIsHeld, PreloadWasMade,
        Registered!NobodyLeft, Registered!vars, Registered!maps, Registered!request,
        Registered!history
<1>14. QED
  BY <1>1, <1>2, <1>3, <1>4, <1>5, <1>6, <1>7, <1>8, <1>9, <1>10, <1>11, <1>12, <1>13
     DEF Registered!Next, Registered!Request

\* However the requests interleave, a consumer on a stream, named or not, belongs to
\* somebody who will take it off: a request on its way, a publish loop, or the
\* preload that the registry names (preload.go, api.go, publish.go).
THEOREM NobodyIsLeft ==
    ASSUME RegistryAssumption
    PROVE  Registered!Spec => [](Registered!TypeOK /\ Registered!NobodyLeft)
<1>1. Registered!Init => RegistryInv
  BY RegistryInit
<1>2. RegistryInv /\ [Registered!Next]_(Registered!vars) => RegistryInv'
  BY RegistryStep
<1>3. RegistryInv => Registered!TypeOK /\ Registered!NobodyLeft
  BY DEF RegistryInv, RegistryTypes, Stages, Preload, Registered!TypeOK
<1>4. QED
  BY <1>1, <1>2, <1>3, PTL DEF Registered!Spec

\* The next start makes of the file what the registry shows of a name.
Agrees(n) ==
    IF preloads[n] = None
    THEN configured[n] = None
    ELSE configured[n] # None /\ Registered!Parsed(configured[n]) = preloads[n].query

\* A preload request that has met no other is alone on its name; when it is about to
\* write, it writes what the registry says; the registry is ahead of the file only
\* while some request is about to write, or when the last to write had met another.
OneAtATime ==
    \A n \in Names : \A a, b \in Registered!Preloading(n) : a \notin met => a = b
WritesTheRegistry ==
    \A n \in Names : \A r \in Registered!Preloading(n) \ met :
        /\ step[r] = "save" => /\ preloads[n] # None
                              /\ preloads[n].query = Registered!Parsed(query[r])
        /\ step[r] = "clear" => preloads[n] = None
AgreesOrWrites ==
    \A n \in Names \ unsaved :
        Agrees(n) \/ \E r \in Registered!Preloading(n) : step[r] \in {"save", "clear"}

FileInv == RegistryInv /\ OneAtATime /\ WritesTheRegistry /\ AgreesOrWrites

\* A request that leaves the registry, the file and the two histories alone and neither
\* is nor becomes one that is about to write keeps the three.
LEMMA OtherRequests ==
    ASSUME RegistryAssumption, FileInv, NEW r \in Requests,
           step[r] \notin {"save", "clear"}, step'[r] \notin {"save", "clear"},
           \A b \in Requests \ {r} : step'[b] = step[b] /\ of'[b] = of[b] /\ query'[b] = query[b],
           of'[r] \in Names => r \in Registered!Preloading(of'[r]),
           UNCHANGED <<preloads, configured, met, unsaved>>
    PROVE  OneAtATime' /\ WritesTheRegistry' /\ AgreesOrWrites'
<1> USE DEF RegistryAssumption
<1>0. RegistryTypes /\ OneAtATime /\ WritesTheRegistry /\ AgreesOrWrites
  BY DEF FileInv, RegistryInv
<1>1. \A n \in Names : Registered!Preloading(n)' \subseteq Registered!Preloading(n)
  BY DEF Registered!Preloading
<1>2. \A n \in Names : \A b \in Registered!Preloading(n) : b # r => b \in Registered!Preloading(n)'
  BY DEF Registered!Preloading
<1>3. OneAtATime'
  BY <1>0, <1>1 DEF OneAtATime
<1>4. WritesTheRegistry'
  <2> SUFFICES ASSUME NEW n \in Names, NEW b \in Registered!Preloading(n)', b \notin met
               PROVE  /\ step'[b] = "save" =>
                            preloads[n] # None /\ preloads[n].query = Registered!Parsed(query'[b])
                      /\ step'[b] = "clear" => preloads[n] = None
    BY DEF WritesTheRegistry
  <2>1. b \in Requests /\ b \in Registered!Preloading(n)
    BY <1>1 DEF Registered!Preloading
  <2>2. QED
    BY <1>0, <2>1 DEF WritesTheRegistry
<1>5. AgreesOrWrites'
  <2> SUFFICES ASSUME NEW n \in Names \ unsaved, ~Agrees(n)
               PROVE  \E b \in Registered!Preloading(n)' : step'[b] \in {"save", "clear"}
    BY DEF AgreesOrWrites, Agrees
  <2>1. PICK b \in Registered!Preloading(n) : step[b] \in {"save", "clear"}
    BY <1>0 DEF AgreesOrWrites
  <2>2. b # r /\ b \in Requests
    BY <2>1 DEF Registered!Preloading
  <2>3. QED
    BY <1>2, <2>1, <2>2
<1>6. QED
  BY <1>3, <1>4, <1>5

\* The request on name of[r] changes the registry's entry of that name alone, and goes
\* on to write it.
LEMMA FileWrite ==
    ASSUME RegistryAssumption, FileInv, NEW r \in Requests,
           step[r] \in {"attach", "del"}, of[r] \in Names, NEW p,
           \/ /\ step' = [step EXCEPT ![r] = "save"] /\ p # None
              /\ p.query = Registered!Parsed(query[r])
           \/ step' = [step EXCEPT ![r] = "clear"] /\ p = None,
           \A n \in Names : preloads'[n] = IF n = of[r] THEN p ELSE preloads[n],
           UNCHANGED <<of, query, configured, met, unsaved>>
    PROVE  OneAtATime' /\ WritesTheRegistry' /\ AgreesOrWrites'
<1> USE DEF RegistryAssumption
<1>0. RegistryTypes /\ OneAtATime /\ WritesTheRegistry /\ AgreesOrWrites
  BY DEF FileInv, RegistryInv
<1>1. /\ step'[r] \in {"save", "clear"}
      /\ step'[r] = "save" => p # None /\ p.query = Registered!Parsed(query[r])
      /\ step'[r] = "clear" => p = None
      /\ \A b \in Requests \ {r} : step'[b] = step[b]
  BY <1>0 DEF RegistryTypes
<1>2. \A n \in Names : Registered!Preloading(n)' = Registered!Preloading(n)
  BY <1>1 DEF Registered!Preloading
<1>3. r \in Registered!Preloading(of[r]) /\ \A n \in Names : r \in Registered!Preloading(n) => n = of[r]
  BY DEF Registered!Preloading
<1>4. OneAtATime'
  BY <1>0, <1>2 DEF OneAtATime
<1>5. WritesTheRegistry'
  <2> SUFFICES ASSUME NEW n \in Names, NEW b \in Registered!Preloading(n), b \notin met
               PROVE  /\ step'[b] = "save" =>
                            /\ preloads'[n] # None
                            /\ preloads'[n].query = Registered!Parsed(query[b])
                      /\ step'[b] = "clear" => preloads'[n] = None
    BY <1>2 DEF WritesTheRegistry
  <2>1. b \in Requests
    BY DEF Registered!Preloading
  <2>2. CASE n = of[r]
    <3>1. b = r
      BY <1>0, <1>3, <2>2 DEF OneAtATime
    <3>2. QED
      BY <1>1, <2>2, <3>1
  <2>3. CASE n # of[r]
    BY <1>0, <1>1, <1>3, <2>1, <2>3 DEF WritesTheRegistry
  <2>4. QED
    BY <2>2, <2>3
<1>6. AgreesOrWrites'
  <2> SUFFICES ASSUME NEW n \in Names \ unsaved, ~Agrees(n)'
               PROVE  \E b \in Registered!Preloading(n) : step'[b] \in {"save", "clear"}
    BY <1>2 DEF AgreesOrWrites
  <2>1. CASE n = of[r]
    BY <1>1, <1>3, <2>1
  <2>2. CASE n # of[r]
    <3>1. ~Agrees(n)
      BY <2>2 DEF Agrees
    <3>2. PICK b \in Registered!Preloading(n) : step[b] \in {"save", "clear"}
      BY <1>0, <3>1 DEF AgreesOrWrites
    <3>3. b # r /\ b \in Requests
      BY <1>3, <2>2, <3>2 DEF Registered!Preloading
    <3>4. QED
      BY <1>1, <3>2, <3>3
  <2>3. QED
    BY <2>1, <2>2
<1>7. QED
  BY <1>4, <1>5, <1>6

LEMMA FileInit ==
    ASSUME RegistryAssumption, Registered!Init
    PROVE  FileInv
<1>1. RegistryInv
  BY RegistryInit
<1>2. /\ preloads = [n \in Names |-> None] /\ configured = preloads
      /\ \A n \in Names : Registered!Preloading(n) = {}
  BY DEF Registered!Init, Registered!Preloading, RegistryAssumption
<1>3. OneAtATime /\ WritesTheRegistry /\ AgreesOrWrites
  BY <1>2 DEF OneAtATime, WritesTheRegistry, AgreesOrWrites, Agrees
<1>4. QED
  BY <1>1, <1>3 DEF FileInv

LEMMA FileStep ==
    ASSUME RegistryAssumption, FileInv, [Registered!Next]_(Registered!vars)
    PROVE  FileInv'
<1> USE DEF RegistryAssumption
<1>0. /\ RegistryTypes /\ RequestsKnow /\ LockIsHeld /\ PreloadWasMade /\ RegistryInv
      /\ OneAtATime /\ WritesTheRegistry /\ AgreesOrWrites
  BY DEF FileInv, RegistryInv
<1>1. RegistryInv'
  BY <1>0, RegistryStep
<1> DEFINE Kept == OneAtATime' /\ WritesTheRegistry' /\ AgreesOrWrites'
<1>2. ASSUME NEW r \in Requests, NEW n \in Names,
             \/ Registered!Put(r, n) \/ Registered!Delete(r, n) \/ Registered!Patch(r, n)
      PROVE  Kept
  <2>1. /\ step[r] = "new" /\ step' = [step EXCEPT ![r] = "done"]
        /\ of' = [of EXCEPT ![r] = None] /\ query' = [query EXCEPT ![r] = None]
        /\ UNCHANGED <<preloads, configured, met, unsaved>>
    BY <1>2 DEF Registered!Put, Registered!Delete, Registered!Patch, Registered!Answered,
                Registered!history
  <2>2. QED
    BY <1>0, <2>1, OtherRequests DEF RegistryTypes, FileInv
<1>3. ASSUME NEW r \in Requests, NEW n \in Names, Registered!AskPreload(r, n) PROVE Kept
  <2>1. PICK s \in {"add", "del"}, q \in Queries :
           /\ step[r] = "new" /\ step' = [step EXCEPT ![r] = s]
           /\ of' = [of EXCEPT ![r] = n] /\ query' = [query EXCEPT ![r] = q]
           /\ met' = (IF Registered!Preloading(n) = {} THEN met
                      ELSE met \cup {r} \cup Registered!Preloading(n))
           /\ UNCHANGED <<preloads, configured, unsaved>>
    BY <1>3 DEF Registered!AskPreload
  <2>2. \A b \in Requests \ {r} : step'[b] = step[b] /\ of'[b] = of[b] /\ query'[b] = query[b]
    BY <1>0, <2>1 DEF RegistryTypes
  <2>3. step'[r] \in {"add", "del"} /\ of'[r] = n
    BY <1>0, <2>1 DEF RegistryTypes
  <2>4. \A m \in Names : Registered!Preloading(m)' =
                            IF m = n THEN Registered!Preloading(m) \cup {r}
                                     ELSE Registered!Preloading(m)
    BY <1>0, <2>1, <2>2, <2>3 DEF Registered!Preloading, RequestsKnow
  <2>5. /\ met \subseteq met'
        /\ \A b \in Registered!Preloading(n) : b \in met'
        /\ r \notin met' => Registered!Preloading(n) = {}
    BY <2>1
  <2>6. OneAtATime'
    BY <1>0, <2>1, <2>4, <2>5 DEF OneAtATime
  <2>7. WritesTheRegistry'
    <3> SUFFICES ASSUME NEW m \in Names, NEW b \in Registered!Preloading(m)', b \notin met'
                 PROVE  /\ step'[b] = "save" =>
                              preloads[m] # None /\ preloads[m].query = Registered!Parsed(query'[b])
                        /\ step'[b] = "clear" => preloads[m] = None
      BY <2>1 DEF WritesTheRegistry
    <3>1. CASE b = r
      BY <2>3, <3>1
    <3>2. CASE b # r
      <4>1. b \in Registered!Preloading(m) /\ b \in Requests /\ b \notin met
        BY <2>4, <2>5, <3>2 DEF Registered!Preloading
      <4>2. QED
        BY <1>0, <2>2, <3>2, <4>1 DEF WritesTheRegistry
    <3>3. QED
      BY <3>1, <3>2
  <2>8. AgreesOrWrites'
    <3> SUFFICES ASSUME NEW m \in Names \ unsaved, ~Agrees(m)
                 PROVE  \E b \in Registered!Preloading(m)' : step'[b] \in {"save", "clear"}
      BY <2>1 DEF AgreesOrWrites, Agrees
    <3>1. m \in Names \ unsaved
      BY <2>1
    <3>2. PICK b \in Registered!Preloading(m) : step[b] \in {"save", "clear"}
      BY <1>0, <3>1 DEF AgreesOrWrites
    <3>3. b \in Requests /\ b # r /\ b \in Registered!Preloading(m)'
      BY <2>1, <2>4, <3>2 DEF Registered!Preloading
    <3>4. QED
      BY <2>2, <3>2, <3>3
  <2>9. QED
    BY <2>6, <2>7, <2>8
<1>4. ASSUME NEW r \in Requests, NEW n \in Names, NEW s \in {"probe", "publish"},
             Registered!Join(r, n, s)
      PROVE  Kept
  <2>1. /\ step[r] = "new" /\ step' = [step EXCEPT ![r] = s]
        /\ UNCHANGED <<preloads, configured, of, query, met, unsaved>>
    BY <1>4 DEF Registered!Join, Registered!history
  <2>2. of[r] = None
    BY <1>0, <2>1 DEF RequestsKnow
  <2>3. QED
    BY <1>0, <2>1, <2>2, OtherRequests DEF RegistryTypes, FileInv
<1>5. ASSUME NEW r \in Requests,
             Registered!ProbeLeaves(r) \/ Registered!RunEnds(r) \/ Registered!PublishAgain(r)
      PROVE  Kept
  <2>1. /\ step[r] \in {"probe", "publish", "sleep"}
        /\ \E s \in {"done", "sleep", "publish"} : step' = [step EXCEPT ![r] = s]
        /\ \/ UNCHANGED <<of, query>>
           \/ of' = [of EXCEPT ![r] = None] /\ query' = [query EXCEPT ![r] = None]
        /\ UNCHANGED <<preloads, configured, met, unsaved>>
    BY <1>5 DEF Registered!ProbeLeaves, Registered!RunEnds, Registered!PublishAgain,
                Registered!Goto, Registered!Answered, Registered!request, Registered!history
  <2>2. of[r] = None
    BY <1>0, <2>1 DEF RequestsKnow
  <2>3. of'[r] = None
    BY <1>0, <2>1, <2>2 DEF RegistryTypes
  <2>4. QED
    BY <1>0, <2>1, <2>3, OtherRequests DEF RegistryTypes, FileInv
<1>6. ASSUME NEW r \in Requests, Registered!AddPreload(r) PROVE Kept
  <2>1. /\ step[r] = "add" /\ of[r] \in Names
        /\ UNCHANGED <<preloads, configured, met, unsaved>>
    BY <1>0, <1>6 DEF Registered!AddPreload, Registered!history, RequestsKnow
  <2>2. \/ /\ step' = [step EXCEPT ![r] = "done"] /\ of' = [of EXCEPT ![r] = None]
           /\ query' = [query EXCEPT ![r] = None]
        \/ step' = [step EXCEPT ![r] = "attach"] /\ UNCHANGED <<of, query>>
    BY <1>6 DEF Registered!AddPreload, Registered!Answered
  <2>3. /\ step'[r] \in {"done", "attach"}
        /\ \A b \in Requests \ {r} : step'[b] = step[b] /\ of'[b] = of[b] /\ query'[b] = query[b]
        /\ of'[r] \in Names => of'[r] = of[r]
    BY <1>0, <2>2 DEF RegistryTypes
  <2>4. of'[r] \in Names => r \in Registered!Preloading(of'[r])
    BY <2>1, <2>3 DEF Registered!Preloading
  <2>5. QED
    BY <1>0, <2>1, <2>3, <2>4, OtherRequests
<1>7. ASSUME NEW r \in Requests, Registered!AddConsumer(r) PROVE Kept
  <2>1. /\ step[r] = "attach" /\ of[r] \in Names /\ query[r] \in Queries
        /\ joined[r] \in StreamIds /\ UNCHANGED <<configured, met, unsaved>>
    BY <1>0, <1>7 DEF Registered!AddConsumer, Registered!history, RequestsKnow
  <2>2. CASE Registered!Answered(r) /\ UNCHANGED preloads
    <3>1. /\ step' = [step EXCEPT ![r] = "done"] /\ of' = [of EXCEPT ![r] = None]
          /\ query' = [query EXCEPT ![r] = None] /\ UNCHANGED preloads
      BY <2>2 DEF Registered!Answered
    <3>2. QED
      BY <1>0, <2>1, <3>1, OtherRequests DEF RegistryTypes
  <2>3. CASE /\ Registered!Goto(r, "save")
             /\ preloads' = [preloads EXCEPT ![of[r]] =
                               [stream |-> joined[r], cons |-> r,
                                query |-> Registered!Parsed(query[r])]]
    <3> DEFINE p == [stream |-> joined[r], cons |-> r, query |-> Registered!Parsed(query[r])]
    <3>1. /\ step' = [step EXCEPT ![r] = "save"] /\ UNCHANGED <<of, query>>
          /\ preloads' = [preloads EXCEPT ![of[r]] = p]
      BY <2>3 DEF Registered!Goto, Registered!request
    <3>2. p # None /\ p.query = Registered!Parsed(query[r])
      BY <2>1 DEF Preload
    <3> HIDE DEF p
    <3>3. \A n \in Names : preloads'[n] = IF n = of[r] THEN p ELSE preloads[n]
      BY <1>0, <2>1, <3>1 DEF RegistryTypes
    <3>4. QED
      BY <1>0, <2>1, <3>1, <3>2, <3>3, FileWrite
  <2>4. QED
    BY <1>7, <2>2, <2>3 DEF Registered!AddConsumer
<1>8. ASSUME NEW r \in Requests, Registered!DelPreload(r) PROVE Kept
  <2>1. /\ step[r] = "del" /\ of[r] \in Names /\ UNCHANGED <<configured, met, unsaved>>
    BY <1>0, <1>8 DEF Registered!DelPreload, Registered!history, RequestsKnow
  <2>2. CASE Registered!Answered(r) /\ UNCHANGED preloads
    <3>1. /\ step' = [step EXCEPT ![r] = "done"] /\ of' = [of EXCEPT ![r] = None]
          /\ query' = [query EXCEPT ![r] = None] /\ UNCHANGED preloads
      BY <2>2 DEF Registered!Answered
    <3>2. QED
      BY <1>0, <2>1, <3>1, OtherRequests DEF RegistryTypes
  <2>3. CASE Registered!Goto(r, "clear") /\ preloads' = [preloads EXCEPT ![of[r]] = None]
    <3>1. step' = [step EXCEPT ![r] = "clear"] /\ UNCHANGED <<of, query>>
      BY <2>3 DEF Registered!Goto, Registered!request
    <3>2. \A n \in Names : preloads'[n] = IF n = of[r] THEN None ELSE preloads[n]
      BY <1>0, <2>1, <2>3 DEF RegistryTypes
    <3>3. QED
      BY <1>0, <2>1, <3>1, <3>2, FileWrite
  <2>4. QED
    BY <1>8, <2>2, <2>3 DEF Registered!DelPreload
<1>9. ASSUME NEW r \in Requests, Registered!PatchConfig(r) PROVE Kept
  <2>1. /\ step[r] \in {"save", "clear"} /\ of[r] \in Names
        /\ step' = [step EXCEPT ![r] = "done"] /\ of' = [of EXCEPT ![r] = None]
        /\ query' = [query EXCEPT ![r] = None] /\ UNCHANGED <<preloads, met>>
    BY <1>0, <1>9 DEF Registered!PatchConfig, Registered!Answered, RequestsKnow
  <2>2. \/ /\ configured' = [configured EXCEPT ![of[r]] =
                               IF step[r] = "save" THEN query[r] ELSE None]
           /\ unsaved' = (IF r \in met THEN unsaved \cup {of[r]} ELSE unsaved \ {of[r]})
        \/ UNCHANGED configured /\ unsaved' = unsaved \cup {of[r]}
    BY <1>9 DEF Registered!PatchConfig
  <2>3. \A b \in Requests \ {r} : step'[b] = step[b] /\ of'[b] = of[b] /\ query'[b] = query[b]
    BY <1>0, <2>1 DEF RegistryTypes
  <2>4. \A m \in Names : Registered!Preloading(m)' =
                            IF m = of[r] THEN Registered!Preloading(m) \ {r}
                                         ELSE Registered!Preloading(m)
    BY <1>0, <2>1, <2>3 DEF Registered!Preloading, RegistryTypes
  <2>5. r \in Registered!Preloading(of[r])
    BY <2>1 DEF Registered!Preloading
  <2>6. OneAtATime'
    BY <1>0, <2>1, <2>4 DEF OneAtATime
  <2>7. WritesTheRegistry'
    <3> SUFFICES ASSUME NEW m \in Names, NEW b \in Registered!Preloading(m)', b \notin met
                 PROVE  /\ step'[b] = "save" =>
                              preloads[m] # None /\ preloads[m].query = Registered!Parsed(query'[b])
                        /\ step'[b] = "clear" => preloads[m] = None
      BY <2>1 DEF WritesTheRegistry
    <3>1. b \in Registered!Preloading(m) /\ b \in Requests
      BY <2>4 DEF Registered!Preloading
    <3>2. b # r
      BY <2>4, <2>5, <3>1 DEF Registered!Preloading
    <3>3. QED
      BY <1>0, <2>3, <3>1, <3>2 DEF WritesTheRegistry
  <2>8. AgreesOrWrites'
    <3> SUFFICES ASSUME NEW m \in Names \ unsaved', ~Agrees(m)'
                 PROVE  \E b \in Registered!Preloading(m)' : step'[b] \in {"save", "clear"}
      BY <2>1 DEF AgreesOrWrites
    <3>1. CASE m = of[r]
      <4>1. m \notin unsaved' /\ r \notin met
        BY <2>2, <3>1
      <4>2. configured'[m] = IF step[r] = "save" THEN query[r] ELSE None
        BY <1>0, <2>2, <3>1, <4>1 DEF RegistryTypes
      <4>3. /\ step[r] = "save" =>
                 preloads[m] # None /\ preloads[m].query = Registered!Parsed(query[r])
            /\ step[r] = "clear" => preloads[m] = None
        BY <1>0, <2>5, <3>1, <4>1 DEF WritesTheRegistry
      <4>4. Agrees(m)'
        BY <1>0, <2>1, <4>2, <4>3 DEF Agrees, RequestsKnow
      <4>5. QED
        BY <4>4
    <3>2. CASE m # of[r]
      <4>1. configured'[m] = configured[m] /\ m \notin unsaved
        BY <1>0, <2>1, <2>2, <3>2 DEF RegistryTypes
      <4>2. ~Agrees(m)
        BY <2>1, <4>1 DEF Agrees
      <4>3. PICK b \in Registered!Preloading(m) : step[b] \in {"save", "clear"}
        BY <1>0, <4>1, <4>2 DEF AgreesOrWrites
      <4>4. b \in Requests /\ b # r /\ b \in Registered!Preloading(m)'
        BY <2>4, <2>5, <3>2, <4>3 DEF Registered!Preloading
      <4>5. QED
        BY <2>3, <4>3, <4>4
    <3>3. QED
      BY <3>1, <3>2
  <2>9. QED
    BY <2>6, <2>7, <2>8
<1>10. ASSUME UNCHANGED Registered!vars PROVE Kept
  <2>1. UNCHANGED <<preloads, configured, step, of, query, met, unsaved>>
    BY <1>10 DEF Registered!vars, Registered!request, Registered!history
  <2>2. \A n \in Names : Registered!Preloading(n)' = Registered!Preloading(n)
    BY <2>1 DEF Registered!Preloading
  <2>3. OneAtATime'
    BY <1>0, <2>1, <2>2 DEF OneAtATime
  <2>4. WritesTheRegistry'
    BY <1>0, <2>1, <2>2 DEF WritesTheRegistry
  <2>5. AgreesOrWrites'
    BY <1>0, <2>1, <2>2 DEF AgreesOrWrites, Agrees
  <2>6. QED
    BY <2>3, <2>4, <2>5
<1> HIDE DEF Kept
<1>11. Kept
  BY <1>2, <1>3, <1>4, <1>5, <1>6, <1>7, <1>8, <1>9, <1>10
     DEF Registered!Next, Registered!Request
<1>12. QED
  BY <1>1, <1>11 DEF FileInv, Kept

\* Whatever happened before, what AddPreload makes of the file's query at the next start
\* is the preload the registry shows, once a request that no other on its name ran
\* beside has changed the one and written the other (api.go apiPreload, preload.go).
THEOREM RegistryIsSaved ==
    ASSUME RegistryAssumption
    PROVE  Registered!Spec => []Registered!PreloadIsSaved
<1>1. Registered!Init => FileInv
  BY FileInit
<1>2. FileInv /\ [Registered!Next]_(Registered!vars) => FileInv'
  BY FileStep
<1>3. FileInv => Registered!PreloadIsSaved
  BY DEF FileInv, AgreesOrWrites, Agrees, Registered!PreloadIsSaved
<1>4. QED
  BY <1>1, <1>2, <1>3, PTL DEF Registered!Spec

(***************************************************************************)
(* The HLS session                                                         *)
(***************************************************************************)
\* The packets up to a number, in their order.
Upto(n) == [i \in 1..n |-> i]

\* The callback of the timer is past the map only when the session is out of it.
TimerInv ==
    /\ format \in {"mp4", "ts"} /\ alive \in {"none", "armed", "fired"}
    /\ fed \in BOOLEAN /\ found \in BOOLEAN /\ leaving \in BOOLEAN
    /\ asking \in [Requests -> {"new", "playlist", "init", "reset", "segment", "done"}]
    /\ alive = "none" => ~leaving
    /\ leaving => ~found
    /\ found => fed

\* What the segments took away and what they would take now is what was written.
PacketInv ==
    /\ init \in {<<>>, <<0>>} /\ written \in 0..MaxPackets
    /\ buffer \in Seq(0..MaxPackets) /\ taken \in Seq(1..MaxPackets)
    /\ Session!Media(buffer) \in Seq(1..MaxPackets)
    /\ taken \o Session!Media(buffer) = Upto(written)

\* A packet at the end of the buffer is at the end of what a segment takes.
LEMMA MediaOfAppend ==
    ASSUME MaxPackets \in Nat, NEW s \in Seq(0..MaxPackets), NEW n \in 1..MaxPackets
    PROVE  Session!Media(Append(s, n)) = Append(Session!Media(s), n)
<1>1. CASE s = <<>>
  <2>1. Append(s, n) # <<>> /\ Head(Append(s, n)) = n /\ n # 0
    BY <1>1
  <2>2. QED
    BY <1>1, <2>1 DEF Session!Media, Session!Header
<1>2. CASE s # <<>>
  <2>1. /\ Append(s, n) # <<>> /\ Head(Append(s, n)) = Head(s)
        /\ Tail(Append(s, n)) = Append(Tail(s), n)
    BY <1>2, HeadTailAppend
  <2>2. QED
    BY <1>2, <2>1 DEF Session!Media
<1>3. QED
  BY <1>1, <1>2

LEMMA UptoNext ==
    ASSUME NEW n \in Nat
    PROVE  Append(Upto(n), n + 1) = Upto(n + 1)
<1>1. Upto(n) \in Seq(Nat) /\ Len(Upto(n)) = n /\ \A i \in 1..n : Upto(n)[i] = i
  BY LenProperties, IsASeq DEF Upto
<1>2. /\ Len(Append(Upto(n), n + 1)) = n + 1
      /\ \A i \in 1..n : Append(Upto(n), n + 1)[i] = i
      /\ Append(Upto(n), n + 1)[n + 1] = n + 1
      /\ Append(Upto(n), n + 1) \in Seq(Nat)
  BY <1>1, AppendProperties
<1>3. /\ Upto(n + 1) \in Seq(Nat) /\ Len(Upto(n + 1)) = n + 1
      /\ \A i \in 1..n+1 : Upto(n + 1)[i] = i
  BY LenProperties, IsASeq DEF Upto
<1>4. \A i \in 1..n+1 : i \in 1..n \/ i = n + 1
  OBVIOUS
<1>5. QED
  BY <1>2, <1>3, <1>4, SeqEqual

LEMMA SessionStep ==
    ASSUME MaxPackets \in Nat, TimerInv, PacketInv, [Session!Next]_(Session!vars)
    PROVE  TimerInv' /\ PacketInv'
<1> USE DEF Session!life, Session!data
<1>1. CASE Session!Start
  <2>1. TimerInv'
    BY <1>1 DEF Session!Start, TimerInv
  <2>2. QED
    BY <1>1, <2>1 DEF Session!Start, PacketInv
<1>2. CASE Session!WriteHeader
  <2>1. init' = <<0>> /\ UNCHANGED <<buffer, written, taken>>
    BY <1>2 DEF Session!WriteHeader, Session!Header
  <2>2. TimerInv'
    BY <1>2 DEF Session!WriteHeader, TimerInv
  <2>3. QED
    BY <2>1, <2>2 DEF PacketInv
<1>3. CASE Session!Write
  <2> DEFINE m == Session!Media(buffer)
  <2>1. /\ written < MaxPackets /\ written' = written + 1 /\ buffer' = Append(buffer, written + 1)
        /\ UNCHANGED <<init, taken>>
    BY <1>3 DEF Session!Write
  <2>2. written + 1 \in 1..MaxPackets /\ written \in Nat /\ written' \in 0..MaxPackets
    BY <2>1 DEF PacketInv
  <2>3. buffer' \in Seq(0..MaxPackets)
    <3>1. written + 1 \in 0..MaxPackets
      BY <2>2
    <3>2. QED
      BY <2>1, <3>1, AppendProperties DEF PacketInv
  <2>4. Session!Media(buffer') = Append(m, written + 1)
    BY <2>1, <2>2, MediaOfAppend DEF PacketInv
  <2>5. m \in Seq(1..MaxPackets) /\ taken \in Seq(1..MaxPackets) /\ taken \o m = Upto(written)
    BY DEF PacketInv
  <2> HIDE DEF m
  <2>6. Append(m, written + 1) \in Seq(1..MaxPackets)
    BY <2>2, <2>5, AppendProperties
  <2>7. taken \o Append(m, written + 1) = Append(taken \o m, written + 1)
    BY <2>2, <2>5
  <2>8. taken' \o Session!Media(buffer') = Upto(written')
    BY <2>1, <2>2, <2>4, <2>5, <2>7, UptoNext
  <2>9. TimerInv'
    BY <1>3 DEF Session!Write, TimerInv
  <2>10. /\ init' \in {<<>>, <<0>>} /\ taken' \in Seq(1..MaxPackets) /\ written' \in 0..MaxPackets
         /\ Session!Media(buffer') \in Seq(1..MaxPackets)
    <3>1. init \in {<<>>, <<0>>}
      BY Zenon DEF PacketInv
    <3>2. QED
      BY <2>1, <2>2, <2>4, <2>5, <2>6, <3>1, Zenon
  <2>11. QED
    BY <2>3, <2>8, <2>9, <2>10, Zenon DEF PacketInv
<1>4. CASE Session!Timer
  <2>1. UNCHANGED <<init, buffer, written, taken>>
    BY <1>4 DEF Session!Timer, Session!Fire, Session!RemoveConsumer
  <2>2. TimerInv'
    <3>1. CASE Session!Fire
      <4>1. /\ alive' = "fired" /\ found' = FALSE /\ leaving' = TRUE
            /\ UNCHANGED <<format, fed, asking>>
        BY <3>1 DEF Session!Fire
      <4>2. found' \in BOOLEAN /\ leaving' \in BOOLEAN /\ ~found'
        BY <4>1, Zenon
      <4>3. QED
        BY <4>1, <4>2 DEF TimerInv
    <3>2. CASE Session!RemoveConsumer
      <4>1. /\ leaving /\ fed' = FALSE /\ leaving' = FALSE
            /\ UNCHANGED <<format, found, alive, asking>>
        BY <3>2 DEF Session!RemoveConsumer
      <4>2. fed' \in BOOLEAN /\ leaving' \in BOOLEAN /\ ~leaving' /\ ~found
        BY <4>1, Zenon DEF TimerInv
      <4>3. QED
        BY <4>1, <4>2 DEF TimerInv
    <3>3. QED
      BY <1>4, <3>1, <3>2 DEF Session!Timer
  <2>3. QED
    BY <2>1, <2>2 DEF PacketInv
<1>5. ASSUME NEW r \in Requests,
             \/ Session!HandlerPlaylist(r) \/ Session!HandlerInit(r) \/ Session!HandlerSegmentMP4(r)
             \/ Session!HandlerSegmentTS(r) \/ Session!Reset(r) \/ Session!GetInit(r)
             \/ Session!Playlist(r)
      PROVE  TimerInv' /\ PacketInv'
  <2>1. UNCHANGED <<init, buffer, written, taken>>
    BY <1>5 DEF Session!HandlerPlaylist, Session!HandlerInit, Session!HandlerSegmentMP4,
       Session!HandlerSegmentTS, Session!LookUp, Session!Reset, Session!GetInit, Session!Playlist
  <2>2. UNCHANGED <<format, fed, found, leaving>> /\ alive' \in {alive, "armed"}
    BY <1>5 DEF Session!HandlerPlaylist, Session!HandlerInit, Session!HandlerSegmentMP4,
       Session!HandlerSegmentTS, Session!LookUp, Session!Reset, Session!GetInit, Session!Playlist
  <2>3. asking' \in [Requests -> {"new", "playlist", "init", "reset", "segment", "done"}]
    BY <1>5 DEF Session!HandlerPlaylist, Session!HandlerInit, Session!HandlerSegmentMP4,
       Session!HandlerSegmentTS, Session!LookUp, Session!Reset, Session!GetInit, Session!Playlist,
       TimerInv
  <2>4. QED
    BY <2>1, <2>2, <2>3 DEF PacketInv, TimerInv
<1>6. ASSUME NEW r \in Requests, Session!Segment(r) PROVE TimerInv' /\ PacketInv'
  <2>1. /\ asking' = [asking EXCEPT ![r] = "done"]
        /\ UNCHANGED <<format, fed, found, alive, leaving, init, written>>
    BY <1>6 DEF Session!Segment
  <2>2. TimerInv'
    BY <2>1 DEF TimerInv
  <2>3. CASE buffer = <<>>
    BY <1>6, <2>1, <2>2, <2>3 DEF Session!Segment, PacketInv
  <2>4. CASE buffer # <<>>
    <3>1. taken' = taken \o Session!Media(buffer) /\ buffer' \in {<<>>, init}
      BY <1>6, <2>4 DEF Session!Segment
    <3>2. taken' = Upto(written) /\ taken' \in Seq(1..MaxPackets)
      BY <3>1, ConcatProperties DEF PacketInv
    <3>3. buffer' \in Seq(0..MaxPackets) /\ buffer' \in {<<>>, <<0>>}
      <4>1. buffer' \in {<<>>, <<0>>}
        BY <3>1, Zenon DEF PacketInv
      <4>2. <<>> \in Seq(0..MaxPackets) /\ <<0>> \in Seq(0..MaxPackets)
        OBVIOUS
      <4>3. QED
        BY <4>1, <4>2
    <3>4. Session!Media(buffer') = <<>>
      <4>1. <<0>> # <<>> /\ Head(<<0>>) = 0 /\ Tail(<<0>>) = <<>>
        OBVIOUS
      <4>2. QED
        BY <3>3, <4>1 DEF Session!Media, Session!Header
    <3>5. taken' \o <<>> = taken' /\ <<>> \in Seq(1..MaxPackets)
      BY <3>2, ConcatEmptySeq, EmptySeq
    <3>6. QED
      BY <2>1, <2>2, <3>2, <3>3, <3>4, <3>5 DEF PacketInv
  <2>5. QED
    BY <2>3, <2>4
<1>7. CASE UNCHANGED Session!vars
  BY <1>7 DEF Session!vars, TimerInv, PacketInv
<1>8. QED
  BY <1>1, <1>2, <1>3, <1>4, <1>5, <1>6, <1>7 DEF Session!Next, Session!Request

\* However segment requests, the timer and the writer of the consumer interleave,
\* and whatever late requests restart the timer: a session that can be found has
\* its consumer on the stream, and every packet is in one segment, in order
\* (hls.go, session.go).
THEOREM SegmentsAreWhole ==
    ASSUME MaxPackets \in Nat
    PROVE  Session!Spec => [](Session!TypeOK /\ Session!FoundIsFed /\ Session!NothingTwice)
<1>1. Session!Init => TimerInv /\ PacketInv
  <2> SUFFICES ASSUME Session!Init PROVE TimerInv /\ PacketInv
    OBVIOUS
  <2>1. /\ init = <<>> /\ buffer = <<>> /\ written = 0 /\ taken = <<>>
        /\ <<>> \in Seq(0..MaxPackets) /\ <<>> \in Seq(1..MaxPackets)
    BY EmptySeq DEF Session!Init
  <2>2. Session!Media(<<>>) = <<>>
    BY DEF Session!Media
  <2>3. <<>> \o <<>> = <<>> /\ Upto(0) = <<>>
    <3>1. Upto(0) \in Seq(Nat) /\ Len(Upto(0)) = 0
      BY LenProperties, IsASeq DEF Upto
    <3>2. QED
      BY <3>1, EmptySeq
  <2>4. TimerInv
    BY DEF Session!Init, TimerInv
  <2>5. 0 \in 0..MaxPackets /\ <<>> \in {<<>>, <<0>>}
    OBVIOUS
  <2>6. QED
    BY <2>1, <2>2, <2>3, <2>4, <2>5, Zenon DEF PacketInv
<1>2. TimerInv /\ PacketInv /\ [Session!Next]_(Session!vars) => TimerInv' /\ PacketInv'
  BY SessionStep
<1>3. TimerInv /\ PacketInv => Session!TypeOK /\ Session!FoundIsFed /\ Session!NothingTwice
  BY DEF TimerInv, PacketInv, Upto, Session!TypeOK, Session!Header, Session!FoundIsFed,
     Session!NothingTwice
<1>4. QED
  BY <1>1, <1>2, <1>3, PTL DEF Session!Spec

(***************************************************************************)
(* WebRTC: answers and candidates                                          *)
(***************************************************************************)
OfferSteps == {"new", "offered", "joined", "described", "answered", "released", "done", "failed"}

PeerTypes ==
    /\ role \in [Conns -> {None, "ws", "whep", "whip"}]
    /\ offering \in [Conns -> OfferSteps]
    /\ local \in [Conns -> {"none", "gathering", "gathered", "sent"}]
    /\ pc \in [Conns -> {"new", "connected", "disconnected", "failed", "closed"}]
    /\ UNION {sendAnswer, given, event, onStream, sessions} \subseteq Conns
    /\ ctxConn \in Conns \cup {None} /\ ctxList \subseteq Candidates
    /\ remote \in [Candidates -> {"unsent", "read", "handled"}]
    /\ added \in [Conns -> SUBSET Candidates]

\* The waiter of the local candidates is released by the answer, or by an error
\* that came before there was anything to gather.
ReleasedByAnswer ==
    \A c \in Conns :
        /\ c \in sendAnswer => c \in given \/ (offering[c] = "failed" /\ local[c] = "none")
        /\ offering[c] \in {"answered", "released"} => c \in given
        /\ local[c] = "sent" => c \in given

\* A connection gathers once it has both descriptions, and never before.
GathersWhenDescribed ==
    \A c \in Conns :
        /\ offering[c] \in {"new", "offered", "joined"} => local[c] = "none"
        /\ offering[c] \in {"described", "answered", "released", "done"} => local[c] # "none"

\* The context of the websocket knows a connection with both descriptions only.
ContextIsDescribed ==
    /\ ctxConn # None => local[ctxConn] # "none"
    /\ \A c \in Conns : added[c] # {} => local[c] # "none"

PeerInv == PeerTypes /\ ReleasedByAnswer /\ GathersWhenDescribed /\ ContextIsDescribed

LEMMA PeerStep ==
    ASSUME PeerInv, [Peers!Next]_(Peers!vars)
    PROVE  PeerInv'
<1> USE DEF PeerInv, PeerTypes, OfferSteps, ReleasedByAnswer, GathersWhenDescribed,
            ContextIsDescribed, Peers!offer, Peers!peer, Peers!socket, Peers!Goto, Peers!Closed
<1>1. ASSUME NEW c \in Conns, Peers!SetOffer(c) PROVE PeerInv'
  BY <1>1 DEF Peers!SetOffer
<1>2. ASSUME NEW c \in Conns, Peers!Join(c) PROVE PeerInv'
  BY <1>2 DEF Peers!Join
<1>3. ASSUME NEW c \in Conns, Peers!GetAnswer(c) PROVE PeerInv'
  BY <1>3 DEF Peers!GetAnswer
<1>4. ASSUME NEW c \in Conns, Peers!WriteAnswer(c) PROVE PeerInv'
  BY <1>4 DEF Peers!WriteAnswer
<1>5. ASSUME NEW c \in Conns, Peers!AnswerDone(c) PROVE PeerInv'
  BY <1>5 DEF Peers!AnswerDone
<1>6. ASSUME NEW c \in Conns, Peers!AsyncCandidates(c) PROVE PeerInv'
  BY <1>6 DEF Peers!AsyncCandidates
<1>7. ASSUME NEW c \in Conns, Peers!OutputWebRTC(c) PROVE PeerInv'
  BY <1>7 DEF Peers!OutputWebRTC, Peers!GetCompleteAnswer
<1>8. ASSUME NEW c \in Conns, Peers!InputWebRTC(c) PROVE PeerInv'
  BY <1>8 DEF Peers!InputWebRTC, Peers!GetCompleteAnswer
<1>9. ASSUME NEW c \in Conns, Peers!DeleteSession(c) PROVE PeerInv'
  BY <1>9 DEF Peers!DeleteSession
<1>10. ASSUME NEW m \in Candidates, Peers!SendCandidate(m) PROVE PeerInv'
  BY <1>10 DEF Peers!SendCandidate
<1>11. ASSUME NEW m \in Candidates, Peers!CandidateHandler(m) PROVE PeerInv'
  BY <1>11 DEF Peers!CandidateHandler
<1>12. ASSUME NEW c \in Conns, Peers!Gathered(c) PROVE PeerInv'
  BY <1>12 DEF Peers!Gathered
<1>13. ASSUME NEW c \in Conns, Peers!WriteLocal(c) PROVE PeerInv'
  BY <1>13 DEF Peers!WriteLocal
<1>14. ASSUME NEW c \in Conns, Peers!Connected(c) PROVE PeerInv'
  BY <1>14 DEF Peers!Connected
<1>15. ASSUME NEW c \in Conns, Peers!PlayerGone(c) PROVE PeerInv'
  BY <1>15 DEF Peers!PlayerGone
<1>16. ASSUME NEW c \in Conns, Peers!StateChange(c) PROVE PeerInv'
  BY <1>16 DEF Peers!StateChange
<1>17. ASSUME NEW c \in Conns, Peers!FireClosed(c) PROVE PeerInv'
  BY <1>17 DEF Peers!FireClosed
<1>18. CASE UNCHANGED Peers!vars
  BY <1>18 DEF Peers!vars
<1>19. QED
  <2>1. ASSUME Peers!Next PROVE PeerInv'
    BY ONLY <2>1, <1>1, <1>2, <1>3, <1>4, <1>5, <1>6, <1>7, <1>8, <1>9, <1>10, <1>11, <1>12,
       <1>13, <1>14, <1>15, <1>16, <1>17, Zenon
       DEF Peers!Next, Peers!Handler, Peers!AsyncHandler, Peers!ExchangeSDP, Peers!Publish,
           Peers!Pion
  <2>2. QED
    BY ONLY <2>1, <1>18, [Peers!Next]_(Peers!vars)

\* In whatever order the handlers of a websocket's messages run, and wherever an
\* offer fails: no local candidate is written before the answer it belongs to,
\* and no remote one is given to a connection that has no offer yet
\* (webrtc.go sendAnswer, candidates.go).
THEOREM CandidatesKeepOrder ==
    Peers!Spec => [](Peers!TypeOK /\ Peers!AnswerFirst /\ Peers!OfferFirst)
<1>1. Peers!Init => PeerInv
  <2> SUFFICES ASSUME Peers!Init PROVE PeerInv
    OBVIOUS
  <2>1. UNION {sendAnswer, given, event, onStream, sessions} \subseteq Conns
    BY DEF Peers!Init
  <2>2. PeerTypes
    BY <2>1 DEF Peers!Init, PeerTypes, OfferSteps
  <2>3. \A c \in Conns : /\ c \notin sendAnswer /\ offering[c] = "new" /\ local[c] = "none"
                         /\ added[c] = {}
    BY DEF Peers!Init
  <2>4. ReleasedByAnswer /\ GathersWhenDescribed /\ ContextIsDescribed
    BY <2>3 DEF Peers!Init, ReleasedByAnswer, GathersWhenDescribed, ContextIsDescribed
  <2>5. QED
    BY <2>2, <2>4 DEF PeerInv
<1>2. PeerInv /\ [Peers!Next]_(Peers!vars) => PeerInv'
  BY PeerStep
<1>3. PeerInv => Peers!TypeOK /\ Peers!AnswerFirst /\ Peers!OfferFirst
  BY DEF PeerInv, PeerTypes, OfferSteps, ReleasedByAnswer, ContextIsDescribed, Peers!TypeOK,
     Peers!AnswerFirst, Peers!OfferFirst
<1>4. QED
  BY <1>1, <1>2, <1>3, PTL DEF Peers!Spec

(***************************************************************************)
(* The RTSP server and the child processes behind it                       *)
(***************************************************************************)
ServerTypes ==
    /\ at \in [Conns -> {"off", "accept", "named", "setup", "accepted", "offer", "late", "taken",
                         "mine", "returned"}]
    /\ kind \in [Conns -> {"viewer", "publisher", Nothing} \cup Starts]
    /\ closer \subseteq Conns /\ listed \subseteq closer /\ socket \subseteq Conns
    /\ phase \in [Starts -> {"off", "waiting", "up", "failed"}]
    /\ waits \subseteq Starts /\ chan \in [Starts -> Conns \cup {Nothing}]
    /\ process \subseteq Starts /\ started \in 0..MaxStarts

\* A connection whose handler returned is nowhere; a process has a start that
\* waits for it or a stream that reads it.
ServerInv == ServerTypes /\ Server!LeavesStream /\ Server!NoProcessLeft

LEMMA ServerStep ==
    ASSUME MaxStarts \in Nat, ServerInv, [Server!Next]_(Server!vars)
    PROVE  ServerInv'
<1> USE DEF ServerInv, ServerTypes, Server!LeavesStream, Server!NoProcessLeft, Server!GoTo,
            Server!serving, Server!execs
<1>1. ASSUME NEW c \in Conns, Server!Connect(c) PROVE ServerInv'
  BY <1>1 DEF Server!Connect
<1>2. ASSUME NEW c \in Conns, Server!Describe(c) PROVE ServerInv'
  BY <1>2 DEF Server!Describe, Server!OnDescribe
<1>3. ASSUME NEW c \in Conns, Server!Announce(c) PROVE ServerInv'
  BY <1>3 DEF Server!Announce, Server!OnAnnounce
<1>4. ASSUME NEW c \in Conns, Server!Setup(c) \/ Server!Play(c) \/ Server!LookUp(c) PROVE ServerInv'
  BY <1>4 DEF Server!Setup, Server!Play, Server!LookUp
<1>5. ASSUME NEW c \in Conns, Server!Teardown(c) PROVE ServerInv'
  BY <1>5 DEF Server!Teardown
<1>6. ASSUME NEW c \in Conns, Server!AcceptFails(c) PROVE ServerInv'
  BY <1>6 DEF Server!AcceptFails
<1>7. ASSUME NEW c \in Conns, Server!Offer(c) PROVE ServerInv'
  BY <1>7 DEF Server!Offer
<1>8. ASSUME NEW c \in Conns, Server!OfferLate(c) PROVE ServerInv'
  BY <1>8 DEF Server!OfferLate
<1>9. ASSUME NEW c \in Conns, Server!HandleEnds(c) PROVE ServerInv'
  BY <1>9 DEF Server!HandleEnds
<1>10. ASSUME NEW s \in Starts, Server!ExecHandle(s) PROVE ServerInv'
  BY <1>10 DEF Server!ExecHandle, Server!HandleRTSP
<1>11. ASSUME NEW s \in Starts, Server!Take(s) PROVE ServerInv'
  BY <1>11 DEF Server!Take
<1>12. ASSUME NEW s \in Starts, Server!ExecFails(s) PROVE ServerInv'
  BY <1>12 DEF Server!ExecFails
<1>13. ASSUME NEW s \in Starts, Server!StopProducer(s) PROVE ServerInv'
  BY <1>13 DEF Server!StopProducer
<1>14. ASSUME NEW s \in Starts, Server!ProcessEnds(s) PROVE ServerInv'
  BY <1>14 DEF Server!ProcessEnds
<1>15. CASE UNCHANGED Server!vars
  BY <1>15 DEF Server!vars
<1>16. QED
  <2>1. ASSUME Server!Next PROVE ServerInv'
    BY ONLY <2>1, <1>1, <1>2, <1>3, <1>4, <1>5, <1>6, <1>7, <1>8, <1>9, <1>10, <1>11, <1>12,
       <1>13, <1>14, Zenon DEF Server!Next
  <2>2. QED
    BY ONLY <2>1, <1>15, [Server!Next]_(Server!vars)

\* Whichever way an RTSP connection ends, and whichever way the start of a child
\* process ends: the connection is off its stream, and no process runs that
\* nobody waits for or reads (rtsp.go tcpHandler, exec.go execHandle).
THEOREM NothingIsLeft ==
    ASSUME MaxStarts \in Nat
    PROVE  Server!Init /\ [][Server!Next]_(Server!vars)
           => [](Server!TypeOK /\ Server!LeavesStream /\ Server!NoProcessLeft)
<1>1. Server!Init => ServerInv
  BY DEF Server!Init, ServerInv, ServerTypes, Server!LeavesStream, Server!NoProcessLeft
<1>2. ServerInv /\ [Server!Next]_(Server!vars) => ServerInv'
  BY ServerStep
<1>3. ServerInv => Server!TypeOK /\ Server!LeavesStream /\ Server!NoProcessLeft
  BY DEF ServerInv, ServerTypes, Server!TypeOK
<1>4. QED
  BY <1>1, <1>2, <1>3, PTL

(***************************************************************************)
(* The RTSP client of a camera                                             *)
(***************************************************************************)
ClientTypes ==
    /\ mode \in {"none", "conn", "setup", "play"}
    /\ link \in {"none", "open", "lost", "closed"}
    /\ receivers \subseteq Tracks /\ wanted \in Tracks \cup {NoTrack} /\ todo \subseteq Tracks
    /\ call \in {"idle", "close", "dial", "describe", "setup", "stopped"}
    /\ setups \subseteq Tracks /\ played \subseteq Tracks
    /\ start \in {"off", "top", "check", "read", "ended"}
    /\ reading \in {"none", "current", "old"} /\ asks \in 0..MaxAsks

ClientFlags == {backchannel, answered, halfway} \subseteq BOOLEAN

\* What a call knows: it is about a track, and a connection that was stopped, or
\* never dialled, has no state.
CallKnows ==
    /\ call \in {"close", "dial", "describe", "setup"} => wanted \in Tracks
    /\ call = "stopped" => mode = "none"
    /\ mode = "none" => call \in {"idle", "stopped"} /\ (call = "idle" => receivers = {})

\* Unless a reconnect failed half way, the tracks handed out are set up on a connection
\* that is set up and played on one that plays; a call that sets up is on its way there.
HandedOut ==
    /\ mode = "play" => receivers \subseteq played
    /\ mode = "setup" => receivers \subseteq setups
    /\ mode = "conn" /\ call = "idle" => receivers = {}
    /\ call = "setup" => receivers \cup {wanted} \subseteq setups \cup todo

ClientInv == ClientTypes /\ ClientFlags /\ CallKnows /\ (halfway \/ HandedOut)

LEMMA ClientStep ==
    ASSUME MaxAsks \in Nat, ClientInv, [Client!Next]_(Client!vars)
    PROVE  ClientInv'
<1> USE DEF Client!client, Client!camera, Client!loop, Client!Dial
<1>0. ClientTypes /\ ClientFlags /\ CallKnows /\ (halfway \/ HandedOut)
  BY DEF ClientInv
<1>1. CASE Client!RtspHandler
  BY <1>0, <1>1 DEF Client!RtspHandler, ClientInv, ClientTypes, ClientFlags, CallKnows, HandedOut
<1>2. ASSUME NEW t \in Tracks, Client!GetTrack(t) PROVE ClientInv'
  BY <1>0, <1>2 DEF Client!GetTrack, ClientInv, ClientTypes, ClientFlags, CallKnows, HandedOut
<1>3. CASE Client!ReconnectClose \/ Client!ReconnectDial
  BY <1>0, <1>3 DEF Client!ReconnectClose, Client!ReconnectDial,
     ClientInv, ClientTypes, ClientFlags, CallKnows, HandedOut
<1>4. CASE Client!DialFails \/ Client!RequestFails
  <2>1. CASE Client!ReturnError /\ call \in {"dial", "describe", "setup"}
    <3>1. ClientTypes' /\ CallKnows'
      BY <1>0, <2>1 DEF Client!ReturnError, ClientTypes, CallKnows
    <3>2. halfway' \/ (~halfway /\ ~(mode = "conn" /\ receivers # {}))
      BY <2>1, Zenon DEF Client!ReturnError
    <3>3. halfway' \/ HandedOut'
      BY <1>0, <2>1, <3>2 DEF Client!ReturnError, HandedOut
    <3>4. ClientFlags'
      <4>1. answered' \in BOOLEAN /\ halfway' \in BOOLEAN
        BY <2>1, Zenon DEF Client!ReturnError
      <4>2. backchannel' \in BOOLEAN
        BY <1>0, <1>4, <2>1 DEF Client!DialFails, Client!RequestFails, ClientFlags
      <4>3. QED
        BY <4>1, <4>2, Zenon DEF ClientFlags
    <3>5. QED
      BY <3>1, <3>3, <3>4 DEF ClientInv
  <2>2. CASE ~(Client!ReturnError /\ call \in {"dial", "describe", "setup"})
    BY <1>0, <1>4, <2>2 DEF Client!DialFails, Client!RequestFails,
       ClientInv, ClientTypes, ClientFlags, CallKnows, HandedOut
  <2>3. QED
    BY <2>1, <2>2
<1>5. CASE Client!Request \/ Client!Described
  BY <1>0, <1>5 DEF Client!Request, Client!Described,
     ClientInv, ClientTypes, ClientFlags, CallKnows, HandedOut
<1>6. ASSUME NEW t \in Tracks, Client!SetupMedia(t) PROVE ClientInv'
  BY <1>0, <1>6 DEF Client!SetupMedia, ClientInv, ClientTypes, ClientFlags, CallKnows, HandedOut
<1>7. CASE Client!HandOut
  BY <1>0, <1>7 DEF Client!HandOut, ClientInv, ClientTypes, ClientFlags, CallKnows, HandedOut
<1>8. CASE Client!Stop
  BY <1>0, <1>8 DEF Client!Stop, ClientInv, ClientTypes, ClientFlags, CallKnows, HandedOut
<1>9. CASE Client!Start \/ Client!StartLocked
  BY <1>0, <1>9 DEF Client!Start, Client!StartLocked,
     ClientInv, ClientTypes, ClientFlags, CallKnows, HandedOut
<1>10. CASE Client!HandleCheck \/ Client!HandleData \/ Client!HandleSteals \/ Client!HandleFails
  BY <1>0, <1>10 DEF Client!HandleCheck, Client!HandleData, Client!HandleSteals, Client!HandleFails,
     ClientInv, ClientTypes, ClientFlags, CallKnows, HandedOut
<1>11. CASE Client!HangUp
  BY <1>0, <1>11 DEF Client!HangUp, ClientInv, ClientTypes, ClientFlags, CallKnows, HandedOut
<1>12. CASE UNCHANGED Client!vars
  BY <1>0, <1>12 DEF Client!vars, ClientInv, ClientTypes, ClientFlags, CallKnows, HandedOut
<1>13. QED
  BY <1>1, <1>2, <1>3, <1>4, <1>5, <1>6, <1>7, <1>8, <1>9, <1>10, <1>11, <1>12 DEF Client!Next

\* However GetTrack, a reconnect under the feet of Handle, Start and the camera
\* interleave: a connection that plays was told to play every track that was
\* handed out, unless a reconnect failed after its dial (client.go Reconnect,
\* producer.go Start).
THEOREM TracksPlayTogether ==
    ASSUME MaxAsks \in Nat
    PROVE  Client!Init /\ [][Client!Next]_(Client!vars) => [](Client!TypeOK /\ Client!TracksPlay)
<1>1. Client!Init => ClientInv
  <2>1. Client!Init => ClientTypes /\ CallKnows /\ HandedOut
    BY DEF Client!Init, ClientTypes, CallKnows, HandedOut
  <2>2. Client!Init => ClientFlags
    BY Zenon DEF Client!Init, ClientFlags
  <2>3. QED
    BY <2>1, <2>2 DEF ClientInv
<1>2. ClientInv /\ [Client!Next]_(Client!vars) => ClientInv'
  BY ClientStep
<1>3. ClientInv => Client!TypeOK /\ Client!TracksPlay
  BY DEF ClientInv, ClientTypes, ClientFlags, HandedOut, Client!TypeOK, Client!TracksPlay
<1>4. QED
  BY <1>1, <1>2, <1>3, PTL
=============================================================================
