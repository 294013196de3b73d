------------------------------- MODULE Sender ------------------------------
(***************************************************************************)
(* The queue between a receiver of a source and one viewer (pkg/core         *)
(* track.go): packets are queued by the goroutine of the source, drained by  *)
(* one of the viewer, and the queue is closed by whoever stops the viewer.   *)
(* Start is called by HandleRTP and again by a WebRTC connection that stands. *)
(***************************************************************************)
EXTENDS Integers, Sequences, FiniteSets

CONSTANTS Workers,      \* goroutines that Start may make
          BufSize, MaxPackets

VARIABLES buf,          \* "open", or "nil" after Close
          queue,        \* what the channel holds
          done,         \* s.done was made
          running,      \* workers that range over the channel
          held,         \* worker -> the packet it handles, or 0
          packets, drops, input, \* counters; packets fed by the source so far
          output,       \* history: packets handed to the viewer, in order
          panicked      \* a packet was sent on a closed channel

counts == <<packets, drops, input>>
vars == <<buf, queue, done, running, held, counts, output, panicked>>

Init ==
    /\ buf = "open" /\ queue = <<>> /\ done = FALSE /\ running = {}
    /\ held = [w \in Workers |-> 0] /\ packets = 0 /\ drops = 0 /\ input = 0
    /\ output = <<>> /\ panicked = FALSE
-----------------------------------------------------------------------------
\* Input, under the mutex: a full queue, or one that is gone, drops the packet; a
\* closed channel in the field panics.
Input ==
    /\ input < MaxPackets /\ input' = input + 1 /\ panicked' = (buf = "closed")
    /\ IF buf = "open" /\ Len(queue) < BufSize
       THEN queue' = Append(queue, input') /\ packets' = packets + 1 /\ UNCHANGED drops
       ELSE drops' = drops + 1 /\ UNCHANGED <<queue, packets>>
    /\ UNCHANGED <<buf, done, running, held, output>>

\* Mutant: a second Start is not noticed.
StartAgain ==
    /\ buf = "open" /\ done' = TRUE
    /\ \E w \in Workers \ running : running' = running \cup {w}
    /\ UNCHANGED <<buf, queue, held, counts, output, panicked>>

\* Start, under the mutex: one worker, and none once the queue is closed.
Start ==
    /\ buf = "open" /\ ~done /\ done' = TRUE
    /\ \E w \in Workers \ running : running' = running \cup {w}
    /\ UNCHANGED <<buf, queue, held, counts, output, panicked>>

\* The worker: takes the next packet, hands it to the Handler, and ends when the
\* queue is closed and empty.
Take(w) ==
    /\ w \in running /\ held[w] = 0 /\ queue # <<>>
    /\ held' = [held EXCEPT ![w] = Head(queue)] /\ queue' = Tail(queue)
    /\ UNCHANGED <<buf, done, running, counts, output, panicked>>
Output(w) ==
    /\ held[w] # 0 /\ output' = Append(output, held[w]) /\ held' = [held EXCEPT ![w] = 0]
    /\ UNCHANGED <<buf, queue, done, running, counts, panicked>>
\* Mutant: a closed queue ends the worker with what is left in it.
EndsAtOnce(w) ==
    /\ w \in running /\ held[w] = 0 /\ buf # "open" /\ running' = running \ {w}
    /\ UNCHANGED <<buf, queue, done, held, counts, output, panicked>>

Ends(w) ==
    /\ w \in running /\ held[w] = 0 /\ queue = <<>> /\ buf # "open"
    /\ running' = running \ {w}
    /\ UNCHANGED <<buf, queue, done, held, counts, output, panicked>>

\* Mutant: the closed channel stays in the field.
CloseKeepsField ==
    /\ buf = "open" /\ buf' = "closed"
    /\ UNCHANGED <<queue, done, running, held, counts, output, panicked>>

\* Close, under the mutex: the channel is closed and the field cleared.
Close ==
    /\ buf = "open" /\ buf' = "nil"
    /\ UNCHANGED <<queue, done, running, held, counts, output, panicked>>

Worker(w) == Take(w) \/ Output(w) \/ Ends(w)
Next == Input \/ Start \/ Close \/ \E w \in Workers : Worker(w)
Fairness == \A w \in Workers : WF_vars(Worker(w))
Spec == Init /\ [][Next]_vars /\ Fairness
-----------------------------------------------------------------------------
\* Every variable has its type; the queue keeps its size.
TypeOK ==
    /\ buf \in {"open", "closed", "nil"} /\ queue \in Seq(1..MaxPackets)
    /\ Len(queue) <= BufSize /\ {done, panicked} \subseteq BOOLEAN
    /\ running \subseteq Workers /\ held \in [Workers -> 0..MaxPackets]
    /\ packets + drops <= input /\ input \in 0..MaxPackets
    /\ output \in Seq(1..MaxPackets)

\* A source may go on feeding a viewer that is being stopped (track.go, Close).
NeverPanics == ~panicked

\* However often Start is called, the viewer gets its packets in the order of the
\* source, each of them once (track.go, Start).
InOrder == \A i, j \in 1..Len(output) : i < j => output[i] < output[j]

\* What was queued for a started viewer is handed on, also after Close, and then
\* the worker is gone (track.go, the range over the channel).
Drains == done /\ buf # "open" ~> running = {} /\ Len(output) = packets

\* What the module promises.  A viewer gets what was queued, in order and all of it, however it is started,
\* fed and closed (track.go).
Promise == [](TypeOK /\ NeverPanics /\ InOrder) /\ Drains
=============================================================================
