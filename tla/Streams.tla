------------------------------ MODULE Streams ------------------------------
(***************************************************************************)
(* One stream of internal/streams: viewers (Consumers) that come and go,   *)
(* the sources it dials for them (producers 1..N), the linger timer that   *)
(* keeps a source warm after the last viewer, and the worker that          *)
(* reconnects a source whose connection ended.                             *)
(*                                                                         *)
(* Goroutines interleave at the lock operations of the code.  s.mu is held *)
(* across several steps only by the stop loop (`loop`), p.mu only by a     *)
(* reconnect (`rec`); every other critical section is one action.  The     *)
(* stop loop reads the children of a producer WITHOUT p.mu, as the code    *)
(* does, and then waits for p.mu in producer.stop().                       *)
(*                                                                         *)
(* Abstracted: a media is its kind and a producer offers at most one media *)
(* of a kind; the codec match is equality of kinds.  A receiver that left  *)
(* p.receivers is never seen again, so its children are not recorded.  A   *)
(* Consumer is one session: AddConsumer, watching, RemoveConsumer.         *)
(* External and internal (pushed) producers are outside this module.       *)
(***************************************************************************)
EXTENDS Naturals, FiniteSets, Sequences

CONSTANTS
    Consumers,      \* viewer sessions
    Players,        \* Play calls that open their own client (play.go:62)
    N,              \* number of configured sources
    Kinds,          \* media kinds
    Back,           \* the kinds that are sendonly on the producer (backchannel)
    Medias,         \* Medias[c]: the medias consumer c asks for, in order
    Offers,         \* Offers[p]: the kinds source p offers once connected
    MatchAll,       \* consumers whose medias take every matching producer
    Loops,          \* <<c, p>>: c's source is p itself, a loop request
    MaxReconnects,  \* bound on the connections lost per run (a model bound)
    Timer, Nobody   \* who may hold s.mu besides a consumer

Producers == 1..N

ASSUME StreamsAssumption ==
    /\ N \in Nat \ {0}
    /\ IsFiniteSet(Consumers)
    /\ Back \subseteq Kinds
    /\ Medias \in [Consumers -> Seq(Kinds) \ {<<>>}]
    /\ Offers \in [Producers -> SUBSET Kinds]
    /\ MatchAll \subseteq Consumers
    /\ Loops \subseteq Consumers \X Producers
    /\ MaxReconnects \in Nat
    /\ Timer \notin Consumers /\ Nobody \notin Consumers /\ Timer # Nobody

VARIABLES
    pc, pos, errs, starts, track,               \* the locals of each session
    play,                                       \* the progress of each Play call
    pending, consumers, linger, stopTimer, generation, fired, loop,  \* Stream
    state, conn, recv, senders, childs, workerID, due, rec, lost     \* Producers

locals   == <<pc, pos, errs, starts, track>>
timerv   == <<stopTimer, generation, fired>>
streamv  == <<pending, consumers, linger, loop>>
prodv    == <<state, conn, recv, senders, childs>>
workv    == <<workerID, due, rec, lost>>
vars     == <<locals, play, streamv, timerv, prodv, workv>>

\* AddConsumer is between its increment and its decrement of s.pending.
Adding(c) == pc[c] \in {"dial", "track", "attach", "leave"}
Adders    == {c \in Consumers : Adding(c)}

HeldBy(a) == [by |-> a, at |-> 1, idle |-> FALSE]
Free      == HeldBy(Nobody)
SmuFree   == loop.by = Nobody
PmuFree(p) == ~rec[p].busy
NoMove    == [busy |-> FALSE, todo |-> {}, taken |-> {}, carry |-> {}]
Moving(todo, taken, carry) == [busy |-> TRUE, todo |-> todo, taken |-> taken, carry |-> carry]

Init ==
    /\ pc = [c \in Consumers |-> "new"]
    /\ pos = [c \in Consumers |-> [media |-> 1, source |-> 1]]
    /\ errs = [c \in Consumers |-> {}]
    /\ starts = [c \in Consumers |-> {}]
    /\ track = [c \in Consumers |-> "none"]
    /\ play = [i \in Players |-> "idle"]
    /\ pending = 0
    /\ consumers = {}
    /\ linger \in BOOLEAN          \* SetLinger, called once while loading the configuration
    /\ stopTimer = 0               \* 0: no timer; g: the timer armed as generation g
    /\ generation = 0
    /\ fired = {}                  \* expired generations whose callback waits for s.mu
    /\ loop = Free
    /\ state = [p \in Producers |-> "None"]
    /\ conn = [p \in Producers |-> FALSE]
    /\ recv = [p \in Producers |-> {}]
    /\ senders = [p \in Producers |-> [k \in Kinds |-> {}]]
    /\ childs = [p \in Producers |-> [k \in Kinds |-> {}]]
    /\ workerID = [p \in Producers |-> 0]
    /\ due = [p \in Producers |-> {}]
    /\ rec = [p \in Producers |-> NoMove]
    /\ lost = 0

(***************************************************************************)
(* The linger timer                                                        *)
(***************************************************************************)
\* Mutant: the generation is not advanced.
CancelKeepsGeneration ==
    IF stopTimer # 0
    THEN /\ stopTimer' = 0
         /\ UNCHANGED <<generation, fired>>
    ELSE UNCHANGED timerv

\* cancelLingerStopLocked.  A callback that already fired is not recalled:
\* it finds a newer generation.
CancelLinger ==
    IF stopTimer # 0
    THEN /\ stopTimer' = 0
         /\ generation' = generation + 1
         /\ UNCHANGED fired
    ELSE UNCHANGED timerv

\* time.AfterFunc's timer runs out; its callback still has to take s.mu.
Expire ==
    /\ stopTimer # 0
    /\ stopTimer \notin fired
    /\ fired' = fired \union {stopTimer}
    /\ UNCHANGED <<locals, play, streamv, stopTimer, generation, prodv, workv>>

\* The callback of scheduleStopProducers, with s.mu.
LingerCallback(g) ==
    /\ g \in fired
    /\ SmuFree
    /\ fired' = fired \ {g}
    /\ IF generation # g
       THEN UNCHANGED <<stopTimer, loop>>
       ELSE /\ stopTimer' = 0
            /\ loop' = IF pending > 0 THEN loop ELSE HeldBy(Timer)
    /\ UNCHANGED <<locals, play, pending, consumers, linger, generation, prodv, workv>>

(***************************************************************************)
(* AddConsumer: medias x producers                                         *)
(***************************************************************************)
Media(c) == Medias[c][pos[c].media]
Source(c) == pos[c].source

GoTo(c, q) ==
    /\ pos' = [pos EXCEPT ![c] = q]
    /\ pc' = [pc EXCEPT ![c] = IF q.media > Len(Medias[c]) THEN "leave" ELSE "dial"]

\* The loop goes on with the next producer, then with the next media.
Forward(c) ==
    GoTo(c, IF Source(c) < N THEN [pos[c] EXCEPT !.source = @ + 1]
            ELSE [media |-> pos[c].media + 1, source |-> 1])

\* The media was matched: break producers, unless it takes every match.
Matched(c) ==
    IF c \in MatchAll THEN Forward(c)
    ELSE GoTo(c, [media |-> pos[c].media + 1, source |-> 1])

\* Mutant: the count is raised without taking s.mu.
AdmitUnlocked(c) ==
    /\ pc[c] = "new"
    /\ pending' = pending + 1
    /\ CancelLinger
    /\ pc' = [pc EXCEPT ![c] = "dial"]
    /\ UNCHANGED <<pos, errs, starts, track, play, consumers, linger, loop, prodv, workv>>

\* beginConsumerAdd
Admit(c) ==
    /\ pc[c] = "new"
    /\ SmuFree
    /\ pending' = pending + 1
    /\ CancelLinger
    /\ pc' = [pc EXCEPT ![c] = "dial"]
    /\ UNCHANGED <<pos, errs, starts, track, play, consumers, linger, loop, prodv, workv>>

\* A loop request, or a producer that already failed this consumer.
SkipProducer(c) ==
    /\ pc[c] = "dial"
    /\ <<c, Source(c)>> \in Loops \/ Source(c) \in errs[c]
    /\ Forward(c)
    /\ UNCHANGED <<errs, starts, track, play, streamv, timerv, prodv, workv>>

\* prod.Dial with a producer that has no connection
Dial(c) ==
    LET p == Source(c) IN
    /\ pc[c] = "dial"
    /\ <<c, p>> \notin Loops /\ p \notin errs[c]
    /\ PmuFree(p)
    /\ state[p] = "None"
    /\ \/ /\ conn' = [conn EXCEPT ![p] = TRUE]
          /\ state' = [state EXCEPT ![p] = "Medias"]
          /\ pc' = [pc EXCEPT ![c] = "track"]
          /\ UNCHANGED <<pos, errs>>
       \/ /\ errs' = [errs EXCEPT ![c] = @ \union {p}]
          /\ Forward(c)
          /\ UNCHANGED <<conn, state>>
    /\ UNCHANGED <<starts, track, play, streamv, timerv, recv, senders, childs, workv>>

\* prod.Dial with a producer that is already connected
DialWarm(c) ==
    LET p == Source(c) IN
    /\ pc[c] = "dial"
    /\ <<c, p>> \notin Loops /\ p \notin errs[c]
    /\ PmuFree(p)
    /\ state[p] # "None"
    /\ pc' = [pc EXCEPT ![c] = "track"]
    /\ UNCHANGED <<pos, errs, starts, track, play, streamv, timerv, prodv, workv>>

\* prod.GetMedias has nothing for this media, or there is no connection
NoMatch(c) ==
    LET p == Source(c) IN
    /\ pc[c] = "track"
    /\ PmuFree(p)
    /\ ~conn[p] \/ Media(c) \notin Offers[p]
    /\ Forward(c)
    /\ UNCHANGED <<errs, starts, track, play, streamv, timerv, prodv, workv>>

Matches(c) ==
    /\ pc[c] = "track"
    /\ PmuFree(Source(c))
    /\ conn[Source(c)]
    /\ Media(c) \in Offers[Source(c)]

\* Mutant: the first track does not change the state.
FirstTrackUnnoticed(p) == [state EXCEPT ![p] = @]

FirstTrack(p) == IF state[p] = "Medias" THEN [state EXCEPT ![p] = "Tracks"] ELSE state

\* prod.GetTrack: a receiver the producer already has is shared.
GetTrack(c) ==
    LET p == Source(c) k == Media(c) IN
    /\ Matches(c)
    /\ k \notin Back
    /\ recv' = [recv EXCEPT ![p] = @ \union {k}]
    /\ state' = IF k \in recv[p] THEN state ELSE FirstTrack(p)
    /\ track' = [track EXCEPT ![c] = "live"]
    /\ pc' = [pc EXCEPT ![c] = "attach"]
    /\ UNCHANGED <<pos, errs, starts, play, streamv, timerv, conn, senders, childs, workv>>

\* prod.GetTrack or prod.AddTrack fails: prodErrors
TrackError(c) ==
    /\ Matches(c)
    /\ Media(c) \notin recv[Source(c)]
    /\ errs' = [errs EXCEPT ![c] = @ \union {Source(c)}]
    /\ Forward(c)
    /\ UNCHANGED <<starts, track, play, streamv, timerv, prodv, workv>>

\* cons.AddTrack: the sender becomes a child of the receiver read before.
\* Neither s.mu nor p.mu is held, so that receiver may have been replaced.
AddTrack(c) ==
    LET p == Source(c) k == Media(c) IN
    /\ pc[c] = "attach"
    /\ childs' = IF track[c] = "live"
                 THEN [childs EXCEPT ![p][k] = @ \union {c}] ELSE childs
    /\ starts' = [starts EXCEPT ![c] = @ \union {p}]
    /\ track' = [track EXCEPT ![c] = "none"]
    /\ Matched(c)
    /\ UNCHANGED <<errs, play, streamv, timerv, state, conn, recv, senders, workv>>

\* cons.AddTrack fails, or on a backchannel cons.GetTrack does.
ConsumerTrackError(c) ==
    /\ \/ pc[c] = "attach"
       \/ Matches(c) /\ Media(c) \in Back
    /\ track' = [track EXCEPT ![c] = "none"]
    /\ Forward(c)
    /\ UNCHANGED <<errs, starts, play, streamv, timerv, prodv, workv>>

\* prod.AddTrack: the producer's sender becomes a child of the consumer's
\* receiver, which stays in p.senders until the producer stops.
AddBackTrack(c) ==
    LET p == Source(c) k == Media(c) IN
    /\ Matches(c)
    /\ k \in Back
    /\ childs' = [childs EXCEPT ![p][k] = @ \union {c}]
    /\ senders' = [senders EXCEPT ![p][k] = @ \union {c}]
    /\ state' = FirstTrack(p)
    /\ starts' = [starts EXCEPT ![c] = @ \union {p}]
    /\ Matched(c)
    /\ UNCHANGED <<errs, track, play, streamv, timerv, conn, recv, workv>>

(***************************************************************************)
(* AddConsumer after the loops, and RemoveConsumer                         *)
(***************************************************************************)
\* Where a session goes once its stop request is over: a failed AddConsumer
\* and a RemoveConsumer return, a successful AddConsumer goes on.
After(c) == IF starts[c] = {} THEN "done" ELSE "append"

\* Mutant: a failed AddConsumer requests no stop.
LeaveForgetsFailure(c) ==
    /\ pc[c] = "leave"
    /\ pending' = pending - 1
    /\ pc' = [pc EXCEPT ![c] =
                 IF pending # 1 THEN After(c)
                 ELSE IF starts[c] = {} THEN "done" ELSE "stop"]
    /\ UNCHANGED <<pos, errs, starts, track, play, consumers, linger, loop, timerv, prodv, workv>>

\* Mutant: the count is lowered twice.
LeaveTwice(c) ==
    /\ pc[c] = "leave"
    /\ pending' = pending - 2
    /\ pc' = [pc EXCEPT ![c] =
                 IF pending # 1 THEN After(c)
                 ELSE IF starts[c] = {} THEN "sched" ELSE "stop"]
    /\ UNCHANGED <<pos, errs, starts, track, play, consumers, linger, loop, timerv, prodv, workv>>

\* s.pending.Add(-1), without s.mu
Leave(c) ==
    /\ pc[c] = "leave"
    /\ pending' = pending - 1
    /\ pc' = [pc EXCEPT ![c] =
                 IF pending # 1 THEN After(c)
                 ELSE IF starts[c] = {} THEN "sched" ELSE "stop"]
    /\ UNCHANGED <<pos, errs, starts, track, play, consumers, linger, loop, timerv, prodv, workv>>

\* scheduleStopProducers arms the timer ...
Schedule(c) ==
    /\ pc[c] = "sched"
    /\ SmuFree
    /\ consumers = {} /\ linger
    /\ generation' = generation + 1
    /\ stopTimer' = generation + 1
    /\ pc' = [pc EXCEPT ![c] = After(c)]
    /\ UNCHANGED <<pos, errs, starts, track, play, streamv, fired, prodv, workv>>

\* Mutant: it returns where it should stop at once.
ScheduleNowReturns(c) ==
    /\ pc[c] = "sched"
    /\ SmuFree
    /\ consumers # {} \/ ~linger
    /\ pc' = [pc EXCEPT ![c] = After(c)]
    /\ UNCHANGED <<pos, errs, starts, track, play, streamv, timerv, prodv, workv>>

\* ... or unlocks s.mu and calls stopProducers.
ScheduleNow(c) ==
    /\ pc[c] = "sched"
    /\ SmuFree
    /\ consumers # {} \/ ~linger
    /\ pc' = [pc EXCEPT ![c] = "stop"]
    /\ UNCHANGED <<pos, errs, starts, track, play, streamv, timerv, prodv, workv>>

\* Mutant: it does not wait for viewers being added.
StopProducersEagerly(c) ==
    /\ pc[c] = "stop"
    /\ SmuFree
    /\ pc' = [pc EXCEPT ![c] = "stopping"]
    /\ loop' = HeldBy(c)
    /\ UNCHANGED <<pos, errs, starts, track, play, pending, consumers, linger, timerv, prodv, workv>>

\* stopProducers takes s.mu; stopProducersLocked skips while someone is added.
StopProducers(c) ==
    /\ pc[c] = "stop"
    /\ SmuFree
    /\ IF pending > 0
       THEN /\ pc' = [pc EXCEPT ![c] = After(c)]
            /\ UNCHANGED loop
       ELSE /\ pc' = [pc EXCEPT ![c] = "stopping"]
            /\ loop' = HeldBy(c)
    /\ UNCHANGED <<pos, errs, starts, track, play, pending, consumers, linger, timerv, prodv, workv>>

Join(c) ==
    /\ pc[c] = "append"
    /\ SmuFree
    /\ consumers' = consumers \union {c}
    /\ pc' = [pc EXCEPT ![c] = "start"]
    /\ UNCHANGED <<pos, errs, starts, track, play, pending, linger, loop, timerv, prodv, workv>>

\* prod.start, for one of prodStarts
StartProducer(c, p) ==
    /\ pc[c] = "start"
    /\ p \in starts[c]
    /\ PmuFree(p)
    /\ IF state[p] = "Tracks"
       THEN /\ state' = [state EXCEPT ![p] = "Start"]
            /\ workerID' = [workerID EXCEPT ![p] = @ + 1]
       ELSE UNCHANGED <<state, workerID>>
    /\ starts' = [starts EXCEPT ![c] = @ \ {p}]
    /\ pc' = [pc EXCEPT ![c] = IF starts[c] = {p} THEN "on" ELSE "start"]
    /\ UNCHANGED <<pos, errs, track, play, streamv, timerv, conn, recv, senders, childs, due, rec, lost>>

\* RemoveConsumer starts with cons.Stop(), before it takes s.mu.  Children
\* that a reconnect is carrying are not in the list the close removes from.
Detach(c) ==
    /\ pc[c] = "on"
    /\ childs' = [p \in Producers |-> [k \in Kinds |-> childs[p][k] \ {c}]]
    /\ pc' = [pc EXCEPT ![c] = "detached"]
    /\ UNCHANGED <<pos, errs, starts, track, play, streamv, timerv, state, conn, recv, senders, workv>>

Delete(c) ==
    /\ pc[c] = "detached"
    /\ SmuFree
    /\ consumers' = consumers \ {c}
    /\ pc' = [pc EXCEPT ![c] = "sched"]
    /\ UNCHANGED <<pos, errs, starts, track, play, pending, linger, loop, timerv, prodv, workv>>

(***************************************************************************)
(* stopProducersLocked: one producer after the other, with s.mu            *)
(***************************************************************************)
StopCheck ==
    /\ ~SmuFree
    /\ ~loop.idle
    /\ loop.at <= N
    /\ loop' = IF \E k \in Kinds : childs[loop.at][k] # {}
               THEN [loop EXCEPT !.at = @ + 1] ELSE [loop EXCEPT !.idle = TRUE]
    /\ UNCHANGED <<locals, play, pending, consumers, linger, timerv, prodv, workv>>

\* producer.stop(): the connection closes, and with it the children of its
\* receivers; a receiver handed out before is dead from now on.
StopProducer ==
    LET p == loop.at IN
    /\ loop.idle
    /\ PmuFree(p)
    /\ workerID' = [workerID EXCEPT ![p] = IF state[p] = "Start" THEN @ + 1 ELSE @]
    /\ state' = [state EXCEPT ![p] = "None"]
    /\ conn' = [conn EXCEPT ![p] = FALSE]
    /\ recv' = [recv EXCEPT ![p] = {}]
    /\ senders' = [senders EXCEPT ![p] = [k \in Kinds |-> {}]]
    /\ childs' = [childs EXCEPT ![p] = [k \in Kinds |-> {}]]
    /\ track' = [c \in Consumers |->
                   IF track[c] = "live" /\ Source(c) = p THEN "dead" ELSE track[c]]
    /\ loop' = [loop EXCEPT !.at = @ + 1, !.idle = FALSE]
    /\ UNCHANGED <<pc, pos, errs, starts, play, pending, consumers, linger, timerv, due, rec, lost>>

StopEnd ==
    /\ ~SmuFree
    /\ loop.at > N
    /\ loop' = Free
    /\ pc' = IF loop.by \in Consumers THEN [pc EXCEPT ![loop.by] = After(loop.by)] ELSE pc
    /\ UNCHANGED <<pos, errs, starts, track, play, pending, consumers, linger, timerv, prodv, workv>>

(***************************************************************************)
(* The worker of a started producer, and reconnect                         *)
(***************************************************************************)
\* conn.Start() of the current worker returns: its reconnect is due.
LoseConnection(p) ==
    /\ lost < MaxReconnects
    /\ state[p] = "Start"
    /\ PmuFree(p)
    /\ workerID[p] \notin due[p]
    /\ due' = [due EXCEPT ![p] = @ \union {workerID[p]}]
    /\ lost' = lost + 1
    /\ UNCHANGED <<locals, play, streamv, timerv, prodv, workerID, rec>>

\* A worker that a stop has overtaken gives up.
StaleReconnect(p, w) ==
    /\ w \in due[p]
    /\ w # workerID[p]
    /\ PmuFree(p)
    /\ due' = [due EXCEPT ![p] = @ \ {w}]
    /\ UNCHANGED <<locals, play, streamv, timerv, prodv, workerID, rec, lost>>

\* Mutant: the worker number is not compared.
ReconnectUnchecked(p, w) ==
    /\ w \in due[p]
    /\ PmuFree(p)
    /\ due' = [due EXCEPT ![p] = @ \ {w}]
    /\ rec' = [rec EXCEPT ![p] =
                 Moving(recv[p] \union {k \in Back : senders[p][k] # {}}, {}, {})]
    /\ UNCHANGED <<locals, play, streamv, timerv, prodv, workerID, lost>>

\* GetProducer succeeded, with p.mu; while it fails the reconnect stays due
\* (time.AfterFunc tries again with the same workerID).
Reconnect(p, w) ==
    /\ w \in due[p]
    /\ w = workerID[p]
    /\ PmuFree(p)
    /\ due' = [due EXCEPT ![p] = @ \ {w}]
    /\ rec' = [rec EXCEPT ![p] =
                 Moving(recv[p] \union {k \in Back : senders[p][k] # {}}, {}, {})]
    /\ UNCHANGED <<locals, play, streamv, timerv, prodv, workerID, lost>>

\* MoveNode takes the children of the old receiver ...
TakeChilds(p, k) ==
    /\ rec[p].taken = {}
    /\ k \in rec[p].todo \ Back
    /\ rec' = [rec EXCEPT ![p] = Moving(rec[p].todo \ {k}, {k}, childs[p][k])]
    /\ childs' = [childs EXCEPT ![p][k] = {}]
    /\ UNCHANGED <<locals, play, streamv, timerv, state, conn, recv, senders, workerID, due, lost>>

\* ... gives them to the new one, which then takes the old one's place in
\* p.receivers.  Whoever holds the old receiver attaches to nothing.
GiveChilds(p, k) ==
    /\ k \in rec[p].taken
    /\ childs' = [childs EXCEPT ![p][k] = rec[p].carry]
    /\ rec' = [rec EXCEPT ![p] = Moving(rec[p].todo, {}, {})]
    /\ track' = [c \in Consumers |->
                   IF track[c] = "live" /\ Source(c) = p /\ Media(c) = k THEN "dead" ELSE track[c]]
    /\ UNCHANGED <<pc, pos, errs, starts, play, streamv, timerv, state, conn, recv, senders,
                   workerID, due, lost>>

\* conn.AddTrack for every track of p.senders, those of departed viewers too
MoveSenders(p, k) ==
    /\ rec[p].taken = {}
    /\ k \in rec[p].todo \intersect Back
    /\ childs' = [childs EXCEPT ![p][k] = senders[p][k]]
    /\ rec' = [rec EXCEPT ![p] = Moving(rec[p].todo \ {k}, {}, {})]
    /\ UNCHANGED <<locals, play, streamv, timerv, state, conn, recv, senders, workerID, due, lost>>

\* The old connection stops: what no media of the new one matched loses its
\* children, and the new connection gets a worker.
SwapConnection(p) ==
    /\ rec[p].busy
    /\ rec[p].taken = {}
    /\ childs' = [childs EXCEPT ![p] =
                    [k \in Kinds |-> IF k \in rec[p].todo THEN {} ELSE childs[p][k]]]
    /\ recv' = [recv EXCEPT ![p] = @ \ rec[p].todo]
    /\ rec' = [rec EXCEPT ![p] = NoMove]
    /\ UNCHANGED <<locals, play, streamv, timerv, state, conn, senders, workerID, due, lost>>

(***************************************************************************)
(* Play with its own client: AddInternalConsumer, RemoveInternalConsumer   *)
(***************************************************************************)
PlayCancel(i) ==
    /\ play[i] = "idle"
    /\ SmuFree
    /\ CancelLinger
    /\ play' = [play EXCEPT ![i] = "cancelled"]
    /\ UNCHANGED <<locals, streamv, prodv, workv>>

PlayAppend(i) ==
    /\ play[i] = "cancelled"
    /\ SmuFree
    /\ consumers' = consumers \union {i}
    /\ play' = [play EXCEPT ![i] = "playing"]
    /\ UNCHANGED <<locals, pending, linger, loop, timerv, prodv, workv>>

PlayEnd(i) ==
    /\ play[i] = "playing"
    /\ SmuFree
    /\ consumers' = consumers \ {i}
    /\ play' = [play EXCEPT ![i] = "over"]
    /\ UNCHANGED <<locals, pending, linger, loop, timerv, prodv, workv>>

(***************************************************************************)
(* Specification                                                           *)
(***************************************************************************)
\* The steps of a session that the code takes on its own; a viewer decides
\* when to come (Admit) and when to go (Detach).
Session(c) ==
    \/ SkipProducer(c) \/ Dial(c) \/ DialWarm(c) \/ NoMatch(c)
    \/ GetTrack(c) \/ TrackError(c) \/ AddTrack(c) \/ ConsumerTrackError(c) \/ AddBackTrack(c)
    \/ Leave(c) \/ Schedule(c) \/ ScheduleNow(c) \/ StopProducers(c)
    \/ Join(c) \/ (\E p \in Producers : StartProducer(c, p))
    \/ Delete(c)

StopLoop == StopCheck \/ StopProducer \/ StopEnd

Move(p) ==
    \/ \E k \in Kinds : TakeChilds(p, k) \/ GiveChilds(p, k) \/ MoveSenders(p, k)
    \/ SwapConnection(p)

Worker(p) ==
    \/ LoseConnection(p)
    \/ \E w \in due[p] : StaleReconnect(p, w) \/ Reconnect(p, w)
    \/ Move(p)

\* Everybody has come and gone and nothing is left to run.
Finished ==
    /\ \A c \in Consumers : pc[c] = "done"
    /\ \A i \in Players : play[i] = "over"
    /\ SmuFree /\ stopTimer = 0 /\ fired = {}
    /\ UNCHANGED vars

Next ==
    \/ \E c \in Consumers : Admit(c) \/ Session(c) \/ Detach(c)
    \/ \E i \in Players : PlayCancel(i) \/ PlayAppend(i) \/ PlayEnd(i)
    \/ Expire \/ (\E g \in fired : LingerCallback(g))
    \/ StopLoop
    \/ \E p \in Producers : Worker(p)
    \/ Finished

Spec == Init /\ [][Next]_vars

\* Goroutines that can run do run, a mutex that is free again is taken, and
\* an armed timer expires.
Fairness ==
    /\ \A c \in Consumers : WF_vars(Session(c))
    /\ WF_vars(Expire)
    /\ WF_vars(\E g \in fired : LingerCallback(g))
    /\ WF_vars(StopLoop)
    /\ \A p \in Producers : WF_vars(Move(p))
    /\ \A i \in Players : WF_vars(PlayAppend(i))

FairSpec == Spec /\ Fairness

(***************************************************************************)
(* Properties                                                              *)
(***************************************************************************)
States == {"None", "Medias", "Tracks", "Start"}
Steps == {"new", "dial", "track", "attach", "leave", "sched", "stop", "stopping",
          "append", "start", "on", "detached", "done"}

Positions == [media : Nat \ {0}, source : Producers]

\* Every variable keeps its type.
TypeOK ==
    /\ pc \in [Consumers -> Steps]
    /\ pos \in [Consumers -> Positions]
    /\ errs \in [Consumers -> SUBSET Producers]
    /\ starts \in [Consumers -> SUBSET Producers]
    /\ track \in [Consumers -> {"none", "live", "dead"}]
    /\ play \in [Players -> {"idle", "cancelled", "playing", "over"}]
    /\ pending \in Nat
    /\ consumers \in SUBSET (Consumers \union Players)
    /\ linger \in BOOLEAN
    /\ stopTimer \in Nat /\ generation \in Nat /\ fired \in SUBSET Nat
    /\ loop \in [by : Consumers \union {Timer, Nobody}, at : 1..(N + 1), idle : BOOLEAN]
    /\ state \in [Producers -> States]
    /\ conn \in [Producers -> BOOLEAN]
    /\ recv \in [Producers -> SUBSET Kinds]
    /\ senders \in [Producers -> [Kinds -> SUBSET Consumers]]
    /\ childs \in [Producers -> [Kinds -> SUBSET Consumers]]
    /\ workerID \in [Producers -> Nat]
    /\ due \in [Producers -> SUBSET Nat]
    /\ rec \in [Producers -> [busy : BOOLEAN, todo : SUBSET Kinds,
                              taken : SUBSET Kinds, carry : SUBSET Consumers]]
    /\ lost \in 0..MaxReconnects

\* A session that has not left: one that has is no reader of anything.
Present(c) == pc[c] \notin {"new", "detached", "done"}
Readers(p) == {c \in rec[p].carry \union UNION {childs[p][k] : k \in Kinds} : Present(c)}
HasReader(p) == Readers(p) # {}

Closes(p) == conn[p] /\ ~conn'[p]

\* The boundary beginConsumerAdd promises: while any viewer is between its
\* admission and its decrement of s.pending, no source is closed under it,
\* whoever else leaves, fails or lets the timer expire (add_consumer.go:11).
NoCloseWhileAdding == [][\A p \in Producers : Closes(p) => Adders = {}]_vars

\* A source is only closed when no viewer reads from it and no viewer holds
\* one of its receivers on the way to attach (add_consumer.go:97).
CloseOnlyIdle ==
    [][\A p \in Producers : Closes(p) =>
          ~HasReader(p) /\ \A c \in Consumers : ~(track[c] = "live" /\ Source(c) = p)]_vars

\* A viewer whose AddConsumer returned success is attached to a source that
\* is connected and started, until it leaves (add_consumer.go:106-119).
ViewerIsServed ==
    \A c \in Consumers : pc[c] = "on" =>
        \E p \in Producers, k \in Kinds : c \in childs[p][k] /\ conn[p] /\ state[p] = "Start"

\* No source is forgotten: a connected source without readers always has
\* somebody left who will look at it again - a timer, a stop loop, a session
\* still on its way through AddConsumer or RemoveConsumer, a playback
\* (add_consumer.go:97, "stop producers if they don't have readers").
NoForgottenSource ==
    \A p \in Producers : conn[p] /\ ~HasReader(p) =>
        \/ stopTimer # 0 \/ ~SmuFree
        \/ \E c \in Consumers : pc[c] \notin {"new", "on", "done"}
        \/ \E i \in Players : play[i] \in {"cancelled", "playing"}

\* A callback of an earlier window never cuts a later one short: the stop
\* loop is entered from the timer only when the window the stream waits for
\* now has itself run out (stream.go:118).
ExpiryIsCurrent == [][SmuFree /\ loop'.by = Timer => stopTimer \in fired]_vars

\* A reconnect never brings back a source that was stopped meanwhile: p.mu
\* is only held for moving tracks while the producer is started, and a
\* producer without a connection is in its first state (producer.go:180).
StoppedStaysStopped ==
    \A p \in Producers : /\ conn[p] <=> state[p] # "None"
                         /\ rec[p].busy => state[p] = "Start"

\* While no connection is lost, the stream keeps the promise of SourceUse:
\* the mutexes, the pending count, the generations and the split stop loop
\* together amount to "closed only while nobody arrives and nobody uses it".
Promise == INSTANCE SourceUse WITH
    Sources <- Producers,
    arriving <- Adders,
    open <- {p \in Producers : conn[p]},
    using <- [p \in Producers |-> UNION {childs[p][k] : k \in Kinds}]

KeepsPromise == Promise!Spec

\* ... and closes, in the end, every source that stays unused: a timer is
\* always armed again, and no stop request is lost between two sessions.
KeepsFairPromise == Promise!FairSpec
=============================================================================
