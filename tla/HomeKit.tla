------------------------------ MODULE HomeKit ------------------------------
(***************************************************************************)
(* The viewers of the HomeKit accessory: internal/homekit/server.go with    *)
(* the request handler and the consumer of pkg/homekit.  On a verified      *)
(* connection (HomeKitPairing) a controller offers a session, reads the     *)
(* answer and starts or ends it.  One server has a single slot for the      *)
(* offered consumer (s.consumer), whatever the number of controllers.       *)
(*                                                                         *)
(* A stop makes the timer due at once and then closes the senders.  The     *)
(* worker of a closed sender still drains what is queued for it, and each   *)
(* packet of the first track pushes the timer again.                        *)
(*                                                                         *)
(* External: what a controller sends.  A session identifier is fresh for    *)
(* every offer and only its controller uses it; the number of offers is     *)
(* bounded by the set Sessions.  Keys, codecs and images are left out.      *)
(***************************************************************************)
EXTENDS Integers, FiniteSets

CONSTANTS Controllers, \* identities in the pairing list
          Links,       \* TCP connections to the accessory
          Sessions,    \* session identifiers, one consumer each
          Most,        \* bound: per consumer, starts of it that may overlap
          MaxQueued,   \* bound: packets queued for the first track when it is closed (4096)
          NoOne

VARIABLES
    link,     \* per connection: what its handler is doing, and for whom
    slot,     \* s.consumer
    offer,    \* per consumer: its connection while that is up, its controller,
              \* whether its answer was read
    deadline, \* per consumer: c.deadline: "nil", "armed", "due"
    sending,  \* consumers whose senders are open, the first of which pushes the deadline
    queued,   \* per consumer: packets that the closed first sender has yet to drain
    listed,   \* per consumer: entries in s.conns
    attached, \* per consumer: entries in stream.consumers
    waiting,  \* per consumer: goroutines in WriteTo
    leaving   \* per consumer: goroutines between RemoveConsumer and DelConn

vars == <<link, slot, offer, deadline, sending, queued, listed, attached,
            waiting, leaving>>

Phases == {"off", "open", "start", "tracked"}

TypeOK ==
    /\ link \in [Links -> [at: Phases, who: Controllers \cup {NoOne},
                           doing: Sessions \cup {NoOne}]]
    /\ slot \in Sessions \cup {NoOne}
    /\ offer \in [Sessions -> [by: Links \cup {NoOne}, who: Controllers \cup {NoOne},
                               answered: BOOLEAN]]
    /\ deadline \in [Sessions -> {"nil", "armed", "due"}]
    /\ sending \subseteq Sessions /\ queued \in [Sessions -> 0..MaxQueued]
    /\ \A f \in {listed, attached, waiting, leaving} :
          f \in [Sessions -> Nat] /\ \A s \in Sessions : f[s] <= Most[s]

Off == [at |-> "off", who |-> NoOne, doing |-> NoOne]

Init ==
    /\ link = [l \in Links |-> Off]
    /\ slot = NoOne
    /\ offer = [s \in Sessions |-> [by |-> NoOne, who |-> NoOne, answered |-> FALSE]]
    /\ deadline = [s \in Sessions |-> "nil"]
    /\ sending = {} /\ queued = [s \in Sessions |-> 0]
    /\ listed = [s \in Sessions |-> 0]
    /\ attached = [s \in Sessions |-> 0]
    /\ waiting = [s \in Sessions |-> 0]
    /\ leaving = [s \in Sessions |-> 0]

viewing == <<listed, attached, waiting, leaving>>
running == <<slot, deadline, sending, queued, viewing>>
consumers == <<offer, running>>

At(l, phase) == link[l].at = phase
GoTo(l, from, to) == At(l, from) /\ link' = [link EXCEPT ![l].at = to]
HangUp(l) ==
    /\ link' = [link EXCEPT ![l] = Off]
    /\ offer' = [s \in Sessions |-> IF offer[s].by = l THEN [offer[s] EXCEPT !.by = NoOne]
                                                       ELSE offer[s]]
Step(f, s, by) == f' = [f EXCEPT ![s] = @ + by]

-----------------------------------------------------------------------------
(* Connections. *)

\* Pair-Verify let the controller in (HomeKitPairing), and AddConn follows.
Connect(l, c) ==
    /\ At(l, "off")
    /\ link' = [link EXCEPT ![l] = [at |-> "open", who |-> c, doing |-> NoOne]]
    /\ UNCHANGED consumers

\* The handler's read fails (the phone sleeps, the transport was closed).  The
\* consumers of the connection are not stopped.
Close(l) ==
    /\ At(l, "open")
    /\ HangUp(l)
    /\ UNCHANGED running

-----------------------------------------------------------------------------
(* Sessions. *)

SetupEndpoints(l, s) ==
    /\ At(l, "open") /\ offer[s].who = NoOne
    /\ offer' = [offer EXCEPT ![s] = [by |-> l, who |-> link[l].who, answered |-> FALSE]]
    /\ slot' = s
    /\ UNCHANGED <<link, deadline, sending, queued, viewing>>

\* The answer is that of the slot, whoever asks.
GetAnswer(l) ==
    /\ At(l, "open") /\ slot # NoOne
    /\ offer' = [offer EXCEPT ![slot].answered = TRUE]
    /\ UNCHANGED <<link, slot, deadline, sending, queued, viewing>>

\* Mutant: identifiers are not compared.
SetAnyConfig(s) == TRUE

\* SetConfig takes only the session that sits in the slot.
SetConfig(s) == s = slot

\* Start with no answer read panics in session.init: the handler hangs up.
Start(l, s) ==
    /\ At(l, "open") /\ offer[s].who = link[l].who /\ listed[s] < Most[s]
    /\ slot # NoOne /\ SetConfig(s)
    /\ IF offer[slot].answered
       THEN /\ link' = [link EXCEPT ![l].at = "start", ![l].doing = slot]
            /\ Step(listed, slot, 1)
            /\ UNCHANGED offer
       ELSE HangUp(l) /\ UNCHANGED listed
    /\ UNCHANGED <<slot, deadline, sending, queued, attached, waiting, leaving>>

\* Mutant: every start makes a timer and a sender that pushes it.
AddPushingTrack(l) ==
    /\ GoTo(l, "start", "tracked")
    /\ deadline' = [deadline EXCEPT ![link[l].doing] = "armed"]
    /\ sending' = sending \cup {link[l].doing}
    /\ UNCHANGED <<slot, offer, queued, viewing>>

\* Only the first track of a consumer makes the timer and pushes it.
AddTrack(l) ==
    /\ GoTo(l, "start", "tracked")
    /\ LET s == link[l].doing
       IN IF deadline[s] = "nil"
          THEN /\ deadline' = [deadline EXCEPT ![s] = "armed"]
               /\ sending' = sending \cup {s}
          ELSE UNCHANGED <<deadline, sending>>
    /\ UNCHANGED <<slot, offer, queued, viewing>>

\* The handler goes on reading, unless its connection was closed meanwhile.
Return(l, from) ==
    /\ At(l, from)
    /\ link' = [link EXCEPT ![l] = IF @.who = NoOne THEN Off
                                   ELSE [@ EXCEPT !.at = "open", !.doing = NoOne]]

\* AddConsumer found no track: the entry in s.conns stays.
StartFails(l) == Return(l, "start") /\ UNCHANGED consumers

Join(l) ==
    /\ Return(l, "tracked")
    /\ Step(attached, link[l].doing, 1)
    /\ Step(waiting, link[l].doing, 1)
    /\ UNCHANGED <<slot, offer, deadline, sending, queued, listed, leaving>>

\* Consumer.Stop.  Its first half, Reset(0), makes the timer due if there is one.  Its second
\* half, Connection.Stop, closes the senders, with whatever is queued for the first of them,
\* and the connection the session was offered on.  What others do between the halves they may
\* as well do before both, the timer having expired by itself (Expire), or after them: a
\* packet that pushes it there is one of those that were queued (Drain).
Left(s) == IF s \in sending THEN 0..MaxQueued ELSE {queued[s]}

Stop(s) ==
    /\ deadline' = [deadline EXCEPT ![s] = IF @ = "nil" THEN @ ELSE "due"]
    /\ \E n \in Left(s) : queued' = [queued EXCEPT ![s] = n]
    /\ sending' = sending \ {s}
    /\ link' = [l \in Links |->
                  IF l # offer[s].by THEN link[l]
                  ELSE IF link[l].at = "open" THEN Off ELSE [link[l] EXCEPT !.who = NoOne]]
    /\ offer' = [t \in Sessions |-> IF offer[t].by = offer[s].by THEN [offer[t] EXCEPT !.by = NoOne]
                                                               ELSE offer[t]]

\* End walks s.conns without its mutex; a DelConn in between may hide an entry.
EndMisses(l, s) ==
    \/ \E t \in Sessions \ {s} : leaving[t] > 0
    \/ \E m \in Links \ {l} : At(m, "open")

End(l, s) ==
    /\ At(l, "open") /\ offer[s].who = link[l].who
    /\ listed[s] > 0
    /\ \/ Stop(s)
       \/ EndMisses(l, s) /\ UNCHANGED <<deadline, sending, queued, link, offer>>
    /\ UNCHANGED <<slot, viewing>>

-----------------------------------------------------------------------------
(* The viewer's goroutine and its timer. *)

\* Mutant: every sender pushes the timer, also one of a repeated start.
PacketOfAny(s) ==
    /\ attached[s] > 0 /\ deadline[s] # "armed"
    /\ deadline' = [deadline EXCEPT ![s] = "armed"]
    /\ UNCHANGED <<link, slot, offer, sending, queued, viewing>>

\* A packet of the first track pushes the timer, also one that is already due.
Packet(s) ==
    /\ s \in sending /\ deadline[s] # "armed"
    /\ deadline' = [deadline EXCEPT ![s] = "armed"]
    /\ UNCHANGED <<link, slot, offer, sending, queued, viewing>>

\* So does one that was queued when the sender was closed.
Drain(s) ==
    /\ s \notin sending /\ queued[s] > 0
    /\ queued' = [queued EXCEPT ![s] = @ - 1]
    /\ deadline' = [deadline EXCEPT ![s] = "armed"]
    /\ UNCHANGED <<link, slot, offer, sending, viewing>>

Expire(s) ==
    /\ deadline[s] = "armed"
    /\ deadline' = [deadline EXCEPT ![s] = "due"]
    /\ UNCHANGED <<link, slot, offer, sending, queued, viewing>>

\* One goroutine takes the tick and removes the consumer, which stops it again.
RemoveConsumer(s) ==
    /\ waiting[s] > 0 /\ deadline[s] = "due"
    /\ Stop(s)
    /\ Step(attached, s, -1)
    /\ Step(waiting, s, -1)
    /\ Step(leaving, s, 1)
    /\ UNCHANGED <<slot, listed>>

\* Mutant: every entry of the consumer goes.
DelConns(s) ==
    /\ leaving[s] > 0
    /\ Step(leaving, s, -1)
    /\ Step(listed, s, -2)
    /\ UNCHANGED <<link, slot, offer, deadline, sending, queued, attached, waiting>>

DelConn(s) ==
    /\ leaving[s] > 0
    /\ Step(leaving, s, -1)
    /\ Step(listed, s, -1)
    /\ UNCHANGED <<link, slot, offer, deadline, sending, queued, attached, waiting>>

-----------------------------------------------------------------------------
Handler(l) ==
    \/ Close(l) \/ GetAnswer(l) \/ AddTrack(l) \/ StartFails(l) \/ Join(l)
    \/ \E c \in Controllers : Connect(l, c)
    \/ \E s \in Sessions : SetupEndpoints(l, s) \/ Start(l, s) \/ End(l, s)

Viewer(s) == Packet(s) \/ Drain(s) \/ Expire(s) \/ RemoveConsumer(s) \/ DelConn(s)

Next == (\E l \in Links : Handler(l)) \/ (\E s \in Sessions : Viewer(s))

Fairness ==
    \A s \in Sessions : WF_vars(Expire(s)) /\ WF_vars(RemoveConsumer(s))

-----------------------------------------------------------------------------
(* With one slot for every controller, an offer may be overwritten before it *)
(* is started.  Whatever the order, the session a handler starts was offered *)
(* by the controller it serves (SetConfig compares the identifiers).         *)
StartIsOwn ==
    \A l \in Links :
        link[l].doing # NoOne => link[l].who \in {NoOne, offer[link[l].doing].who}

\* The senders of a consumer with a timer were closed: no other sender pushes that timer, also
\* not when the session is started again, because AddTrack makes one pushing sender in a
\* lifetime.  What may still push it was queued by then, and each push uses up one of those
\* packets, so the pushes end.
NeverPushedAgain ==
    [][\A s \in Sessions :
         deadline[s] # "nil" /\ s \notin sending =>
             /\ s \notin sending' /\ queued'[s] <= queued[s]
             /\ deadline[s] = "due" /\ deadline'[s] = "armed" => queued'[s] < queued[s]]_vars

\* A viewer whose senders were closed, by End or by itself, is taken off the stream: no packet
\* that was still queued and no repeated start keeps its goroutine waiting for ever.
StoppedViewerLeaves ==
    \A s \in Sessions :
        (attached[s] > 0 /\ s \notin sending) ~> (leaving[s] > 0 \/ attached[s] = 0)

\* What the module promises.  Each controller starts what is its own, and a viewer that was stopped leaves its
\* stream for good (server.go, consumer.go).
Promise == [](TypeOK /\ StartIsOwn) /\ NeverPushedAgain /\ StoppedViewerLeaves
=============================================================================
