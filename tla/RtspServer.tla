----------------------------- MODULE RtspServer ----------------------------
(***************************************************************************)
(* The RTSP server (pkg/rtsp/server.go with internal/rtsp/rtsp.go) and the   *)
(* child processes that deliver their stream through it (internal/exec).     *)
(* A connection is a viewer (DESCRIBE, SETUP, PLAY), a publisher (ANNOUNCE,  *)
(* SETUP, RECORD) or a process that exec started and that publishes to a     *)
(* path of its own, where the start of the process waits for it.             *)
(* Remote ends and processes are external.                                   *)
(***************************************************************************)
EXTENDS Naturals

CONSTANTS Conns,       \* RTSP connections
          Starts,      \* sources of kind exec, each with a path of its own
          Nothing,
          MaxStarts    \* bound: how often processes are started

VARIABLES at,          \* where tcpHandler of a connection is
          kind,        \* "viewer", "publisher", or the source whose process it is
          closer,      \* the closure that takes it off its stream is set
          listed,      \* connections that are consumers or producers of a stream
          socket,      \* connections whose socket is open
          phase,       \* where execHandle of a source is
          waiter,      \* the waiters map: paths somebody waits at
          chan,        \* the channel of a source: one connection at most
          process,     \* processes that run
          started      \* processes started so far

serving == <<at, kind, closer, listed, socket>>
execs == <<phase, waiter, chan, process, started>>
vars == <<serving, execs>>

Init ==
    /\ at = [c \in Conns |-> "off"] /\ kind = [c \in Conns |-> Nothing]
    /\ closer = {} /\ listed = {} /\ socket = {}
    /\ phase = [s \in Starts |-> "off"] /\ waiter = {}
    /\ chan = [s \in Starts |-> Nothing] /\ process = {} /\ started = 0

GoTo(c, place) == at' = [at EXCEPT ![c] = place]
-----------------------------------------------------------------------------
Connect(c) ==
    /\ at[c] = "off" /\ GoTo(c, "accept") /\ socket' = socket \cup {c}
    /\ \E k \in {"viewer", "publisher"} \cup {s \in process : phase[s] \in {"waiting", "up"}} :
          kind' = [kind EXCEPT ![c] = k]
    /\ UNCHANGED <<closer, listed, execs>>

\* The listener of tcpHandler puts the connection on the stream it names, as a
\* consumer or as a producer, and sets the closer.
OnDescribe(c) == listed' = listed \cup {c} /\ closer' = closer \cup {c}
OnAnnounce(c) ==
    kind[c] = "publisher" /\ listed' = listed \cup {c} /\ closer' = closer \cup {c}

\* DESCRIBE: without a stream, or when AddConsumer fails, the answer is 404 and
\* Accept returns.
Describe(c) ==
    /\ at[c] = "accept" /\ kind[c] = "viewer"
    /\ \/ OnDescribe(c) /\ GoTo(c, "named")
       \/ GoTo(c, "accepted") /\ UNCHANGED <<listed, closer>>
    /\ UNCHANGED <<kind, socket, execs>>

\* ANNOUNCE: answered whether the path is a stream's or not.
Announce(c) ==
    /\ at[c] = "accept" /\ kind[c] # "viewer" /\ GoTo(c, "named")
    /\ OnAnnounce(c) \/ UNCHANGED <<listed, closer>>
    /\ UNCHANGED <<kind, socket, execs>>

Setup(c) ==
    /\ at[c] = "named" /\ GoTo(c, "setup")
    /\ UNCHANGED <<kind, closer, listed, socket, execs>>

\* PLAY, RECORD, and TEARDOWN, which closes the socket: Accept returns nil.
Play(c) ==
    /\ at[c] = "setup" /\ GoTo(c, "accepted")
    /\ UNCHANGED <<kind, closer, listed, socket, execs>>

Teardown(c) ==
    /\ at[c] \in {"accept", "named", "setup"} /\ GoTo(c, "accepted") /\ socket' = socket \ {c}
    /\ UNCHANGED <<kind, closer, listed, execs>>

\* Mutant: an error of Accept just closes the connection.
AcceptFailsQuietly(c) ==
    /\ at[c] \in {"accept", "named", "setup"} /\ GoTo(c, "returned")
    /\ socket' = socket \ {c}
    /\ UNCHANGED <<kind, closer, listed, execs>>

\* A read error, the deadline of a request, a wrong password or method.
AcceptFails(c) ==
    /\ at[c] \in {"accept", "named", "setup"} /\ GoTo(c, "returned")
    /\ listed' = IF c \in closer THEN listed \ {c} ELSE listed
    /\ socket' = socket \ {c}
    /\ UNCHANGED <<kind, closer, execs>>

\* The handler of exec looks the path up, then offers the connection without
\* waiting; nobody there means the server goes on with it.
LookUp(c) ==
    /\ at[c] = "accepted"
    /\ GoTo(c, IF kind[c] \in waiter THEN "offer" ELSE "mine")
    /\ UNCHANGED <<kind, closer, listed, socket, execs>>

Offer(c) ==
    /\ at[c] = "offer"
    /\ IF chan[kind[c]] = Nothing
       THEN chan' = [chan EXCEPT ![kind[c]] = c] /\ GoTo(c, "taken")
       ELSE GoTo(c, "mine") /\ UNCHANGED chan
    /\ UNCHANGED <<kind, closer, listed, socket, phase, waiter, process, started>>

\* The channel it found is that of a start before: nobody reads it any more.
OfferLate(c) ==
    /\ at[c] = "late" /\ \E place \in {"taken", "mine"} : GoTo(c, place)
    /\ UNCHANGED <<kind, closer, listed, socket, execs>>

\* Handle pumps until the connection ends, the deadline passes or the stream
\* stops it; then the closer, then Close.
HandleEnds(c) ==
    /\ at[c] = "mine" /\ GoTo(c, "returned")
    /\ listed' = IF c \in closer THEN listed \ {c} ELSE listed
    /\ socket' = socket \ {c}
    /\ UNCHANGED <<kind, closer, execs>>
-----------------------------------------------------------------------------
\* handleRTSP: a channel of its own at the path first, then the process, which
\* may not start.
HandleRTSP(s) ==
    /\ chan' = [chan EXCEPT ![s] = Nothing]
    /\ at' = [c \in Conns |-> IF at[c] = "offer" /\ kind[c] = s THEN "late" ELSE at[c]]
    /\ \/ phase' = [phase EXCEPT ![s] = "waiting"] /\ process' = process \cup {s}
          /\ waiter' = waiter \cup {s}
       \/ phase' = [phase EXCEPT ![s] = "failed"] /\ UNCHANGED <<process, waiter>>

\* execHandle: a command that may not run, or that needs a server that is off, is
\* refused before it is anywhere.
ExecHandle(s) ==
    /\ phase[s] \in {"off", "failed"} /\ s \notin process /\ started < MaxStarts
    /\ started' = started + 1
    /\ \/ HandleRTSP(s)
       \/ phase' = [phase EXCEPT ![s] = "failed"] /\ UNCHANGED <<process, waiter, chan, at>>
    /\ UNCHANGED <<kind, closer, listed, socket>>

Take(s) ==
    /\ phase[s] = "waiting" /\ chan[s] # Nothing
    /\ phase' = [phase EXCEPT ![s] = "up"] /\ waiter' = waiter \ {s}
    /\ UNCHANGED <<chan, process, started, serving>>

\* Mutant: the timer is not waited for.
ExecFailsWithProcess(s) ==
    /\ phase[s] = "waiting" /\ s \notin process
    /\ phase' = [phase EXCEPT ![s] = "failed"] /\ waiter' = waiter \ {s}
    /\ UNCHANGED <<chan, process, started, serving>>

\* Mutant: the process of a start that failed is not closed.
ExecFailsAndLeaves(s) ==
    /\ phase[s] = "waiting"
    /\ phase' = [phase EXCEPT ![s] = "failed"] /\ waiter' = waiter \ {s}
    /\ UNCHANGED <<chan, process, started, serving>>

\* The timer, or the end of the process: execHandle closes the command.
ExecFails(s) ==
    /\ phase[s] = "waiting"
    /\ phase' = [phase EXCEPT ![s] = "failed"] /\ waiter' = waiter \ {s}
    /\ process' = process \ {s}
    /\ UNCHANGED <<chan, started, serving>>

\* Stop of the producer: Close of the connection calls OnClose, cmd.Close.
StopProducer(s) ==
    /\ phase[s] = "up" /\ phase' = [phase EXCEPT ![s] = "off"]
    /\ socket' = socket \ {chan[s]} /\ process' = process \ {s}
    /\ UNCHANGED <<chan, waiter, started, at, kind, closer, listed>>

ProcessEnds(s) ==
    /\ s \in process /\ process' = process \ {s}
    /\ UNCHANGED <<phase, waiter, chan, started, serving>>
-----------------------------------------------------------------------------
Next ==
    \/ \E c \in Conns : Connect(c) \/ Describe(c) \/ Announce(c) \/ Setup(c) \/ Play(c)
                        \/ Teardown(c) \/ AcceptFails(c) \/ LookUp(c) \/ Offer(c) \/ OfferLate(c)
                        \/ HandleEnds(c)
    \/ \E s \in Starts : ExecHandle(s) \/ Take(s) \/ ExecFails(s) \/ StopProducer(s) \/ ProcessEnds(s)

\* The select of handleRTSP has a timer.
Fairness == \A s \in Starts : WF_vars(Take(s) \/ ExecFails(s))
-----------------------------------------------------------------------------
\* Every variable has its type.
TypeOK ==
    /\ at \in [Conns -> {"off", "accept", "named", "setup", "accepted", "offer", "late", "taken", "mine", "returned"}]
    /\ kind \in [Conns -> {"viewer", "publisher", Nothing} \cup Starts]
    /\ closer \subseteq Conns /\ listed \subseteq closer /\ socket \subseteq Conns
    /\ phase \in [Starts -> {"off", "waiting", "up", "failed"}]
    /\ waiter \subseteq Starts /\ chan \in [Starts -> Conns \cup {Nothing}]
    /\ process \subseteq Starts /\ started \in 0..MaxStarts

\* A connection that tcpHandler is done with is no consumer and no producer any
\* more, whichever way it ended.
LeavesStream == \A c \in Conns : at[c] = "returned" => c \notin listed /\ c \notin socket

\* A process runs only while its start waits for it or its stream is read.
NoProcessLeft == \A s \in process : phase[s] \in {"waiting", "up"}

\* A start answers the stream that asked for it, also when the process neither
\* connects nor ends.
StartAnswers == \A s \in Starts : (phase[s] = "waiting") ~> (phase[s] # "waiting")

\* What the module promises.  Nothing is left of a connection or a process, and a start is answered
\* (tcpHandler, execHandle).
Promise == [](TypeOK /\ LeavesStream /\ NoProcessLeft) /\ StartAnswers
=============================================================================
