-------------------------------- MODULE Dtls -------------------------------
(***************************************************************************)
(* The life of a DTLS camera connection (pkg/tutk/dtls/conn_dtls.go with     *)
(* pkg/wyze/client.go above it): discovery, session, DTLS handshake, AV      *)
(* login, the two exchanges of the key login, the intercom, and Close, which *)
(* waits for the goroutines the connection started.  The camera answers, or  *)
(* answers twice, late or never; media packets are in Tutk.                  *)
(***************************************************************************)
EXTENDS Integers, Sequences

CONSTANT CmdQueue       \* places in rawCmd (16)

VARIABLES step,         \* what the client is doing
          answers,      \* answers of the camera on their way
          rawCmd,       \* answers the worker has queued
          clientConn,   \* the field: NIL or set
          connOpen,     \* the DTLS connection behind it is open
          serverConn,   \* the intercom's connection is set
          reader, worker, acker,    \* the three goroutines of wg
          closer        \* where Close is

control == <<step, answers, rawCmd>>
conns == <<clientConn, connOpen, serverConn>>
routines == <<reader, worker, acker>>
vars == <<control, conns, routines, closer>>

\* The exchanges that read rawCmd, and what comes after each.
Exchanges == {"login", "challenge", "auth", "control"}
After(s) == CASE s = "login" -> "challenge" [] s = "challenge" -> "auth"
              [] s = "auth" -> "ready" [] s = "control" -> "serve"
Cancelled == closer # "none"
Panicked == worker = "panic" \/ acker = "panic"

Init ==
    /\ step = "discovery" /\ answers = {} /\ rawCmd = <<>>
    /\ clientConn = FALSE /\ connOpen = FALSE /\ serverConn = FALSE
    /\ reader = "none" /\ worker = "none" /\ acker = "none" /\ closer = "none"
-----------------------------------------------------------------------------
\* DialDTLS: each stage has five seconds.  The reader starts with the DTLS
\* handshake, the worker after it.
DiscoveryDone == step = "discovery" /\ step' = "session" /\ UNCHANGED <<conns, routines>>

SessionDone ==
    /\ step = "session" /\ step' = "handshake"
    /\ reader' = "run" /\ UNCHANGED <<worker, acker, conns>>

HandshakeDone ==
    /\ step = "handshake" /\ step' = "login"
    /\ clientConn' = TRUE /\ connOpen' = TRUE
    /\ worker' = "check" /\ UNCHANGED <<serverConn, reader, acker>>

StageFails ==
    /\ step \in {"discovery", "session", "handshake"} /\ step' = "failed"
    /\ UNCHANGED <<conns, routines>>

Connect ==
    /\ closer = "none"
    /\ DiscoveryDone \/ SessionDone \/ HandshakeDone \/ StageFails
    /\ answers' \in IF step' = "login" THEN {{}, {"login"}} ELSE {answers}
    /\ UNCHANGED <<rawCmd, closer>>

\* A request is written again each second, the two login packets only once.
Transmit ==
    /\ step \in Exchanges \ {"login"} /\ connOpen /\ answers' = answers \cup {step}
    /\ UNCHANGED <<step, rawCmd, conns, routines, closer>>

\* An answer from the queue: acknowledged, and the awaited one or dropped.
TakeAnswer ==
    /\ step \in Exchanges /\ rawCmd # <<>> /\ rawCmd' = Tail(rawCmd)
    /\ step' = IF Head(rawCmd) = step THEN After(step) ELSE step
    /\ acker' = IF step = "login" /\ Head(rawCmd) = step THEN "wait" ELSE acker
    /\ UNCHANGED <<answers, conns, reader, worker, closer>>

\* Mutant: the key login waits without a timer.
TimeoutNotOfAuth ==
    /\ step \in Exchanges \ {"auth"}
    /\ step' = IF step = "control" THEN "ready" ELSE "failed"
    /\ UNCHANGED <<answers, rawCmd, conns, routines, closer>>

\* The timer of the exchange: the dial fails, the intercom is refused.
Timeout ==
    /\ step \in Exchanges
    /\ step' = IF step = "control" THEN "ready" ELSE "failed"
    /\ UNCHANGED <<answers, rawCmd, conns, routines, closer>>

\* StartIntercom on a ready connection, and AVServStart that ends it.
StartIntercom ==
    /\ step = "ready" /\ ~serverConn /\ closer = "none" /\ step' = "control"
    /\ UNCHANGED <<answers, rawCmd, conns, routines, closer>>

AVServStart ==
    /\ step = "serve" /\ step' = "ready" /\ serverConn' \in BOOLEAN
    /\ UNCHANGED <<answers, rawCmd, clientConn, connOpen, routines, closer>>
-----------------------------------------------------------------------------
\* Mutant: a full channel drops nothing.
QueueAlways(kind) == rawCmd' = Append(rawCmd, kind)

\* queue: a full channel loses its oldest entry.
Queue(kind) ==
    rawCmd' = Append(IF Len(rawCmd) = CmdQueue THEN Tail(rawCmd) ELSE rawCmd, kind)

\* The worker looks at the context, loads the field, and blocks in Read.
WorkerCheck ==
    /\ worker = "check" /\ worker' = IF Cancelled THEN "end" ELSE "load"
    /\ UNCHANGED <<control, conns, reader, acker, closer>>

WorkerLoad ==
    /\ worker = "load" /\ worker' = IF clientConn THEN "read" ELSE "panic"
    /\ UNCHANGED <<control, conns, reader, acker, closer>>

WorkerRead(kind) ==
    /\ worker = "read" /\ connOpen /\ reader = "run" /\ kind \in answers
    /\ worker' = "check"
    /\ answers' \in {answers, answers \ {kind}} /\ Queue(kind)
    /\ UNCHANGED <<step, conns, reader, acker, closer>>

WorkerEnds ==
    /\ worker = "read" /\ ~connOpen /\ worker' = "end"
    /\ UNCHANGED <<control, conns, reader, acker, closer>>

\* The ticker of AVClientStart: test the field, then write through it.
AckTick ==
    /\ \/ acker = "wait" /\ acker' = IF Cancelled THEN "end" ELSE IF clientConn THEN "write" ELSE "wait"
       \/ acker = "write" /\ acker' = IF clientConn THEN "wait" ELSE "panic"
    /\ UNCHANGED <<control, conns, reader, worker, closer>>

\* The reader wakes up every 100 ms to look at the context.
ReaderEnds ==
    /\ reader = "run" /\ Cancelled /\ reader' = "end"
    /\ UNCHANGED <<control, conns, worker, acker, closer>>

\* The camera, or the DTLS layer, closes the connection.
HangUp ==
    /\ connOpen /\ clientConn /\ connOpen' = FALSE
    /\ UNCHANGED <<control, clientConn, serverConn, routines, closer>>
-----------------------------------------------------------------------------
\* Close, of a dial that failed or of a connection in use: StopIntercom, the
\* context, the fields under the lock, wg.Wait.
CloseBegins ==
    /\ closer = "none" /\ step \in {"ready", "failed"}
    /\ closer' = "cancelled" /\ serverConn' = FALSE
    /\ UNCHANGED <<control, clientConn, connOpen, routines>>

CloseFields ==
    /\ closer = "cancelled" /\ closer' = "waiting" /\ clientConn' = FALSE
    /\ UNCHANGED <<control, connOpen, serverConn, routines>>

\* Mutant: the connection is closed after the goroutines have ended.
CloseConnLast ==
    /\ closer = "closed" /\ connOpen /\ connOpen' = FALSE
    /\ UNCHANGED <<control, clientConn, serverConn, routines, closer>>

\* go conn.Close(), some time after the field was cleared.
CloseConn ==
    /\ closer = "waiting" /\ connOpen /\ connOpen' = FALSE
    /\ UNCHANGED <<control, clientConn, serverConn, routines, closer>>

CloseReturns ==
    /\ closer = "waiting" /\ {reader, worker, acker} \subseteq {"none", "end"}
    /\ closer' = "closed"
    /\ UNCHANGED <<control, conns, routines>>

Next ==
    /\ ~Panicked
    /\ \/ Connect \/ Transmit \/ TakeAnswer \/ Timeout \/ StartIntercom \/ AVServStart
       \/ WorkerCheck \/ WorkerLoad \/ WorkerEnds \/ AckTick \/ ReaderEnds \/ HangUp
       \/ CloseBegins \/ CloseFields \/ CloseConn \/ CloseReturns
       \/ \E kind \in Exchanges : WorkerRead(kind)

\* Timers fire, goroutines run, and a Close that has begun goes on.  Nothing is
\* asked of the camera.
Fairness ==
    /\ WF_vars(~Panicked /\ (Timeout \/ (step # "discovery" /\ Connect)))
    /\ WF_vars(~Panicked /\ (WorkerCheck \/ WorkerLoad \/ WorkerEnds))
    /\ WF_vars(~Panicked /\ AckTick) /\ WF_vars(~Panicked /\ ReaderEnds)
    /\ WF_vars(~Panicked /\ (CloseFields \/ CloseConn \/ CloseReturns))
-----------------------------------------------------------------------------
TypeOK ==
    /\ step \in Exchanges \cup {"discovery", "session", "handshake", "ready", "serve", "failed"}
    /\ answers \subseteq Exchanges
    /\ rawCmd \in Seq(Exchanges) /\ Len(rawCmd) <= CmdQueue
    /\ clientConn \in BOOLEAN /\ connOpen \in BOOLEAN /\ serverConn \in BOOLEAN
    /\ reader \in {"none", "run", "end"}
    /\ worker \in {"none", "check", "load", "read", "end", "panic"}
    /\ acker \in {"none", "wait", "write", "end", "panic"}
    /\ closer \in {"none", "cancelled", "waiting", "closed"}

\* Whatever the camera does or leaves undone, a dial that found it ends.
DialEnds == (step = "session") ~> (step \in {"ready", "failed"} \/ Panicked)

\* Close comes back: every goroutine it waits for notices, also a worker that
\* sits in Read of a silent connection (Close, worker, reader).
CloseEnds == (closer = "cancelled") ~> (closer = "closed" \/ Panicked)

\* What the module promises.  Dial and Close come back, and the command queue keeps its bound (DTLSConn).
Promise == []TypeOK /\ DialEnds /\ CloseEnds
=============================================================================
