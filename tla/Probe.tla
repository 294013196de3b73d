------------------------------- MODULE Probe -------------------------------
(***************************************************************************)
(* The exec source that fetches the camera's stream over the local network   *)
(* (probe-ezviz-direct-reverse.py): it asks the cloud to make the camera      *)
(* call back, with a thread for each request, checks the first connection,    *)
(* invites the stream, accepts a second connection for it, forbids itself     *)
(* any new connection (ezviz_network_lock.py) and hands the media on.  The    *)
(* camera answers a request at any time, also after the next one was made,    *)
(* so a late callback may be what the second accept returns.                  *)
(***************************************************************************)
EXTENDS Integers, Sequences

CONSTANTS Attempts,        \* --callback-attempts
          Backlog,         \* connections that wait to be accepted: listen(4)
          MaxStrangers     \* bound: connections from elsewhere

VARIABLES deny, strict,    \* --deny-internet-after-connect; --strict-camera-ip with --camera-ip
          step, attempt,   \* of main
          thread, result,  \* a worker per request, 0 is the invite; its answer
          told,            \* requests that reached the camera and are not answered
          listener, queue, \* the listening socket and who waits to be accepted
          conn,            \* the accepted connection
          locked, code,    \* no new sockets; the exit code
          received, output, strangers

flags == <<deny, strict>>
cloud == <<thread, result, told>>
net == <<listener, queue, strangers>>
media == <<received, output>>
vars == <<flags, step, attempt, cloud, net, conn, locked, code, media>>

Workers == 0..Attempts
Running == {w \in Workers : thread[w] = "running"}

Init ==
    /\ deny \in BOOLEAN /\ strict \in BOOLEAN
    /\ step = "off" /\ attempt = 0 /\ thread = [w \in Workers |-> "none"] /\ result = "none"
    /\ told = {} /\ listener = "none" /\ queue = <<>> /\ conn = "none" /\ locked = FALSE
    /\ code = -1 /\ received = FALSE /\ output = {} /\ strangers = 0

Goto(from, to) == step = from /\ step' = to /\ UNCHANGED code
\* Returning from main closes every socket and ends the daemon threads.
Exit(n) ==
    /\ step' = "exit" /\ code' = n /\ listener' = "closed" /\ queue' = <<>> /\ conn' = "none"
    /\ thread' = [w \in Workers |-> IF thread[w] = "running" THEN "done" ELSE thread[w]]
    /\ UNCHANGED <<strangers, result, told>>
-----------------------------------------------------------------------------
\* The threads and the other side.

\* The request reaches the camera while its worker waits for the answer; the
\* camera may call back more than once.
Reach(w) ==
    /\ thread[w] = "running" /\ w \notin told /\ told' = told \cup {w}
    /\ UNCHANGED <<flags, step, attempt, thread, result, net, conn, locked, code, media>>

\* _notify_worker, _invite_worker: an answer, an error or a socket timeout.
WorkerEnds(w) ==
    /\ thread[w] = "running" /\ thread' = [thread EXCEPT ![w] = "done"]
    /\ IF w = 0 THEN result' \in {"ok", "error"} ELSE UNCHANGED result
    /\ UNCHANGED <<flags, step, attempt, told, net, conn, locked, code, media>>

\* The camera opens the connection that it was asked for.
CallBack(w) ==
    /\ w \in told /\ listener = "open" /\ Len(queue) < Backlog
    /\ told' = told \ {w} /\ queue' = Append(queue, IF w = 0 THEN "media" ELSE "callback")
    /\ UNCHANGED <<flags, step, attempt, thread, result, listener, strangers, conn, locked, code, media>>

Stranger ==
    /\ listener = "open" /\ Len(queue) < Backlog /\ strangers < MaxStrangers
    /\ strangers' = strangers + 1 /\ queue' = Append(queue, "stranger")
    /\ UNCHANGED <<flags, step, attempt, cloud, listener, conn, locked, code, media>>
-----------------------------------------------------------------------------
\* main, up to the listening socket and the device's CAS address.
Begin ==
    /\ Goto("off", "notify") /\ listener' = "open"
    /\ UNCHANGED <<flags, attempt, cloud, queue, strangers, conn, locked, media>>
NoAddress ==
    /\ step = "notify" /\ attempt = 0 /\ Exit(8)
    /\ UNCHANGED <<flags, attempt, locked, media>>

Notify ==
    /\ Goto("notify", "accept") /\ attempt' = attempt + 1
    /\ thread' = [thread EXCEPT ![attempt'] = "running"]
    /\ UNCHANGED <<flags, result, told, net, conn, locked, media>>

AcceptCallback ==
    /\ Goto("accept", "examine") /\ queue # <<>> /\ conn' = Head(queue) /\ queue' = Tail(queue)
    /\ UNCHANGED <<flags, attempt, cloud, listener, strangers, locked, media>>
AcceptTimesOut ==
    /\ step = "accept" /\ queue = <<>>
    /\ IF attempt < Attempts
       THEN step' = "notify" /\ UNCHANGED <<code, net, conn, cloud>>
       ELSE Exit(2)
    /\ UNCHANGED <<flags, attempt, locked, media>>

\* _handle_callback_connection: the frame has to be a check request that names the
\* camera; only strict asks for its address too.
Examined ==
    /\ Goto("examine", "control") /\ conn \in {"callback"} \cup IF strict THEN {} ELSE {"stranger"}
    /\ conn' = "none"
    /\ UNCHANGED <<flags, attempt, cloud, net, locked, media>>
ExamineFails ==
    /\ step = "examine" /\ \E n \in {1, 3} : Exit(n)
    /\ UNCHANGED <<flags, attempt, locked, media>>

\* Mutant: the callback is enough to go on.
ControlEndsAnyway ==
    /\ Goto("control", "invite") /\ UNCHANGED <<flags, attempt, cloud, net, conn, locked, media>>

\* _wait_for_control_threads, whose deadline may come before a thread's own.
ControlEnds ==
    /\ Goto("control", "invite") /\ Running = {}
    /\ UNCHANGED <<flags, attempt, cloud, net, conn, locked, media>>
ControlTimesOut ==
    /\ step = "control" /\ Running # {} /\ Exit(7) /\ UNCHANGED <<flags, attempt, locked, media>>

Invite ==
    /\ Goto("invite", "media") /\ thread' = [thread EXCEPT ![0] = "running"]
    /\ UNCHANGED <<flags, attempt, result, told, net, conn, locked, media>>

\* The first connection is taken for the media's; the listener is closed.
AcceptMedia ==
    /\ Goto("media", "take") /\ queue # <<>> /\ conn' = Head(queue)
    /\ listener' = "closed" /\ queue' = <<>>
    /\ UNCHANGED <<flags, attempt, cloud, strangers, locked, media>>
MediaTimesOut ==
    /\ step = "media" /\ queue = <<>> /\ Exit(4) /\ UNCHANGED <<flags, attempt, locked, media>>

\* _take_invite_result waits for the thread; an answer of the last second is not
\* looked at any more.
TakeResult ==
    /\ Goto("take", "lock") /\ thread[0] = "done"
    /\ result' \in {result, "late"} /\ (conn = "stranger" => ~strict)
    /\ UNCHANGED <<flags, attempt, thread, told, net, conn, locked, media>>
TakeFails ==
    /\ step = "take"
    /\ \/ thread[0] = "running" /\ Exit(7)
       \/ thread[0] = "done" /\ conn = "stranger" /\ strict /\ Exit(3)
    /\ UNCHANGED <<flags, attempt, locked, media>>

\* deny_new_outbound_network refuses while another socket is open.
Lock ==
    /\ Goto("lock", "stream") /\ (deny => result = "ok" /\ Running = {} /\ listener = "closed")
    /\ locked' = deny
    /\ UNCHANGED <<flags, attempt, cloud, net, conn, media>>
LockFails ==
    /\ step = "lock" /\ deny
    /\ Exit(IF result = "ok" THEN 7 ELSE 4) /\ UNCHANGED <<flags, attempt, locked, media>>

\* Mutant: what is not a private frame is passed on.
DataAnyway ==
    /\ step = "stream" /\ received' = TRUE /\ output' = output \cup {conn}
    /\ UNCHANGED <<flags, step, attempt, cloud, net, conn, locked, code>>

\* Data: the deframer hands on what is in private frames, from whomever, and ends the
\* program at the first byte that is none: a callback's frames are of another kind, and
\* a stranger's are what it likes, with no session frame needed (module DirectMedia).
Data ==
    /\ step = "stream" /\ received' = TRUE
    /\ \/ /\ conn \in {"media", "stranger"} /\ output' = output \cup {conn}
          /\ UNCHANGED <<step, code, cloud, net, conn>>
       \/ conn # "media" /\ Exit(1) /\ UNCHANGED output
    /\ UNCHANGED <<flags, attempt, locked>>

\* The connection or the media time ends, the reader of the output goes away, or
\* FFmpeg has failed.
StreamEnds ==
    /\ step = "stream" /\ \E n \in {IF received THEN 0 ELSE 5, IF received THEN 6 ELSE 5, 1} : Exit(n)
    /\ UNCHANGED <<flags, attempt, locked, media>>

\* The bridge stops the exec source.
Killed == step \notin {"off", "exit"} /\ Exit(15) /\ UNCHANGED <<flags, attempt, locked, media>>

Main ==
    \/ Begin \/ NoAddress \/ Notify \/ AcceptCallback \/ AcceptTimesOut \/ Examined \/ ExamineFails
    \/ ControlEnds \/ ControlTimesOut \/ Invite \/ AcceptMedia \/ MediaTimesOut
    \/ TakeResult \/ TakeFails \/ Lock \/ LockFails
MainMoves == step # "off" /\ Main
Next ==
    \/ Main \/ Data \/ StreamEnds \/ Killed \/ Stranger
    \/ \E w \in Workers : Reach(w) \/ WorkerEnds(w) \/ CallBack(w)
Fairness == WF_vars(MainMoves)
Spec == Init /\ [][Next]_vars /\ Fairness
-----------------------------------------------------------------------------
\* Every variable has its type.
TypeOK ==
    /\ step \in {"off", "notify", "accept", "examine", "control", "invite", "media", "take",
                 "lock", "stream", "exit"}
    /\ attempt \in 0..Attempts /\ thread \in [Workers -> {"none", "running", "done"}]
    /\ told \subseteq Workers /\ conn \in {"none", "callback", "media", "stranger"}
    /\ {deny, strict, locked, received} \subseteq BOOLEAN /\ Len(queue) <= Backlog

\* While media flows no request to the cloud is under way and nothing listens, so
\* that the lock leaves the camera's connection as the only one (the comment of
\* _wait_for_control_threads and the docstring of ezviz_network_lock.py).
StreamsAlone == step = "stream" => Running = {} /\ listener = "closed" /\ (deny => locked)

\* A locked process starts no request any more.
LockIsFinal == [][locked => (locked' /\ Running' \subseteq Running)]_vars

\* Whatever the second accept returns, the output never gets what a late callback
\* sends, and with strict it gets the media of the invited stream only; without it a
\* stranger who speaks the private protocol is taken for the camera
\* (main's check of media_peer, EzvizDirectMediaDeframer.feed).
OnlyMedia == output \subseteq IF strict THEN {"media"} ELSE {"media", "stranger"}

\* An exit code of zero is only returned for media that was received.
ZeroIsMedia == code = 0 => received

\* Every wait has a limit: the source streams or ends, whether or not the cloud
\* and the camera answer.
ProbeEnds == (step = "notify") ~> (step \in {"stream", "exit"})

\* What the module promises.
Promise == [](TypeOK /\ StreamsAlone /\ OnlyMedia /\ ZeroIsMedia) /\ LockIsFinal /\ ProbeEnds
=============================================================================
