----------------------------- MODULE Signalling -----------------------------
(***************************************************************************)
(* Dialling a camera that speaks WebRTC behind a signalling service: the      *)
(* clients of internal/webrtc, pkg/webtorrent, nest, ring, tuya, roborock.    *)
(* Each opens a socket or asks over HTTP, makes a peer connection, exchanges  *)
(* offer and answer and waits until the peers are connected, while callbacks  *)
(* of the peer connection and the socket's reader run.  A dial may fail at    *)
(* each of its steps.  A client is the sequence of its steps; what it does    *)
(* with messages and failures is its own.                                     *)
(***************************************************************************)
EXTENDS Integers, Sequences

CONSTANTS MaxCandidates,   \* bound: candidates of our side
          MaxReplies,      \* bound: messages of the other side
          Tries            \* maxRetries of nest

VARIABLES vendor, hevc,    \* the client; tuya: the camera sends H.265
          i, tries,        \* the next step of Dial; failed attempts (nest)
          result,          \* of Dial
          socket, reader,  \* the websocket, MQTT with tuya; the goroutine that reads
          set,             \* the socket's handlers are set (ring, tuya)
          peer, left,      \* the peer connection; earlier ones that nobody closed
          gate, conn,      \* the waiters sendOffer (sendAnswer) and connState (connected)
          cands, sent,     \* candidates in our callback; what went out
          replies, inbox,  \* what the other side has sent, and what is unread
          dc,              \* tuya's data channel
          closed           \* Client.closed

dial == <<i, tries, result>>
net == <<socket, reader, set>>
rtc == <<peer, left, gate, conn, dc>>
talk == <<cands, sent, replies, inbox>>
vars == <<vendor, hevc, dial, net, rtc, talk, closed>>

Go2rtc    == <<"socket", "peer", "offer", "send", "read", "listen", "wait">>
Whep      == <<"peer", "offer", "post">>
Creality  == <<"peer", "offer", "post">>
Kinesis   == <<"socket", "peer", "offer", "send", "listen", "wait">>
Wyze      == <<"api">> \o Kinesis       \* asks its bridge for the address
Switchbot == Kinesis                    \* with an offer of its own
OpenIPC   == <<"socket", "peer", "listen", "wait">>
Milestone == <<"api", "peer", "fetch", "answer", "patch">>
Torrent   == <<"peer", "offer", "socket", "send", "read">>
Nest      == <<"api", "peer", "offer", "post">>
Ring      == <<"api", "socket", "peer", "handlers", "offer", "send", "wait">>
Tuya      == <<"api", "socket", "wake", "peer", "handlers", "offer", "send", "wait">>
Roborock  == <<"socket", "ready", "api", "peer", "offer", "rpc", "poll", "wait">>
Program == [go2rtc |-> Go2rtc, whep |-> Whep, creality |-> Creality, kinesis |-> Kinesis,
            wyze |-> Wyze, switchbot |-> Switchbot,
            openipc |-> OpenIPC, milestone |-> Milestone, torrent |-> Torrent, nest |-> Nest,
            ring |-> Ring, tuya |-> Tuya, roborock |-> Roborock]
Vendors == DOMAIN Program

Step == IF result = "dialing" THEN Program[vendor][i] ELSE "none"
At(s) == i > 0 /\ Step = s
Kvs == {"kinesis", "wyze", "switchbot"}
\* Clients that keep candidates back until the offer is out.
Gated == vendor \in Kvs \cup {"openipc", "ring", "tuya", "roborock"}
Trickles == Gated \/ vendor = "go2rtc"

Init ==
    /\ vendor \in Vendors /\ hevc \in BOOLEAN /\ (hevc => vendor = "tuya")
    /\ i = 0 /\ tries = 0 /\ result = "new"
    /\ socket = "none" /\ reader = "off" /\ set = FALSE
    /\ peer = "none" /\ left = 0 /\ gate = FALSE /\ conn = "open" /\ dc = "none"
    /\ cands = 0 /\ sent = <<>> /\ replies = 0 /\ inbox = <<>> /\ closed = FALSE
-----------------------------------------------------------------------------
\* The end of Dial and what it releases.

Done(x) == conn' = IF conn = "open" THEN x ELSE conn
Shut(s) == IF s \in {"open", "broken"} THEN "closed" ELSE s
ClosePeer == peer' = IF peer = "none" THEN "none" ELSE "closed"

\* Client.Stop of ring and tuya; the producer is known since the handlers are set.
Stop ==
    /\ closed' = TRUE
    /\ IF closed THEN UNCHANGED <<socket, peer>>
       ELSE /\ socket' = Shut(socket)
            /\ IF set THEN ClosePeer ELSE UNCHANGED peer

\* Mutant: a failed step returns without Stop.
ReturnKeeps(r) ==
    /\ result' = r /\ gate' = (gate \/ vendor # "roborock") /\ UNCHANGED <<i, tries>>
    /\ IF vendor \in Kvs \cup {"go2rtc", "openipc", "torrent"}
       THEN /\ socket' = Shut(socket) /\ UNCHANGED closed
            /\ IF vendor = "go2rtc" /\ r = "error" THEN ClosePeer ELSE UNCHANGED peer
       ELSE UNCHANGED <<socket, peer, closed>>

\* The deferred calls, when Dial returns; roborock has none.  Ring and tuya keep their
\* socket; tuya also when its camera cannot be woken (Init).
Return(r) ==
    /\ result' = r /\ gate' = (gate \/ vendor # "roborock") /\ UNCHANGED <<i, tries>>
    /\ CASE vendor \in Kvs \cup {"go2rtc", "openipc", "torrent"} ->
              /\ socket' = Shut(socket) /\ UNCHANGED closed
              /\ IF vendor = "go2rtc" /\ r = "error" THEN ClosePeer ELSE UNCHANGED peer
         [] r = "error" /\ ((vendor = "ring" /\ Step # "wait") \/ (vendor = "tuya" /\ i > 3)) -> Stop
         [] OTHER -> UNCHANGED <<socket, peer, closed>>

\* Nest tries its API and its exchange again, the latter with another peer connection;
\* an answer that is refused it does not try again.
Again ==
    /\ vendor = "nest" /\ Step \in {"api", "post"} /\ tries < Tries - 1 /\ tries' = tries + 1
    /\ IF Step = "api" THEN UNCHANGED <<i, left, peer>> ELSE i' = 2 /\ left' = left + 1 /\ peer' = "none"
    /\ UNCHANGED <<result, socket, gate, closed>>

\* A step fails; that of roborock which polls, when its five seconds are over.
Fail ==
    /\ result = "dialing" /\ Step \notin {"handlers", "listen", "wait"}
    /\ \/ Again
       \/ /\ (Step = "api" /\ vendor = "nest") => tries = Tries - 1
          /\ Return("error") /\ UNCHANGED left
    /\ UNCHANGED <<vendor, hevc, reader, set, conn, dc, talk>>
-----------------------------------------------------------------------------
\* The steps.

Dial ==
    /\ result = "new" /\ result' = "dialing" /\ i' = 1
    /\ UNCHANGED <<vendor, hevc, tries, net, rtc, talk, closed>>

\* Requests before the peer connection: tokens, tickets, settings.
Api ==
    /\ At("api") \/ At("wake")
    /\ i' = i + 1 /\ tries' = 0
    /\ UNCHANGED <<vendor, hevc, result, net, rtc, talk, closed>>

\* The next step, or the end of Dial.
Advance ==
    IF i < Len(Program[vendor])
    THEN i' = i + 1 /\ UNCHANGED <<tries, result, gate, socket, closed>>
    ELSE /\ result' = "ok" /\ gate' = TRUE /\ socket' = Shut(socket)
         /\ UNCHANGED <<i, tries, closed>>

\* Roborock: another app that uses the camera is stopped, up to Tries times.
Ready ==
    /\ At("ready")
    /\ \/ i' = i + 1 /\ tries' = 0 /\ UNCHANGED <<result, gate, socket, peer, closed>>
       \/ IF tries < Tries - 1
          THEN tries' = tries + 1 /\ UNCHANGED <<i, result, gate, socket, peer, closed>>
          ELSE Return("error")
    /\ UNCHANGED <<vendor, hevc, reader, set, left, conn, dc, talk>>

\* Roborock sends its offer and asks for the answer by RPC.
Offer ==
    /\ At("rpc") /\ sent' = Append(sent, "offer") /\ gate' = TRUE /\ i' = i + 1
    /\ UNCHANGED <<vendor, hevc, tries, result, net, peer, left, conn, dc, cands, replies, inbox, closed>>
Poll ==
    /\ At("poll") /\ inbox # <<>> /\ inbox' = Tail(inbox)
    /\ CASE Head(inbox) = "answer" -> peer' = "remote" /\ Advance
         [] Head(inbox) = "bad" -> Return("error")
         [] OTHER -> UNCHANGED <<dial, gate, peer, socket, closed>>
    /\ UNCHANGED <<vendor, hevc, reader, set, left, conn, dc, cands, sent, replies>>

\* While it waits it asks for candidates, every two seconds.
AskCandidates ==
    /\ vendor = "roborock" /\ At("wait") /\ conn = "open"
    /\ \/ reader = "off" /\ peer # "connected" /\ reader' = "on"
       \/ reader = "on" /\ reader' = "off"
    /\ UNCHANGED <<vendor, hevc, dial, socket, set, rtc, talk, closed>>

\* StartWebsocket of ring starts its reader, too; tuya's socket is its MQTT session.
Socket ==
    /\ At("socket") /\ socket' = "open" /\ i' = i + 1
    /\ reader' = IF vendor = "ring" THEN "on" ELSE reader
    /\ UNCHANGED <<vendor, hevc, tries, result, set, rtc, talk, closed>>

Peer ==
    /\ At("peer") /\ peer' = "new" /\ i' = i + 1
    /\ UNCHANGED <<vendor, hevc, tries, result, net, left, gate, conn, dc, talk, closed>>

Handlers ==
    /\ At("handlers") /\ set' = TRUE /\ i' = i + 1
    /\ dc' = IF hevc THEN "new" ELSE dc
    /\ reader' = IF vendor = "tuya" THEN "on" ELSE reader
    /\ UNCHANGED <<vendor, hevc, tries, result, socket, peer, left, gate, conn, talk, closed>>

\* Mutant: the gate opens before the offer is written.
CreateOfferOpens ==
    /\ At("offer") /\ peer = "new" /\ peer' = "local" /\ i' = i + 1 /\ gate' = TRUE
    /\ UNCHANGED <<vendor, hevc, tries, result, net, left, conn, dc, talk, closed>>

\* CreateOffer, and the local description: candidates are gathered from now on.
CreateOffer ==
    /\ At("offer") /\ peer = "new" /\ peer' = "local" /\ i' = i + 1
    /\ UNCHANGED <<vendor, hevc, tries, result, net, left, gate, conn, dc, talk, closed>>

\* A write into a broken socket may still succeed.
SendOffer ==
    /\ At("send") /\ socket \in {"open", "broken"} /\ i' = i + 1
    /\ sent' = Append(sent, "offer") /\ gate' = TRUE
    /\ UNCHANGED <<vendor, hevc, tries, result, net, peer, left, conn, dc, cands, replies, inbox, closed>>

\* Over HTTP the answer is the response; milestone fetches the offer.
Post ==
    /\ At("post") \/ At("fetch") \/ At("answer") \/ At("patch")
    /\ peer' = "remote" /\ Advance
    /\ UNCHANGED <<vendor, hevc, reader, set, left, conn, dc, talk>>

\* The first message is the answer, with go2rtc; webtorrent skips what is none.
ReadAnswer ==
    /\ At("read") /\ inbox # <<>> /\ inbox' = Tail(inbox)
    /\ \/ Head(inbox) = "answer" /\ peer' = "remote" /\ Advance
       \/ /\ vendor = "torrent" /\ Head(inbox) \notin {"answer", "bad"}
          /\ UNCHANGED <<dial, gate, peer, socket, closed>>
       \/ /\ Head(inbox) # "answer" /\ (vendor = "torrent" => Head(inbox) = "bad")
          /\ Return("error")
    /\ UNCHANGED <<vendor, hevc, reader, set, left, conn, dc, cands, sent, replies>>

Listen ==
    /\ At("listen") /\ reader' = "on" /\ i' = i + 1
    /\ UNCHANGED <<vendor, hevc, tries, result, socket, set, rtc, talk, closed>>

\* connState.Wait() comes back.
Wait ==
    /\ At("wait") /\ conn # "open" /\ (vendor = "roborock" => reader = "off") /\ Return(conn)
    /\ UNCHANGED <<vendor, hevc, reader, set, left, conn, dc, talk>>
-----------------------------------------------------------------------------
\* The callbacks.

\* Our candidates; the callback waits for the gate.
Candidate ==
    /\ Trickles /\ peer \in {"local", "remote", "connecting"} /\ cands < MaxCandidates
    /\ Gated => gate
    /\ cands' = cands + 1
    /\ \/ /\ socket \in {"open", "broken"} /\ sent' = Append(sent, "candidate")
          /\ UNCHANGED <<conn, socket, peer, closed>>
       \/ /\ socket # "open" /\ UNCHANGED sent
          /\ IF vendor \in {"go2rtc", "roborock"} THEN UNCHANGED conn ELSE Done("error")
          /\ IF vendor = "tuya" THEN Stop ELSE UNCHANGED <<socket, peer, closed>>
    /\ UNCHANGED <<vendor, hevc, dial, reader, set, left, gate, dc, replies, inbox>>

\* OnConnectionStateChange tells the client, and closes a connection that failed; it
\* tells roborock only if that is just waiting for it ("unblocking write to channel").
Told(x) == IF vendor = "roborock" /\ ~(At("wait") /\ reader = "off") THEN UNCHANGED conn ELSE Done(x)
Connected ==
    /\ peer = "connecting" /\ peer' = "connected" /\ UNCHANGED <<socket, closed>>
    /\ IF hevc THEN UNCHANGED conn ELSE Told("ok")
Failed ==
    /\ peer \in {"connecting", "connected"} /\ Told("error")
    /\ IF vendor \in {"ring", "tuya"} THEN Stop ELSE peer' = "closed" /\ UNCHANGED <<socket, closed>>
PeerState ==
    /\ Trickles
    /\ \/ peer = "remote" /\ peer' = "connecting" /\ UNCHANGED <<conn, socket, closed>>
       \/ Connected
       \/ Failed
    /\ UNCHANGED <<vendor, hevc, dial, reader, set, left, gate, dc, talk>>

\* Tuya, H.265: the data channel opens, the camera names its codecs and streams.
DataChannel ==
    /\ hevc /\ peer = "connected"
    /\ \/ dc = "new" /\ dc' = "codec" /\ UNCHANGED conn
       \/ dc = "codec" /\ dc' = "start" /\ UNCHANGED conn
       \/ dc = "start" /\ dc' = "recv" /\ Done("ok")
    /\ UNCHANGED <<vendor, hevc, dial, net, peer, left, gate, talk, closed>>

\* dc.OnClose, or a message that cannot be read.
DataChannelFails ==
    /\ hevc /\ dc \in {"codec", "start", "recv"} /\ peer = "connected" /\ dc' = "closed"
    /\ Done("error") /\ Stop
    /\ UNCHANGED <<vendor, hevc, dial, reader, set, left, gate, talk>>
-----------------------------------------------------------------------------
\* The readers of the sockets.

Take == reader = "on" /\ inbox # <<>> /\ socket = "open" /\ inbox' = Tail(inbox)
Answered == peer' = IF peer = "local" THEN "remote" ELSE peer

\* An answer that is refused leaves the switch only, not the loop.
KinesisRead ==
    /\ vendor \in Kvs /\ Take
    /\ IF Head(inbox) = "answer" THEN Answered ELSE UNCHANGED peer
    /\ UNCHANGED <<sent, conn, gate, reader, socket, closed>>

\* openIPC's camera makes the offer ("webrtc_answer"); ours is the answer.
OpenIPCRead ==
    /\ vendor = "openipc" /\ Take
    /\ CASE Head(inbox) = "answer" ->
              /\ peer' = (IF peer = "new" THEN "remote" ELSE peer)
              /\ sent' = Append(sent, "offer") /\ gate' = TRUE /\ UNCHANGED <<conn, reader>>
         [] Head(inbox) = "bad" -> Done("error") /\ reader' = "ended" /\ UNCHANGED <<peer, sent, gate>>
         [] OTHER -> UNCHANGED <<peer, sent, gate, conn, reader>>
    /\ UNCHANGED <<socket, closed>>

Go2rtcRead ==
    /\ vendor = "go2rtc" /\ Take /\ UNCHANGED <<peer, sent, gate, conn, reader, socket, closed>>

\* Client.onWSMessage, or nothing while the handlers are not set.
RingRead ==
    /\ vendor = "ring" /\ Take
    /\ CASE set /\ Head(inbox) = "answer" ->
              /\ Answered /\ sent' = Append(sent, "activate") /\ UNCHANGED <<conn, socket, closed>>
         [] set /\ Head(inbox) \in {"bad", "close"} -> Stop /\ Done("error") /\ UNCHANGED sent
         [] OTHER -> UNCHANGED <<peer, sent, conn, socket, closed>>
    /\ UNCHANGED <<gate, reader>>

\* The MQTT handlers.
TuyaRead ==
    /\ vendor = "tuya" /\ Take
    /\ CASE Head(inbox) = "answer" -> Answered /\ UNCHANGED <<conn, socket, closed>>
         [] Head(inbox) \in {"bad", "close"} -> Stop /\ Done("error")
         [] OTHER -> UNCHANGED <<peer, conn, socket, closed>>
    /\ UNCHANGED <<sent, gate, reader>>

\* Mutant: nobody is told that the reader has ended.
ReaderEndsQuietly ==
    /\ reader = "on" /\ socket \in {"closed", "broken"} /\ vendor \notin {"tuya", "roborock"} /\ reader' = "ended"
    /\ UNCHANGED <<conn, socket, peer, closed, gate, sent, inbox>>

\* The reader finds its socket closed or broken; MQTT connects again.
ReaderEnds ==
    /\ reader = "on" /\ socket \in {"closed", "broken"} /\ vendor \notin {"tuya", "roborock"} /\ reader' = "ended"
    /\ IF vendor # "ring" THEN Done("error") /\ UNCHANGED <<socket, peer, closed>>
       ELSE IF closed \/ ~set THEN UNCHANGED <<conn, socket, peer, closed>>
       ELSE Stop /\ Done("error")
    /\ UNCHANGED <<gate, sent, inbox>>

Read ==
    /\ KinesisRead \/ OpenIPCRead \/ Go2rtcRead \/ RingRead \/ TuyaRead \/ ReaderEnds
    /\ UNCHANGED <<vendor, hevc, dial, set, left, dc, cands, replies>>
-----------------------------------------------------------------------------
\* The other side: answers an offer (openIPC's makes one), well or badly, sends
\* candidates, or ends the session.
Asked == vendor = "openipc" \/ \E k \in DOMAIN sent : sent[k] = "offer"
Reply ==
    /\ socket = "open" /\ replies < MaxReplies /\ Asked /\ replies' = replies + 1
    /\ \E m \in {"answer", "bad", "candidate", "close"} : inbox' = Append(inbox, m)
    /\ UNCHANGED <<vendor, hevc, dial, net, rtc, cands, sent, closed>>
Breaks ==
    /\ socket = "open" /\ vendor # "tuya" /\ socket' = "broken"
    /\ UNCHANGED <<vendor, hevc, dial, reader, set, rtc, talk, closed>>
\* A read of Dial itself finds the socket broken, or its deadline over.
ReadFails ==
    /\ At("read") /\ (socket = "broken" \/ vendor = "torrent") /\ Return("error")
    /\ UNCHANGED <<vendor, hevc, reader, set, left, conn, dc, talk>>

\* The producer of a successful dial is stopped (conn.Stop, Client.Stop).
UserStop ==
    /\ result = "ok" /\ ~closed
    /\ IF vendor \in {"ring", "tuya"} THEN Stop
       ELSE closed' = TRUE /\ peer' = "closed" /\ UNCHANGED socket
    /\ UNCHANGED <<vendor, hevc, dial, reader, set, left, gate, conn, dc, talk>>

Steps == Api \/ Ready \/ Offer \/ Poll \/ AskCandidates \/ Socket \/ Peer \/ Handlers \/ CreateOffer \/ SendOffer \/ Post \/ ReadAnswer \/ Listen \/ Wait
Next == Dial \/ Steps \/ Fail \/ Candidate \/ PeerState \/ DataChannel \/ DataChannelFails \/ Read
        \/ Reply \/ Breaks \/ ReadFails \/ UserStop

\* Requests and writes come back, readers read, and the connection of two peers
\* comes up or fails.  The other side may keep silent.
Fairness == WF_vars(Steps \/ Fail) /\ WF_vars(Read) /\ WF_vars(PeerState)
            /\ WF_vars(DataChannel \/ DataChannelFails) /\ WF_vars(ReadFails)
Spec == Init /\ [][Next]_vars /\ Fairness
-----------------------------------------------------------------------------
\* Every variable has its type.
TypeOK ==
    /\ vendor \in Vendors /\ i \in 0..Len(Program[vendor]) /\ tries \in 0..Tries - 1
    /\ result \in {"new", "dialing", "ok", "error"} /\ conn \in {"open", "ok", "error"}
    /\ socket \in {"none", "open", "broken", "closed"} /\ reader \in {"off", "on", "ended"}
    /\ peer \in {"none", "new", "local", "remote", "connecting", "connected", "closed"}
    /\ dc \in {"none", "new", "codec", "start", "recv", "closed"} /\ left \in 0..Tries
    /\ gate \in BOOLEAN /\ set \in BOOLEAN /\ closed \in BOOLEAN

\* "protect from sending ICE candidate before Offer" (kinesis.go, openipc.go, ring and
\* tuya client.go): also not when Dial fails and its deferred Done opens the gate.
GateHolds ==
    Gated => \A k \in DOMAIN sent : sent[k] = "candidate" => \E j \in 1..k - 1 : sent[j] = "offer"

\* A dial that waits for the connection says yes only when the peers were connected,
\* with H.265 of tuya only when its streams are known as well.
OkMeansConnected ==
    (result = "ok" /\ Trickles) =>
        peer \in {"connected", "closed"} /\ (hevc => dc \in {"recv", "closed"})

\* A dial that has failed keeps no socket, and go2rtc and tuya no peer connection.  (The
\* others leave theirs; tuya its MQTT session when the camera cannot be woken, and
\* roborock keeps both.)
Released == socket \in {"none", "closed"} /\ (vendor \in {"go2rtc", "ring", "tuya"} => peer \in {"none", "closed"})
Asleep == vendor = "tuya" /\ Program[vendor][i] = "wake"
ErrorReleases == (result = "error" /\ vendor \notin {"ring", "roborock"} /\ ~Asleep) => Released

\* Ring may release it later, when its reader ends; a reader that ended before the
\* handlers were set tells nobody.
Deaf == vendor = "ring" /\ reader = "ended" /\ ~closed
RingReleases == (vendor = "ring" /\ result = "error") ~> (Released \/ Deaf)

\* Dials that are stuck: an answer that kinesis could not take ends the switch, not its
\* loop; the reader of ring may end before anybody listens to it; nobody limits
\* the wait for the other side, with kinesis, openIPC, ring and tuya, nor a call of
\* roborock, which may also miss that the peers are connected.
Silent == \/ vendor = "roborock"
          \/ /\ conn = "open" /\ peer \in {"new", "local"} /\ vendor # "torrent"
             /\ (socket = "open" \/ Deaf)

\* Every dial ends, unless the other side leaves it without an answer (the clients' Dial).
DialEnds == (result = "dialing") ~> (result \in {"ok", "error"} \/ Silent)

\* What the module promises.
Promise == /\ [](TypeOK /\ GateHolds /\ OkMeansConnected /\ ErrorReleases)
           /\ RingReleases /\ DialEnds
=============================================================================
