----------------------------- MODULE MCServers -----------------------------
(***************************************************************************)
(* The servers and clients around the streams on small instances: RTSP in    *)
(* both directions with the child processes behind it, the registry of       *)
(* streams and preloads, HLS, WebRTC, and two primitives under all of them.  *)
(* The parts share no state, so a behaviour explores one of them and the     *)
(* others stay in their initial state: "part" says which.                   *)
(***************************************************************************)
EXTENDS Integers, Sequences

CONSTANTS t1, t2, t3, NoTrack, k1, k2, x1, Nothing, a1, a2, i1, i2, j1, j2, j3,
          o1, o2, m1, g1, g2, d1, d2, e1, e2, None, NoError

VARIABLES part,
    state, link, backchannel, receivers, call, wanted, todo, asks, halfway, answered,
    setups, played, start, reading,                                          \* client
    at, kind, closer, listed, socket, phase, waiter, chan, process, started, \* server
    streams, unused, preloads, configured, attached, preloadsMu, step, of, held, query,
    met, unsaved,                                                          \* registry
    format, fed, found, alive, leaving, init, buffer, written, got, asking,  \* hls
    role, offering, sendAnswer, given, local, pc, event, joined, sessions,
    ctxConn, ctxList, remote, added,                                         \* webrtc
    buf, queue, done, running, holds, packets, drops, input, output, panicked, \* sender
    count, group, err, mu, waits, result, caller, says, final                \* waiter

Client == INSTANCE Rtsp WITH Tracks <- {t1, t2, t3}, MaxAsks <- 4
Server == INSTANCE RtspServer WITH Conns <- {k1, k2}, Starts <- {x1}, MaxStarts <- 2
Names == INSTANCE Registry
           WITH Names <- {a1, a2}, StreamIds <- {i1, i2}, Requests <- {j1, j2, j3},
                Queries <- {"", "video"}, AtStart <- [n \in {a1, a2} |-> IF n = a1 THEN i1 ELSE None]
Session == INSTANCE Hls
             WITH Requests <- {j1, j2, j3}, MaxPackets <- 3,
                  attached <- fed, listed <- found, at <- asking
Peers == INSTANCE WebRtc
           WITH Conns <- {o1, o2}, Candidates <- {m1}, kind <- role, step <- offering,
                answered <- given, attached <- joined
Viewer == INSTANCE Sender
            WITH Workers <- {g1, g2}, BufSize <- 2, MaxPackets <- 4, held <- holds
Wait == INSTANCE Waiter
          WITH Waiters <- {g1, g2}, Callers <- {d1, d2}, Errors <- {e1, e2}, state <- count,
               waiter <- waits

clientVars == <<state, link, backchannel, receivers, call, wanted, todo, asks, halfway,
                answered, setups, played, start, reading>>
serverVars == <<at, kind, closer, listed, socket, phase, waiter, chan, process, started>>
namesVars == <<streams, unused, preloads, configured, attached, preloadsMu, step, of, held,
               query, met, unsaved>>
sessionVars == <<format, fed, found, alive, leaving, init, buffer, written, got, asking>>
peersVars == <<role, offering, sendAnswer, given, local, pc, event, joined, sessions,
               ctxConn, ctxList, remote, added>>
viewerVars == <<buf, queue, done, running, holds, packets, drops, input, output, panicked>>
waitVars == <<count, group, err, mu, waits, result, caller, says, final>>
vars == <<part, clientVars, serverVars, namesVars, sessionVars, peersVars, viewerVars, waitVars>>

Parts == {"client", "server", "names", "session", "peers", "viewer", "wait"}
Frame(name, own) == part = name \/ UNCHANGED own

\* The initial choices of one part are not multiplied with those of another.
Init ==
    /\ part \in Parts
    /\ Client!Init /\ (part # "client" => ~backchannel)
    /\ Server!Init /\ Names!Init /\ Session!Init /\ (part # "session" => format = "ts")
    /\ Peers!Init /\ Viewer!Init /\ Wait!Init
    /\ part # "wait" => says = [d \in {d1, d2} |-> NoError]

Next ==
    /\ UNCHANGED part
    /\ \/ part = "client" /\ Client!Next
       \/ part = "server" /\ Server!Next
       \/ part = "names" /\ Names!Next
       \/ part = "session" /\ Session!Next
       \/ part = "peers" /\ Peers!Next
       \/ part = "viewer" /\ Viewer!Next
       \/ part = "wait" /\ Wait!Next
    /\ Frame("client", clientVars) /\ Frame("server", serverVars) /\ Frame("names", namesVars)
    /\ Frame("session", sessionVars) /\ Frame("peers", peersVars)
    /\ Frame("viewer", viewerVars) /\ Frame("wait", waitVars)

\* Nothing fair is enabled in a part's initial state, so the fairness of one
\* part asks nothing of a behaviour that explores another one.
Spec ==
    /\ Init /\ [][Next]_vars
    /\ Client!Fairness /\ Server!Fairness /\ Names!Fairness /\ Session!Fairness
    /\ Peers!Fairness /\ Viewer!Fairness /\ Wait!Fairness
-----------------------------------------------------------------------------
\* Every track that was handed out plays, through reconnects under the reader
\* (Reconnect, Start, Handle).
ClientPromise == Client!Promise

\* Nothing is left of a connection or a process, and a start is answered
\* (tcpHandler, execHandle).
ServerPromise == Server!Promise

\* However the requests interleave no consumer is left behind and every request is
\* answered; the registry and the file agree after a request that had its name to
\* itself (preload.go, api.go, publish.go).
RegistryPromise == Names!Promise

\* A session that can be found is fed, loses and doubles nothing, and leaves its
\* stream when nobody asks (hls.go, session.go).
SessionPromise == Session!Promise

\* Offers, answers and candidates keep their order, no candidate is lost, and who
\* is gone leaves (webrtc.go, candidates.go, conn.go).
PeersPromise == Peers!Promise

\* A viewer gets what was queued, in order and all of it, however it is started,
\* fed and closed (track.go); Wait and Done meet in any order and number (waiter.go).
PrimitivesPromise == Viewer!Promise /\ Wait!Promise
=============================================================================
