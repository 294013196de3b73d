--------------------------- MODULE MCTransports ---------------------------
(***************************************************************************)
(* The camera transports on small instances: the CS2 data channel and the   *)
(* command exchange above it (pkg/xiaomi/miss/cs2), media frames over TUTK   *)
(* (pkg/tutk), the life of a DTLS connection (pkg/tutk/dtls, pkg/wyze), and   *)
(* the WebRTC cameras behind their signalling services (internal/webrtc,     *)
(* pkg/ring, pkg/tuya, pkg/nest).                                            *)
(* The parts share no state, so a behaviour explores one of them and the    *)
(* others stay in their initial state: "part" says which.                   *)
(***************************************************************************)
EXTENDS Integers, Sequences

CONSTANTS w1, w2, w3, NoWriter
VARIABLES part,
          phase, isTCP, pushSize, next, net, acked, waitSeq, pushBuf, waitData, waitSize,
          got, unread, told,                  \* cs2
          writer, repeat, cmdAck, acks, alive, confirmed,                   \* command
          version, sending, inflight, faults, session, queued, last, late,  \* tutk
          step, answers, rawCmd, clientConn, connOpen, serverConn,
          reader, worker, acker, closer,                                    \* dtls
          vendor, hevc, i, tries, result, socket, ws, set, peer, left, gate, conn, cands, sent,
          replies, inbox, dc, closed                                        \* dials

\* Three messages of 3, 2 and 2 words in seven packets: a message over two
\* packets, two messages in one, a header alone at the end of a packet.
h(m, n) == <<m, n>>
b(m) == <<m, 0>>
CameraWrote == << <<1, 1, 1>>, <<2, 2>>, <<3, 3>>, <<4, 4>>, <<5, 5>> >>
CameraWire == << <<h(1, 3), b(1)>>, <<b(1), b(1)>>, <<h(2, 2), b(2), b(2), h(3, 2)>>,
                 <<b(3), b(3)>>, <<h(4, 2), b(4)>>, <<b(4), h(5, 2)>>, <<b(5), b(5)>> >>

Camera == INSTANCE Cs2 WITH
            Wire <- CameraWire, Written <- CameraWrote, PushSizes <- {0, 1}, PopSize <- 2,
            Numbers <- 6

Command == INSTANCE CommandAck WITH Writers <- {w1, w2, w3}, Attempts <- 3, MaxAcks <- 2

\* A lap of six chunks: frames of three, one and two chunks.
Lap6 == << <<0, 3>>, <<1, 3>>, <<2, 3>>, <<0, 1>>, <<0, 2>>, <<1, 2>> >>

Media == INSTANCE Tutk WITH
           Layout <- Lap6, BufferSize <- 2, QueueSize <- 2, MaxFaults <- 2, InFlight <- 2

Secure == INSTANCE Dtls WITH CmdQueue <- 1

Dials == INSTANCE Signalling
           WITH MaxCandidates <- 2, MaxReplies <- 2, Tries <- 2, reader <- ws

-----------------------------------------------------------------------------
cameraVars == <<phase, isTCP, pushSize, next, net, acked, waitSeq, pushBuf, waitData, waitSize,
                got, unread, told>>
commandVars == <<writer, repeat, cmdAck, acks, alive, confirmed>>
mediaVars == <<version, sending, inflight, faults, session, queued, last, late>>
secureVars == <<step, answers, rawCmd, clientConn, connOpen, serverConn,
                reader, worker, acker, closer>>
dialVars == <<vendor, hevc, i, tries, result, socket, ws, set, peer, left, gate, conn, cands, sent,
              replies, inbox, dc, closed>>
vars == <<part, cameraVars, commandVars, mediaVars, secureVars, dialVars>>

Init == /\ part \in {"cs2", "command", "media", "dtls", "dials"}
        /\ Camera!Init /\ Command!Init /\ Media!Init /\ Secure!Init
        /\ Dials!Init /\ (part # "dials" => vendor = "ring")

Frame(name, own) == part = name \/ UNCHANGED own

Next ==
    /\ UNCHANGED part
    /\ \/ part = "cs2" /\ Camera!Next
       \/ part = "command" /\ Command!Next
       \/ part = "media" /\ Media!Next
       \/ part = "dtls" /\ Secure!Next
       \/ part = "dials" /\ Dials!Next
    /\ Frame("cs2", cameraVars) /\ Frame("command", commandVars) /\ Frame("media", mediaVars)
    /\ Frame("dtls", secureVars) /\ Frame("dials", dialVars)

\* Nothing fair is enabled in a part's initial state, so the fairness of one
\* part asks nothing of a behaviour that explores another one.
Spec ==
    /\ Init /\ [][Next]_vars
    /\ Camera!Fairness /\ Command!Fairness /\ Media!Fairness /\ Secure!Fairness
    /\ Dials!Fairness
-----------------------------------------------------------------------------
\* The data channel implements Channel and brings everything (cs2 Conn); a command
\* above it always returns, and says "sent" only when it was acknowledged (WriteCommand).
ExchangePromise == Camera!Promise /\ Command!Promise

\* Frames are whole, the reorder buffer never overflows, and after losses frames
\* come again (Session16, Session25, FrameHandler).
MediaPromise == Media!Promise

\* Dial and Close come back, and the command queue keeps its bound (DTLSConn).
ConnectionPromise == Secure!Promise

\* A dial says yes only to a connection, sends its offer before its candidates, ends
\* unless the other side keeps silent, and leaves no socket behind (Dial).
DialsPromise == Dials!Promise
=============================================================================
