----------------------------- MODULE MCHomeKit -----------------------------
(***************************************************************************)
(* The viewers' side on small instances: HomeKit with its pairings, sessions *)
(* and SRTP, the video that goes over it, as over RTSP, and the viewers that *)
(* are written to; both ends of RTMP; and the accounts of the clouds that the *)
(* cameras come from.  The parts share no state, so a behaviour explores one of them and  *)
(* the others stay in their initial state: "part" says which.                *)
(***************************************************************************)
EXTENDS Integers, Sequences

CONSTANTS c1, c2, l1, l2, s1, s2, u1, u2, g1, g2, NoOne

VARIABLES part,
    pairings, saved, flag, handler, removed,                                   \* pairing
    link, slot, offer, deadline, sending, queued, listed, attached, waiting, leaving, \* session
    sessions, sock, open, conn, reader, panicked,                            \* srtp
    codec, marks, units, pending, seq, wire, fua, buf, seqNum, out, faults,  \* video
    vendor, job, lock, objs, cache, auth, tokens, stored, issued, jobs, refused, \* accounts
    use, tracks, step, added, pc, hand, count, start, mu, clock, raced, to, kept, wait, failed,
    written, made, gone, listening, closed, left, early,                     \* writer
    kind, show, up, down, linked, client, server, sent, rdBuf, flv, got      \* rtmp

Pairing == INSTANCE HomeKitPairing
             WITH Controllers <- {c1, c2}, Links <- {l1, l2}
Session == INSTANCE HomeKit
             WITH Controllers <- {c1, c2}, Links <- {l1, l2}, Sessions <- {s1, s2}, MaxQueued <- 1,
                  Most <- [s \in {s1, s2} |-> IF s = s1 THEN 2 ELSE 1]
Server == INSTANCE Srtp WITH Users <- {u1, u2}, Readers <- {g1, g2}, MaxSockets <- 4
\* Slices of one packet and of several; two access units wrap the sequence numbers.
Video == INSTANCE RtpVideo
           WITH Mtu <- 6, SliceSizes <- {1, 8}, MaxUnits <- 2, MaxWaiting <- 1, SeqNums <- 8,
                MaxFaults <- 1
Clouds == INSTANCE Accounts
            WITH Workers <- {1, 2}, Users <- {"u", "v"}, RingUsers <- {"u"}, Retries <- 1,
                 MaxJobs <- [v \in {"ring", "ringEmail", "nest", "xiaomi", "wyze", "tuya"} |->
                               IF v = "xiaomi" THEN 3 ELSE 2],
                 MaxIssued <- 3, Rooms <- << <<"c1", "c2">>, <<"c2", "c3">> >>,
                 Shared <- <<"c1", "c4">>, saved <- stored

Writer == INSTANCE Consumers
            WITH MaxPackets <- 2, Rate <- 4, MinStep <- 1, lock <- mu, buf <- kept,
                 err <- failed, out <- written, removed <- left

\* Tags of no, one and several packets, of which two may be flushed together; the second show
\* has a time of all ones.
Tag(type, time, size) == [type |-> type, time |-> time, size |-> size]
Ends == INSTANCE Rtmp
          WITH FirstSize <- 1, PacketSize <- 2, TimeLimit <- 4, ReadSizes <- {1, 4},
               Shows <- {[init |-> 1, tags |-> <<Tag("data", 0, 1), Tag("video", 1, 4), Tag("audio", 5, 0),
                                                   Tag("video", 6, 1)>>],
                         [init |-> 2, tags |-> <<Tag("data", 0, 0), Tag("video", 0, 3), Tag("video", 3, 2),
                                                 Tag("audio", 4, 1)>>]},
               open <- linked

pairingVars == <<pairings, saved, flag, handler, removed>>
sessionVars == <<link, slot, offer, deadline, sending, queued, listed, attached, waiting, leaving>>
serverVars == <<sessions, sock, open, conn, reader, panicked>>
videoVars == <<codec, marks, units, pending, seq, wire, fua, buf, seqNum, out, faults>>
accountVars == <<vendor, job, lock, objs, cache, auth, tokens, stored, issued, jobs, refused>>
writerVars == <<use, tracks, step, added, pc, hand, count, start, mu, clock, raced, to, kept, wait,
                failed, written, made, gone, listening, closed, left, early>>
rtmpVars == <<kind, show, up, down, linked, client, server, sent, rdBuf, flv, got>>
vars == <<part, pairingVars, sessionVars, serverVars, videoVars, accountVars, writerVars, rtmpVars>>

Frame(name, own) == part = name \/ UNCHANGED own

Init ==
    /\ part \in {"pairing", "session", "server", "video", "accounts", "writer", "rtmp"}
    /\ Pairing!Init /\ Session!Init /\ Server!Init
    /\ Video!Init /\ (part # "video" => codec = "h264" /\ ~marks)
    /\ IF part = "writer" THEN Writer!Init ELSE Writer!InitOf({[kind |-> "adts", sink |-> "http"]})
    /\ Ends!Init /\ (part # "rtmp" => kind = "play" /\ show.init = 1)
    /\ Clouds!Init /\ (part # "accounts" => vendor = "ring")

Next ==
    /\ UNCHANGED part
    /\ \/ part = "pairing" /\ Pairing!Next
       \/ part = "session" /\ Session!Next
       \/ part = "server" /\ Server!Next
       \/ part = "video" /\ Video!Next
       \/ part = "accounts" /\ Clouds!Next
       \/ part = "writer" /\ Writer!Next
       \/ part = "rtmp" /\ Ends!Next
    /\ Frame("pairing", pairingVars) /\ Frame("session", sessionVars)
    /\ Frame("server", serverVars) /\ Frame("video", videoVars)
    /\ Frame("accounts", accountVars)
    /\ Frame("writer", writerVars) /\ Frame("rtmp", rtmpVars)

Spec ==
    /\ Init /\ [][Next]_vars
    /\ Session!Fairness
    /\ Server!Fairness
-----------------------------------------------------------------------------
\* A removed controller stays out, and what is announced is true, through handshakes
\* and restarts (the pairing list of server.go).
PairingsPromise == Pairing!Promise

\* Each controller starts what is its own, and a viewer that was stopped leaves its
\* stream for good (server.go, consumer.go).  What the muxer of any other viewer made reaches
\* its writer whole and in order, from before it has one until that fails (writebuffer.go).
\* Over RTMP messages arrive as they were written, and the dial waits for nobody who waits
\* for it (pkg/rtmp).
ViewersPromise == Session!Promise /\ Writer!Promise /\ Ends!Promise

\* One socket with a reader while there are sessions, none without (pkg/srtp).
SocketPromise == Server!Promise

\* NAL units come whole and access units apart; without faults all of them come
\* (RTPPay, RTPDepay of H.264 and H.265).
VideoPromise == Video!Promise

\* Requests that run at the same time never wait for each other in a circle and never send
\* another account's token, and nothing that the cloud has not confirmed is stored
\* (pkg/ring api.go, pkg/nest api.go, internal/xiaomi, internal/wyze, internal/tuya).
AccountsPromise == Clouds!Promise
=============================================================================
