------------------------------ MODULE MCTools ------------------------------
(***************************************************************************)
(* The tools around the bridge on small instances: what fills and upgrades    *)
(* the data volume, the certificate of the wizard, the direct source with its *)
(* deframer, and the activity marker that sources and controller share; and   *)
(* the other sources that hold a session with one camera (pkg/tapo, dvrip,    *)
(* xiaomi, wyze and others), with the frames of those behind DTLS.  The parts *)
(* share no state, so a behaviour explores one of them and the others stay in *)
(* their initial state: "part" says which.                                    *)
(***************************************************************************)
EXTENDS Integers, Sequences

CONSTANTS a, b, ta, tb, Legacy, Fresh, None, x1, x2, x3

VARIABLES part,
    source, serial, config, token, auth, marker, used, tool, plan, ok, torn, faults,  \* volume
    text, bak, named, upgrading, read, replaced,                                      \* upgrade
    key, cert, good, made, ensuring, up, served, fingerprint, mishaps, changes,      \* tls
    deny, strict, doing, attempt, thread, result, told, listener, queue, conn, locked,
    code, received, output, strangers,                                                \* probe
    file, age, at, flows, due, live, verdict, stale, polled, busy, quiet, calm, sure,  \* activity
    frames, arrived, reader,                                                          \* media
    kind, wanted, talks, packets, i, dialled, link, pos, kept, buf, head, timeouts, seen,
    skipped, misread, starter, got, chan, session1, conn2, op, asked, tracked,
    leaked, talk, tried, said, held, spoken, stopped,                                                                  \* session
    place, wire, losses, channels, videoTS, audioTS, out, closed, queued, taken, dropped,
    joined, panicked                                                                  \* dtls

Volume == INSTANCE Migration
            WITH Cameras <- {a, b}, Tokens <- {ta, tb}, Serials <- {a, None}, MaxFaults <- 2,
                 Owner <- [t \in {ta, tb} |-> IF t = ta THEN a ELSE b]
Config == INSTANCE Upgrade
            WITH Texts <- {x1, x2, x3}, config <- text, step <- upgrading, source <- read
Tls == INSTANCE Certificate
         WITH MaxChanges <- 2, MaxFaults <- 3, step <- ensuring, faults <- mishaps
Direct == INSTANCE Probe WITH Attempts <- 2, Backlog <- 2, MaxStrangers <- 1, step <- doing
Activity == INSTANCE Marker WITH Procs <- 1..2, Grace <- 3, Delay <- 2
Media == INSTANCE DirectMedia WITH MaxFrames <- 3, MaxPayload <- 2
Session == INSTANCE Cameras
             WITH MaxPackets <- 3, ProbeSize <- 4, PeekSize <- 3, QueueSize <- 2, MaxSaid <- 4,
                  Block <- 2, MaxTries <- 2, result <- dialled, conn <- link, late <- timeouts,
                  reader <- starter, queue <- chan
\* Keyframes and others on two channels, one sound; frame number 0, a frame long enough to
\* have an index that looks like the marker, and a clock that starts over twice.
Shot(channel, no, total, first, time) ==
    [channel |-> channel, no |-> no, total |-> total, first |-> first, time |-> time]
Handler == INSTANCE Frames
             WITH Shots <- <<Shot(5, 0, 2, "start", 0), Shot(5, 1, 4, "start", 1),
                             Shot(3, 1, 1, "endSingle", 1), Shot(7, 2, 1, "startAlt", 3),
                             Shot(5, 3, 2, "start", 5), Shot(7, 4, 1, "endSingle", 6)>>,
                  Wrap <- 4, Marker <- 2, QueueSize <- 2, InFlight <- 2, MaxFaults <- 2,
                  faults <- losses, output <- out, received <- taken

volumeVars == <<source, serial, config, token, auth, marker, used, tool, plan, ok, torn, faults>>
configVars == <<text, bak, named, upgrading, read, replaced>>
tlsVars == <<key, cert, good, made, ensuring, up, served, fingerprint, mishaps, changes>>
directVars == <<deny, strict, doing, attempt, thread, result, told, listener, queue, conn,
                locked, code, received, output, strangers>>
activityVars == <<file, age, at, flows, due, live, verdict, stale, polled, busy, quiet, calm,
                  sure>>
mediaVars == <<frames, arrived, reader>>
sessionVars == <<kind, wanted, talks, packets, i, dialled, link, pos, kept, buf, head, timeouts, seen,
                 skipped, misread, starter, got, chan, session1, conn2, op, asked, tracked, leaked,
                 talk, tried, said, held, spoken, stopped>>
dtlsVars == <<place, wire, losses, channels, videoTS, audioTS, out, closed, queued, taken, dropped,
              joined, panicked>>
vars == <<part, volumeVars, configVars, tlsVars, directVars, activityVars, mediaVars, sessionVars,
          dtlsVars>>

Frame(name, own) == part = name \/ UNCHANGED own

\* The initial choices of one part are not multiplied with those of another.
Init ==
    /\ part \in {"volume", "config", "tls", "direct", "activity", "media", "session", "dtls"}
    /\ Volume!Init /\ (part # "volume" => source.token = None /\ source.bound = None /\ serial = None)
    /\ Config!Init /\ (part # "config" => text.text = x1)
    /\ Tls!Init
    /\ Direct!Init /\ (part # "direct" => ~deny /\ ~strict)
    /\ Activity!Init
    /\ Media!Init /\ (part # "media" => frames = <<>>)
    /\ Handler!Init
    /\ IF part = "session" THEN Session!Init ELSE Session!InitOf({"doorbird"})

Next ==
    /\ UNCHANGED part
    /\ \/ part = "volume" /\ Volume!Next
       \/ part = "config" /\ Config!Next
       \/ part = "tls" /\ Tls!Next
       \/ part = "direct" /\ Direct!Next
       \/ part = "activity" /\ Activity!Next
       \/ part = "media" /\ Media!Next
       \/ part = "session" /\ Session!Next
       \/ part = "dtls" /\ Handler!Next
    /\ Frame("volume", volumeVars) /\ Frame("config", configVars) /\ Frame("tls", tlsVars)
    /\ Frame("direct", directVars) /\ Frame("activity", activityVars) /\ Frame("media", mediaVars)
    /\ Frame("session", sessionVars) /\ Frame("dtls", dtlsVars)

\* Nothing fair is enabled in a part's initial state, so the fairness of one
\* part asks nothing of a behaviour that explores another one.
Spec == Init /\ [][Next]_vars /\ Volume!Fairness /\ Tls!Fairness /\ Direct!Fairness
        /\ Session!Fairness
-----------------------------------------------------------------------------
\* A session is never bound to another camera, and no identity, session or config
\* is lost, through crashes between the writes of any tool (config_tool.py,
\* migrate-ezviz-config.py).  The wizard ends up serving a good certificate, the one
\* that the health check trusts (tls_config.py, service_supervisor.py).
VolumePromise == Volume!Promise /\ Config!Promise /\ Tls!Promise

\* The direct source ends or streams, hands on whole and in order what comes in private
\* frames, with strict the camera's only, and is then alone
\* (probe-ezviz-direct-reverse.py, ezviz_direct_media.py); sources that overlap and die do
\* not mislead the controller longer than its grace and its own waiting
\* (ActivityTracker).  A session with another camera delivers every packet it has not
\* lost with an answer once and in order after its probe, asks on one connection at a
\* time, and ends when it is stopped (Client, Producer).  A frame of a DTLS camera is
\* queued whole and with the camera's time (FrameHandler).
DirectPromise == Direct!Promise /\ Media!Promise /\ Activity!Promise /\ Session!Promise /\ Handler!Promise
=============================================================================
