-------------------------------- MODULE Rtsp -------------------------------
(***************************************************************************)
(* The RTSP client of a camera (pkg/rtsp: client.go, producer.go, conn.go).  *)
(* One goroutine asks for tracks and stops the connection (the producer of a *)
(* stream, under its own lock), another one sits in Start and Handle.  A     *)
(* track that is asked for while the camera plays means a new connection     *)
(* under the feet of Handle, which must then play once again.                *)
(* The camera is external: it answers, refuses, falls silent or hangs up.    *)
(***************************************************************************)
EXTENDS Integers

CONSTANTS Tracks,      \* medias of the camera, the backchannel included
          NoTrack,
          MaxAsks      \* bound: how often tracks are asked for

VARIABLES state,       \* c.state; stateMu is held while call is not "idle"
          link,        \* the current TCP connection
          backchannel, \* c.Backchannel: asked for in DESCRIBE
          receivers,   \* c.Receivers and c.Senders: tracks handed out
          call, wanted,      \* where GetTrack is, and the track it is about
          todo,        \* medias still to be set up
          answered,    \* the answer of the current request: read by nobody yet
          setups,      \* tracks the camera has set up on this connection
          played,      \* tracks it was told to play on this connection
          start,       \* where Start is
          reading,     \* the connection Handle's read blocks on
          asks,        \* how often a track was asked for
          halfway      \* history: a reconnect failed after its dial

client == <<backchannel, receivers, wanted, todo, asks, halfway>>
camera == <<answered, setups, played>>
loop == <<start, reading>>
vars == <<state, link, client, call, camera, loop>>

Init ==
    /\ state = "none" /\ link = "none" /\ backchannel \in BOOLEAN
    /\ receivers = {} /\ call = "idle" /\ wanted = NoTrack /\ todo = {}
    /\ answered = FALSE /\ setups = {} /\ played = {}
    /\ start = "off" /\ reading = "none" /\ asks = 0 /\ halfway = FALSE
-----------------------------------------------------------------------------
\* Dial: a new connection, nothing set up on it.
Dial(next) ==
    /\ link' = "open" /\ state' = "conn" /\ call' = next
    /\ setups' = {} /\ played' = {} /\ answered' = FALSE
    /\ reading' = IF reading = "current" THEN "old" ELSE reading

\* rtspHandler: dial and describe; a camera that refuses the backchannel is
\* dialled a second time without it.
RtspHandler ==
    /\ state = "none" /\ call = "idle" /\ link = "none"
    /\ \E refused \in {FALSE, backchannel} :
          backchannel' = (backchannel /\ ~refused)
    /\ Dial("idle") /\ UNCHANGED <<receivers, wanted, todo, start, asks, halfway>>

\* GetTrack and AddTrack: a track of a camera that plays needs a new connection.
GetTrack(t) ==
    /\ call = "idle" /\ state # "none" /\ t \notin receivers
    /\ asks < MaxAsks /\ asks' = asks + 1 /\ wanted' = t
    /\ IF state = "play" THEN call' = "close" /\ UNCHANGED todo
                         ELSE call' = "setup" /\ todo' = {t}
    /\ UNCHANGED <<state, link, backchannel, receivers, camera, loop, halfway>>

\* Reconnect: close, dial, describe, set up what was there.
ReconnectClose ==
    /\ call = "close" /\ link' = "closed" /\ call' = "dial"
    /\ UNCHANGED <<state, client, camera, loop>>

ReconnectDial ==
    /\ call = "dial" /\ Dial("describe")
    /\ UNCHANGED <<client, start>>

\* An error on the way: GetTrack returns it, state stays as it is.
ReturnError ==
    /\ call' = "idle" /\ wanted' = NoTrack /\ todo' = {} /\ answered' = FALSE
    /\ halfway' = (halfway \/ (state = "conn" /\ receivers # {}))
    /\ UNCHANGED <<state, link, receivers, asks, setups, played, loop>>

DialFails == call = "dial" /\ ReturnError /\ UNCHANGED backchannel

\* Do, first half: the request is written and the camera has answered.
Request ==
    /\ call \in {"describe", "setup"} /\ ~answered /\ link = "open"
    /\ answered' = TRUE
    /\ UNCHANGED <<state, link, client, call, setups, played, loop>>

\* Mutant: the medias of before are not set up again.
DescribedForOne ==
    /\ call = "describe" /\ answered
    /\ answered' = FALSE /\ call' = "setup" /\ todo' = {wanted}
    /\ UNCHANGED <<state, link, backchannel, receivers, wanted, setups, played, loop, asks, halfway>>

\* Do, second half: the answer of DESCRIBE, then of each SETUP.
Described ==
    /\ call = "describe" /\ answered
    /\ answered' = FALSE /\ call' = "setup" /\ todo' = receivers \cup {wanted}
    /\ UNCHANGED <<state, link, backchannel, receivers, wanted, setups, played, loop, asks, halfway>>

SetupMedia(t) ==
    /\ call = "setup" /\ answered /\ t \in todo
    /\ t = wanted => todo = {wanted}
    /\ answered' = FALSE /\ setups' = setups \cup {t} /\ todo' = todo \ {t}
    /\ UNCHANGED <<state, link, backchannel, receivers, call, wanted, played, loop, asks, halfway>>

\* No answer in five seconds, a refusal, a connection that broke; with the
\* backchannel asked for, SETUP tries it all once more without.
RequestFails ==
    \/ /\ call = "setup" /\ backchannel /\ todo # {}
       /\ call' = "close" /\ backchannel' = FALSE /\ answered' = FALSE
       /\ UNCHANGED <<state, link, receivers, wanted, todo, setups, played, loop, asks, halfway>>
    \/ /\ call = "describe" \/ (call = "setup" /\ ~backchannel /\ todo # {})
       /\ ReturnError /\ UNCHANGED backchannel

\* The end of GetTrack and AddTrack.
HandOut ==
    /\ call = "setup" /\ todo = {}
    /\ state' = "setup" /\ receivers' = receivers \cup {wanted}
    /\ call' = "idle" /\ wanted' = NoTrack
    /\ UNCHANGED <<link, backchannel, todo, asks, halfway, camera, loop>>

Stop ==
    /\ call = "idle" /\ state # "none"
    /\ state' = "none" /\ link' = "closed" /\ call' = "stopped"
    /\ UNCHANGED <<client, camera, loop>>
-----------------------------------------------------------------------------
\* Start is called once a track was handed out.
Start ==
    /\ start = "off" /\ receivers # {} /\ start' = "top"
    /\ UNCHANGED <<state, link, client, call, camera, reading>>

\* The switch of Start under stateMu: only a connection that was set up is
\* played; none, connected or still playing ends it.
StartLocked ==
    /\ start = "top" /\ call \in {"idle", "stopped"}
    /\ IF state = "setup" /\ link = "open"
       THEN state' = "play" /\ played' = setups /\ start' = "check"
       ELSE start' = "ended" /\ UNCHANGED <<state, played>>
    /\ UNCHANGED <<link, client, call, answered, setups, reading>>

\* Handle: test the state, then read from what c.reader is now.
HandleCheck ==
    /\ start = "check"
    /\ IF state = "none" THEN start' = "top" /\ UNCHANGED reading
                         ELSE start' = "read" /\ reading' = "current"
    /\ UNCHANGED <<state, link, client, call, camera>>

HandleData ==
    /\ start = "read" /\ reading = "current" /\ link = "open" /\ played # {}
    /\ start' = "check"
    /\ UNCHANGED <<state, link, client, call, camera, reading>>

\* The answer that Do waits for is read by Handle, which has gone on to the new
\* connection already.
HandleSteals ==
    /\ start = "read" /\ reading = "current" /\ link = "open" /\ answered
    /\ answered' = FALSE /\ start' = "check"
    /\ UNCHANGED <<state, link, client, call, setups, played, reading>>

\* Mutant: no read deadline.
HandleFailsOnError ==
    /\ start = "read" /\ (reading = "old" \/ link # "open") /\ start' = "top"
    /\ UNCHANGED <<state, link, client, call, camera, reading>>

\* The connection was closed or lost, or nothing came before the deadline.
HandleFails ==
    /\ start = "read" /\ start' = "top"
    /\ UNCHANGED <<state, link, client, call, camera, reading>>

\* The camera hangs up.
HangUp ==
    /\ link = "open" /\ link' = "lost"
    /\ UNCHANGED <<state, client, call, camera, loop>>
-----------------------------------------------------------------------------
Next ==
    \/ RtspHandler \/ ReconnectClose \/ ReconnectDial \/ DialFails \/ Request \/ Described
    \/ RequestFails \/ HandOut \/ Stop \/ Start \/ StartLocked
    \/ HandleCheck \/ HandleData \/ HandleSteals \/ HandleFails \/ HangUp
    \/ \E t \in Tracks : GetTrack(t) \/ SetupMedia(t)

\* The goroutine of Start runs; a read ends with data, an error or its deadline;
\* calls to the camera end (each write and read has five seconds).
Fairness ==
    /\ SF_vars(StartLocked) /\ WF_vars(HandleCheck) /\ WF_vars(HandleFails)
    /\ WF_vars(ReconnectClose \/ ReconnectDial \/ DialFails \/ Described \/ RequestFails \/ HandOut
               \/ \E t \in Tracks : SetupMedia(t))
-----------------------------------------------------------------------------
\* Every variable has its type.
TypeOK ==
    /\ state \in {"none", "conn", "setup", "play"}
    /\ link \in {"none", "open", "lost", "closed"} /\ backchannel \in BOOLEAN
    /\ receivers \subseteq Tracks /\ wanted \in Tracks \cup {NoTrack} /\ todo \subseteq Tracks
    /\ call \in {"idle", "close", "dial", "describe", "setup", "stopped"}
    /\ answered \in BOOLEAN /\ setups \subseteq Tracks /\ played \subseteq Tracks
    /\ start \in {"off", "top", "check", "read", "ended"}
    /\ reading \in {"none", "current", "old"} /\ asks \in 0..MaxAsks /\ halfway \in BOOLEAN

\* Every track handed out is among those the camera was told to play on the
\* current connection, also after a reconnect for another track; a reconnect
\* that failed after its dial leaves the others without (Reconnect, Start).
TracksPlay ==
    state = "play" /\ call = "idle" /\ ~halfway => receivers \subseteq played

\* A track that was handed out is played in the end, or Start gives up and the
\* producer of the stream reconnects: Start is not left waiting on a connection
\* that nobody plays ("Setup after PLAY should Play once again").
PlaysAgain ==
    (state = "setup" /\ start = "read") ~> (state # "setup" \/ start = "ended")

\* What the module promises.  Every track that was handed out plays, through reconnects under the reader
\* (Reconnect, Start, Handle).
Promise == [](TypeOK /\ TracksPlay) /\ PlaysAgain
=============================================================================
