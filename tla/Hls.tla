-------------------------------- MODULE Hls --------------------------------
(***************************************************************************)
(* One HLS session (internal/hls): a consumer of a stream whose output is    *)
(* collected in a buffer and taken away by HTTP requests.  Nobody says       *)
(* goodbye in HLS: a timer that every segment request resets takes the       *)
(* consumer off the stream.  A request that found the session in the map may *)
(* reset a timer that has fired; the callback then runs again.               *)
(***************************************************************************)
EXTENDS Integers, Sequences

CONSTANTS Requests,     \* requests of the players that name the session
          MaxPackets    \* bound: what the consumer writes

VARIABLES format,       \* of the consumer: "mp4" or "ts"
          attached,     \* the consumer is on the stream
          listed,       \* the session is in the sessions map
          alive,        \* its timer
          leaving,      \* the callback is past the map and before RemoveConsumer
          init, buffer, \* what Write has collected: the header, and packets
          written,      \* packets the consumer wrote
          got,          \* history: packets that segments took away, in order
          at            \* where each request is

life == <<attached, listed, alive, leaving>>
data == <<init, buffer, written, got>>
vars == <<format, life, data, at>>

Header == 0

Init ==
    /\ format \in {"mp4", "ts"} /\ attached = FALSE /\ listed = FALSE
    /\ alive = "none" /\ leaving = FALSE
    /\ init = <<>> /\ buffer = <<>> /\ written = 0 /\ got = <<>>
    /\ at = [r \in Requests |-> "new"]
-----------------------------------------------------------------------------
\* handlerStream and handlerWSHLS: AddConsumer, the timer, the map, Run.
Start ==
    /\ alive = "none" /\ attached' = TRUE /\ alive' = "armed" /\ listed' = TRUE
    /\ UNCHANGED <<format, leaving, data, at>>

\* Write: the first write is the header, what follows is media.
WriteHeader ==
    /\ alive # "none" /\ init = <<>> /\ init' = <<Header>>
    /\ UNCHANGED <<format, life, buffer, written, got, at>>
Write ==
    /\ init # <<>> /\ attached /\ written < MaxPackets
    /\ written' = written + 1 /\ buffer' = Append(buffer, written')
    /\ UNCHANGED <<format, life, init, got, at>>

\* Mutant: the consumer leaves before the session is out of the map.
FireRemovesFirst ==
    /\ alive = "armed" /\ alive' = "fired" /\ attached' = FALSE /\ leaving' = TRUE
    /\ UNCHANGED <<format, listed, data, at>>

\* The callback of the timer: out of the map, then off the stream.
Fire ==
    /\ alive = "armed" /\ alive' = "fired" /\ listed' = FALSE /\ leaving' = TRUE
    /\ UNCHANGED <<format, attached, data, at>>
RemoveConsumer ==
    /\ leaving /\ leaving' = FALSE /\ attached' = FALSE
    /\ UNCHANGED <<format, listed, alive, data, at>>

\* A request finds the session, or is told that there is none.
LookUp(r, found) ==
    /\ at[r] = "new" /\ alive # "none"
    /\ at' = [at EXCEPT ![r] = IF listed THEN found ELSE "done"]
    /\ UNCHANGED <<format, life, data>>
HandlerPlaylist(r) == LookUp(r, "playlist")
HandlerInit(r) == format = "mp4" /\ LookUp(r, "init")
HandlerSegmentMP4(r) == format = "mp4" /\ LookUp(r, "reset")
HandlerSegmentTS(r) == format = "ts" /\ LookUp(r, "reset")

\* Mutant: the timer rests while a segment is waited for and nobody arms it again.
ResetStops(r) ==
    /\ at[r] = "reset" /\ at' = [at EXCEPT ![r] = "segment"] /\ alive' = "fired"
    /\ UNCHANGED <<format, attached, listed, leaving, data>>

\* alive.Reset in both segment handlers: a timer that has fired runs once more.
Reset(r) ==
    /\ at[r] = "reset" /\ at' = [at EXCEPT ![r] = "segment"] /\ alive' = "armed"
    /\ UNCHANGED <<format, attached, listed, leaving, data>>

\* What a player gets to see of a segment: a TS segment starts with the header.
Media(s) == IF s # <<>> /\ Head(s) = Header THEN Tail(s) ELSE s

\* Mutant: the buffer is not cleared for fMP4.
SegmentKeeps(r) ==
    /\ at[r] = "segment" /\ at' = [at EXCEPT ![r] = "done"]
    /\ IF buffer = <<>> THEN UNCHANGED <<buffer, got>>
       ELSE /\ got' = got \o Media(buffer)
            /\ buffer' = IF format = "mp4" THEN buffer ELSE init
    /\ UNCHANGED <<format, life, init, written>>

\* Segment: all there is, if there is anything within its sixty tries.  A TS
\* buffer starts again with the header, which counts as something.
Segment(r) ==
    /\ at[r] = "segment" /\ at' = [at EXCEPT ![r] = "done"]
    /\ IF buffer = <<>> THEN UNCHANGED <<buffer, got>>
       ELSE /\ got' = got \o Media(buffer)
            /\ buffer' = IF format = "mp4" THEN <<>> ELSE init
    /\ UNCHANGED <<format, life, init, written>>

\* Init: the header, once there is media behind it; or not found after the tries.
GetInit(r) ==
    /\ at[r] = "init" /\ at' = [at EXCEPT ![r] = "done"]
    /\ UNCHANGED <<format, life, data>>

\* Playlist: two names of segments.  It does not keep the session alive.
Playlist(r) ==
    /\ at[r] = "playlist" /\ at' = [at EXCEPT ![r] = "done"]
    /\ UNCHANGED <<format, life, data>>

Timer == Fire \/ RemoveConsumer
Request(r) == Reset(r) \/ Segment(r) \/ GetInit(r) \/ Playlist(r)
Next ==
    \/ Start \/ WriteHeader \/ Write \/ Timer
    \/ \E r \in Requests : \/ HandlerPlaylist(r) \/ HandlerInit(r) \/ HandlerSegmentMP4(r)
                           \/ HandlerSegmentTS(r) \/ Request(r)
Fairness == WF_vars(Fire) /\ WF_vars(RemoveConsumer) /\ \A r \in Requests : WF_vars(Request(r))
Spec == Init /\ [][Next]_vars /\ Fairness
-----------------------------------------------------------------------------
\* Every variable has its type.
TypeOK ==
    /\ format \in {"mp4", "ts"} /\ alive \in {"none", "armed", "fired"}
    /\ {attached, listed, leaving} \subseteq BOOLEAN
    /\ init \in {<<>>, <<Header>>} /\ written \in 0..MaxPackets
    /\ buffer \in Seq(0..MaxPackets) /\ got \in Seq(1..MaxPackets)
    /\ at \in [Requests -> {"new", "playlist", "init", "reset", "segment", "done"}]

\* A session a player can still find has its consumer on the stream: the map is
\* cleared first (hls.go, the callback).
FoundIsFed == listed => attached

\* Whatever requests overlap, every packet is in one segment, in order (session.go).
NothingTwice == got \o Media(buffer) = [i \in 1..written |-> i]

\* When the players stop asking, the consumer leaves the stream (hls.go, the timer);
\* a late Reset only makes the callback run again.
SessionLeaves == attached ~> ~attached

\* What the module promises.  A session that can be found is fed, loses and doubles nothing, and leaves its
\* stream when nobody asks (hls.go, session.go).
Promise == [](TypeOK /\ FoundIsFed /\ NothingTwice) /\ SessionLeaves
=============================================================================
