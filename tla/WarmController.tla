--------------------------- MODULE WarmController ---------------------------
(***************************************************************************)
(* The warm controller: run_strategy decides once a second whether the     *)
(* camera is on mains or on battery, listens for PIR alarms (MQTT pushes,  *)
(* or polling while they are offline), and keeps one ffmpeg (WarmConsumer) *)
(* reading the raw stream while it wants it warm; main owns go2rtc and     *)
(* ends everything.                                                        *)
(*                                                                         *)
(* A deadline is a flag that its clock clears at any moment: `event` for   *)
(* the PIR window, `retry` for the consumer's back-off, `grace` for the    *)
(* activity tracker.  The poll, status, connect and renewal periods are    *)
(* left open: such a step does its work or is not due.  The raw stream is  *)
(* what module Streams promises of it: it goes up for a reader, stays for  *)
(* the linger window after the last one, and is closed then.               *)
(***************************************************************************)
EXTENDS Naturals, FiniteSets

CONSTANTS
    Alarms,     \* PIR alarms of the camera
    PowerMode,  \* "auto", "mains" or "battery"
    MaxFaults   \* bound on failing calls and starts per run (a model bound)

ASSUME WarmAssumption ==
    /\ IsFiniteSet(Alarms)
    /\ PowerMode \in {"auto", "mains", "battery"}
    /\ MaxFaults \in Nat

VARIABLES
    at, mode,                        \* run_strategy and current_mode
    client, mqtt, offline, failures, \* the cloud
    occurred, messages,              \* alarms so far; those pushed but not drained
    seen, initialized,               \* PirMessagePoller
    active, grace, awake,            \* ActivityTracker; next_awake_refresh # 0
    mains, event, retry,             \* WarmConsumer
    process, attached, closed,       \* its ffmpeg, and whether that reads the stream
    source, viewers,                 \* the raw stream, and its other readers
    main, child, stop,               \* main(), go2rtc, the stop event
    faults,
    misses, owed                     \* history: status calls failed on mains, an alarm that
                                     \* was not yet given its window

cloud    == <<client, mqtt, offline, failures>>
alarms   == <<messages, seen, initialized, owed>>
activity == <<active, grace, awake>>
consumer == <<mains, event, retry, process, attached, closed>>
stream   == <<source, viewers>>
ending   == <<main, child, stop>>
vars == <<at, mode, cloud, occurred, alarms, activity, consumer, stream, ending, faults, misses>>

Fault == faults < MaxFaults /\ faults' = faults + 1

Start == IF PowerMode = "auto" THEN "battery" ELSE PowerMode

Init ==
    /\ at = "client" /\ mode = Start
    /\ client = FALSE /\ mqtt = "none" /\ offline = "no" /\ failures = 0
    /\ occurred = {} /\ messages = {}
    /\ seen = {} /\ initialized = FALSE
    /\ active = "no" /\ grace = FALSE /\ awake = FALSE
    /\ mains = (mode = "mains") /\ event = FALSE /\ retry = FALSE
    /\ process = "none" /\ attached = FALSE /\ closed = FALSE
    /\ source = "cold" /\ viewers = FALSE
    /\ main = "running" /\ child = TRUE /\ stop = FALSE
    /\ faults = 0
    /\ misses = 0 /\ owed = FALSE

Read == viewers \/ attached

(***************************************************************************)
(* The raw stream, ffmpeg, the clocks and the cloud                        *)
(***************************************************************************)
Up(s) == IF s = "cold" THEN "starting" ELSE s

ViewersCome ==
    /\ child /\ ~viewers
    /\ viewers' = TRUE /\ source' = Up(source)
    /\ owed' = FALSE
    /\ UNCHANGED <<at, mode, cloud, occurred, messages, seen, initialized, activity,
                   consumer, ending, faults, misses>>

ViewersGo ==
    /\ viewers
    /\ viewers' = FALSE
    /\ UNCHANGED <<at, mode, cloud, occurred, alarms, activity, consumer, source, ending, faults,
                   misses>>

SourceUp ==
    /\ source = "starting"
    /\ source' = "live"
    /\ UNCHANGED <<at, mode, cloud, occurred, alarms, activity, consumer, viewers, ending, faults,
                   misses>>

SourceFails ==
    /\ source = "live"
    /\ Fault
    /\ source' = "starting"
    /\ UNCHANGED <<at, mode, cloud, occurred, alarms, activity, consumer, viewers, ending, misses>>

LingerOver ==
    /\ source # "cold" /\ ~Read
    /\ source' = "cold"
    /\ UNCHANGED <<at, mode, cloud, occurred, alarms, activity, consumer, viewers, ending, faults,
                   misses>>

ConsumerAttaches ==
    /\ child /\ process = "running" /\ ~attached
    /\ attached' = TRUE /\ source' = Up(source)
    /\ owed' = FALSE
    /\ UNCHANGED <<at, mode, cloud, occurred, messages, seen, initialized, activity, mains,
                   event, retry, process, closed, viewers, ending, faults, misses>>

ConsumerExits ==
    /\ process = "running"
    /\ \/ child /\ Fault
       \/ ~child /\ UNCHANGED faults
    /\ process' = "exited" /\ attached' = FALSE
    /\ UNCHANGED <<at, mode, cloud, occurred, alarms, activity, mains, event, retry, closed, stream,
                   ending, misses>>

WindowOver ==
    /\ event
    /\ event' = FALSE /\ owed' = FALSE
    /\ UNCHANGED <<at, mode, cloud, occurred, messages, seen, initialized, activity, mains,
                   retry, process, attached, closed, stream, ending, faults, misses>>

RetryDue ==
    /\ retry
    /\ retry' = FALSE
    /\ UNCHANGED <<at, mode, cloud, occurred, alarms, activity, mains, event, process, attached,
                   closed, stream, ending, faults, misses>>

GraceOver ==
    /\ grace
    /\ grace' = FALSE
    /\ UNCHANGED <<at, mode, cloud, occurred, alarms, active, awake, consumer, stream, ending,
                   faults, misses>>

\* The camera raises an alarm: it can be polled from now on, and it may be pushed.
Alarm(n) ==
    /\ n \notin occurred
    /\ occurred' = occurred \cup {n}
    /\ \/ mqtt = "up" /\ messages' = messages \cup {n}
       \/ UNCHANGED messages
    /\ UNCHANGED <<at, mode, cloud, seen, initialized, owed, activity, consumer, stream,
                   ending, faults, misses>>

MqttDrops ==
    /\ mqtt = "up"
    /\ mqtt' = "down"
    /\ UNCHANGED <<at, mode, client, offline, failures, occurred, alarms, activity, consumer,
                   stream, ending, faults, misses>>

MqttReturns ==
    /\ mqtt = "down"
    /\ mqtt' = "up"
    /\ UNCHANGED <<at, mode, client, offline, failures, occurred, alarms, activity, consumer,
                   stream, ending, faults, misses>>

\* MQTT_FALLBACK_GRACE_SECONDS are over.
OfflineLonger ==
    /\ offline = "new"
    /\ offline' = "long"
    /\ UNCHANGED <<at, mode, client, mqtt, failures, occurred, alarms, activity, consumer, stream,
                   ending, faults, misses>>

(***************************************************************************)
(* WarmConsumer: each method holds the consumer's lock                     *)
(***************************************************************************)
SetMains(on) == mains' = IF closed THEN mains ELSE on

\* trigger, for the alarms that made the strategy call it.
Trigger(new) ==
    /\ event' = (event \/ (new # {} /\ ~closed))
    /\ owed' = (owed \/ (new # {} /\ ~closed /\ ~Read))

\* A process that has exited is reaped; one that is wanted is started unless
\* the back-off runs; one that is not wanted is stopped.
Reap   == process = "exited" /\ retry' = TRUE /\ process' = "none" /\ UNCHANGED <<attached, faults>>
Launch == process = "none" /\ ~retry /\ (mains \/ event)
Halt   == process = "running" /\ ~(mains \/ event)

\* Mutant: a consumer that is no longer wanted is left alone.
TickKeeps ==
    \/ ~closed /\ Reap
    \/ ~closed /\ Launch /\ process' = "running" /\ UNCHANGED <<retry, attached, faults>>
    \/ ~closed /\ Launch /\ Fault /\ retry' = TRUE /\ UNCHANGED <<process, attached>>
    \/ /\ closed \/ ~(process = "exited" \/ Launch)
       /\ UNCHANGED <<process, retry, attached, faults>>

\* Mutant: a consumer that exited is taken for one that runs.
TickForgetsToReap ==
    \/ ~closed /\ Launch /\ process' = "running" /\ UNCHANGED <<retry, attached, faults>>
    \/ ~closed /\ Launch /\ Fault /\ retry' = TRUE /\ UNCHANGED <<process, attached>>
    \/ ~closed /\ Halt /\ process' = "none" /\ attached' = FALSE /\ UNCHANGED <<retry, faults>>
    \/ (closed \/ ~(Launch \/ Halt)) /\ UNCHANGED <<process, retry, attached, faults>>

Tick ==
    \/ ~closed /\ Reap
    \/ ~closed /\ Launch /\ process' = "running" /\ UNCHANGED <<retry, attached, faults>>
    \/ ~closed /\ Launch /\ Fault /\ retry' = TRUE /\ UNCHANGED <<process, attached>>
    \/ ~closed /\ Halt /\ process' = "none" /\ attached' = FALSE /\ UNCHANGED <<retry, faults>>
    \/ /\ closed \/ ~(process = "exited" \/ Launch \/ Halt)
       /\ UNCHANGED <<process, retry, attached, faults>>

(***************************************************************************)
(* run_strategy, with PIR preheating on                                    *)
(***************************************************************************)
world == <<occurred, stream, ending>>

\* The stop event is set: _close_cloud.
StrategyEnds ==
    /\ at = "client" /\ stop
    /\ at' = "done"
    /\ client' = FALSE /\ mqtt' = "none"
    /\ UNCHANGED <<mode, offline, failures, alarms, activity, consumer, world, faults, misses>>

\* Mutant: a new client inherits the failures of the last one.
NewClientInherits ==
    /\ at = "client" /\ ~stop
    /\ at' = "status"
    /\ client' \in {client, TRUE}
    /\ UNCHANGED <<failures, mode, mqtt, offline, alarms, activity, consumer, world, faults, misses>>

NewClient ==
    /\ at = "client" /\ ~stop
    /\ at' = "status"
    /\ \/ ~client /\ client' = TRUE /\ failures' = 0
       \/ UNCHANGED <<client, failures>>    \* it has one, none is due, or the token is unreadable
    /\ UNCHANGED <<mode, mqtt, offline, alarms, activity, consumer, world, faults, misses>>

\* classify_power: mains only if work mode and power status both say so.
Classify(plugged, powered) ==
    IF PowerMode # "auto" THEN PowerMode
    ELSE IF plugged /\ powered THEN "mains" ELSE "battery"

NewBaseline == seen' = {} /\ initialized' = FALSE

StatusNotDue ==
    /\ at = "status"
    /\ at' = "connect"
    /\ UNCHANGED <<mode, cloud, alarms, activity, consumer, world, faults, misses>>

Status(plugged, powered) ==
    /\ at = "status" /\ client
    /\ at' = "connect"
    /\ failures' = 0 /\ misses' = 0
    /\ mode' = Classify(plugged, powered)
    /\ IF mode' # mode
       THEN /\ SetMains(mode' = "mains")
            /\ IF mode' = "mains"
               THEN mqtt' = "none" /\ offline' = "no" /\ UNCHANGED <<seen, initialized>>
               ELSE NewBaseline /\ UNCHANGED <<mqtt, offline>>
       ELSE UNCHANGED <<mains, mqtt, offline, seen, initialized>>
    /\ UNCHANGED <<client, messages, owed, activity, event, retry, process, attached,
                   closed, world, faults>>

\* Mutant: a third failure drops the client and keeps the mode.
StatusFailsKeepsMode ==
    /\ at = "status" /\ client
    /\ at' = "connect"
    /\ misses' = IF mode # "mains" THEN 0 ELSE IF misses < 3 THEN misses + 1 ELSE misses
    /\ failures' = failures + 1
    /\ IF failures' < 3
       THEN UNCHANGED <<client, mqtt, offline>>
       ELSE client' = FALSE /\ mqtt' = "none" /\ offline' = "no"
    /\ UNCHANGED <<mode, alarms, activity, consumer, world, faults>>

StatusFails ==
    /\ at = "status" /\ client
    /\ at' = "connect"
    /\ misses' = IF mode # "mains" THEN 0 ELSE IF misses < 3 THEN misses + 1 ELSE misses
    /\ failures' = failures + 1
    /\ IF failures' < 3
       THEN UNCHANGED <<client, mqtt, offline, mode, mains, seen, initialized>>
       ELSE /\ client' = FALSE /\ mqtt' = "none" /\ offline' = "no"
            /\ IF PowerMode = "auto" /\ mode # "battery"
               THEN mode' = "battery" /\ SetMains(FALSE) /\ NewBaseline
               ELSE UNCHANGED <<mode, mains, seen, initialized>>
    /\ UNCHANGED <<messages, owed, activity, event, retry, process, attached, closed,
                   world, faults>>

\* The push listener is opened, is not due, or cannot be opened.
Connect ==
    /\ at = "connect"
    /\ at' = "watch"
    /\ \/ /\ mode = "battery" /\ client /\ mqtt = "none"
          /\ mqtt' = "up" /\ offline' = "no"
       \/ /\ mode = "battery" /\ client /\ mqtt = "none"
          /\ offline' = "no" /\ UNCHANGED mqtt
       \/ UNCHANGED <<mqtt, offline>>
    /\ UNCHANGED <<mode, client, failures, alarms, activity, consumer, world, faults, misses>>

Watch ==
    /\ at = "watch"
    /\ at' = "poll"
    /\ \/ mqtt = "none" /\ UNCHANGED <<mqtt, offline>>
       \/ mqtt = "up" /\ offline' = "no" /\ UNCHANGED mqtt
       \/ mqtt = "down" /\ offline = "no" /\ offline' = "new" /\ UNCHANGED mqtt
       \/ mqtt = "down" /\ offline # "no" /\ UNCHANGED <<mqtt, offline>>
       \/ mqtt = "down" /\ offline = "long" /\ mqtt' = "none" /\ offline' = "no"
    /\ UNCHANGED <<mode, client, failures, alarms, activity, consumer, world, faults, misses>>

FallbackDue == mqtt = "none" \/ (mqtt = "down" /\ offline = "long")

PollNotDue ==
    /\ at = "poll"
    /\ at' = "drain"
    /\ UNCHANGED <<mode, cloud, alarms, activity, consumer, world, faults, misses>>

\* PirMessagePoller.ingest: the first answer is the baseline, later ones
\* trigger for every message that was not seen in an earlier one.
Poll ==
    /\ at = "poll"
    /\ mode = "battery" /\ client /\ FallbackDue
    /\ at' = "drain"
    /\ seen' = seen \cup occurred
    /\ initialized' = TRUE
    /\ Trigger(IF initialized THEN occurred \ seen ELSE {})
    /\ UNCHANGED <<mode, cloud, messages, activity, mains, retry, process, attached, closed, world,
                   faults, misses>>

Drain ==
    /\ at = "drain"
    /\ at' = "tick"
    /\ messages' = {}
    /\ Trigger(messages)
    /\ UNCHANGED <<mode, cloud, seen, initialized, activity, mains, retry, process, attached,
                   closed, world, faults, misses>>

FirstTick ==
    /\ at = "tick"
    /\ at' = "check"
    /\ Tick
    /\ UNCHANGED <<mode, cloud, alarms, activity, mains, event, closed, world, misses>>

\* ActivityTracker.update, and release_event: a live source, or one that was
\* live within the grace, takes over from the event consumer.
Check ==
    /\ at = "check"
    /\ active' = IF source = "live" THEN "live" ELSE IF grace THEN "grace" ELSE "no"
    /\ grace' = (grace \/ source = "live")
    /\ IF mode = "battery" /\ active' # "no"
       THEN at' = "again" /\ event' = FALSE /\ UNCHANGED awake
       ELSE at' = "client" /\ awake' = FALSE /\ UNCHANGED event
    /\ UNCHANGED <<mode, cloud, alarms, mains, retry, process, attached, closed, world, faults,
                   misses>>

SecondTick ==
    /\ at = "again"
    /\ at' = "renew"
    /\ Tick
    /\ UNCHANGED <<mode, cloud, alarms, activity, mains, event, closed, world, misses>>

RenewNotDue ==
    /\ at = "renew"
    /\ at' = "client"
    /\ awake' = TRUE
    /\ UNCHANGED <<mode, cloud, alarms, active, grace, consumer, world, faults, misses>>

\* delay_battery_device_sleep; it may fail and is tried again later.
Renew ==
    /\ at = "renew" /\ awake /\ client
    /\ at' = "client"
    /\ UNCHANGED <<mode, cloud, alarms, activity, consumer, world, faults, misses>>

(***************************************************************************)
(* main                                                                    *)
(***************************************************************************)
strategy == <<at, mode, cloud, occurred, alarms, activity, misses>>

\* A signal: the stop event is set and go2rtc gets the signal.
Signal ==
    /\ main = "running" /\ ~stop
    /\ stop' = TRUE
    /\ UNCHANGED <<strategy, consumer, stream, main, child, faults>>

\* go2rtc ends, by itself or because it was told (or killed) to.
ChildExits ==
    /\ child
    /\ \/ stop /\ UNCHANGED faults
       \/ ~stop /\ Fault
    /\ child' = FALSE
    /\ source' = "cold" /\ viewers' = FALSE /\ attached' = FALSE
    /\ UNCHANGED <<strategy, mains, event, retry, process, closed, main, stop>>

\* Mutant: the consumer is stopped but not closed.
CloseOnlyStops ==
    /\ main = "running" /\ ~child
    /\ main' = "join"
    /\ stop' = TRUE
    /\ process' = "none" /\ attached' = FALSE
    /\ UNCHANGED <<strategy, mains, event, retry, closed, stream, child, faults>>

\* Mutant: main only waits for the stop event.
CloseOnStop ==
    /\ main = "running" /\ ~child /\ stop
    /\ main' = "join"
    /\ closed' = TRUE /\ mains' = FALSE /\ event' = FALSE
    /\ process' = "none" /\ attached' = FALSE
    /\ UNCHANGED <<strategy, retry, stream, child, stop, faults>>

\* The wait for go2rtc is over: stop is set, and the consumer closed.
Close ==
    /\ main = "running" /\ ~child
    /\ main' = "join"
    /\ stop' = TRUE
    /\ closed' = TRUE /\ mains' = FALSE /\ event' = FALSE
    /\ process' = "none" /\ attached' = FALSE
    /\ UNCHANGED <<strategy, retry, stream, child, faults>>

\* The strategy ended, or the join timed out and the daemon thread dies.
Exit ==
    /\ main = "join"
    /\ main' = "exited"
    /\ at' = "done"
    /\ UNCHANGED <<mode, cloud, occurred, alarms, activity, consumer, stream, child, stop, faults,
                   misses>>

(***************************************************************************)
(* Specification                                                           *)
(***************************************************************************)
World ==
    \/ ViewersCome \/ ViewersGo \/ SourceUp \/ SourceFails \/ LingerOver
    \/ ConsumerAttaches \/ ConsumerExits
    \/ WindowOver \/ RetryDue \/ GraceOver
    \/ \E n \in Alarms : Alarm(n)
    \/ MqttDrops \/ MqttReturns \/ OfflineLonger

Strategy ==
    \/ StrategyEnds \/ NewClient
    \/ StatusNotDue \/ StatusFails \/ \E plugged, powered \in BOOLEAN : Status(plugged, powered)
    \/ Connect \/ Watch \/ PollNotDue \/ Poll \/ Drain
    \/ FirstTick \/ Check \/ SecondTick \/ RenewNotDue \/ Renew

Exited == main = "exited" /\ UNCHANGED vars

Next ==
    \/ World
    \/ Strategy
    \/ Signal \/ ChildExits \/ Close \/ Exit
    \/ Exited

Spec == Init /\ [][Next]_vars

\* The loop of the strategy goes on (every cloud call has a timeout), the
\* clocks run, the stream closes after its window, go2rtc is killed when it
\* does not end by itself, and main goes on.
Fairness ==
    /\ WF_vars(Strategy)
    /\ WF_vars(WindowOver) /\ WF_vars(RetryDue) /\ WF_vars(GraceOver) /\ WF_vars(LingerOver)
    /\ WF_vars(ChildExits /\ stop)
    /\ WF_vars(Close) /\ WF_vars(Exit)

FairSpec == Spec /\ Fairness

(***************************************************************************)
(* Properties                                                              *)
(***************************************************************************)
StrategyOK ==
    /\ at \in {"client", "status", "connect", "watch", "poll", "drain", "tick", "check", "again",
               "renew", "done"}
    /\ mode \in {"mains", "battery"}
    /\ client \in BOOLEAN
    /\ mqtt \in {"none", "up", "down"} /\ offline \in {"no", "new", "long"}
    /\ failures \in 0..3 /\ misses \in 0..3

AlarmsOK ==
    /\ occurred \subseteq Alarms /\ messages \subseteq Alarms /\ seen \subseteq Alarms
    /\ initialized \in BOOLEAN
    /\ owed \in BOOLEAN
    /\ active \in {"live", "grace", "no"} /\ grace \in BOOLEAN /\ awake \in BOOLEAN

ConsumerOK ==
    /\ mains \in BOOLEAN /\ event \in BOOLEAN /\ retry \in BOOLEAN
    /\ process \in {"none", "running", "exited"}
    /\ attached \in BOOLEAN /\ closed \in BOOLEAN
    /\ source \in {"cold", "starting", "live"} /\ viewers \in BOOLEAN
    /\ faults \in 0..MaxFaults

EndingOK ==
    main \in {"running", "join", "exited"} /\ child \in BOOLEAN /\ stop \in BOOLEAN

\* Every variable keeps its type.
TypeOK == StrategyOK /\ AlarmsOK /\ ConsumerOK /\ EndingOK

\* The consumer is not kept for mains after three status calls in a row have
\* failed, also when new clients and refused tokens come in between: the
\* camera may be on battery by now (deploy/linux/README.md:182).
MainsIsConfirmed == PowerMode = "auto" /\ mains => misses < 3

\* main leaves nothing behind: a strategy that is in the middle of its loop
\* when the consumer is closed does not start ffmpeg again.
NothingLeft == main # "running" => process = "none" /\ ~child

\* Mains keeps the camera warm: ffmpeg is started again and again whatever
\* makes it exit.
KeepsMainsWarm == <>[](mode = "mains" /\ ~stop /\ child) => []<>(process = "running")

\* Battery lets the camera sleep: when nobody watches and no alarm comes any
\* more, the stream is closed for good.
BatterySleeps == <>[](mode = "battery" /\ ~viewers) => <>[](source = "cold")

\* A stop, and the end of go2rtc, end everything.
EverythingEnds == stop \/ ~child ~> main = "exited"

\* An alarm during the warm window extends it: the stream is not closed
\* before it was read again, or is about to be.
AlarmExtends == [][LingerOver => ~owed \/ event \/ process = "running"]_vars

\* On mains the stream stays warm, until a signal or an exit of go2rtc ends it all.
WarmUntilStopped == KeepsMainsWarm /\ EverythingEnds
=============================================================================
