------------------------ MODULE WarmControllerProofs ------------------------
(***************************************************************************)
(* The warm controller leaves nothing behind and does not trust mains      *)
(* longer than it may, for any alarms and faults.                          *)
(*                                                                         *)
(* Neither is inductive: that three failures end mains rests on failures   *)
(* and misses being counted together (Counted), and that nothing starts    *)
(* after the end on what close leaves of the consumer (Quiet).             *)
(***************************************************************************)
EXTENDS WarmController, TLAPS

\* Three failures in a row cost the client, and with it mains.
Counted ==
    /\ failures < 3 \/ ~client
    /\ mains => mode = "mains"
    /\ PowerMode = "auto" /\ mode = "mains" =>
          misses <= failures /\ failures < 3 /\ (client \/ at = "done")

\* Once main goes on after go2rtc, the consumer is closed and idle.
Quiet ==
    /\ main # "running" => closed /\ ~child
    /\ closed => process = "none" /\ ~mains /\ ~event

IInv == TypeOK /\ Counted /\ Quiet

LEMMA InitInv == Init => IInv
  <1> SUFFICES ASSUME Init PROVE IInv
    OBVIOUS
  <1>1. mode \in {"mains", "battery"} /\ (PowerMode = "auto" => mode = "battery")
    BY WarmAssumption DEF Init, Start
  <1>2. faults \in 0..MaxFaults
    BY WarmAssumption DEF Init
  <1>3. mains \in BOOLEAN /\ (mains => mode = "mains")
    BY DEF Init
  <1>4. TypeOK
    <2>1. StrategyOK
      <3>1. failures = 0 /\ misses = 0
        BY DEF Init
      <3>2. client \in BOOLEAN /\ mqtt = "none" /\ offline = "no" /\ at = "client"
        BY DEF Init
      <3> QED
        BY <1>1, <3>1, <3>2 DEF StrategyOK
    <2>2. EndingOK
      BY DEF Init, EndingOK
    <2>3. AlarmsOK /\ ConsumerOK
      BY <1>2, <1>3 DEF Init, AlarmsOK, ConsumerOK
    <2> QED
      BY <2>1, <2>2, <2>3 DEF TypeOK
  <1>5. Counted /\ Quiet
    BY <1>1, <1>3 DEF Init, Counted, Quiet
  <1> QED
    BY <1>4, <1>5 DEF IInv

\* What a bounded fault leaves of its counter.
LEMMA FaultType == TypeOK /\ Fault => faults' \in 0..MaxFaults
  BY WarmAssumption DEF TypeOK, StrategyOK, AlarmsOK, ConsumerOK, EndingOK, Fault

\* Triggers keep the type of the window and of the alarm it owes.
LEMMA TriggerType ==
    ASSUME TypeOK, NEW new \in SUBSET Alarms, Trigger(new)
    PROVE  /\ event' \in BOOLEAN /\ owed' \in BOOLEAN
           /\ closed => event' = event
  BY DEF Trigger, TypeOK, StrategyOK, AlarmsOK, ConsumerOK, EndingOK

\* A tick keeps the type of the consumer and starts nothing that is closed.
LEMMA TickType ==
    ASSUME TypeOK, Tick
    PROVE  /\ process' \in {"none", "running", "exited"}
           /\ retry' \in BOOLEAN /\ attached' \in BOOLEAN
           /\ faults' \in 0..MaxFaults
           /\ closed => process' = process
  <1>1. CASE closed
    BY <1>1 DEF Tick, TypeOK, StrategyOK, AlarmsOK, ConsumerOK, EndingOK
  <1>2. CASE ~closed /\ Launch /\ Fault /\ retry' = TRUE /\ UNCHANGED <<process, attached>>
    BY <1>2, FaultType DEF TypeOK, StrategyOK, AlarmsOK, ConsumerOK, EndingOK
  <1>3. CASE ~closed /\ ~(Launch /\ Fault /\ retry' = TRUE /\ UNCHANGED <<process, attached>>)
    BY <1>3 DEF Tick, Reap, TypeOK, StrategyOK, AlarmsOK, ConsumerOK, EndingOK
  <1> QED
    BY <1>1, <1>2, <1>3

\* The steps of the stream, ffmpeg, the clocks and the cloud.
LEMMA WorldStep == IInv /\ World => IInv'
  <1> SUFFICES ASSUME IInv, World PROVE IInv'
    OBVIOUS
  <1>1. UNCHANGED <<at, mode, client, failures, seen, initialized, active, awake, mains, closed,
                    main, child, stop, misses>>
    BY DEF World, ViewersCome, ViewersGo, SourceUp, SourceFails, LingerOver, ConsumerAttaches,
           ConsumerExits, WindowOver, RetryDue, GraceOver, Alarm, MqttDrops, MqttReturns,
           OfflineLonger, cloud, alarms, activity, consumer, stream, ending
  <1>2. /\ event' = event \/ event' = FALSE
        /\ process' = process \/ (process = "running" /\ process' = "exited")
    BY DEF World, ViewersCome, ViewersGo, SourceUp, SourceFails, LingerOver, ConsumerAttaches,
           ConsumerExits, WindowOver, RetryDue, GraceOver, Alarm, MqttDrops, MqttReturns,
           OfflineLonger, cloud, alarms, activity, consumer, stream, ending
  <1>3. faults' \in 0..MaxFaults
    <2>1. CASE SourceFails \/ ConsumerExits
      BY <2>1, FaultType DEF SourceFails, ConsumerExits, IInv, TypeOK, StrategyOK, AlarmsOK, ConsumerOK, EndingOK
    <2>2. CASE ~SourceFails /\ ~ConsumerExits
      <3>1. faults' = faults
        BY <2>2 DEF World, ViewersCome, ViewersGo, SourceUp, LingerOver, ConsumerAttaches,
                    WindowOver, RetryDue, GraceOver, Alarm, MqttDrops, MqttReturns, OfflineLonger
      <3> QED
        BY <3>1 DEF IInv, TypeOK, StrategyOK, AlarmsOK, ConsumerOK, EndingOK
    <2> QED
      BY <2>1, <2>2
  <1>4. /\ mqtt' \in {mqtt, "up", "down"} /\ offline' \in {offline, "long"}
        /\ grace' = grace \/ grace' = FALSE
        /\ retry' = retry \/ retry' = FALSE
        /\ owed' = owed \/ owed' = FALSE
        /\ attached' = attached \/ attached' = TRUE \/ attached' = FALSE
        /\ viewers' = viewers \/ viewers' = TRUE \/ viewers' = FALSE
    BY DEF World, ViewersCome, ViewersGo, SourceUp, SourceFails, LingerOver, ConsumerAttaches,
           ConsumerExits, WindowOver, RetryDue, GraceOver, Alarm, MqttDrops, MqttReturns,
           OfflineLonger, cloud, alarms, activity, consumer, stream, ending
  <1>5. source' \in {source, "cold", "starting", "live"}
    BY DEF World, ViewersCome, ViewersGo, SourceUp, SourceFails, LingerOver, ConsumerAttaches,
           ConsumerExits, WindowOver, RetryDue, GraceOver, Alarm, MqttDrops, MqttReturns,
           OfflineLonger, stream, Up
  <1>6. occurred' \subseteq Alarms /\ messages' \subseteq Alarms
    BY DEF World, ViewersCome, ViewersGo, SourceUp, SourceFails, LingerOver, ConsumerAttaches,
           ConsumerExits, WindowOver, RetryDue, GraceOver, Alarm, MqttDrops, MqttReturns,
           OfflineLonger, alarms, IInv, TypeOK, AlarmsOK
  <1>7. TypeOK'
    <2>1. StrategyOK'
      BY <1>1, <1>4 DEF IInv, TypeOK, StrategyOK
    <2>2. AlarmsOK'
      BY <1>1, <1>4, <1>6 DEF IInv, TypeOK, AlarmsOK
    <2>3. ConsumerOK'
      <3>1. mains' \in BOOLEAN /\ closed' \in BOOLEAN
        BY <1>1 DEF IInv, TypeOK, ConsumerOK
      <3>2. event' \in BOOLEAN
        BY <1>2 DEF IInv, TypeOK, ConsumerOK
      <3>3. retry' \in BOOLEAN /\ attached' \in BOOLEAN /\ viewers' \in BOOLEAN
        BY <1>4 DEF IInv, TypeOK, ConsumerOK
      <3>4. process' \in {"none", "running", "exited"}
        BY <1>2 DEF IInv, TypeOK, ConsumerOK
      <3>5. source' \in {"cold", "starting", "live"}
        BY <1>5 DEF IInv, TypeOK, ConsumerOK
      <3> QED
        BY <1>3, <3>1, <3>2, <3>3, <3>4, <3>5 DEF ConsumerOK
    <2>4. EndingOK'
      BY <1>1 DEF IInv, TypeOK, EndingOK
    <2> QED
      BY <2>1, <2>2, <2>3, <2>4 DEF TypeOK
  <1>8. Counted'
    BY <1>1 DEF IInv, Counted
  <1>9. Quiet'
    <2>1. main' # "running" => closed' /\ ~child'
      BY <1>1 DEF IInv, Quiet
    <2>2. closed' => process' = "none" /\ ~mains' /\ ~event'
      BY <1>1, <1>2 DEF IInv, Quiet
    <2> QED
      BY <2>1, <2>2 DEF Quiet
  <1> QED
    BY <1>7, <1>8, <1>9 DEF IInv

\* What the cloud answers, or does not.
LEMMA StatusStep ==
    ASSUME IInv, StatusFails \/ \E plugged, powered \in BOOLEAN : Status(plugged, powered)
    PROVE  IInv'
  <1> DEFINE Kept == UNCHANGED <<occurred, messages, owed, active, grace, awake, event,
                                 retry, process, attached, closed, source, viewers, main, child,
                                 stop, faults>>
  <1>1. CASE StatusFails
    <2>0. Kept /\ at' = "connect"
      BY <1>1 DEF StatusFails, world, activity, stream, ending
    <2>1. failures' \in 0..3 /\ (failures' < 3 \/ ~client')
      <3>1. failures \in 0..2 /\ failures' = failures + 1
        BY <1>1 DEF StatusFails, IInv, TypeOK, StrategyOK, Counted
      <3>2. failures' < 3 \/ client' = FALSE
        BY <1>1 DEF StatusFails
      <3> QED
        BY <3>1, <3>2
    <2>2. misses' \in 0..3
      BY <1>1 DEF StatusFails, IInv, TypeOK, StrategyOK, AlarmsOK, ConsumerOK, EndingOK
    <2>3. mode' \in {mode, "battery"} /\ (mains' = mains \/ mains' = FALSE)
      BY <1>1 DEF StatusFails, SetMains
    <2>4. (client' = client \/ client' = FALSE) /\ mqtt' \in {mqtt, "none"} /\ offline' \in {offline, "no"}
      BY <1>1 DEF StatusFails
    <2>5. seen' \in {seen, {}} /\ (initialized' = initialized \/ initialized' = FALSE)
      BY <1>1 DEF StatusFails, NewBaseline
    <2>6. TypeOK'
      <3>1. StrategyOK'
        BY <2>0, <2>1, <2>2, <2>3, <2>4 DEF IInv, TypeOK, StrategyOK
      <3>2. AlarmsOK'
        BY <2>0, <2>5 DEF IInv, TypeOK, AlarmsOK
      <3>0. mains' \in BOOLEAN
        BY <2>3 DEF IInv, TypeOK, ConsumerOK
      <3>3. ConsumerOK' /\ EndingOK'
        BY <2>0, <3>0 DEF IInv, TypeOK, ConsumerOK, EndingOK
      <3> QED
        BY <3>1, <3>2, <3>3 DEF TypeOK
    <2>7. PowerMode = "auto" /\ mode' = "mains" =>
            client' /\ misses' <= failures' /\ failures' < 3
      <3> SUFFICES ASSUME PowerMode = "auto", mode' = "mains"
                   PROVE  client' /\ misses' <= failures' /\ failures' < 3
        OBVIOUS
      <3>1. mode = "mains" /\ failures' < 3 /\ client' = client
        BY <1>1 DEF StatusFails, IInv, TypeOK, StrategyOK, AlarmsOK, ConsumerOK, EndingOK
      <3> QED
        BY <1>1, <3>1 DEF StatusFails, IInv, TypeOK, StrategyOK, AlarmsOK, ConsumerOK, EndingOK, Counted
    <2>8. mains' => mode' = "mains"
      <3>1. CASE closed
        BY <2>3, <3>1 DEF IInv, Quiet
      <3>2. CASE ~closed
        BY <1>1, <3>2 DEF StatusFails, SetMains, IInv, TypeOK, StrategyOK, AlarmsOK, ConsumerOK, EndingOK, Counted
      <3> QED
        BY <3>1, <3>2
    <2>9. Quiet'
      BY <2>0, <2>3 DEF IInv, Quiet
    <2> QED
      BY <2>1, <2>6, <2>7, <2>8, <2>9 DEF IInv, Counted
  <1>2. ASSUME NEW plugged \in BOOLEAN, NEW powered \in BOOLEAN, Status(plugged, powered)
        PROVE  IInv'
    <2>0. Kept /\ at' = "connect" /\ client /\ client' = client
      BY <1>2 DEF Status, world, activity, stream, ending
    <2>1. failures' = 0 /\ misses' = 0
      BY <1>2 DEF Status
    <2>2. mode' \in {"mains", "battery"}
      BY <1>2, WarmAssumption DEF Status, Classify
    <2>3. mains' \in BOOLEAN /\ (closed => mains' = mains)
      BY <1>2 DEF Status, SetMains, IInv, TypeOK, StrategyOK, AlarmsOK, ConsumerOK, EndingOK
    <2>4. mqtt' \in {mqtt, "none"} /\ offline' \in {offline, "no"}
      BY <1>2 DEF Status
    <2>5. seen' \in {seen, {}} /\ (initialized' = initialized \/ initialized' = FALSE)
      BY <1>2 DEF Status, NewBaseline
    <2>6. TypeOK'
      <3>1. StrategyOK'
        BY <2>0, <2>1, <2>2, <2>3, <2>4 DEF IInv, TypeOK, StrategyOK
      <3>2. AlarmsOK'
        BY <2>0, <2>5 DEF IInv, TypeOK, AlarmsOK
      <3>0. mains' \in BOOLEAN
        BY <2>3 DEF IInv, TypeOK, ConsumerOK
      <3>3. ConsumerOK' /\ EndingOK'
        BY <2>0, <3>0 DEF IInv, TypeOK, ConsumerOK, EndingOK
      <3> QED
        BY <3>1, <3>2, <3>3 DEF TypeOK
    <2>8. ~closed /\ mains' => mode' = "mains"
      BY <1>2 DEF Status, SetMains, IInv, Counted, TypeOK, StrategyOK, AlarmsOK, ConsumerOK, EndingOK
    <2>9. Quiet' /\ (mains' => ~closed)
      <3>1. CASE closed
        BY <2>0, <2>3, <3>1 DEF IInv, Quiet
      <3>2. CASE ~closed
        BY <2>0, <3>2 DEF IInv, Quiet
      <3> QED
        BY <3>1, <3>2
    <2>10. Counted'
      BY <2>0, <2>1, <2>8, <2>9 DEF Counted
    <2> QED
      BY <2>6, <2>9, <2>10 DEF IInv
  <1> QED
    BY <1>1, <1>2

\* The steps of the loop that leave the mode alone.
LEMMA LoopStep ==
    ASSUME IInv, StrategyEnds \/ NewClient \/ StatusNotDue \/ Connect \/ Watch \/ PollNotDue
                 \/ RenewNotDue \/ Renew
    PROVE  IInv'
  <1>1. UNCHANGED <<mode, alarms, grace, active, consumer, world, faults, misses>>
    BY DEF StrategyEnds, NewClient, StatusNotDue, Connect, Watch, PollNotDue, RenewNotDue, Renew,
           activity
  <1>2. /\ at' \in {"done", "status", "connect", "watch", "poll", "drain", "client"}
        /\ mqtt' \in {mqtt, "none", "up"} /\ offline' \in {offline, "no", "new"}
    BY DEF StrategyEnds, NewClient, StatusNotDue, Connect, Watch, PollNotDue, RenewNotDue, Renew,
           cloud
  <1>3. awake' = awake \/ awake' = FALSE \/ awake' = TRUE
    BY DEF StrategyEnds, NewClient, StatusNotDue, Connect, Watch, PollNotDue, RenewNotDue, Renew,
           activity
  <1>4. \/ client' = FALSE /\ failures' = failures /\ stop
        \/ client' = TRUE /\ failures' = 0 /\ ~client /\ at = "client"
        \/ UNCHANGED <<client, failures>>
    BY DEF StrategyEnds, NewClient, StatusNotDue, Connect, Watch, PollNotDue, RenewNotDue, Renew,
           cloud
  <1>5. failures' \in 0..3 /\ misses' \in 0..3
    BY <1>1, <1>4 DEF IInv, TypeOK, StrategyOK
  <1>6. client' \in BOOLEAN
    BY <1>4 DEF IInv, TypeOK, StrategyOK
  <1>7. StrategyOK'
    BY <1>1, <1>2, <1>5, <1>6 DEF IInv, TypeOK, StrategyOK
  <1>8. AlarmsOK'
    BY <1>1, <1>3 DEF alarms, world, IInv, TypeOK, AlarmsOK
  <1>9. ConsumerOK' /\ EndingOK'
    BY <1>1 DEF consumer, world, stream, ending, IInv, TypeOK, ConsumerOK, EndingOK
  <1>10. Quiet'
    BY <1>1 DEF consumer, world, ending, IInv, Quiet
  <1>11. Counted'
    <2>1. failures' < 3 \/ ~client'
      BY <1>4 DEF IInv, Counted
    <2>2. mains' => mode' = "mains"
      BY <1>1 DEF consumer, IInv, Counted
    <2>3. ASSUME PowerMode = "auto", mode' = "mains"
          PROVE  misses' <= failures' /\ failures' < 3 /\ (client' \/ at' = "done")
      <3>1. mode = "mains" /\ misses <= failures /\ failures < 3 /\ (client \/ at = "done")
        BY <1>1, <2>3 DEF IInv, Counted
      <3>2. at # "done"
        BY DEF StrategyEnds, NewClient, StatusNotDue, Connect, Watch, PollNotDue, RenewNotDue, Renew
      <3>3. client /\ failures' = failures /\ misses' = misses
        BY <1>1, <1>4, <3>1, <3>2
      <3>4. client' \/ at' = "done"
        BY <3>3 DEF StrategyEnds, NewClient, StatusNotDue, Connect, Watch, PollNotDue, RenewNotDue,
                    Renew, cloud
      <3> QED
        BY <3>1, <3>3, <3>4
    <2> QED
      BY <2>1, <2>2, <2>3 DEF Counted
  <1> QED
    BY <1>7, <1>8, <1>9, <1>10, <1>11 DEF IInv, TypeOK

\* Alarms, ticks and the activity tracker.
LEMMA ConsumerStep ==
    ASSUME IInv, Poll \/ Drain \/ FirstTick \/ Check \/ SecondTick
    PROVE  IInv'
  <1>1. /\ UNCHANGED <<mode, client, mqtt, offline, failures, occurred, mains, closed, source,
                       viewers, main, child, stop, misses>>
        /\ at' \in {"drain", "tick", "check", "again", "client", "renew"}
    BY DEF Poll, Drain, FirstTick, Check, SecondTick, cloud, world, stream, ending
  <1>2. StrategyOK' /\ EndingOK'
    BY <1>1 DEF IInv, TypeOK, StrategyOK, EndingOK
  <1>3. at # "done"
    BY DEF Poll, Drain, FirstTick, Check, SecondTick
  <1>4. Counted'
    <2>1. PowerMode = "auto" /\ mode = "mains" => client
      BY <1>3 DEF IInv, Counted
    <2> QED
      BY <1>1, <2>1 DEF IInv, Counted
  <1>5. AlarmsOK' /\ ConsumerOK' /\ Quiet'
    <2>1. CASE Poll \/ Drain
      <3>1. PICK new \in SUBSET Alarms : Trigger(new)
        <4>1. Poll => Trigger(IF initialized THEN occurred \ seen ELSE {})
          BY DEF Poll
        <4>2. (IF initialized THEN occurred \ seen ELSE {}) \in SUBSET Alarms
          BY DEF IInv, TypeOK, AlarmsOK
        <4>3. Drain => Trigger(messages) /\ messages \in SUBSET Alarms
          BY DEF Drain, IInv, TypeOK, AlarmsOK
        <4> QED
          BY <2>1, <4>1, <4>2, <4>3
      <3>2. /\ event' \in BOOLEAN /\ owed' \in BOOLEAN
            /\ closed => event' = event
        BY <3>1, TriggerType DEF IInv
      <3>3. UNCHANGED <<active, grace, awake, retry, process, attached, faults>>
        BY <2>1 DEF Poll, Drain, activity
      <3>4. /\ messages' \in {messages, {}} /\ seen' \in {seen, seen \cup occurred}
            /\ initialized' = initialized \/ initialized' = TRUE
        BY <2>1 DEF Poll, Drain
      <3>5. AlarmsOK'
        BY <1>1, <3>2, <3>3, <3>4 DEF IInv, TypeOK, AlarmsOK
      <3>6. ConsumerOK'
        BY <1>1, <3>2, <3>3 DEF IInv, TypeOK, ConsumerOK
      <3>7. Quiet'
        BY <1>1, <3>2, <3>3 DEF IInv, Quiet
      <3> QED
        BY <3>5, <3>6, <3>7
    <2>2. CASE FirstTick \/ SecondTick
      <3>1. /\ process' \in {"none", "running", "exited"}
            /\ retry' \in BOOLEAN /\ attached' \in BOOLEAN
            /\ faults' \in 0..MaxFaults
            /\ closed => process' = process
        BY <2>2, TickType DEF FirstTick, SecondTick, IInv
      <3>2. UNCHANGED <<alarms, activity, event>>
        BY <2>2 DEF FirstTick, SecondTick
      <3>3. AlarmsOK'
        BY <1>1, <3>2 DEF alarms, activity, IInv, TypeOK, AlarmsOK
      <3>4. ConsumerOK'
        BY <1>1, <3>1, <3>2 DEF IInv, TypeOK, ConsumerOK
      <3>5. Quiet'
        BY <1>1, <3>1, <3>2 DEF IInv, Quiet
      <3> QED
        BY <3>3, <3>4, <3>5
    <2>3. CASE Check
      <3>1. /\ UNCHANGED <<alarms, retry, process, attached, faults>>
            /\ event' = event \/ event' = FALSE
            /\ awake' = awake \/ awake' = FALSE
        BY <2>3 DEF Check
      <3>2. active' \in {"live", "grace", "no"} /\ grace' \in BOOLEAN
        BY <2>3 DEF Check, IInv, TypeOK, AlarmsOK
      <3>3. AlarmsOK'
        BY <1>1, <3>1, <3>2 DEF alarms, IInv, TypeOK, AlarmsOK
      <3>4. ConsumerOK'
        BY <1>1, <3>1 DEF IInv, TypeOK, ConsumerOK
      <3>5. Quiet'
        BY <1>1, <3>1 DEF IInv, Quiet
      <3> QED
        BY <3>3, <3>4, <3>5
    <2> QED
      BY <2>1, <2>2, <2>3
  <1> QED
    BY <1>2, <1>4, <1>5 DEF IInv, TypeOK

\* The steps of main.
LEMMA MainStep == IInv /\ (Signal \/ ChildExits \/ Close \/ Exit) => IInv'
  <1> SUFFICES ASSUME IInv, Signal \/ ChildExits \/ Close \/ Exit PROVE IInv'
    OBVIOUS
  <1>1. /\ UNCHANGED <<mode, client, mqtt, offline, failures, misses, retry>>
        /\ UNCHANGED <<occurred, messages, seen, initialized, owed, active, grace, awake>>
        /\ at' = at \/ at' = "done"
    BY DEF Signal, ChildExits, Close, Exit, strategy, cloud, alarms, activity, consumer
  <1>2. /\ mains' = mains \/ mains' = FALSE
        /\ event' = event \/ event' = FALSE
        /\ attached' = attached \/ attached' = FALSE
        /\ viewers' = viewers \/ viewers' = FALSE
        /\ child' = child \/ child' = FALSE
        /\ stop' = stop \/ stop' = TRUE
        /\ closed' = closed \/ (closed' = TRUE /\ process' = "none" /\ ~mains' /\ ~event')
        /\ process' = process \/ process' = "none"
        /\ source' = source \/ source' = "cold"
    BY DEF Signal, ChildExits, Close, Exit, consumer, stream
  <1>3. /\ main' \in {main, "join", "exited"}
        /\ main' # "running" /\ main = "running" => closed' = TRUE /\ ~child'
    BY DEF Signal, ChildExits, Close, Exit
  <1>4. faults' \in 0..MaxFaults
    <2>1. CASE ChildExits
      BY <2>1, FaultType DEF ChildExits, IInv, TypeOK, ConsumerOK
    <2>2. CASE ~ChildExits
      BY <2>2 DEF Signal, Close, Exit, IInv, TypeOK, ConsumerOK
    <2> QED
      BY <2>1, <2>2
  <1>5. StrategyOK'
    BY <1>1 DEF IInv, TypeOK, StrategyOK
  <1>6. AlarmsOK'
    BY <1>1 DEF IInv, TypeOK, AlarmsOK
  <1>7. ConsumerOK'
    BY <1>1, <1>2, <1>4 DEF IInv, TypeOK, ConsumerOK
  <1>8. EndingOK'
    BY <1>2, <1>3 DEF IInv, TypeOK, EndingOK
  <1>9. Counted'
    BY <1>1, <1>2 DEF IInv, Counted
  <1>10. Quiet'
    <2>1. main' # "running" => closed' /\ ~child'
      BY <1>2, <1>3 DEF IInv, Quiet
    <2>2. closed' => process' = "none" /\ ~mains' /\ ~event'
      BY <1>2 DEF IInv, Quiet
    <2> QED
      BY <2>1, <2>2 DEF Quiet
  <1> QED
    BY <1>5, <1>6, <1>7, <1>8, <1>9, <1>10 DEF IInv, TypeOK

LEMMA InvStep == IInv /\ [Next]_vars => IInv'
  <1> SUFFICES ASSUME IInv, [Next]_vars PROVE IInv'
    OBVIOUS
  <1>1. CASE Strategy
    BY <1>1, StatusStep, LoopStep, ConsumerStep DEF Strategy
  <1>2. CASE UNCHANGED vars
    <2>1. TypeOK'
      BY <1>2 DEF vars, cloud, alarms, activity, consumer, stream, ending, IInv, TypeOK,
                  StrategyOK, AlarmsOK, ConsumerOK, EndingOK
    <2>2. Counted' /\ Quiet'
      BY <1>2 DEF vars, cloud, consumer, ending, IInv, Counted, Quiet
    <2> QED
      BY <2>1, <2>2 DEF IInv
  <1>3. CASE Exited
    BY <1>2, <1>3 DEF Exited
  <1> QED
    BY <1>1, <1>2, <1>3, WorldStep, MainStep DEF Next

LEMMA Invariance == Spec => []IInv
  BY InitInv, InvStep, PTL DEF Spec

\* Every variable of WarmController keeps its type.
THEOREM TypeCorrect == Spec => []TypeOK
  BY Invariance, PTL DEF IInv

\* Three failed status calls in a row end mains, for any number of clients,
\* alarms and faults.
THEOREM MainsNeedsProof == Spec => []MainsIsConfirmed
  <1>1. IInv => MainsIsConfirmed
    BY DEF IInv, TypeOK, StrategyOK, Counted, MainsIsConfirmed
  <1> QED
    BY <1>1, Invariance, PTL

\* No process is left and none is started once main has stopped waiting.
THEOREM LeavesNothing == Spec => []NothingLeft
  <1>1. IInv => NothingLeft
    BY DEF IInv, Quiet, NothingLeft
  <1> QED
    BY <1>1, Invariance, PTL
=============================================================================
