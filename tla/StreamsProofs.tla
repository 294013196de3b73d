--------------------------- MODULE StreamsProofs ---------------------------
(***************************************************************************)
(* Theorems of Streams for every set of viewers, playbacks and media kinds *)
(* and every number of sources and of lost connections.                    *)
(***************************************************************************)
EXTENDS Streams, FiniteSetTheorems, TLAPS

\* s.pending counts the sessions between admission and decrement.
PendingCounts == pending = Cardinality(Adders)

\* The stop loop owns s.mu, examines a producer that exists, and no session
\* is being added while it runs.
LoopOK ==
    /\ loop.idle => loop.at \in Producers /\ ~SmuFree
    /\ loop.by \in Consumers => pc[loop.by] = "stopping"
    /\ ~SmuFree => pending = 0

\* A reconnect that is due under the current worker's number belongs to a
\* started producer: a stop takes the next number first.  Tracks move only
\* while a reconnect holds p.mu.
WorkersOK ==
    \A p \in Producers :
        /\ \A w \in due[p] : w <= workerID[p]
        /\ workerID[p] \in due[p] => state[p] = "Start"
        /\ ~rec[p].busy => rec[p] = NoMove

IInv == TypeOK /\ PendingCounts /\ LoopOK /\ WorkersOK /\ StoppedStaysStopped

(***************************************************************************)
(* Types                                                                   *)
(***************************************************************************)
\* The loops of AddConsumer stay on existing producers.
LEMMA GoToType ==
    ASSUME TypeOK, NEW c \in Consumers, Forward(c) \/ Matched(c)
    PROVE  /\ pc' \in [Consumers -> Steps]
           /\ pos' \in [Consumers -> Positions]
           /\ \E s \in {"leave", "dial"} : pc' = [pc EXCEPT ![c] = s]
<1>1. pos[c] \in Positions
  BY DEF TypeOK
<1>2. N \in Nat \ {0}
  BY StreamsAssumption
<1>3. /\ [media |-> pos[c].media + 1, source |-> 1] \in Positions
      /\ Source(c) < N => [pos[c] EXCEPT !.source = @ + 1] \in Positions
  BY <1>1, <1>2 DEF Producers, Positions, Source
<1>4. PICK q \in Positions : GoTo(c, q)
  BY <1>3 DEF Forward, Matched
<1>5. QED
  BY <1>4 DEF GoTo, TypeOK, Steps
\* Init has the types.
LEMMA InitTypeOK == Init => TypeOK
<1> SUFFICES ASSUME Init PROVE TypeOK
  OBVIOUS
<1>1. N \in Nat \ {0} /\ MaxReconnects \in Nat
  BY StreamsAssumption
<1>2. loop \in [by : Consumers \union {Timer, Nobody}, at : 1..(N + 1), idle : BOOLEAN]
  BY <1>1 DEF Init, Free, HeldBy
<1>3. pos \in [Consumers -> Positions]
  BY <1>1 DEF Init, Positions, Producers
<1>4. rec \in [Producers -> [busy : BOOLEAN, todo : SUBSET Kinds,
                            taken : SUBSET Kinds, carry : SUBSET Consumers]]
  BY DEF Init, NoMove
<1>5. lost \in 0..MaxReconnects
  BY <1>1 DEF Init
<1>6. QED
  BY <1>2, <1>3, <1>4, <1>5 DEF Init, TypeOK, Steps, States

\* cancelLingerStopLocked keeps the types of the timer.
LEMMA CancelType ==
    ASSUME TypeOK, CancelLinger
    PROVE  stopTimer' \in Nat /\ generation' \in Nat /\ fired' \in SUBSET Nat
<1>0. stopTimer \in Nat /\ generation \in Nat /\ fired \in SUBSET Nat
  BY DEF TypeOK
<1>1. CASE stopTimer # 0
  <2>1. stopTimer' = 0 /\ generation' = generation + 1 /\ fired' = fired
    BY <1>1 DEF CancelLinger
  <2>2. QED
    BY <1>0, <2>1
<1>2. CASE stopTimer = 0
  BY <1>2 DEF CancelLinger, TypeOK, timerv
<1>3. QED
  BY <1>1, <1>2

\* Adding a child to a producer's track keeps the table of children typed.
LEMMA ChildType ==
    ASSUME NEW f \in [Producers -> [Kinds -> SUBSET Consumers]],
           NEW p \in Producers, NEW k, NEW c \in Consumers
    PROVE  [f EXCEPT ![p][k] = @ \union {c}] \in [Producers -> [Kinds -> SUBSET Consumers]]
<1>1. CASE k \in Kinds
  <2>1. [f[p] EXCEPT ![k] = f[p][k] \union {c}] \in [Kinds -> SUBSET Consumers]
    BY <1>1
  <2>2. QED
    BY <1>1, <2>1
<1>2. CASE k \notin Kinds
  BY <1>2
<1>3. QED
  BY <1>1, <1>2

\* Every step keeps the types; that s.pending stays a natural number needs
\* the count, that the stop loop stays on existing producers needs LoopOK.
LEMMA NextTypeOK ==
    ASSUME TypeOK, LoopOK, Adders # {} => pending > 0, [Next]_vars
    PROVE  TypeOK'
<1> USE DEF TypeOK, locals, timerv, streamv, prodv, workv
<1>0. N \in Nat \ {0} /\ MaxReconnects \in Nat /\ Offers \in [Producers -> SUBSET Kinds]
      /\ Back \subseteq Kinds
  BY StreamsAssumption
<1>1. ASSUME NEW c \in Consumers, Admit(c) PROVE TypeOK'
  <2>1. stopTimer' \in Nat /\ generation' \in Nat /\ fired' \in SUBSET Nat
    BY <1>1, CancelType DEF Admit
  <2>2. pc' \in [Consumers -> Steps]
    BY <1>1 DEF Admit, Steps
  <2>3. QED
    BY <1>1, <2>1, <2>2 DEF Admit
<1>2. ASSUME NEW c \in Consumers, SkipProducer(c) PROVE TypeOK'
  BY <1>2, GoToType DEF SkipProducer
<1>3. ASSUME NEW c \in Consumers, Dial(c) PROVE TypeOK'
  <2>0. Source(c) \in Producers
    BY DEF Source, Positions
  <2>1. /\ conn' \in [Producers -> BOOLEAN]
        /\ state' \in [Producers -> States]
        /\ errs' \in [Consumers -> SUBSET Producers]
    <3>1. CASE /\ conn' = [conn EXCEPT ![Source(c)] = TRUE]
               /\ state' = [state EXCEPT ![Source(c)] = "Medias"]
               /\ UNCHANGED errs
      BY <3>1, <2>0 DEF States
    <3>2. CASE /\ errs' = [errs EXCEPT ![c] = @ \union {Source(c)}]
               /\ UNCHANGED <<conn, state>>
      BY <3>2, <2>0
    <3>3. QED
      BY <1>3, <3>1, <3>2 DEF Dial
  <2>2. pc' \in [Consumers -> Steps] /\ pos' \in [Consumers -> Positions]
    <3>1. CASE pc' = [pc EXCEPT ![c] = "track"] /\ UNCHANGED pos
      BY <3>1 DEF Steps
    <3>2. CASE Forward(c)
      BY <3>2, GoToType
    <3>3. QED
      BY <1>3, <3>1, <3>2 DEF Dial
  <2>3. QED
    BY <1>3, <2>1, <2>2 DEF Dial
<1>4. ASSUME NEW c \in Consumers, DialWarm(c) PROVE TypeOK'
  BY <1>4 DEF DialWarm, Steps
<1>5. ASSUME NEW c \in Consumers, NoMatch(c) PROVE TypeOK'
  BY <1>5, GoToType DEF NoMatch
<1>6. ASSUME NEW c \in Consumers, GetTrack(c) PROVE TypeOK'
  <2>0. Source(c) \in Producers
    BY DEF Source, Positions
  <2>1. Media(c) \in Kinds
    BY <1>6, <1>0, <2>0 DEF GetTrack, Matches
  <2>2. recv' \in [Producers -> SUBSET Kinds]
    BY <1>6, <2>1 DEF GetTrack
  <2>3. state' \in [Producers -> States]
    BY <1>6 DEF GetTrack, FirstTrack, States
  <2>4. track' \in [Consumers -> {"none", "live", "dead"}] /\ pc' \in [Consumers -> Steps]
    BY <1>6 DEF GetTrack, Steps
  <2>5. QED
    BY <1>6, <2>2, <2>3, <2>4 DEF GetTrack
<1>7. ASSUME NEW c \in Consumers, TrackError(c) PROVE TypeOK'
  BY <1>7, GoToType DEF TrackError, Matches, Source, Positions
<1>8. ASSUME NEW c \in Consumers, AddTrack(c) PROVE TypeOK'
  <2>0. Source(c) \in Producers
    BY DEF Source, Positions
  <2>1. childs' \in [Producers -> [Kinds -> SUBSET Consumers]]
    BY <1>8, <2>0, ChildType DEF AddTrack
  <2>2. starts' \in [Consumers -> SUBSET Producers]
    BY <1>8, <2>0 DEF AddTrack
  <2>3. track' \in [Consumers -> {"none", "live", "dead"}]
    BY <1>8 DEF AddTrack
  <2>4. pc' \in [Consumers -> Steps] /\ pos' \in [Consumers -> Positions]
    BY <1>8, GoToType DEF AddTrack
  <2>5. QED
    BY <1>8, <2>1, <2>2, <2>3, <2>4 DEF AddTrack
<1>9. ASSUME NEW c \in Consumers, ConsumerTrackError(c) PROVE TypeOK'
  BY <1>9, GoToType DEF ConsumerTrackError
<1>10. ASSUME NEW c \in Consumers, AddBackTrack(c) PROVE TypeOK'
  <2>0. Source(c) \in Producers
    BY DEF Source, Positions
  <2>1. childs' \in [Producers -> [Kinds -> SUBSET Consumers]]
    BY <1>10, <2>0, ChildType DEF AddBackTrack
  <2>2. senders' \in [Producers -> [Kinds -> SUBSET Consumers]]
    BY <1>10, <2>0, ChildType DEF AddBackTrack
  <2>3. starts' \in [Consumers -> SUBSET Producers]
    BY <1>10, <2>0 DEF AddBackTrack
  <2>4. state' \in [Producers -> States]
    BY <1>10 DEF AddBackTrack, FirstTrack, States
  <2>5. pc' \in [Consumers -> Steps] /\ pos' \in [Consumers -> Positions]
    BY <1>10, GoToType DEF AddBackTrack
  <2>6. QED
    BY <1>10, <2>1, <2>2, <2>3, <2>4, <2>5 DEF AddBackTrack
<1>11. ASSUME NEW c \in Consumers, Leave(c) PROVE TypeOK'
  <2>1. c \in Adders
    BY <1>11 DEF Leave, Adders, Adding
  <2>2. pending - 1 \in Nat
    BY <2>1
  <2>3. QED
    BY <1>11, <2>2 DEF Leave, After, Steps
<1>12. ASSUME NEW c \in Consumers, Schedule(c) PROVE TypeOK'
  BY <1>12 DEF Schedule, After, Steps
<1>13. ASSUME NEW c \in Consumers, ScheduleNow(c) PROVE TypeOK'
  BY <1>13 DEF ScheduleNow, Steps
<1>14. ASSUME NEW c \in Consumers, StopProducers(c) PROVE TypeOK'
  <2>1. loop' \in [by : Consumers \union {Timer, Nobody}, at : 1..(N + 1), idle : BOOLEAN]
    <3>1. CASE pending > 0
      BY <1>14, <3>1 DEF StopProducers
    <3>2. CASE ~(pending > 0)
      <4>1. HeldBy(c) \in [by : Consumers \union {Timer, Nobody}, at : 1..(N + 1), idle : BOOLEAN]
        BY <1>0 DEF HeldBy
      <4>2. QED
        BY <1>14, <3>2, <4>1 DEF StopProducers
    <3>3. QED
      BY <3>1, <3>2
  <2>2. pc' \in [Consumers -> Steps]
    BY <1>14, ZenonT(60) DEF StopProducers, After, Steps
  <2>3. QED
    BY <1>14, <2>1, <2>2 DEF StopProducers
<1>15. ASSUME NEW c \in Consumers, Join(c) PROVE TypeOK'
  BY <1>15 DEF Join, Steps
<1>16. ASSUME NEW c \in Consumers, NEW p \in Producers, StartProducer(c, p) PROVE TypeOK'
  <2>1. state' \in [Producers -> States] /\ workerID' \in [Producers -> Nat]
    <3>1. CASE state[p] = "Tracks"
      <4>1. workerID[p] + 1 \in Nat
        OBVIOUS
      <4>2. QED
        BY <1>16, <3>1, <4>1 DEF StartProducer, States
    <3>2. CASE state[p] # "Tracks"
      BY <1>16, <3>2 DEF StartProducer
    <3>3. QED
      BY <3>1, <3>2
  <2>2. starts' \in [Consumers -> SUBSET Producers] /\ pc' \in [Consumers -> Steps]
    BY <1>16 DEF StartProducer, Steps
  <2>3. QED
    BY <1>16, <2>1, <2>2 DEF StartProducer
<1>17. ASSUME NEW c \in Consumers, Delete(c) PROVE TypeOK'
  BY <1>17 DEF Delete, Steps
<1>18. ASSUME NEW c \in Consumers, Detach(c) PROVE TypeOK'
  BY <1>18 DEF Detach, Steps
<1>19. ASSUME NEW i \in Players, PlayCancel(i) PROVE TypeOK'
  <2>1. stopTimer' \in Nat /\ generation' \in Nat /\ fired' \in SUBSET Nat
    BY <1>19, CancelType DEF PlayCancel
  <2>2. QED
    BY <1>19, <2>1 DEF PlayCancel
<1>20. ASSUME NEW i \in Players, PlayAppend(i) PROVE TypeOK'
  BY <1>20 DEF PlayAppend
<1>21. ASSUME NEW i \in Players, PlayEnd(i) PROVE TypeOK'
  BY <1>21 DEF PlayEnd
<1>22. ASSUME Expire PROVE TypeOK'
  BY <1>22 DEF Expire
<1>23. ASSUME NEW g \in fired, LingerCallback(g) PROVE TypeOK'
  <2>1. stopTimer' \in Nat /\ fired' \in SUBSET Nat
    BY <1>23 DEF LingerCallback
  <2>2. loop' \in [by : Consumers \union {Timer, Nobody}, at : 1..(N + 1), idle : BOOLEAN]
    <3>1. CASE generation # g \/ pending > 0
      BY <1>23, <3>1 DEF LingerCallback
    <3>2. CASE generation = g /\ ~(pending > 0)
      <4>1. HeldBy(Timer) \in [by : Consumers \union {Timer, Nobody}, at : 1..(N + 1), idle : BOOLEAN]
        BY <1>0 DEF HeldBy
      <4>2. QED
        BY <1>23, <3>2, <4>1 DEF LingerCallback
    <3>3. QED
      BY <3>1, <3>2
  <2>3. QED
    BY <1>23, <2>1, <2>2 DEF LingerCallback
<1>24. ASSUME StopCheck PROVE TypeOK'
  <2>1. loop.at \in 1..(N + 1) /\ loop.at + 1 \in 1..(N + 1)
    BY <1>24, <1>0 DEF StopCheck
  <2>2. loop' \in [by : Consumers \union {Timer, Nobody}, at : 1..(N + 1), idle : BOOLEAN]
    BY <1>24, <2>1 DEF StopCheck
  <2>3. QED
    BY <1>24, <2>2 DEF StopCheck
<1>25. ASSUME StopProducer PROVE TypeOK'
  <2>1. loop.at + 1 \in 1..(N + 1)
    BY <1>25, <1>0 DEF StopProducer, LoopOK, Producers
  <2>2. loop' \in [by : Consumers \union {Timer, Nobody}, at : 1..(N + 1), idle : BOOLEAN]
    BY <1>25, <2>1 DEF StopProducer
  <2>3. /\ state' \in [Producers -> States]
        /\ conn' \in [Producers -> BOOLEAN] /\ recv' \in [Producers -> SUBSET Kinds]
    BY <1>25 DEF StopProducer, States
  <2>7. workerID' \in [Producers -> Nat]
    <3>1. loop.at \in Producers /\ workerID[loop.at] + 1 \in Nat
      BY <1>25 DEF StopProducer, LoopOK
    <3>2. QED
      BY <1>25, <3>1 DEF StopProducer
  <2>4. /\ senders' \in [Producers -> [Kinds -> SUBSET Consumers]]
        /\ childs' \in [Producers -> [Kinds -> SUBSET Consumers]]
    BY <1>25 DEF StopProducer
  <2>5. track' \in [Consumers -> {"none", "live", "dead"}]
    BY <1>25 DEF StopProducer
  <2>6. QED
    BY <1>25, <2>2, <2>3, <2>4, <2>5, <2>7 DEF StopProducer
<1>26. ASSUME StopEnd PROVE TypeOK'
  BY <1>26, <1>0 DEF StopEnd, Free, HeldBy, After, Steps
<1>27. ASSUME NEW p \in Producers, LoseConnection(p) PROVE TypeOK'
  BY <1>27, <1>0 DEF LoseConnection
<1>28. ASSUME NEW p \in Producers, NEW w \in due[p], StaleReconnect(p, w) PROVE TypeOK'
  BY <1>28 DEF StaleReconnect
<1>29. ASSUME NEW p \in Producers, NEW w \in due[p], Reconnect(p, w) PROVE TypeOK'
  BY <1>29, <1>0 DEF Reconnect, Moving
<1>30. ASSUME NEW p \in Producers, NEW k \in Kinds, TakeChilds(p, k) PROVE TypeOK'
  <2>1. childs' \in [Producers -> [Kinds -> SUBSET Consumers]]
    BY <1>30 DEF TakeChilds
  <2>2. rec' \in [Producers -> [busy : BOOLEAN, todo : SUBSET Kinds,
                              taken : SUBSET Kinds, carry : SUBSET Consumers]]
    BY <1>30 DEF TakeChilds, Moving
  <2>3. QED
    BY <1>30, <2>1, <2>2 DEF TakeChilds
<1>31. ASSUME NEW p \in Producers, NEW k \in Kinds, GiveChilds(p, k) PROVE TypeOK'
  <2>1. childs' \in [Producers -> [Kinds -> SUBSET Consumers]]
    BY <1>31 DEF GiveChilds
  <2>2. rec' \in [Producers -> [busy : BOOLEAN, todo : SUBSET Kinds,
                              taken : SUBSET Kinds, carry : SUBSET Consumers]]
    BY <1>31 DEF GiveChilds, Moving
  <2>3. track' \in [Consumers -> {"none", "live", "dead"}]
    BY <1>31 DEF GiveChilds
  <2>4. QED
    BY <1>31, <2>1, <2>2, <2>3 DEF GiveChilds
<1>32. ASSUME NEW p \in Producers, NEW k \in Kinds, MoveSenders(p, k) PROVE TypeOK'
  <2>1. childs' \in [Producers -> [Kinds -> SUBSET Consumers]]
    BY <1>32 DEF MoveSenders
  <2>2. rec' \in [Producers -> [busy : BOOLEAN, todo : SUBSET Kinds,
                              taken : SUBSET Kinds, carry : SUBSET Consumers]]
    BY <1>32 DEF MoveSenders, Moving
  <2>3. QED
    BY <1>32, <2>1, <2>2 DEF MoveSenders
<1>33. ASSUME NEW p \in Producers, SwapConnection(p) PROVE TypeOK'
  BY <1>33 DEF SwapConnection, NoMove
<1>34. ASSUME UNCHANGED vars PROVE TypeOK'
  BY <1>34 DEF vars
<1>35. QED
  BY <1>1, <1>2, <1>3, <1>4, <1>5, <1>6, <1>7, <1>8, <1>9, <1>10, <1>11, <1>12, <1>13, <1>14,
     <1>15, <1>16, <1>17, <1>18, <1>19, <1>20, <1>21, <1>22, <1>23, <1>24, <1>25, <1>26,
     <1>27, <1>28, <1>29, <1>30, <1>31, <1>32, <1>33, <1>34
     DEF Next, Session, StopLoop, Worker, Move, Finished
(***************************************************************************)
(* The pending count and the stop loop                                     *)
(***************************************************************************)
AddSteps == {"dial", "track", "attach", "leave"}

\* A session that moves within AddConsumer's loops, or outside them, does
\* not change who is being added.
LEMMA SameAdders ==
    ASSUME TypeOK, NEW c \in Consumers, NEW s, pc' = [pc EXCEPT ![c] = s],
           pc[c] \in AddSteps <=> s \in AddSteps
    PROVE  Adders' = Adders
<1>1. \A d \in Consumers : Adding(d)' <=> Adding(d)
  BY DEF TypeOK, Adding, AddSteps
<1>2. QED
  BY <1>1 DEF Adders

\* Only the admission and the decrement of s.pending change who is added.
LEMMA AddersStep ==
    ASSUME TypeOK, LoopOK, [Next]_vars
    PROVE  \/ \E c \in Consumers : Admit(c) \/ Leave(c)
           \/ pending' = pending /\ Adders' = Adders
<1> DEFINE Same == pending' = pending /\ Adders' = Adders
<1> USE DEF locals, timerv, streamv, prodv, workv
<1>1. ASSUME NEW c \in Consumers, Forward(c) \/ Matched(c), pc[c] \in AddSteps
      PROVE  Adders' = Adders
  <2>1. PICK s \in {"leave", "dial"} : pc' = [pc EXCEPT ![c] = s]
    BY <1>1, GoToType
  <2>2. QED
    BY <1>1, <2>1, SameAdders DEF AddSteps
<1>2. ASSUME NEW c \in Consumers,
             \/ SkipProducer(c) \/ NoMatch(c) \/ TrackError(c) \/ AddTrack(c)
             \/ ConsumerTrackError(c) \/ AddBackTrack(c)
      PROVE  Same
  <2>1. pc[c] \in AddSteps /\ pending' = pending /\ (Forward(c) \/ Matched(c))
    BY <1>2 DEF SkipProducer, NoMatch, TrackError, AddTrack, ConsumerTrackError, AddBackTrack,
                Matches, AddSteps
  <2>2. QED
    BY <1>1, <2>1
<1>3. ASSUME NEW c \in Consumers, Dial(c) PROVE Same
  <2>1. CASE pc' = [pc EXCEPT ![c] = "track"]
    BY <1>3, <2>1, SameAdders DEF Dial, AddSteps
  <2>2. CASE Forward(c)
    BY <1>3, <2>2, <1>1 DEF Dial, AddSteps
  <2>3. QED
    BY <1>3, <2>1, <2>2 DEF Dial
<1>4. ASSUME NEW c \in Consumers, DialWarm(c) PROVE Same
  BY <1>4, SameAdders DEF DialWarm, AddSteps
<1>5. ASSUME NEW c \in Consumers, GetTrack(c) PROVE Same
  BY <1>5, SameAdders DEF GetTrack, Matches, AddSteps
<1>6. ASSUME NEW c \in Consumers, Schedule(c) PROVE Same
  BY <1>6, SameAdders DEF Schedule, After, AddSteps
<1>7. ASSUME NEW c \in Consumers, ScheduleNow(c) PROVE Same
  BY <1>7, SameAdders DEF ScheduleNow, AddSteps
<1>8. ASSUME NEW c \in Consumers, StopProducers(c) PROVE Same
  <2>1. PICK s \in {"done", "append", "stopping"} : pc' = [pc EXCEPT ![c] = s]
    BY <1>8 DEF StopProducers, After
  <2>2. QED
    BY <1>8, <2>1, SameAdders DEF StopProducers, AddSteps
<1>9. ASSUME NEW c \in Consumers, Join(c) PROVE Same
  BY <1>9, SameAdders DEF Join, AddSteps
<1>10. ASSUME NEW c \in Consumers, NEW p \in Producers, StartProducer(c, p) PROVE Same
  <2>1. PICK s \in {"on", "start"} : pc' = [pc EXCEPT ![c] = s]
    BY <1>10 DEF StartProducer
  <2>2. QED
    BY <1>10, <2>1, SameAdders DEF StartProducer, AddSteps
<1>11. ASSUME NEW c \in Consumers, Delete(c) PROVE Same
  BY <1>11, SameAdders DEF Delete, AddSteps
<1>12. ASSUME NEW c \in Consumers, Detach(c) PROVE Same
  BY <1>12, SameAdders DEF Detach, AddSteps
<1>13. ASSUME StopEnd PROVE Same
  <2>1. CASE loop.by \in Consumers
    <3>1. PICK s \in {"done", "append"} : pc' = [pc EXCEPT ![loop.by] = s]
      BY <1>13, <2>1 DEF StopEnd, After
    <3>2. pc[loop.by] \notin AddSteps
      BY <1>13, <2>1 DEF LoopOK, AddSteps, StopEnd
    <3>3. QED
      BY <1>13, <2>1, <3>1, <3>2, SameAdders DEF StopEnd, AddSteps
  <2>2. CASE loop.by \notin Consumers
    BY <1>13, <2>2 DEF StopEnd, Adders, Adding
  <2>3. QED
    BY <2>1, <2>2
<1>14. ASSUME NEW i \in Players, PlayCancel(i) \/ PlayAppend(i) \/ PlayEnd(i) PROVE Same
  BY <1>14 DEF PlayCancel, PlayAppend, PlayEnd, Adders, Adding
<1>15. ASSUME Expire \/ StopCheck \/ StopProducer \/ (\E g \in fired : LingerCallback(g))
       PROVE  Same
  BY <1>15 DEF Expire, StopCheck, StopProducer, LingerCallback, Adders, Adding
<1>16. ASSUME NEW p \in Producers, Worker(p) PROVE Same
  <2>1. pc' = pc /\ pending' = pending
    BY <1>16 DEF Worker, LoseConnection, StaleReconnect, Reconnect, Move, TakeChilds, GiveChilds,
                 MoveSenders, SwapConnection
  <2>2. QED
    BY <2>1 DEF Adders, Adding
<1>17. ASSUME UNCHANGED vars PROVE Same
  BY <1>17 DEF vars, Adders, Adding
<1>18. QED
  BY <1>2, <1>3, <1>4, <1>5, <1>6, <1>7, <1>8, <1>9, <1>10, <1>11, <1>12, <1>13, <1>14, <1>15,
     <1>16, <1>17 DEF Next, Session, StopLoop, Finished
\* The sessions are finitely many, so the count is a number, and it is zero
\* exactly when nobody is being added.
LEMMA CountAdders ==
    /\ IsFiniteSet(Adders)
    /\ Cardinality(Adders) \in Nat
    /\ Cardinality(Adders) = 0 <=> Adders = {}
<1>1. IsFiniteSet(Adders)
  BY StreamsAssumption, FS_Subset DEF Adders
<1>2. QED
  BY <1>1, FS_CardinalityType, FS_EmptySet

\* s.pending goes up with an admission and down with the matching decrement.
LEMMA NextPendingCounts ==
    ASSUME TypeOK, PendingCounts, LoopOK, [Next]_vars
    PROVE  PendingCounts'
<1>1. ASSUME NEW c \in Consumers, Admit(c) PROVE PendingCounts'
  <2>1. c \notin Adders /\ Adders' = Adders \union {c}
    <3>1. \A d \in Consumers : Adding(d)' <=> Adding(d) \/ d = c
      BY <1>1 DEF Admit, TypeOK, Adding
    <3>2. ~Adding(c)
      BY <1>1 DEF Admit, Adding
    <3>3. QED
      BY <3>1, <3>2 DEF Adders
  <2>2. Cardinality(Adders') = Cardinality(Adders) + 1
    BY <2>1, CountAdders, FS_AddElement
  <2>3. QED
    BY <1>1, <2>2 DEF Admit, PendingCounts
<1>2. ASSUME NEW c \in Consumers, Leave(c) PROVE PendingCounts'
  <2>1. c \in Adders /\ Adders' = Adders \ {c}
    <3>1. PICK s \in {"sched", "stop", "done", "append"} : pc' = [pc EXCEPT ![c] = s]
      BY <1>2 DEF Leave, After
    <3>2. \A d \in Consumers : Adding(d)' <=> Adding(d) /\ d # c
      BY <1>2, <3>1 DEF TypeOK, Adding
    <3>3. Adding(c)
      BY <1>2 DEF Leave, Adding
    <3>4. QED
      BY <3>2, <3>3 DEF Adders
  <2>2. Cardinality(Adders') = Cardinality(Adders) - 1
    BY <2>1, CountAdders, FS_RemoveElement
  <2>3. QED
    BY <1>2, <2>2 DEF Leave, PendingCounts
<1>3. CASE pending' = pending /\ Adders' = Adders
  BY <1>3 DEF PendingCounts
<1>4. QED
  BY <1>1, <1>2, <1>3, AddersStep

\* The stop loop runs on its own: nobody is admitted while it holds s.mu.
LEMMA NextLoopOK ==
    ASSUME TypeOK, PendingCounts, LoopOK, [Next]_vars
    PROVE  LoopOK'
<1> USE DEF locals, timerv, streamv, prodv, workv
<1>0. /\ N \in Nat \ {0} /\ Timer \notin Consumers /\ Nobody \notin Consumers
      /\ Timer # Nobody
      /\ pending \in Nat
  BY StreamsAssumption DEF TypeOK
<1>1. ASSUME ~SmuFree PROVE Adders = {}
  BY <1>1, CountAdders DEF LoopOK, PendingCounts
<1>2. ASSUME loop' = loop, pending' = pending \/ SmuFree,
             \A d \in Consumers : pc[d] = "stopping" => pc'[d] = "stopping"
      PROVE  LoopOK'
  BY <1>2 DEF LoopOK, SmuFree
<1>3. ASSUME NEW c \in Consumers, Admit(c) PROVE LoopOK'
  <2>1. SmuFree /\ loop' = loop
    BY <1>3 DEF Admit
  <2>2. \A d \in Consumers : pc[d] = "stopping" => pc'[d] = "stopping"
    BY <1>3 DEF Admit, TypeOK
  <2>3. QED
    BY <1>2, <2>1, <2>2
<1>4. ASSUME NEW c \in Consumers, Leave(c) PROVE LoopOK'
  <2>1. SmuFree
    BY <1>1, <1>4 DEF Leave, Adders, Adding
  <2>2. \A d \in Consumers : pc[d] = "stopping" => pc'[d] = "stopping"
    BY <1>4 DEF Leave, TypeOK
  <2>3. QED
    BY <1>2, <1>4, <2>1, <2>2 DEF Leave
<1>5. ASSUME NEW c \in Consumers, Session(c) \/ Detach(c), ~Leave(c), ~StopProducers(c)
      PROVE  LoopOK'
  <2>1. loop' = loop /\ pending' = pending /\ pc[c] # "stopping"
    BY <1>5 DEF Session, SkipProducer, Dial, DialWarm, NoMatch, GetTrack, TrackError, AddTrack,
         ConsumerTrackError, AddBackTrack, Matches, Schedule, ScheduleNow, Join, StartProducer,
         Delete, Detach
  <2>2. \E s : pc' = [pc EXCEPT ![c] = s]
    BY <1>5, GoToType DEF Session, SkipProducer, Dial, DialWarm, NoMatch, GetTrack, TrackError,
         AddTrack, ConsumerTrackError, AddBackTrack, Schedule, ScheduleNow, Join, StartProducer,
         Delete, Detach
  <2>3. \A d \in Consumers : pc[d] = "stopping" => pc'[d] = "stopping"
    BY <2>1, <2>2 DEF TypeOK
  <2>4. QED
    BY <1>2, <2>1, <2>3
<1>6. ASSUME NEW c \in Consumers, StopProducers(c) PROVE LoopOK'
  <2>1. CASE pending > 0
    <3>1. \A d \in Consumers : pc[d] = "stopping" => pc'[d] = "stopping"
      BY <1>6, <2>1 DEF StopProducers, TypeOK
    <3>2. QED
      BY <1>2, <1>6, <2>1, <3>1 DEF StopProducers
  <2>2. CASE ~(pending > 0)
    <3>1. loop' = HeldBy(c) /\ pc'[c] = "stopping" /\ pending' = 0
      BY <1>0, <1>6, <2>2 DEF StopProducers, TypeOK
    <3>2. QED
      BY <1>0, <3>1 DEF LoopOK, HeldBy, SmuFree
  <2>3. QED
    BY <2>1, <2>2
<1>7. ASSUME NEW g \in fired, LingerCallback(g) PROVE LoopOK'
  <2>1. CASE loop' = loop
    BY <1>2, <1>7, <2>1 DEF LingerCallback
  <2>2. CASE loop' = HeldBy(Timer) /\ ~(pending > 0)
    BY <1>0, <1>7, <2>2 DEF LingerCallback, LoopOK, HeldBy, SmuFree
  <2>3. QED
    BY <1>7, <2>1, <2>2 DEF LingerCallback
<1>8. ASSUME StopCheck PROVE LoopOK'
  <2>1. loop.at \in Producers
    BY <1>0, <1>8 DEF StopCheck, TypeOK, Producers
  <2>2. \/ loop' = [loop EXCEPT !.at = @ + 1]
        \/ loop' = [loop EXCEPT !.idle = TRUE]
    BY <1>8 DEF StopCheck
  <2>3. loop'.by = loop.by /\ (loop'.idle => loop'.at \in Producers)
    BY <1>8, <2>1, <2>2 DEF StopCheck, TypeOK
  <2>4. QED
    BY <1>8, <2>3 DEF StopCheck, LoopOK, SmuFree
<1>9. ASSUME StopProducer PROVE LoopOK'
  BY <1>9 DEF StopProducer, LoopOK, SmuFree, TypeOK
<1>10. ASSUME StopEnd PROVE LoopOK'
  BY <1>0, <1>10 DEF StopEnd, LoopOK, Free, HeldBy, SmuFree
<1>11. ASSUME \/ Expire
              \/ \E i \in Players : PlayCancel(i) \/ PlayAppend(i) \/ PlayEnd(i)
              \/ \E p \in Producers : Worker(p)
              \/ UNCHANGED vars
       PROVE  LoopOK'
  <2>1. pc' = pc /\ loop' = loop /\ pending' = pending
    BY <1>11 DEF Expire, PlayCancel, PlayAppend, PlayEnd, Worker, LoseConnection, StaleReconnect,
                 Reconnect, Move, TakeChilds, GiveChilds, MoveSenders, SwapConnection, vars
  <2>2. QED
    BY <1>2, <2>1
<1>12. QED
  BY <1>3, <1>4, <1>5, <1>6, <1>7, <1>8, <1>9, <1>10, <1>11 DEF Next, StopLoop, Finished
(***************************************************************************)
(* Workers, stops and reconnects of one producer                           *)
(***************************************************************************)
\* What each step does to a producer's state, connection, worker number, due
\* reconnects and p.mu: the session steps need p.mu, which a reconnect holds.
ProducersOK == WorkersOK /\ StoppedStaysStopped

LEMMA NextProducersOK ==
    ASSUME TypeOK, LoopOK, ProducersOK, [Next]_vars
    PROVE  ProducersOK'
<1> USE DEF locals, timerv, streamv, prodv, workv
<1>0. /\ state \in [Producers -> States] /\ conn \in [Producers -> BOOLEAN]
      /\ workerID \in [Producers -> Nat] /\ due \in [Producers -> SUBSET Nat]
      /\ \A p \in Producers : rec[p].busy \in BOOLEAN
      /\ rec = [p \in Producers |-> rec[p]]
      /\ \A c \in Consumers : Source(c) \in Producers
  BY DEF TypeOK, Source, Positions
<1>1. ASSUME state' = state, conn' = conn, workerID' = workerID, due' = due,
             \A p \in Producers :
                 /\ rec'[p].busy => rec[p].busy
                 /\ rec'[p].busy \/ rec'[p] = NoMove \/ rec'[p] = rec[p]
      PROVE  ProducersOK'
  BY <1>1 DEF ProducersOK, WorkersOK, StoppedStaysStopped
<1>2. ASSUME NEW c \in Consumers, Dial(c) PROVE ProducersOK'
  <2>1. CASE UNCHANGED <<conn, state>>
    BY <1>1, <1>2, <2>1 DEF Dial
  <2>2. CASE /\ conn' = [conn EXCEPT ![Source(c)] = TRUE]
             /\ state' = [state EXCEPT ![Source(c)] = "Medias"]
    BY <1>0, <1>2, <2>2 DEF Dial, PmuFree, ProducersOK, WorkersOK, StoppedStaysStopped, States
  <2>3. QED
    BY <1>2, <2>1, <2>2 DEF Dial
<1>3. ASSUME NEW c \in Consumers, Matches(c), state' \in {state, FirstTrack(Source(c))},
             conn' = conn, UNCHANGED workv
      PROVE  ProducersOK'
  BY <1>0, <1>3 DEF Matches, FirstTrack, PmuFree, ProducersOK, WorkersOK, StoppedStaysStopped, States
<1>4. ASSUME NEW c \in Consumers, GetTrack(c) \/ AddBackTrack(c) PROVE ProducersOK'
  BY <1>3, <1>4 DEF GetTrack, AddBackTrack
<1>5. ASSUME NEW c \in Consumers, NEW p \in Producers, StartProducer(c, p) PROVE ProducersOK'
  <2>1. CASE state[p] = "Tracks"
    <3>1. /\ state' = [state EXCEPT ![p] = "Start"]
          /\ workerID' = [workerID EXCEPT ![p] = workerID[p] + 1]
          /\ conn' = conn /\ due' = due /\ rec' = rec /\ ~rec[p].busy
      BY <1>5, <2>1 DEF StartProducer, PmuFree
    <3>2. workerID[p] + 1 \notin due[p]
      BY <1>0 DEF ProducersOK, WorkersOK
    <3>3. QED
      BY <1>0, <2>1, <3>1, <3>2 DEF ProducersOK, WorkersOK, StoppedStaysStopped
  <2>2. CASE state[p] # "Tracks"
    BY <1>1, <1>5, <2>2 DEF StartProducer
  <2>3. QED
    BY <2>1, <2>2
<1>6. ASSUME NEW c \in Consumers,
             \/ Admit(c) \/ SkipProducer(c) \/ DialWarm(c) \/ NoMatch(c) \/ TrackError(c)
             \/ AddTrack(c) \/ ConsumerTrackError(c) \/ Leave(c) \/ Schedule(c)
             \/ ScheduleNow(c) \/ StopProducers(c) \/ Join(c) \/ Delete(c) \/ Detach(c)
      PROVE  ProducersOK'
  <2>1. state' = state /\ conn' = conn /\ workerID' = workerID /\ due' = due /\ rec' = rec
    BY <1>6 DEF Admit, SkipProducer, DialWarm, NoMatch, TrackError, AddTrack, ConsumerTrackError,
         Leave, Schedule, ScheduleNow, StopProducers, Join, Delete, Detach
  <2>2. QED
    BY <1>1, <2>1
<1>7. ASSUME StopProducer PROVE ProducersOK'
  <2> DEFINE p == loop.at
  <2>1. p \in Producers /\ ~rec[p].busy
    BY <1>7 DEF StopProducer, LoopOK, PmuFree
  <2>2. /\ state' = [state EXCEPT ![p] = "None"] /\ conn' = [conn EXCEPT ![p] = FALSE]
        /\ workerID' = [workerID EXCEPT ![p] = IF state[p] = "Start" THEN workerID[p] + 1
                                              ELSE workerID[p]]
        /\ due' = due /\ rec' = rec
    BY <1>7 DEF StopProducer
  <2>3. workerID'[p] \notin due[p] /\ \A w \in due[p] : w <= workerID'[p]
    <3>1. workerID[p] \in Nat /\ due[p] \in SUBSET Nat
      BY <1>0, <2>1
    <3>2. workerID'[p] = IF state[p] = "Start" THEN workerID[p] + 1 ELSE workerID[p]
      BY <1>0, <2>1, <2>2
    <3>3. QED
      BY <2>1, <3>1, <3>2 DEF ProducersOK, WorkersOK
  <2>4. QED
    BY <1>0, <2>1, <2>2, <2>3 DEF ProducersOK, WorkersOK, StoppedStaysStopped
<1>8. ASSUME NEW p \in Producers, LoseConnection(p) PROVE ProducersOK'
  BY <1>0, <1>8 DEF LoseConnection, ProducersOK, WorkersOK, StoppedStaysStopped
<1>9. ASSUME NEW p \in Producers, NEW w \in due[p], StaleReconnect(p, w) PROVE ProducersOK'
  BY <1>0, <1>9 DEF StaleReconnect, ProducersOK, WorkersOK, StoppedStaysStopped
<1>10. ASSUME NEW p \in Producers, NEW w \in due[p], Reconnect(p, w) PROVE ProducersOK'
  <2>1. /\ state[p] = "Start" /\ state' = state /\ conn' = conn /\ workerID' = workerID
        /\ due' = [due EXCEPT ![p] = @ \ {w}]
        /\ \A q \in Producers : q # p => rec'[q] = rec[q]
        /\ rec'[p].busy
    BY <1>0, <1>10 DEF Reconnect, ProducersOK, WorkersOK, Moving
  <2>2. \A q \in Producers : due'[q] \subseteq due[q]
    BY <1>0, <2>1
  <2>3. WorkersOK'
    <3> SUFFICES ASSUME NEW q \in Producers
                 PROVE  /\ \A v \in due'[q] : v <= workerID'[q]
                        /\ workerID'[q] \in due'[q] => state'[q] = "Start"
                        /\ ~rec'[q].busy => rec'[q] = NoMove
      BY DEF WorkersOK
    <3>1. \A v \in due'[q] : v <= workerID'[q]
      BY <2>1, <2>2 DEF ProducersOK, WorkersOK
    <3>2. workerID'[q] \in due'[q] => state'[q] = "Start"
      BY <2>1, <2>2 DEF ProducersOK, WorkersOK
    <3>3. ~rec'[q].busy => rec'[q] = NoMove
      <4>1. CASE q = p
        BY <2>1, <4>1
      <4>2. CASE q # p
        BY <2>1, <4>2 DEF ProducersOK, WorkersOK
      <4>3. QED
        BY <4>1, <4>2
    <3>4. QED
      BY <3>1, <3>2, <3>3
  <2>4. StoppedStaysStopped'
    BY <2>1 DEF ProducersOK, StoppedStaysStopped
  <2>5. QED
    BY <2>3, <2>4 DEF ProducersOK
<1>11. ASSUME NEW p \in Producers, NEW k \in Kinds,
              TakeChilds(p, k) \/ GiveChilds(p, k) \/ MoveSenders(p, k)
       PROVE  ProducersOK'
  <2>1. rec[p].busy
    BY <1>11 DEF TakeChilds, GiveChilds, MoveSenders, ProducersOK, WorkersOK, NoMove
  <2>2. rec'[p].busy /\ \A q \in Producers : q # p => rec'[q] = rec[q]
    BY <1>0, <1>11 DEF TakeChilds, GiveChilds, MoveSenders, Moving
  <2>3. QED
    BY <1>0, <1>1, <1>11, <2>1, <2>2 DEF TakeChilds, GiveChilds, MoveSenders
<1>12. ASSUME NEW p \in Producers, SwapConnection(p) PROVE ProducersOK'
  BY <1>0, <1>1, <1>12 DEF SwapConnection, NoMove
<1>13. ASSUME \/ Expire \/ StopCheck \/ StopEnd \/ UNCHANGED vars
              \/ \E g \in fired : LingerCallback(g)
              \/ \E i \in Players : PlayCancel(i) \/ PlayAppend(i) \/ PlayEnd(i)
       PROVE  ProducersOK'
  <2>1. state' = state /\ conn' = conn /\ workerID' = workerID /\ due' = due /\ rec' = rec
    BY <1>13 DEF Expire, StopCheck, StopEnd, LingerCallback, PlayCancel, PlayAppend, PlayEnd, vars
  <2>2. QED
    BY <1>1, <2>1
<1>14. QED
  BY <1>2, <1>4, <1>5, <1>6, <1>7, <1>8, <1>9, <1>10, <1>11, <1>12, <1>13
     DEF Next, Session, StopLoop, Worker, Move, Finished
(***************************************************************************)
(* Theorems                                                                *)
(***************************************************************************)
\* The inductive invariant holds in every reachable state.
THEOREM Invariance == Spec => []IInv
<1>1. Init => IInv
  <2> SUFFICES ASSUME Init PROVE IInv
    OBVIOUS
  <2>1. Adders = {}
    BY DEF Init, Adders, Adding
  <2>2. PendingCounts
    BY <2>1, FS_EmptySet DEF Init, PendingCounts
  <2>3. LoopOK
    BY StreamsAssumption DEF Init, LoopOK, Free, HeldBy, SmuFree
  <2>4. WorkersOK /\ StoppedStaysStopped
    BY DEF Init, WorkersOK, StoppedStaysStopped, NoMove
  <2>5. QED
    BY <2>2, <2>3, <2>4, InitTypeOK DEF IInv
<1>2. IInv /\ [Next]_vars => IInv'
  <2> SUFFICES ASSUME IInv, [Next]_vars PROVE IInv'
    OBVIOUS
  <2>1. Adders # {} => pending > 0
    BY CountAdders DEF IInv, PendingCounts
  <2>2. QED
    BY <2>1, NextTypeOK, NextPendingCounts, NextLoopOK, NextProducersOK DEF IInv, ProducersOK
<1>3. QED
  BY <1>1, <1>2, PTL DEF Spec

\* Every variable keeps its type, however many viewers and sources there are.
THEOREM TypeCorrect == Spec => []TypeOK
BY Invariance, PTL DEF IInv

\* A stopped source has no connection, and only a started one is moved to a
\* new connection: a reconnect that is late by one stop gives up.
THEOREM NoRevival == Spec => []StoppedStaysStopped
BY Invariance, PTL DEF IInv

\* The boundary of beginConsumerAdd: from the moment a viewer is admitted
\* until its pending decrement no step of anybody closes a source.
THEOREM AdmissionBoundary == Spec => NoCloseWhileAdding
<1>1. IInv /\ [Next]_vars => [\A p \in Producers : Closes(p) => Adders = {}]_vars
  <2> SUFFICES ASSUME IInv, [Next]_vars, NEW p \in Producers, Closes(p) PROVE Adders = {}
    OBVIOUS
  <2>1. CASE StopProducer
    <3>1. pending = 0
      BY <2>1 DEF StopProducer, IInv, LoopOK
    <3>2. QED
      BY <3>1, CountAdders DEF IInv, PendingCounts
  <2>2. CASE \E c \in Consumers : Dial(c)
    <3>1. PICK c \in Consumers : Dial(c)
      BY <2>2
    <3>2. conn' = conn \/ conn' = [conn EXCEPT ![Source(c)] = TRUE]
      BY <3>1 DEF Dial
    <3>3. conn \in [Producers -> BOOLEAN]
      BY DEF IInv, TypeOK
    <3>4. QED
      BY <3>2, <3>3 DEF Closes
  <2>3. CASE conn' = conn
    BY <2>3 DEF Closes
  <2>4. \/ StopProducer \/ (\E c \in Consumers : Dial(c)) \/ conn' = conn
    BY ZenonT(60) DEF Next, Session, SkipProducer, DialWarm, NoMatch, GetTrack, TrackError, AddTrack,
       ConsumerTrackError, AddBackTrack, Admit, Leave, Schedule, ScheduleNow, StopProducers, Join,
       StartProducer, Delete, Detach, PlayCancel, PlayAppend, PlayEnd, Expire, LingerCallback,
       StopLoop, StopCheck, StopEnd, Worker, LoseConnection, StaleReconnect, Reconnect, Move,
       TakeChilds, GiveChilds, MoveSenders, SwapConnection, Finished, vars, prodv
  <2>5. QED
    BY <2>1, <2>2, <2>3, <2>4
<1>2. QED
  BY <1>1, Invariance, PTL DEF Spec, NoCloseWhileAdding
(***************************************************************************)
(* Streams implements SourceUse while no connection is lost                *)
(***************************************************************************)
\* Nothing is reconnecting, a session attaches only to a connected source,
\* and the source the stop loop is about to close has no children.
QuietInv ==
    /\ lost = 0
    /\ \A p \in Producers : rec[p] = NoMove /\ due[p] = {}
    /\ \A c \in Consumers : pc[c] = "attach" => conn[Source(c)]
    /\ loop.idle => \A k \in Kinds : childs[loop.at][k] = {}

\* Without lost connections no worker step is ever enabled.
LEMMA NoWorker ==
    ASSUME MaxReconnects = 0, IInv, QuietInv, NEW p \in Producers
    PROVE  ~Worker(p)
<1>1. ~LoseConnection(p)
  BY DEF LoseConnection, QuietInv
<1>2. \A k \in Kinds : ~TakeChilds(p, k) /\ ~GiveChilds(p, k) /\ ~MoveSenders(p, k)
  BY DEF TakeChilds, GiveChilds, MoveSenders, QuietInv, NoMove
<1>3. ~SwapConnection(p)
  BY DEF SwapConnection, QuietInv, NoMove
<1>4. QED
  BY <1>1, <1>2, <1>3 DEF Worker, Move, QuietInv
\* While the stop loop examines the sources nobody is being added.
LEMMA IdleMeansNoAdders ==
    ASSUME IInv, loop.idle
    PROVE  Adders = {}
BY CountAdders DEF IInv, LoopOK, PendingCounts

LEMMA NextQuiet ==
    ASSUME MaxReconnects = 0, IInv, QuietInv, [Next]_vars
    PROVE  QuietInv'
<1> USE DEF locals, timerv, streamv, prodv, workv
<1>0. \A p \in Producers : ~Worker(p)
  BY NoWorker
<1> DEFINE Quiet == \A p \in Producers : rec[p] = NoMove /\ due[p] = {}
           AttachOK == \A c \in Consumers : pc[c] = "attach" => conn[Source(c)]
           IdleOK == loop.idle => \A k \in Kinds : childs[loop.at][k] = {}
<1>1. lost' = 0 /\ Quiet'
  <2>1. lost' = lost /\ rec' = rec /\ due' = due
    BY <1>0, ZenonT(60) DEF Next, Session, SkipProducer, Dial, DialWarm, NoMatch, GetTrack, TrackError, AddTrack,
       ConsumerTrackError, AddBackTrack, Admit, Leave, Schedule, ScheduleNow, StopProducers, Join,
       StartProducer, Delete, Detach, PlayCancel, PlayAppend, PlayEnd, Expire, LingerCallback,
       StopLoop, StopCheck, StopProducer, StopEnd, Finished, vars
  <2>2. QED
    BY <2>1 DEF QuietInv
<1>2. AttachOK'
  <2>0. /\ pc \in [Consumers -> Steps] /\ pos \in [Consumers -> Positions]
        /\ conn \in [Producers -> BOOLEAN] /\ AttachOK
    BY DEF IInv, TypeOK, QuietInv
  <2>1. ASSUME NEW c \in Consumers, NEW s, NEW q, s # "attach",
               pc' = [pc EXCEPT ![c] = s], pos' = [pos EXCEPT ![c] = q],
               \A p \in Producers : conn[p] => conn'[p]
        PROVE  AttachOK'
    <3> SUFFICES ASSUME NEW d \in Consumers, pc'[d] = "attach" PROVE conn'[Source(d)']
      OBVIOUS
    <3>1. d # c /\ pc[d] = "attach" /\ pos'[d] = pos[d]
      BY <2>0, <2>1
    <3>2. Source(d) \in Producers /\ Source(d)' = Source(d)
      BY <2>0, <3>1 DEF Source, Positions
    <3>3. QED
      BY <2>0, <2>1, <3>1, <3>2
  <2>2. ASSUME NEW c \in Consumers, Forward(c) \/ Matched(c),
               \A p \in Producers : conn[p] => conn'[p]
        PROVE  AttachOK'
    <3>1. PICK q : GoTo(c, q)
      BY <2>2 DEF Forward, Matched
    <3>2. PICK s \in {"leave", "dial"} : pc' = [pc EXCEPT ![c] = s]
      BY <2>2, GoToType DEF IInv
    <3>3. QED
      BY <2>1, <2>2, <3>1, <3>2 DEF GoTo
  <2>3. ASSUME NEW c \in Consumers, NEW s, s # "attach", pc' = [pc EXCEPT ![c] = s],
               pos' = pos, \A p \in Producers : conn[p] => conn'[p]
        PROVE  AttachOK'
    <3>1. pos' = [pos EXCEPT ![c] = pos[c]]
      BY <2>0, <2>3
    <3>2. QED
      BY <2>1, <2>3, <3>1
  <2>4. ASSUME pc' = pc, pos' = pos, conn' = conn PROVE AttachOK'
    BY <2>0, <2>4 DEF Source
  <2>5. ASSUME NEW c \in Consumers, Dial(c) PROVE AttachOK'
    <3>1. \A p \in Producers : conn[p] => conn'[p]
      BY <2>0, <2>5 DEF Dial
    <3>2. CASE pc' = [pc EXCEPT ![c] = "track"] /\ pos' = pos
      BY <2>3, <3>1, <3>2
    <3>3. CASE Forward(c)
      BY <2>2, <3>1, <3>3
    <3>4. QED
      BY <2>5, <3>2, <3>3 DEF Dial
  <2>6. ASSUME NEW c \in Consumers,
               \/ SkipProducer(c) \/ NoMatch(c) \/ TrackError(c) \/ AddTrack(c)
               \/ ConsumerTrackError(c) \/ AddBackTrack(c)
        PROVE  AttachOK'
    <3>1. conn' = conn /\ (Forward(c) \/ Matched(c))
      BY <2>6 DEF SkipProducer, NoMatch, TrackError, AddTrack, ConsumerTrackError, AddBackTrack
    <3>2. QED
      BY <2>2, <3>1
  <2>7. ASSUME NEW c \in Consumers, GetTrack(c) PROVE AttachOK'
    <3>1. /\ conn[Source(c)] /\ conn' = conn /\ pos' = pos
          /\ pc' = [pc EXCEPT ![c] = "attach"]
      BY <2>7 DEF GetTrack, Matches
    <3>2. QED
      BY <2>0, <3>1 DEF Source
  <2>8. ASSUME NEW c \in Consumers,
               \/ Admit(c) \/ DialWarm(c) \/ Leave(c) \/ Schedule(c) \/ ScheduleNow(c)
               \/ StopProducers(c) \/ Join(c) \/ Delete(c) \/ Detach(c)
               \/ \E p \in Producers : StartProducer(c, p)
        PROVE  AttachOK'
    <3>1. conn' = conn /\ pos' = pos
      BY <2>8 DEF Admit, DialWarm, Leave, Schedule, ScheduleNow, StopProducers, Join, Delete,
                  Detach, StartProducer
    <3>2. After(c) # "attach"
      BY DEF After
    <3>3. \E s \in {"dial", "track", "sched", "stop", "start", "on", "stopping", "detached", After(c)} :
             pc' = [pc EXCEPT ![c] = s]
      <4>1. CASE Leave(c)
        BY <4>1 DEF Leave
      <4>2. CASE \E p \in Producers : StartProducer(c, p)
        BY <4>2 DEF StartProducer
      <4>3. CASE StopProducers(c)
        BY <4>3 DEF StopProducers
      <4>4. CASE Admit(c) \/ DialWarm(c) \/ Schedule(c) \/ ScheduleNow(c)
        BY <4>4 DEF Admit, DialWarm, Schedule, ScheduleNow
      <4>5. CASE Join(c) \/ Delete(c) \/ Detach(c)
        BY <4>5 DEF Join, Delete, Detach
      <4>6. QED
        BY <2>8, <4>1, <4>2, <4>3, <4>4, <4>5
    <3>4. QED
      BY <2>3, <3>1, <3>2, <3>3
  <2>9. ASSUME StopProducer PROVE AttachOK'
    BY <2>9, IdleMeansNoAdders DEF StopProducer, Adders, Adding
  <2>10. ASSUME StopEnd PROVE AttachOK'
    <3>1. CASE loop.by \in Consumers
      <4>1. PICK s : s # "attach" /\ pc' = [pc EXCEPT ![loop.by] = s]
        BY <2>10, <3>1 DEF StopEnd, After
      <4>2. QED
        BY <2>3, <2>10, <3>1, <4>1 DEF StopEnd
    <3>2. CASE loop.by \notin Consumers
      BY <2>4, <2>10, <3>2 DEF StopEnd
    <3>3. QED
      BY <3>1, <3>2
  <2>11. ASSUME \/ Expire \/ StopCheck \/ UNCHANGED vars
                \/ \E g \in fired : LingerCallback(g)
                \/ \E i \in Players : PlayCancel(i) \/ PlayAppend(i) \/ PlayEnd(i)
         PROVE  AttachOK'
    <3>1. pc' = pc /\ pos' = pos /\ conn' = conn
      BY <2>11 DEF Expire, StopCheck, LingerCallback, PlayCancel, PlayAppend, PlayEnd, vars
    <3>2. QED
      BY <2>4, <3>1
  <2>12. QED
    BY <1>0, <2>5, <2>6, <2>7, <2>8, <2>9, <2>10, <2>11
       DEF Next, Session, StopLoop, Finished
<1>3. IdleOK'
  <2>0. IdleOK
    BY DEF QuietInv
  <2>1. ASSUME NEW c \in Consumers, AddTrack(c) \/ AddBackTrack(c) PROVE IdleOK'
    <3>1. ~loop.idle
      BY <2>1, IdleMeansNoAdders DEF AddTrack, AddBackTrack, Matches, Adders, Adding
    <3>2. QED
      BY <2>1, <3>1 DEF AddTrack, AddBackTrack
  <2>2. ASSUME NEW c \in Consumers, Detach(c) PROVE IdleOK'
    <3>1. loop' = loop /\ childs' = [p \in Producers |-> [k \in Kinds |-> childs[p][k] \ {c}]]
      BY <2>2 DEF Detach
    <3>2. loop.idle => loop.at \in Producers
      BY DEF IInv, LoopOK
    <3>3. QED
      BY <2>0, <3>1, <3>2
  <2>3. ASSUME StopCheck PROVE IdleOK'
    <3>1. childs' = childs /\ loop \in [by : Consumers \union {Timer, Nobody}, at : 1..(N + 1), idle : BOOLEAN]
      BY <2>3 DEF StopCheck, IInv, TypeOK
    <3>2. CASE \E k \in Kinds : childs[loop.at][k] # {}
      BY <2>3, <3>1, <3>2 DEF StopCheck
    <3>3. CASE \A k \in Kinds : childs[loop.at][k] = {}
      BY <2>3, <3>1, <3>3 DEF StopCheck
    <3>4. QED
      BY <3>2, <3>3
  <2>4. ASSUME StopProducer PROVE IdleOK'
    BY <2>4 DEF StopProducer, IInv, TypeOK
  <2>5. ASSUME StopEnd PROVE IdleOK'
    BY <2>5 DEF StopEnd, Free, HeldBy
  <2>6. ASSUME \/ \E g \in fired : LingerCallback(g)
               \/ \E c \in Consumers : StopProducers(c)
        PROVE  IdleOK'
    <3>1. childs' = childs /\ (loop' = loop \/ ~loop'.idle)
      BY <2>6 DEF LingerCallback, StopProducers, HeldBy
    <3>2. QED
      BY <2>0, <3>1
  <2>7. ASSUME \/ \E c \in Consumers :
                     \/ Admit(c) \/ SkipProducer(c) \/ Dial(c) \/ DialWarm(c) \/ NoMatch(c)
                     \/ GetTrack(c) \/ TrackError(c) \/ ConsumerTrackError(c) \/ Leave(c)
                     \/ Schedule(c) \/ ScheduleNow(c) \/ Join(c) \/ Delete(c)
                     \/ \E p \in Producers : StartProducer(c, p)
               \/ \E i \in Players : PlayCancel(i) \/ PlayAppend(i) \/ PlayEnd(i)
               \/ Expire \/ UNCHANGED vars
        PROVE  IdleOK'
    <3>1. childs' = childs /\ loop' = loop
      BY <2>7 DEF Admit, SkipProducer, Dial, DialWarm, NoMatch, GetTrack, TrackError,
         ConsumerTrackError, Leave, Schedule, ScheduleNow, Join, Delete, StartProducer, PlayCancel,
         PlayAppend, PlayEnd, Expire, vars
    <3>2. QED
      BY <2>0, <3>1
  <2>8. QED
    BY <1>0, <2>1, <2>2, <2>3, <2>4, <2>5, <2>6, <2>7 DEF Next, Session, StopLoop, Finished
<1>4. QED
  BY <1>1, <1>2, <1>3 DEF QuietInv
\* A step that leaves the arriving sessions, the connections and the children
\* alone is a stutter of SourceUse.
LEMMA Stutter ==
    ASSUME Adders' = Adders, conn' = conn, childs' = childs
    PROVE  UNCHANGED Promise!vars
BY DEF Promise!vars

Using(p) == UNION {childs[p][k] : k \in Kinds}

\* Attaching one session to one source is the abstract Use.
LEMMA AttachIsUse ==
    ASSUME IInv, NEW c \in Adders, NEW p \in Producers, NEW k, conn[p], conn' = conn,
           Adders' = Adders, childs' = [childs EXCEPT ![p][k] = @ \union {c}]
    PROVE  [Promise!Next]_(Promise!vars)
<1>0. childs \in [Producers -> [Kinds -> SUBSET Consumers]] /\ c \in Consumers
  BY DEF IInv, TypeOK, Adders
<1>1. CASE k \in Kinds
  <2>1. \A q \in Producers : Using(q)' = IF q = p THEN Using(p) \union {c} ELSE Using(q)
    <3>1. /\ childs'[p][k] = childs[p][k] \union {c}
          /\ \A j \in Kinds : j # k => childs'[p][j] = childs[p][j]
      BY <1>0, <1>1
    <3>2. \A q \in Producers : q # p => childs'[q] = childs[q]
      BY <1>0
    <3>3. Using(p)' = Using(p) \union {c}
      <4>1. \A x : x \in Using(p)' <=> \E j \in Kinds : x \in childs'[p][j]
        BY DEF Using
      <4>2. \A x : x \in Using(p) <=> \E j \in Kinds : x \in childs[p][j]
        BY DEF Using
      <4>3. \A x : x \in Using(p)' <=> x \in Using(p) \union {c}
        BY <1>1, <3>1, <4>1, <4>2
      <4>4. QED
        BY <4>3
    <3>4. \A q \in Producers : q # p => Using(q)' = Using(q)
      BY <3>2 DEF Using
    <3>5. QED
      BY <3>3, <3>4
  <2>2. [q \in Producers |-> Using(q)'] =
            [[q \in Producers |-> Using(q)] EXCEPT ![p] = @ \union {c}]
    BY <2>1
  <2>3. Promise!Use(c, p)
    BY <2>2 DEF Promise!Use, Using
  <2>4. QED
    BY <1>0, <2>3 DEF Promise!Next
<1>2. CASE k \notin Kinds
  <2>1. childs' = childs
    BY <1>0, <1>2
  <2>2. QED
    BY <2>1, Stutter
<1>3. QED
  BY <1>1, <1>2
\* Every step of Streams is a step of SourceUse, or a stutter.
LEMMA StepKeepsPromise ==
    ASSUME MaxReconnects = 0, IInv, QuietInv, [Next]_vars
    PROVE  [Promise!Next]_(Promise!vars)
<1> USE DEF locals, timerv, streamv, prodv, workv
<1>0. /\ \A p \in Producers : ~Worker(p)
      /\ \A c \in Consumers : Source(c) \in Producers
  BY NoWorker DEF IInv, TypeOK, Source, Positions
<1>1. ASSUME NEW c \in Consumers, Admit(c) PROVE Promise!Next
  <2>1. Adders' = Adders \union {c}
    BY <1>1 DEF Admit, IInv, TypeOK, Adders, Adding
  <2>2. Promise!Arrive(c)
    BY <1>1, <2>1 DEF Admit, Promise!Arrive
  <2>3. QED
    BY <2>2 DEF Promise!Next
<1>2. ASSUME NEW c \in Consumers, Leave(c) PROVE Promise!Next
  <2>1. c \in Adders /\ Adders' = Adders \ {c}
    <3>1. PICK s \in {"sched", "stop", "done", "append"} : pc' = [pc EXCEPT ![c] = s]
      BY <1>2 DEF Leave, After
    <3>2. \A d \in Consumers : Adding(d)' <=> Adding(d) /\ d # c
      BY <1>2, <3>1 DEF IInv, TypeOK, Adding
    <3>3. Adding(c)
      BY <1>2 DEF Leave, Adding
    <3>4. QED
      BY <3>2, <3>3 DEF Adders
  <2>2. Promise!Settle(c)
    BY <1>2, <2>1 DEF Leave, Promise!Settle
  <2>3. QED
    BY <2>2 DEF Promise!Next
<1>3. ASSUME NEW c \in Consumers, Detach(c) PROVE Promise!Next
  <2>1. Adders' = Adders /\ c \notin Adders
    BY <1>3, SameAdders DEF Detach, IInv, Adders, Adding, AddSteps
  <2>2. \A p \in Producers : Using(p)' = Using(p) \ {c}
    <3> SUFFICES ASSUME NEW p \in Producers PROVE Using(p)' = Using(p) \ {c}
      OBVIOUS
    <3>1. \A k \in Kinds : childs'[p][k] = childs[p][k] \ {c}
      BY <1>3 DEF Detach
    <3>2. \A x : x \in Using(p)' <=> \E k \in Kinds : x \in childs'[p][k]
      BY DEF Using
    <3>3. \A x : x \in Using(p) <=> \E k \in Kinds : x \in childs[p][k]
      BY DEF Using
    <3>4. \A x : x \in Using(p)' <=> x \in Using(p) \ {c}
      BY <3>1, <3>2, <3>3
    <3>5. QED
      BY <3>4
  <2>3. Promise!Release(c)
    <3>1. [p \in Producers |-> Using(p)'] = [p \in Producers |-> [q \in Producers |-> Using(q)][p] \ {c}]
      BY <2>2
    <3>2. QED
      BY <1>3, <2>1, <3>1 DEF Detach, Promise!Release, Using
  <2>4. QED
    BY <2>3 DEF Promise!Next
<1>4. ASSUME NEW c \in Consumers, Dial(c) PROVE [Promise!Next]_(Promise!vars)
  <2>0. PICK src \in Producers : src = Source(c)
    BY <1>0
  <2>1. Adders' = Adders /\ Adders # {} /\ childs' = childs
    <3>1. ~(\E d \in Consumers : Admit(d) \/ Leave(d))
      <4>1. \A d \in Consumers : Admit(d) => pending' # pending
        BY DEF Admit, IInv, TypeOK
      <4>2. \A d \in Consumers : Leave(d) => pending' # pending
        BY DEF Leave, IInv, TypeOK
      <4>3. QED
        BY <1>4, <4>1, <4>2 DEF Dial
    <3>2. QED
      BY <1>4, <3>1, AddersStep DEF Dial, IInv, Adders, Adding
  <2>2. CASE conn' = conn
    BY <2>1, <2>2, Stutter
  <2>3. CASE conn' = [conn EXCEPT ![src] = TRUE]
    <3>1. {q \in Producers : conn'[q]} = {q \in Producers : conn[q]} \union {src}
      BY <2>3 DEF IInv, TypeOK
    <3>2. Promise!Open(src)
      BY <2>1, <3>1 DEF Promise!Open
    <3>3. QED
      BY <3>2 DEF Promise!Next
  <2>4. QED
    BY <1>4, <2>0, <2>2, <2>3 DEF Dial
<1>5. ASSUME NEW c \in Consumers, AddTrack(c) PROVE [Promise!Next]_(Promise!vars)
  <2>1. c \in Adders /\ conn[Source(c)] /\ conn' = conn
    BY <1>5 DEF AddTrack, QuietInv, Adders, Adding
  <2>2. Adders' = Adders
    <3>1. \A d \in Consumers : ~Admit(d) /\ ~Leave(d)
      BY <1>5 DEF AddTrack, Admit, Leave, IInv, TypeOK
    <3>2. QED
      BY <3>1, AddersStep DEF IInv
  <2>3. CASE childs' = childs
    BY <2>1, <2>2, <2>3, Stutter
  <2>4. CASE childs' = [childs EXCEPT ![Source(c)][Media(c)] = @ \union {c}]
    BY <1>0, <2>1, <2>2, <2>4, AttachIsUse DEF Adders
  <2>5. QED
    BY <1>5, <2>3, <2>4 DEF AddTrack
<1>6. ASSUME NEW c \in Consumers, AddBackTrack(c) PROVE [Promise!Next]_(Promise!vars)
  <2>1. /\ c \in Adders /\ conn[Source(c)] /\ conn' = conn
        /\ childs' = [childs EXCEPT ![Source(c)][Media(c)] = @ \union {c}]
    BY <1>6 DEF AddBackTrack, Matches, Adders, Adding
  <2>2. Adders' = Adders
    <3>1. \A d \in Consumers : ~Admit(d) /\ ~Leave(d)
      BY <1>6 DEF AddBackTrack, Admit, Leave, IInv, TypeOK
    <3>2. QED
      BY <3>1, AddersStep DEF IInv
  <2>3. QED
    BY <1>0, <2>1, <2>2, AttachIsUse DEF Adders
<1>7. ASSUME StopProducer PROVE [Promise!Next]_(Promise!vars)
  <2>0. PICK p \in Producers : p = loop.at
    BY <1>7 DEF StopProducer, IInv, LoopOK
  <2>1. /\ p \in Producers /\ Adders = {} /\ Adders' = Adders
        /\ \A k \in Kinds : childs[p][k] = {}
    BY <1>7, <2>0, IdleMeansNoAdders DEF StopProducer, IInv, LoopOK, QuietInv, Adders, Adding
  <2>2. childs' = childs
    BY <1>7, <2>0, <2>1 DEF StopProducer, IInv, TypeOK
  <2>3. CASE ~conn[p]
    <3>1. conn' = conn
      BY <1>7, <2>0, <2>1, <2>3 DEF StopProducer, IInv, TypeOK
    <3>2. QED
      BY <2>1, <2>2, <3>1, Stutter
  <2>4. CASE conn[p]
    <3>1. {q \in Producers : conn'[q]} = {q \in Producers : conn[q]} \ {p}
      BY <1>7, <2>0, <2>1 DEF StopProducer, IInv, TypeOK
    <3>2. Using(p) = {}
      BY <2>1 DEF Using
    <3>3. Promise!Close(p)
      BY <2>1, <2>2, <2>4, <3>1, <3>2 DEF Promise!Close, Using
    <3>4. QED
      BY <2>1, <3>3 DEF Promise!Next
  <2>5. QED
    BY <2>3, <2>4
<1>8. ASSUME \/ \E c \in Consumers :
                   \/ SkipProducer(c) \/ DialWarm(c) \/ NoMatch(c) \/ GetTrack(c) \/ TrackError(c)
                   \/ ConsumerTrackError(c) \/ Schedule(c) \/ ScheduleNow(c) \/ StopProducers(c)
                   \/ Join(c) \/ Delete(c) \/ \E p \in Producers : StartProducer(c, p)
             \/ \E i \in Players : PlayCancel(i) \/ PlayAppend(i) \/ PlayEnd(i)
             \/ \E g \in fired : LingerCallback(g)
             \/ Expire \/ StopCheck \/ StopEnd \/ UNCHANGED vars
      PROVE  UNCHANGED Promise!vars
  <2>1. conn' = conn /\ childs' = childs /\ pending' = pending
    BY <1>8 DEF SkipProducer, DialWarm, NoMatch, GetTrack, TrackError, ConsumerTrackError, Schedule,
       ScheduleNow, StopProducers, Join, Delete, StartProducer, PlayCancel, PlayAppend, PlayEnd,
       LingerCallback, Expire, StopCheck, StopEnd, vars
  <2>2. \A d \in Consumers : ~Admit(d) /\ ~Leave(d)
    BY <2>1 DEF Admit, Leave, IInv, TypeOK
  <2>3. QED
    BY <2>1, <2>2, AddersStep, Stutter DEF IInv
<1>9. QED
  BY <1>0, <1>1, <1>2, <1>3, <1>4, <1>5, <1>6, <1>7, <1>8 DEF Next, Session, StopLoop, Finished

\* While no connection is lost the stream implements SourceUse: mutexes,
\* generations, the pending count and the split stop loop together mean that
\* a source is closed only while nobody arrives and nobody uses it.
THEOREM ImplementsSourceUse ==
    ASSUME MaxReconnects = 0
    PROVE  Spec => KeepsPromise
<1>1. Init => QuietInv /\ Promise!Init
  <2> SUFFICES ASSUME Init PROVE QuietInv /\ Promise!Init
    OBVIOUS
  <2>1. QuietInv
    BY DEF Init, QuietInv, Free, HeldBy
  <2>2. Adders = {} /\ {p \in Producers : conn[p]} = {}
    BY DEF Init, Adders, Adding
  <2>3. \A p \in Producers : Using(p) = {}
    BY DEF Init, Using
  <2>4. QED
    BY <2>1, <2>2, <2>3 DEF Promise!Init, Using
<1>2. IInv /\ QuietInv /\ [Next]_vars => QuietInv' /\ [Promise!Next]_(Promise!vars)
  BY NextQuiet, StepKeepsPromise
<1>3. QED
  BY <1>1, <1>2, Invariance, PTL DEF Spec, KeepsPromise, Promise!Spec

(***************************************************************************)
(* The linger timer                                                        *)
(***************************************************************************)
\* An armed timer has the number of the current generation, and a callback
\* that still waits with that number is the one of the armed timer: whoever
\* cancels or rearms takes the next number first.
TimerOK ==
    /\ stopTimer # 0 => stopTimer = generation
    /\ \A g \in fired : g <= generation /\ (g = generation => stopTimer = g)

LEMMA NextTimerOK ==
    ASSUME TypeOK, TimerOK, [Next]_vars
    PROVE  TimerOK'
<1> USE DEF locals, timerv, streamv, prodv, workv
<1>0. stopTimer \in Nat /\ generation \in Nat /\ fired \in SUBSET Nat
  BY DEF TypeOK
<1>1. ASSUME CancelLinger PROVE TimerOK'
  <2>1. CASE stopTimer # 0
    <3>1. stopTimer' = 0 /\ generation' = generation + 1 /\ fired' = fired
      BY <1>1, <2>1 DEF CancelLinger
    <3>2. QED
      BY <1>0, <3>1 DEF TimerOK
  <2>2. CASE stopTimer = 0
    BY <1>1, <2>2 DEF CancelLinger, TimerOK
  <2>3. QED
    BY <2>1, <2>2
<1>2. ASSUME Expire PROVE TimerOK'
  BY <1>0, <1>2 DEF Expire, TimerOK
<1>3. ASSUME NEW g \in fired, LingerCallback(g) PROVE TimerOK'
  BY <1>0, <1>3 DEF LingerCallback, TimerOK
<1>4. ASSUME NEW c \in Consumers, Schedule(c) PROVE TimerOK'
  <2>1. stopTimer' = generation + 1 /\ generation' = generation + 1 /\ fired' = fired
    BY <1>4 DEF Schedule
  <2>2. QED
    BY <1>0, <2>1 DEF TimerOK
<1>5. ASSUME UNCHANGED timerv PROVE TimerOK'
  BY <1>5 DEF TimerOK
<1>6. QED
  BY <1>1, <1>2, <1>3, <1>4, <1>5, ZenonT(60) DEF Next, Session, SkipProducer, Dial, DialWarm,
     NoMatch, GetTrack, TrackError, AddTrack, ConsumerTrackError, AddBackTrack, Admit, Leave,
     ScheduleNow, StopProducers, Join, StartProducer, Delete, Detach, PlayCancel, PlayAppend,
     PlayEnd, StopLoop, StopCheck, StopProducer, StopEnd, Worker, LoseConnection, StaleReconnect,
     Reconnect, Move, TakeChilds, GiveChilds, MoveSenders, SwapConnection, Finished, vars

\* The stop loop is entered from the timer only when the window the stream
\* waits for now has itself run out (stream.go:118): whatever viewers and
\* playbacks did while an older callback waited for s.mu, it gives up.
THEOREM WindowsAreKept == Spec => ExpiryIsCurrent
<1>1. Init => TimerOK
  BY DEF Init, TimerOK
<1>2. IInv /\ TimerOK /\ [Next]_vars => TimerOK'
  BY NextTimerOK DEF IInv
<1>3. IInv /\ TimerOK /\ [Next]_vars => [SmuFree /\ loop'.by = Timer => stopTimer \in fired]_vars
  <2> SUFFICES ASSUME IInv, TimerOK, [Next]_vars, SmuFree, loop'.by = Timer
               PROVE  stopTimer \in fired
    OBVIOUS
  <2> USE DEF locals, timerv, streamv, prodv, workv
  <2>0. Timer \notin Consumers /\ Timer # Nobody
    BY StreamsAssumption
  <2>1. loop' # loop
    BY <2>0 DEF SmuFree
  <2>2. ~StopLoop
    BY DEF StopLoop, StopCheck, StopProducer, StopEnd, IInv, LoopOK
  <2>3. \A c \in Consumers : ~StopProducers(c)
    <3>1. \A c \in Consumers : StopProducers(c) => loop' = loop \/ loop'.by = c
      BY DEF StopProducers, HeldBy
    <3>2. QED
      BY <2>0, <2>1, <3>1
  <2>4. PICK g \in fired : LingerCallback(g)
    BY <2>1, <2>2, <2>3, ZenonT(60) DEF Next, Session, SkipProducer, Dial, DialWarm,
     NoMatch, GetTrack, TrackError, AddTrack, ConsumerTrackError, AddBackTrack, Admit, Leave,
     Schedule, ScheduleNow, Join, StartProducer, Delete, Detach, PlayCancel, PlayAppend,
     PlayEnd, Expire, Worker, LoseConnection, StaleReconnect,
     Reconnect, Move, TakeChilds, GiveChilds, MoveSenders, SwapConnection, Finished, vars
  <2>5. generation = g
    BY <2>1, <2>4 DEF LingerCallback
  <2>6. QED
    BY <2>4, <2>5 DEF TimerOK
<1>4. QED
  BY <1>1, <1>2, <1>3, Invariance, PTL DEF Spec, ExpiryIsCurrent

(***************************************************************************)
(* Viewers and their sources while no connection is lost                   *)
(***************************************************************************)
\* Consumer c is a child of a track of p.
Child(c, p) == \E k \in Kinds : c \in childs[p][k]

\* The receiver a session holds on the way to cons.AddTrack is still one of
\* its producer.
AttachLive ==
    \A c \in Consumers : IF pc[c] = "attach"
                         THEN track[c] = "live" /\ Media(c) \in recv[Source(c)]
                         ELSE track[c] = "none"

\* A producer with a track or a child has left its first two states.
TracksOK ==
    \A p \in Producers : recv[p] # {} \/ (\E c \in Consumers : Child(c, p))
                            => state[p] \in {"Tracks", "Start"}

\* The producers a session has yet to start have it as a child, and there
\* are some exactly while it still has to start them.
StartsOK ==
    \A c \in Consumers :
        /\ \A p \in starts[c] : Child(c, p)
        /\ pc[c] \in {"new", "sched", "on", "detached", "done"} => starts[c] = {}
        /\ pc[c] \in {"append", "start"} => starts[c] # {}

\* A child is a session that was attached and has not left: nothing is a
\* child on the failing way out of AddConsumer or after RemoveConsumer.
ChildrenOK ==
    \A c \in Consumers, p \in Producers : Child(c, p) =>
        \/ pc[c] \in {"start", "on"}
        \/ pc[c] \in AddSteps \union {"stop", "stopping", "append"} /\ starts[c] # {}

ViewersInv == AttachLive /\ TracksOK /\ StartsOK /\ ChildrenOK

\* What the steps of Streams do to sessions and producers, in nine kinds.
Quietly == UNCHANGED <<starts, conn, state, recv, childs>>

Stays == UNCHANGED <<pc, pos, track>> /\ Quietly

Route(c, s) ==
    \/ pc[c] = "new" /\ s = "dial"
    \/ pc[c] = "dial" /\ s = "track"
    \/ pc[c] = "leave" /\ (s \in {After(c), "stop"} \/ (s = "sched" /\ starts[c] = {}))
    \/ pc[c] = "sched" /\ s \in {After(c), "stop"}
    \/ pc[c] = "stop" /\ s \in {After(c), "stopping"}
    \/ pc[c] = "stopping" /\ s = After(c)
    \/ pc[c] = "append" /\ s = "start"
    \/ pc[c] = "detached" /\ s = "sched"

Moves(c) ==
    /\ \E s : Route(c, s) /\ pc' = [pc EXCEPT ![c] = s]
    /\ UNCHANGED <<pos, track>> /\ Quietly

\* The session goes on with another producer or media.
GoesOn(c) ==
    /\ pc[c] \in {"dial", "track", "attach"}
    /\ \E s \in {"leave", "dial"} : pc' = [pc EXCEPT ![c] = s]
    /\ \E q : pos' = [pos EXCEPT ![c] = q]
    /\ track' \in {track, [track EXCEPT ![c] = "none"]}
    /\ pc[c] = "attach" => track' = [track EXCEPT ![c] = "none"]

Passes(c) == GoesOn(c) /\ Quietly

Opens(c) ==
    /\ pc[c] = "dial" /\ pc' = [pc EXCEPT ![c] = "track"] /\ state[Source(c)] = "None"
    /\ conn' = [conn EXCEPT ![Source(c)] = TRUE]
    /\ state' = [state EXCEPT ![Source(c)] = "Medias"]
    /\ UNCHANGED <<pos, starts, track, recv, childs>>

Attaches(c, p, k) ==
    /\ GoesOn(c)
    /\ childs' = [childs EXCEPT ![p][k] = @ \union {c}]
    /\ starts' = [starts EXCEPT ![c] = @ \union {p}]
    /\ state' \in {state, FirstTrack(p)} /\ state'[p] \in {"Tracks", "Start"}
    /\ UNCHANGED <<conn, recv>>

\* The loops of AddConsumer go on for one session at a time.
LEMMA ForwardGoesOn ==
    ASSUME TypeOK, NEW c \in Consumers, Forward(c) \/ Matched(c),
           pc[c] \in {"dial", "track", "attach"},
           track' \in {track, [track EXCEPT ![c] = "none"]},
           pc[c] = "attach" => track' = [track EXCEPT ![c] = "none"]
    PROVE  GoesOn(c)
<1>1. PICK q : GoTo(c, q)
  BY DEF Forward, Matched
<1>2. PICK s \in {"leave", "dial"} : pc' = [pc EXCEPT ![c] = s]
  BY GoToType
<1>3. QED
  BY <1>1, <1>2 DEF GoTo, GoesOn

LEMMA StepKinds ==
    ASSUME MaxReconnects = 0, IInv, QuietInv, AttachLive, TracksOK, [Next]_vars
    PROVE  \/ Stays
           \/ \E c \in Consumers :
                 \/ Moves(c)
                 \/ Passes(c)
                 \/ Opens(c)
                 \/ GetTrack(c)
                 \/ \E p \in Producers, k \in Kinds : Attaches(c, p, k)
                 \/ \E p \in Producers : StartProducer(c, p)
                 \/ Detach(c)
           \/ StopProducer
<1> USE DEF locals, timerv, streamv, prodv, workv
<1>0. /\ \A p \in Producers : ~Worker(p)
      /\ TypeOK /\ LoopOK /\ \A c \in Consumers : Source(c) \in Producers
      /\ state \in [Producers -> States] /\ recv \in [Producers -> SUBSET Kinds]
      /\ \A p \in Producers : conn[p] => state[p] # "None"
  BY NoWorker DEF IInv, TypeOK, Source, Positions, StoppedStaysStopped
<1>1. ASSUME NEW c \in Consumers,
             \/ Admit(c) \/ DialWarm(c) \/ Leave(c) \/ Schedule(c) \/ ScheduleNow(c)
             \/ StopProducers(c) \/ Join(c) \/ Delete(c)
      PROVE  Moves(c)
  <2>1. UNCHANGED <<pos, track>> /\ Quietly
    BY <1>1 DEF Admit, DialWarm, Leave, Schedule, ScheduleNow, StopProducers, Join, Delete, Quietly
  <2>2. CASE Leave(c)
    <3>1. PICK s : pc' = [pc EXCEPT ![c] = s] /\ Route(c, s)
      BY <2>2 DEF Leave, Route
    <3>2. QED
      BY <2>1, <3>1 DEF Moves
  <2>3. CASE StopProducers(c)
    <3>1. PICK s : pc' = [pc EXCEPT ![c] = s] /\ Route(c, s)
      BY <2>3 DEF StopProducers, Route
    <3>2. QED
      BY <2>1, <3>1 DEF Moves
  <2>4. CASE Admit(c) \/ DialWarm(c) \/ Schedule(c) \/ ScheduleNow(c) \/ Join(c) \/ Delete(c)
    <3>1. PICK s : pc' = [pc EXCEPT ![c] = s] /\ Route(c, s)
      BY <2>4 DEF Admit, DialWarm, Schedule, ScheduleNow, Join, Delete, Route
    <3>2. QED
      BY <2>1, <3>1 DEF Moves
  <2>5. QED
    BY <1>1, <2>2, <2>3, <2>4
<1>2. ASSUME NEW c \in Consumers,
             SkipProducer(c) \/ NoMatch(c) \/ TrackError(c) \/ ConsumerTrackError(c)
      PROVE  Passes(c)
  <2>1. /\ Forward(c) /\ Quietly /\ pc[c] \in {"dial", "track", "attach"}
        /\ track' \in {track, [track EXCEPT ![c] = "none"]}
        /\ pc[c] = "attach" => track' = [track EXCEPT ![c] = "none"]
    BY <1>2 DEF SkipProducer, NoMatch, TrackError, ConsumerTrackError, Matches, Quietly
  <2>2. QED
    BY <1>0, <2>1, ForwardGoesOn DEF Passes
<1>3. ASSUME NEW c \in Consumers, Dial(c)
      PROVE  Opens(c) \/ Passes(c)
  <2>1. CASE Forward(c) /\ UNCHANGED <<conn, state>>
    <3>1. Quietly /\ pc[c] = "dial" /\ track' = track
      BY <1>3, <2>1 DEF Dial, Quietly
    <3>2. QED
      BY <1>0, <2>1, <3>1, ForwardGoesOn DEF Passes
  <2>2. CASE /\ conn' = [conn EXCEPT ![Source(c)] = TRUE]
             /\ state' = [state EXCEPT ![Source(c)] = "Medias"]
             /\ pc' = [pc EXCEPT ![c] = "track"]
             /\ UNCHANGED <<pos, errs>>
    BY <1>3, <2>2 DEF Dial, Opens
  <2>3. QED
    BY <1>3, <2>1, <2>2 DEF Dial
<1>4. ASSUME NEW c \in Consumers, AddTrack(c)
      PROVE  \E p \in Producers, k \in Kinds : Attaches(c, p, k)
  <2>1. /\ track[c] = "live" /\ Media(c) \in recv[Source(c)] /\ Source(c) \in Producers
        /\ pc[c] = "attach"
    BY <1>0, <1>4 DEF AddTrack, AttachLive
  <2>2. Media(c) \in Kinds /\ state[Source(c)] \in {"Tracks", "Start"}
    BY <1>0, <2>1 DEF TracksOK
  <2>3. track' = [track EXCEPT ![c] = "none"] /\ Matched(c)
    BY <1>4 DEF AddTrack
  <2>4. GoesOn(c)
    BY <1>0, <2>1, <2>3, ForwardGoesOn
  <2>5. Attaches(c, Source(c), Media(c))
    BY <1>4, <2>1, <2>2, <2>4 DEF AddTrack, Attaches
  <2>6. QED
    BY <2>1, <2>2, <2>5
<1>5. ASSUME NEW c \in Consumers, AddBackTrack(c)
      PROVE  \E p \in Producers, k \in Kinds : Attaches(c, p, k)
  <2>1. /\ Source(c) \in Producers /\ conn[Source(c)] /\ Media(c) \in Back /\ pc[c] = "track"
        /\ Matched(c) /\ track' = track
    BY <1>0, <1>5 DEF AddBackTrack, Matches
  <2>2. Media(c) \in Kinds
    BY <2>1, StreamsAssumption
  <2>3. FirstTrack(Source(c))[Source(c)] \in {"Tracks", "Start"}
    BY <1>0, <2>1 DEF FirstTrack, States
  <2>4. GoesOn(c)
    BY <1>0, <2>1, ForwardGoesOn
  <2>5. Attaches(c, Source(c), Media(c))
    BY <1>5, <2>3, <2>4 DEF AddBackTrack, Attaches
  <2>6. QED
    BY <2>1, <2>2, <2>5
<1>6. ASSUME StopEnd PROVE Stays \/ \E c \in Consumers : Moves(c)
  <2>1. UNCHANGED <<pos, track>> /\ Quietly
    BY <1>6 DEF StopEnd, Quietly
  <2>2. CASE loop.by \in Consumers
    <3>1. pc[loop.by] = "stopping" /\ pc' = [pc EXCEPT ![loop.by] = After(loop.by)]
      BY <1>0, <1>6, <2>2 DEF StopEnd, LoopOK
    <3>2. Moves(loop.by)
      BY <2>1, <3>1 DEF Moves, Route
    <3>3. QED
      BY <2>2, <3>2
  <2>3. CASE loop.by \notin Consumers
    BY <1>6, <2>1, <2>3 DEF StopEnd, Stays
  <2>4. QED
    BY <2>2, <2>3
<1>7. ASSUME \/ Expire \/ StopCheck \/ UNCHANGED vars
             \/ \E g \in fired : LingerCallback(g)
             \/ \E i \in Players : PlayCancel(i) \/ PlayAppend(i) \/ PlayEnd(i)
      PROVE  Stays
  BY <1>7 DEF Expire, StopCheck, LingerCallback, PlayCancel, PlayAppend, PlayEnd, vars, Stays, Quietly
<1>8. QED
  BY <1>0, <1>1, <1>2, <1>3, <1>4, <1>5, <1>6, <1>7 DEF Next, Session, StopLoop, Finished

\* The types the next lemmas need.
LEMMA ViewTypes ==
    ASSUME IInv
    PROVE  /\ pc \in [Consumers -> Steps] /\ pos \in [Consumers -> Positions]
           /\ starts \in [Consumers -> SUBSET Producers]
           /\ track \in [Consumers -> {"none", "live", "dead"}]
           /\ state \in [Producers -> States] /\ conn \in [Producers -> BOOLEAN]
           /\ recv \in [Producers -> SUBSET Kinds]
           /\ childs \in [Producers -> [Kinds -> SUBSET Consumers]]
           /\ \A c \in Consumers : Source(c) \in Producers
           /\ loop.idle => loop.at \in Producers
           /\ \A p \in Producers : conn[p] <=> state[p] # "None"
BY DEF IInv, TypeOK, LoopOK, StoppedStaysStopped, Source, Positions

\* Where the children of a producer go in each step that touches them.
LEMMA ChildStep ==
    ASSUME IInv, NEW d \in Consumers, NEW q \in Producers
    PROVE  /\ \A c \in Consumers, p \in Producers, k \in Kinds :
                 Attaches(c, p, k) => (Child(d, q)' <=> Child(d, q) \/ (d = c /\ q = p))
           /\ \A c \in Consumers : Detach(c) => (Child(d, q)' <=> Child(d, q) /\ d # c)
           /\ childs' = childs => (Child(d, q)' <=> Child(d, q))
<1>0. childs \in [Producers -> [Kinds -> SUBSET Consumers]]
  BY ViewTypes
<1>1. ASSUME NEW c \in Consumers, NEW p \in Producers, NEW k \in Kinds, Attaches(c, p, k)
      PROVE  Child(d, q)' <=> Child(d, q) \/ (d = c /\ q = p)
  <2>1. \A j \in Kinds : childs'[q][j] = IF q = p /\ j = k THEN childs[q][j] \union {c}
                                         ELSE childs[q][j]
    BY <1>0, <1>1 DEF Attaches
  <2>2. QED
    BY <2>1 DEF Child
<1>2. ASSUME NEW c \in Consumers, Detach(c)
      PROVE  Child(d, q)' <=> Child(d, q) /\ d # c
  <2>1. \A j \in Kinds : childs'[q][j] = childs[q][j] \ {c}
    BY <1>2 DEF Detach
  <2>2. QED
    BY <2>1 DEF Child
<1>3. childs' = childs => (Child(d, q)' <=> Child(d, q))
  BY DEF Child
<1>4. QED
  BY <1>1, <1>2, <1>3

\* A stop closes a producer without children and leaves the others alone.
LEMMA StopEffect ==
    ASSUME IInv, QuietInv, StopProducer
    PROVE  /\ loop.at \in Producers /\ Adders = {}
           /\ \A c \in Consumers : ~Child(c, loop.at)
           /\ childs' = childs /\ pc' = pc /\ pos' = pos /\ starts' = starts
           /\ \A p \in Producers : p # loop.at => /\ state'[p] = state[p] /\ conn'[p] = conn[p]
                                                 /\ recv'[p] = recv[p]
           /\ recv'[loop.at] = {} /\ ~conn'[loop.at]
           /\ \A c \in Consumers : track[c] = "none" => track'[c] = "none"
<1>0. loop.idle /\ loop.at \in Producers /\ Adders = {}
  BY ViewTypes, IdleMeansNoAdders DEF StopProducer
<1>1. \A k \in Kinds : childs[loop.at][k] = {}
  BY <1>0 DEF QuietInv
<1>2. childs' = childs
  <2>1. childs[loop.at] = [k \in Kinds |-> {}]
    BY <1>0, <1>1, ViewTypes
  <2>2. childs' = [childs EXCEPT ![loop.at] = [k \in Kinds |-> {}]]
    BY DEF StopProducer
  <2>3. QED
    BY <1>0, <2>1, <2>2, ViewTypes
<1>3. /\ pc' = pc /\ pos' = pos /\ starts' = starts
      /\ \A p \in Producers : p # loop.at => /\ state'[p] = state[p] /\ conn'[p] = conn[p]
                                            /\ recv'[p] = recv[p]
      /\ recv'[loop.at] = {} /\ ~conn'[loop.at]
  BY <1>0, ViewTypes DEF StopProducer
<1>4. \A c \in Consumers : track[c] = "none" => track'[c] = "none"
  BY DEF StopProducer
<1>5. QED
  BY <1>0, <1>1, <1>2, <1>3, <1>4 DEF Child

LEMMA NextAttachLive ==
    ASSUME MaxReconnects = 0, IInv, QuietInv, ViewersInv, [Next]_vars
    PROVE  AttachLive'
<1>0. AttachLive /\ TracksOK
  BY DEF ViewersInv
<1> SUFFICES ASSUME NEW d \in Consumers
             PROVE  IF pc'[d] = "attach"
                    THEN track'[d] = "live" /\ Media(d)' \in recv'[Source(d)']
                    ELSE track'[d] = "none"
  BY DEF AttachLive
<1>1. ASSUME pc'[d] = pc[d], pos'[d] = pos[d], track'[d] = track[d], Source(d) \in Producers,
             recv[Source(d)] \subseteq recv'[Source(d)] \/ pc[d] # "attach"
      PROVE  IF pc'[d] = "attach"
             THEN track'[d] = "live" /\ Media(d)' \in recv'[Source(d)']
             ELSE track'[d] = "none"
  BY <1>0, <1>1 DEF AttachLive, Media, Source
<1>2. ASSUME NEW c \in Consumers, GoesOn(c), recv' = recv
      PROVE  IF pc'[d] = "attach"
             THEN track'[d] = "live" /\ Media(d)' \in recv'[Source(d)']
             ELSE track'[d] = "none"
  <2>1. CASE d = c
    BY <1>0, <1>2, <2>1, ViewTypes DEF GoesOn, AttachLive
  <2>2. CASE d # c
    BY <1>1, <1>2, <2>2, ViewTypes DEF GoesOn
  <2>3. QED
    BY <2>1, <2>2
<1>3. ASSUME NEW c \in Consumers, NEW s, s # "attach", pc[c] # "attach",
             pc' = [pc EXCEPT ![c] = s], pos' = pos, track' = track, recv' = recv
      PROVE  IF pc'[d] = "attach"
             THEN track'[d] = "live" /\ Media(d)' \in recv'[Source(d)']
             ELSE track'[d] = "none"
  <2>1. CASE d = c
    BY <1>0, <1>3, <2>1, ViewTypes DEF AttachLive
  <2>2. CASE d # c
    BY <1>1, <1>3, <2>2, ViewTypes
  <2>3. QED
    BY <2>1, <2>2
<1>4. CASE Stays
  BY <1>1, <1>4, ViewTypes DEF Stays, Quietly
<1>5. ASSUME NEW c \in Consumers, Moves(c)
      PROVE  IF pc'[d] = "attach"
             THEN track'[d] = "live" /\ Media(d)' \in recv'[Source(d)']
             ELSE track'[d] = "none"
  <2>1. PICK s : s # "attach" /\ pc[c] # "attach" /\ pc' = [pc EXCEPT ![c] = s]
    BY <1>5 DEF Moves, Route, After
  <2>2. QED
    BY <1>3, <1>5, <2>1 DEF Moves, Quietly
<1>6. CASE \E c \in Consumers : Passes(c)
  BY <1>2, <1>6 DEF Passes, Quietly
<1>7. CASE \E c \in Consumers : Opens(c)
  BY <1>3, <1>7 DEF Opens
<1>8. ASSUME NEW c \in Consumers, GetTrack(c)
      PROVE  IF pc'[d] = "attach"
             THEN track'[d] = "live" /\ Media(d)' \in recv'[Source(d)']
             ELSE track'[d] = "none"
  <2>1. /\ recv' = [recv EXCEPT ![Source(c)] = @ \union {Media(c)}] /\ pos' = pos
        /\ track' = [track EXCEPT ![c] = "live"] /\ pc' = [pc EXCEPT ![c] = "attach"]
    BY <1>8 DEF GetTrack
  <2>2. CASE d = c
    BY <2>1, <2>2, ViewTypes DEF Media, Source
  <2>3. CASE d # c
    BY <1>1, <2>1, <2>3, ViewTypes
  <2>4. QED
    BY <2>2, <2>3
<1>9. CASE \E c \in Consumers, p \in Producers, k \in Kinds : Attaches(c, p, k)
  BY <1>2, <1>9 DEF Attaches
<1>10. CASE \E c \in Consumers, p \in Producers : StartProducer(c, p)
  <2>1. PICK c \in Consumers, p \in Producers : StartProducer(c, p)
    BY <1>10
  <2>2. PICK s \in {"on", "start"} : pc' = [pc EXCEPT ![c] = s]
    BY <2>1 DEF StartProducer
  <2>3. QED
    BY <1>3, <2>1, <2>2 DEF StartProducer, locals, prodv
<1>11. CASE \E c \in Consumers : Detach(c)
  BY <1>3, <1>11 DEF Detach
<1>12. CASE StopProducer
  <2>1. pc[d] # "attach"
    BY <1>12, StopEffect DEF Adders, Adding
  <2>2. QED
    BY <1>0, <1>12, <2>1, StopEffect DEF AttachLive
<1>13. QED
  BY <1>0, <1>4, <1>5, <1>6, <1>7, <1>8, <1>9, <1>10, <1>11, <1>12, StepKinds

LEMMA NextTracksOK ==
    ASSUME MaxReconnects = 0, IInv, QuietInv, ViewersInv, [Next]_vars
    PROVE  TracksOK'
<1>0. AttachLive /\ TracksOK
  BY DEF ViewersInv
<1> SUFFICES ASSUME NEW r \in Producers,
                    recv'[r] # {} \/ (\E d \in Consumers : Child(d, r)')
             PROVE  state'[r] \in {"Tracks", "Start"}
  BY DEF TracksOK
<1>1. ASSUME recv'[r] = {} \/ recv'[r] = recv[r],
             \A d \in Consumers : Child(d, r)' => Child(d, r),
             state[r] \in {"Tracks", "Start"} => state'[r] \in {"Tracks", "Start"}
      PROVE  state'[r] \in {"Tracks", "Start"}
  BY <1>0, <1>1 DEF TracksOK
<1>2. CASE Stays \/ (\E c \in Consumers : Moves(c)) \/ (\E c \in Consumers : Passes(c))
  <2>1. Quietly
    BY <1>2 DEF Stays, Moves, Passes
  <2>2. QED
    BY <1>1, <2>1, ChildStep DEF Quietly
<1>3. CASE \E c \in Consumers : Opens(c)
  <2>1. PICK c \in Consumers : Opens(c)
    BY <1>3
  <2>2. /\ recv' = recv /\ childs' = childs /\ state[Source(c)] = "None"
        /\ state' = [state EXCEPT ![Source(c)] = "Medias"]
    BY <2>1 DEF Opens
  <2>3. state[r] \in {"Tracks", "Start"} => state'[r] \in {"Tracks", "Start"}
    BY <2>2, ViewTypes
  <2>4. QED
    BY <1>1, <2>2, <2>3, ChildStep
<1>4. CASE \E c \in Consumers : GetTrack(c)
  <2>1. PICK c \in Consumers : GetTrack(c)
    BY <1>4
  <2>2. /\ conn[Source(c)] /\ recv' = [recv EXCEPT ![Source(c)] = @ \union {Media(c)}]
        /\ childs' = childs
        /\ state' = IF Media(c) \in recv[Source(c)] THEN state ELSE FirstTrack(Source(c))
    BY <2>1 DEF GetTrack, Matches
  <2>3. CASE r = Source(c)
    <3>1. CASE Media(c) \in recv[r]
      BY <1>0, <2>2, <2>3, <3>1 DEF TracksOK
    <3>2. CASE Media(c) \notin recv[r]
      <4>1. state[r] # "None" /\ state' = FirstTrack(r)
        BY <2>2, <2>3, <3>2, ViewTypes
      <4>2. QED
        BY <4>1, ViewTypes DEF FirstTrack, States
    <3>3. QED
      BY <3>1, <3>2
  <2>4. CASE r # Source(c)
    <3>1. recv'[r] = recv[r] /\ state'[r] = state[r]
      BY <2>2, <2>4, ViewTypes DEF FirstTrack
    <3>2. QED
      BY <1>1, <2>2, <3>1, ChildStep
  <2>5. QED
    BY <2>3, <2>4
<1>5. CASE \E c \in Consumers, p \in Producers, k \in Kinds : Attaches(c, p, k)
  <2>1. PICK c \in Consumers, p \in Producers, k \in Kinds : Attaches(c, p, k)
    BY <1>5
  <2>2. recv' = recv /\ state'[p] \in {"Tracks", "Start"} /\ state' \in {state, FirstTrack(p)}
    BY <2>1 DEF Attaches
  <2>3. CASE r = p
    BY <2>2, <2>3
  <2>4. CASE r # p
    <3>1. state'[r] = state[r]
      BY <2>2, <2>4, ViewTypes DEF FirstTrack
    <3>2. \A d \in Consumers : Child(d, r)' => Child(d, r)
      BY <2>1, <2>4, ChildStep
    <3>3. QED
      BY <1>1, <2>2, <3>1, <3>2
  <2>5. QED
    BY <2>3, <2>4
<1>6. CASE \E c \in Consumers, p \in Producers : StartProducer(c, p)
  <2>1. recv' = recv /\ childs' = childs
    BY <1>6 DEF StartProducer
  <2>2. \E p \in Producers : state' \in {state, [state EXCEPT ![p] = "Start"]}
    BY <1>6 DEF StartProducer
  <2>3. QED
    BY <1>1, <2>1, <2>2, ChildStep, ViewTypes
<1>7. CASE \E c \in Consumers : Detach(c)
  <2>1. recv' = recv /\ state' = state
    BY <1>7 DEF Detach
  <2>2. QED
    BY <1>1, <1>7, <2>1, ChildStep
<1>8. CASE StopProducer
  <2>1. r # loop.at
    BY <1>8, StopEffect, ChildStep
  <2>2. QED
    BY <1>1, <1>8, <2>1, StopEffect, ChildStep
<1>9. QED
  BY <1>0, <1>2, <1>3, <1>4, <1>5, <1>6, <1>7, <1>8, StepKinds

LEMMA NextStartsOK ==
    ASSUME MaxReconnects = 0, IInv, QuietInv, ViewersInv, [Next]_vars
    PROVE  StartsOK'
<1> DEFINE Ok(d) == /\ \A p \in starts[d] : Child(d, p)
                    /\ pc[d] \in {"new", "sched", "on", "detached", "done"} => starts[d] = {}
                    /\ pc[d] \in {"append", "start"} => starts[d] # {}
<1>0. AttachLive /\ TracksOK /\ \A d \in Consumers : Ok(d)
  BY DEF ViewersInv, StartsOK
<1> SUFFICES ASSUME NEW d \in Consumers PROVE Ok(d)'
  BY DEF StartsOK
<1>1. ASSUME pc'[d] = pc[d], starts'[d] = starts[d],
             \A p \in Producers : Child(d, p) => Child(d, p)'
      PROVE  Ok(d)'
  BY <1>0, <1>1, ViewTypes
<1>2. CASE Stays
  BY <1>1, <1>2, ChildStep DEF Stays, Quietly
<1>3. ASSUME NEW c \in Consumers, Moves(c) PROVE Ok(d)'
  <2>0. PICK s : Route(c, s) /\ pc' = [pc EXCEPT ![c] = s]
    BY <1>3 DEF Moves
  <2>1. starts' = starts /\ childs' = childs /\ pc' = [pc EXCEPT ![c] = s]
    BY <1>3, <2>0 DEF Moves, Quietly
  <2>2. CASE d = c
    <3>1. \A p \in starts'[d] : Child(d, p)'
      BY <1>0, <2>1, ChildStep, ViewTypes
    <3>2. pc'[d] = s
      BY <2>1, <2>2, ViewTypes
    <3>3. Route(d, s)
      BY <2>0, <2>2
    <3>4. /\ s \in {"new", "sched", "on", "detached", "done"} => starts[d] = {}
          /\ s \in {"append", "start"} => starts[d] # {}
      BY <1>0, <3>3 DEF Route, After
    <3>5. QED
      BY <2>1, <3>1, <3>2, <3>4
  <2>3. CASE d # c
    BY <1>1, <2>1, <2>3, ChildStep, ViewTypes
  <2>4. QED
    BY <2>2, <2>3
<1>4. ASSUME NEW c \in Consumers, NEW s, s \in AddSteps,
             pc' = [pc EXCEPT ![c] = s], starts' = starts, childs' = childs
      PROVE  Ok(d)'
  <2>1. CASE d = c
    <3>1. pc'[d] = s
      BY <1>4, <2>1, ViewTypes
    <3>2. \A p \in starts'[d] : Child(d, p)'
      BY <1>0, <1>4, ChildStep, ViewTypes
    <3>3. QED
      BY <1>4, <3>1, <3>2 DEF AddSteps
  <2>2. CASE d # c
    BY <1>1, <1>4, <2>2, ChildStep, ViewTypes
  <2>3. QED
    BY <2>1, <2>2
<1>5. CASE \E c \in Consumers : Passes(c)
  BY <1>4, <1>5 DEF Passes, GoesOn, Quietly, AddSteps
<1>6. CASE \E c \in Consumers : Opens(c)
  BY <1>4, <1>6 DEF Opens, AddSteps
<1>7. CASE \E c \in Consumers : GetTrack(c)
  BY <1>4, <1>7 DEF GetTrack, prodv, AddSteps
<1>8. ASSUME NEW c \in Consumers, NEW p \in Producers, NEW k \in Kinds, Attaches(c, p, k)
      PROVE  Ok(d)'
  <2>0. PICK s \in {"leave", "dial"} : pc' = [pc EXCEPT ![c] = s]
    BY <1>8 DEF Attaches, GoesOn
  <2>1. /\ pc' = [pc EXCEPT ![c] = s] /\ s \in {"leave", "dial"}
        /\ starts' = [starts EXCEPT ![c] = @ \union {p}]
    BY <1>8, <2>0 DEF Attaches
  <2>2. \A r \in Producers : Child(d, r)' <=> Child(d, r) \/ (d = c /\ r = p)
    BY <1>8, ChildStep
  <2>3. CASE d = c
    BY <1>0, <2>1, <2>2, <2>3, ViewTypes
  <2>4. CASE d # c
    BY <1>1, <2>1, <2>2, <2>4, ViewTypes
  <2>5. QED
    BY <2>3, <2>4
<1>9. ASSUME NEW c \in Consumers, NEW p \in Producers, StartProducer(c, p) PROVE Ok(d)'
  <2>1. /\ starts' = [starts EXCEPT ![c] = @ \ {p}] /\ childs' = childs /\ p \in starts[c]
        /\ pc' = [pc EXCEPT ![c] = IF starts[c] = {p} THEN "on" ELSE "start"]
    BY <1>9 DEF StartProducer
  <2>2. CASE d = c
    <3>1. pc'[d] = (IF starts[d] = {p} THEN "on" ELSE "start") /\ starts'[d] = starts[d] \ {p}
      BY <2>1, <2>2, ViewTypes
    <3>2. \A r \in starts'[d] : Child(d, r)'
      BY <1>0, <2>1, <3>1, ChildStep, ViewTypes
    <3>3. starts[d] = {p} => starts'[d] = {}
      BY <3>1
    <3>4. starts[d] # {p} => starts'[d] # {}
      BY <2>1, <2>2, <3>1
    <3>5. QED
      BY <3>1, <3>2, <3>3, <3>4
  <2>3. CASE d # c
    BY <1>1, <2>1, <2>3, ChildStep, ViewTypes
  <2>4. QED
    BY <2>2, <2>3
<1>10. ASSUME NEW c \in Consumers, Detach(c) PROVE Ok(d)'
  <2>1. pc[c] = "on" /\ pc' = [pc EXCEPT ![c] = "detached"] /\ starts' = starts
    BY <1>10 DEF Detach
  <2>2. CASE d = c
    <3>1. starts'[d] = {} /\ pc'[d] = "detached"
      BY <1>0, <2>1, <2>2, ViewTypes
    <3>2. QED
      BY <3>1
  <2>3. CASE d # c
    BY <1>1, <1>10, <2>1, <2>3, ChildStep, ViewTypes
  <2>4. QED
    BY <2>2, <2>3
<1>11. CASE StopProducer
  BY <1>1, <1>11, StopEffect, ChildStep
<1>12. QED
  BY <1>0, <1>2, <1>3, <1>5, <1>6, <1>7, <1>8, <1>9, <1>10, <1>11, StepKinds

LEMMA NextChildrenOK ==
    ASSUME MaxReconnects = 0, IInv, QuietInv, ViewersInv, [Next]_vars
    PROVE  ChildrenOK'
<1> DEFINE There(d) == \/ pc[d] \in {"start", "on"}
                       \/ pc[d] \in AddSteps \union {"stop", "stopping", "append"} /\ starts[d] # {}
<1>0. AttachLive /\ TracksOK /\ StartsOK /\ \A d \in Consumers, r \in Producers : Child(d, r) => There(d)
  BY DEF ViewersInv, ChildrenOK
<1> SUFFICES ASSUME NEW d \in Consumers, NEW r \in Producers, Child(d, r)' PROVE There(d)'
  BY DEF ChildrenOK
<1>1. ASSUME pc'[d] = pc[d], starts'[d] = starts[d], Child(d, r) PROVE There(d)'
  BY <1>0, <1>1
<1>2. CASE Stays
  BY <1>1, <1>2, ChildStep DEF Stays, Quietly
<1>3. ASSUME NEW c \in Consumers, Moves(c) PROVE There(d)'
  <2>0. PICK s : Route(c, s) /\ pc' = [pc EXCEPT ![c] = s]
    BY <1>3 DEF Moves
  <2>1. starts' = starts /\ Child(d, r) /\ pc' = [pc EXCEPT ![c] = s]
    BY <1>3, <2>0, ChildStep DEF Moves, Quietly
  <2>2. CASE d = c
    <3>1. pc'[d] = s /\ Route(d, s)
      BY <2>0, <2>1, <2>2, ViewTypes
    <3>2. There(d)
      BY <1>0, <2>1
    <3>3. s = "start" \/ (s \in AddSteps \union {"stop", "stopping", "append"} /\ starts[d] # {})
      BY <3>1, <3>2 DEF Route, After, AddSteps
    <3>4. QED
      BY <2>1, <3>1, <3>3
  <2>3. CASE d # c
    BY <1>1, <2>1, <2>3, ViewTypes
  <2>4. QED
    BY <2>2, <2>3
<1>4. ASSUME NEW c \in Consumers, NEW s, s \in AddSteps, pc[c] \in AddSteps,
             pc' = [pc EXCEPT ![c] = s], starts' = starts, childs' = childs
      PROVE  There(d)'
  <2>1. Child(d, r)
    BY <1>4, ChildStep
  <2>2. CASE d = c
    <3>1. pc'[d] = s /\ starts'[d] # {}
      BY <1>0, <1>4, <2>1, <2>2, ViewTypes DEF AddSteps
    <3>2. QED
      BY <1>4, <3>1
  <2>3. CASE d # c
    BY <1>1, <1>4, <2>1, <2>3, ViewTypes
  <2>4. QED
    BY <2>2, <2>3
<1>5. CASE \E c \in Consumers : Passes(c)
  BY <1>4, <1>5 DEF Passes, GoesOn, Quietly, AddSteps
<1>6. CASE \E c \in Consumers : Opens(c)
  BY <1>4, <1>6 DEF Opens, AddSteps
<1>7. CASE \E c \in Consumers : GetTrack(c)
  BY <1>4, <1>7 DEF GetTrack, Matches, prodv, AddSteps
<1>8. ASSUME NEW c \in Consumers, NEW p \in Producers, NEW k \in Kinds, Attaches(c, p, k)
      PROVE  There(d)'
  <2>0. PICK s \in {"leave", "dial"} : pc' = [pc EXCEPT ![c] = s]
    BY <1>8 DEF Attaches, GoesOn
  <2>1. /\ pc' = [pc EXCEPT ![c] = s] /\ s \in {"leave", "dial"}
        /\ starts' = [starts EXCEPT ![c] = @ \union {p}]
    BY <1>8, <2>0 DEF Attaches
  <2>2. CASE d = c
    BY <2>1, <2>2, ViewTypes DEF AddSteps
  <2>3. CASE d # c
    <3>1. Child(d, r)
      BY <1>8, <2>3, ChildStep
    <3>2. QED
      BY <1>1, <2>1, <2>3, <3>1, ViewTypes
  <2>4. QED
    BY <2>2, <2>3
<1>9. ASSUME NEW c \in Consumers, NEW p \in Producers, StartProducer(c, p) PROVE There(d)'
  <2>1. /\ starts' = [starts EXCEPT ![c] = @ \ {p}] /\ Child(d, r)
        /\ pc' = [pc EXCEPT ![c] = IF starts[c] = {p} THEN "on" ELSE "start"]
    BY <1>9, ChildStep DEF StartProducer
  <2>2. CASE d = c
    BY <2>1, <2>2, ViewTypes
  <2>3. CASE d # c
    BY <1>1, <2>1, <2>3, ViewTypes
  <2>4. QED
    BY <2>2, <2>3
<1>10. ASSUME NEW c \in Consumers, Detach(c) PROVE There(d)'
  <2>1. pc' = [pc EXCEPT ![c] = "detached"] /\ starts' = starts /\ Child(d, r) /\ d # c
    BY <1>10, ChildStep DEF Detach
  <2>2. QED
    BY <1>1, <2>1, ViewTypes
<1>11. CASE StopProducer
  BY <1>1, <1>11, StopEffect, ChildStep
<1>12. QED
  BY <1>0, <1>2, <1>3, <1>5, <1>6, <1>7, <1>8, <1>9, <1>10, <1>11, StepKinds

\* A source that serves a viewer stays connected and started, and the viewer
\* its child, until that viewer detaches.
Serves(p, c) == Child(c, p) /\ conn[p] /\ state[p] = "Start"

LEMMA ServesOn ==
    ASSUME MaxReconnects = 0, IInv, QuietInv, ViewersInv, [Next]_vars,
           NEW d \in Consumers, NEW r \in Producers, Serves(r, d), ~Detach(d)
    PROVE  Serves(r, d)'
<1>0. AttachLive /\ TracksOK /\ Child(d, r) /\ conn[r] /\ state[r] = "Start"
  BY DEF ViewersInv, Serves
<1>1. ASSUME Child(d, r)', conn'[r] = conn[r], state'[r] = state[r] PROVE Serves(r, d)'
  BY <1>0, <1>1 DEF Serves
<1>2. CASE Stays \/ (\E c \in Consumers : Moves(c)) \/ (\E c \in Consumers : Passes(c))
  <2>1. Quietly
    BY <1>2 DEF Stays, Moves, Passes
  <2>2. QED
    BY <1>0, <1>1, <2>1, ChildStep DEF Quietly
<1>3. CASE \E c \in Consumers : Opens(c)
  <2>1. PICK c \in Consumers : Opens(c)
    BY <1>3
  <2>2. r # Source(c) /\ childs' = childs
    BY <1>0, <2>1 DEF Opens
  <2>3. conn'[r] = conn[r] /\ state'[r] = state[r]
    BY <2>1, <2>2, ViewTypes DEF Opens
  <2>4. QED
    BY <1>0, <1>1, <2>2, <2>3, ChildStep
<1>4. ASSUME NEW p \in Producers, state' \in {state, FirstTrack(p)} PROVE state'[r] = state[r]
  BY <1>0, <1>4, ViewTypes DEF FirstTrack
<1>5. CASE \E c \in Consumers : GetTrack(c)
  <2>1. PICK c \in Consumers : GetTrack(c)
    BY <1>5
  <2>2. conn' = conn /\ childs' = childs /\ state' \in {state, FirstTrack(Source(c))}
    BY <2>1 DEF GetTrack
  <2>3. QED
    BY <1>0, <1>1, <1>4, <2>2, ChildStep, ViewTypes
<1>6. CASE \E c \in Consumers, p \in Producers, k \in Kinds : Attaches(c, p, k)
  <2>1. PICK c \in Consumers, p \in Producers, k \in Kinds : Attaches(c, p, k)
    BY <1>6
  <2>2. conn' = conn /\ state' \in {state, FirstTrack(p)}
    BY <2>1 DEF Attaches
  <2>3. Child(d, r)'
    BY <1>0, <2>1, ChildStep
  <2>4. QED
    BY <1>1, <1>4, <2>2, <2>3
<1>7. CASE \E c \in Consumers, p \in Producers : StartProducer(c, p)
  <2>1. PICK c \in Consumers, p \in Producers : StartProducer(c, p)
    BY <1>7
  <2>2. conn' = conn /\ childs' = childs /\ state' \in {state, [state EXCEPT ![p] = "Start"]}
    BY <2>1 DEF StartProducer
  <2>3. state'[r] = "Start"
    BY <1>0, <2>2, ViewTypes
  <2>4. QED
    BY <1>0, <1>1, <2>2, <2>3, ChildStep
<1>8. CASE \E c \in Consumers : Detach(c)
  <2>1. conn' = conn /\ state' = state
    BY <1>8 DEF Detach
  <2>2. QED
    BY <1>0, <1>1, <1>8, <2>1, ChildStep
<1>9. CASE StopProducer
  BY <1>0, <1>1, <1>9, StopEffect, ChildStep
<1>10. QED
  BY <1>0, <1>2, <1>3, <1>5, <1>6, <1>7, <1>8, <1>9, StepKinds

\* A viewer that is on is served by some source.
Served == \A c \in Consumers : pc[c] = "on" => \E p \in Producers : Serves(p, c)

LEMMA NextServed ==
    ASSUME MaxReconnects = 0, IInv, QuietInv, ViewersInv, Served, [Next]_vars
    PROVE  Served'
<1>0. AttachLive /\ TracksOK /\ StartsOK
  BY DEF ViewersInv
<1> SUFFICES ASSUME NEW d \in Consumers, pc'[d] = "on" PROVE \E p \in Producers : Serves(p, d)'
  BY DEF Served
<1>1. CASE pc[d] = "on"
  <2>1. ~Detach(d)
    BY ViewTypes DEF Detach
  <2>2. QED
    BY <1>1, <2>1, ServesOn DEF Served
<1>2. CASE pc[d] # "on"
  <2>1. ASSUME NEW c \in Consumers, NEW s, pc' = [pc EXCEPT ![c] = s], s # "on" PROVE FALSE
    BY <1>2, <2>1, ViewTypes
  <2>2. ~Stays /\ ~StopProducer
    BY <1>2, StopEffect DEF Stays
  <2>3. \A c \in Consumers : ~Moves(c)
    BY <2>1 DEF Moves, Route, After
  <2>4. \A c \in Consumers : ~GoesOn(c)
    BY <2>1 DEF GoesOn
  <2>5. \A c \in Consumers : ~Opens(c) /\ ~GetTrack(c) /\ ~Detach(c)
    BY <2>1 DEF Opens, GetTrack, Detach
  <2>6. PICK c \in Consumers, p \in Producers : StartProducer(c, p)
    BY <1>0, <2>2, <2>3, <2>4, <2>5, StepKinds DEF Passes, Attaches
  <2>7. d = c
    BY <1>2, <2>6, ViewTypes DEF StartProducer
  <2>8. Child(d, p) /\ state[p] \in {"Tracks", "Start"} /\ conn[p]
    <3>1. Child(d, p)
      BY <1>0, <2>6, <2>7 DEF StartProducer, StartsOK
    <3>2. state[p] \in {"Tracks", "Start"}
      BY <1>0, <3>1 DEF TracksOK
    <3>3. QED
      BY <3>1, <3>2, ViewTypes
  <2>9. state'[p] = "Start" /\ conn' = conn /\ childs' = childs
    BY <2>6, <2>8, ViewTypes DEF StartProducer
  <2>10. Serves(p, d)'
    BY <2>8, <2>9, ChildStep DEF Serves
  <2>11. QED
    BY <2>10
<1>3. QED
  BY <1>1, <1>2

\* A session on its way to the next look at the producers.
Coming == AddSteps \union {"detached", "sched", "stop"}

\* A connected source without children is watched: the timer runs, the stop
\* loop has yet to come to it, or a session is on its way to request a stop -
\* unless a playback with its own client has cancelled the timer.
Watched ==
    \A p \in Producers : conn[p] /\ (\A c \in Consumers : ~Child(c, p)) =>
        \/ stopTimer # 0
        \/ ~SmuFree /\ loop.at <= p
        \/ \E c \in Consumers : pc[c] \in Coming
        \/ \E i \in Players : play[i] # "idle"

LEMMA NextWatched ==
    ASSUME MaxReconnects = 0, IInv, QuietInv, ViewersInv, Watched, [Next]_vars
    PROVE  Watched'
<1> USE DEF locals, timerv, streamv, prodv, workv
<1>0. /\ TypeOK /\ LoopOK /\ pc \in [Consumers -> Steps] /\ N \in Nat \ {0}
      /\ stopTimer \in Nat /\ generation \in Nat /\ pending \in Nat
      /\ loop.at \in 1..(N + 1) /\ \A p \in Producers : ~Worker(p)
  BY NoWorker, StreamsAssumption DEF IInv, TypeOK
<1>1. ASSUME NEW c \in Consumers, pc'[c] \in Coming PROVE Watched'
  BY <1>1 DEF Watched
<1>2. ASSUME \A p \in Producers : conn'[p] /\ (\A c \in Consumers : ~Child(c, p)')
                                     => conn[p] /\ \A c \in Consumers : ~Child(c, p),
             stopTimer # 0 => stopTimer' # 0,
             \A p \in Producers : ~SmuFree /\ loop.at <= p /\ conn'[p] /\ (\A c \in Consumers : ~Child(c, p)')
                                     => ~SmuFree' /\ loop'.at <= p,
             \A c \in Consumers : pc[c] \in Coming => pc'[c] \in Coming,
             \A i \in Players : play[i] # "idle" => play'[i] # "idle"
      PROVE  Watched'
  <2> SUFFICES ASSUME NEW p \in Producers, conn'[p], \A c \in Consumers : ~Child(c, p)'
               PROVE  \/ stopTimer' # 0
                      \/ ~SmuFree' /\ loop'.at <= p
                      \/ \E c \in Consumers : pc'[c] \in Coming
                      \/ \E i \in Players : play'[i] # "idle"
    BY DEF Watched
  <2>1. conn[p] /\ \A c \in Consumers : ~Child(c, p)
    BY <1>2
  <2>2. \/ stopTimer # 0
        \/ ~SmuFree /\ loop.at <= p
        \/ \E c \in Consumers : pc[c] \in Coming
        \/ \E i \in Players : play[i] # "idle"
    BY <2>1 DEF Watched
  <2>3. QED
    BY <1>2, <2>2
<1>3. ASSUME NEW c \in Consumers,
             \/ SkipProducer(c) \/ NoMatch(c) \/ TrackError(c) \/ AddTrack(c)
             \/ ConsumerTrackError(c) \/ AddBackTrack(c)
      PROVE  Watched'
  <2>1. Forward(c) \/ Matched(c)
    BY <1>3 DEF SkipProducer, NoMatch, TrackError, AddTrack, ConsumerTrackError, AddBackTrack
  <2>2. PICK s \in {"leave", "dial"} : pc' = [pc EXCEPT ![c] = s]
    BY <1>0, <2>1, GoToType
  <2>3. QED
    BY <1>0, <1>1, <2>2 DEF Coming, AddSteps
<1>4. ASSUME NEW c \in Consumers, Dial(c) PROVE Watched'
  <2>1. CASE pc' = [pc EXCEPT ![c] = "track"]
    BY <1>0, <1>1, <2>1 DEF Coming, AddSteps
  <2>2. CASE Forward(c)
    <3>1. PICK s \in {"leave", "dial"} : pc' = [pc EXCEPT ![c] = s]
      BY <1>0, <2>2, GoToType
    <3>2. QED
      BY <1>0, <1>1, <3>1 DEF Coming, AddSteps
  <2>3. QED
    BY <1>4, <2>1, <2>2 DEF Dial
<1>5. ASSUME NEW c \in Consumers,
             Admit(c) \/ DialWarm(c) \/ GetTrack(c) \/ ScheduleNow(c) \/ Delete(c) \/ Detach(c)
      PROVE  Watched'
  <2>1. PICK s \in Coming : pc' = [pc EXCEPT ![c] = s]
    BY <1>5 DEF Admit, DialWarm, GetTrack, ScheduleNow, Delete, Detach, Coming, AddSteps
  <2>2. QED
    BY <1>0, <1>1, <2>1
<1>6. ASSUME NEW d \in Consumers, Adding(d), pc'[d] = pc[d] PROVE Watched'
  BY <1>1, <1>6 DEF Adding, Coming, AddSteps
<1>7. ASSUME NEW c \in Consumers, Leave(c) PROVE Watched'
  <2>1. CASE pending = 1
    <3>1. PICK s \in {"sched", "stop"} : pc' = [pc EXCEPT ![c] = s]
      BY <1>7, <2>1 DEF Leave
    <3>2. QED
      BY <1>0, <1>1, <3>1 DEF Coming
  <2>2. CASE pending # 1
    <3>1. PICK d \in Adders : d # c
      <4>1. Cardinality(Adders) # 1
        BY <2>2 DEF IInv, PendingCounts
      <4>2. Adders # {c}
        BY <4>1, FS_Singleton
      <4>3. c \in Adders
        BY <1>7 DEF Leave, Adders, Adding
      <4>4. QED
        BY <4>2, <4>3
    <3>2. \E s : pc' = [pc EXCEPT ![c] = s]
      BY <1>7 DEF Leave
    <3>3. QED
      BY <1>0, <1>6, <3>1, <3>2 DEF Adders
  <2>3. QED
    BY <2>1, <2>2
<1>8. ASSUME NEW c \in Consumers, Schedule(c) PROVE Watched'
  <2>1. stopTimer' # 0
    BY <1>0, <1>8 DEF Schedule
  <2>2. QED
    BY <2>1 DEF Watched
<1>9. ASSUME pending > 0, pc' = pc PROVE Watched'
  <2>1. PICK d \in Adders : TRUE
    BY <1>9, CountAdders DEF IInv, PendingCounts
  <2>2. QED
    BY <1>6, <1>9, <2>1 DEF Adders
<1>10. ASSUME ~SmuFree', loop'.at = 1 PROVE Watched'
  BY <1>10 DEF Watched, Producers
<1>11. ASSUME NEW c \in Consumers, StopProducers(c) PROVE Watched'
  <2>1. CASE pending > 0
    <3>1. PICK d \in Adders : TRUE
      BY <2>1, CountAdders DEF IInv, PendingCounts
    <3>2. d # c /\ \E s : pc' = [pc EXCEPT ![c] = s]
      BY <1>11, <2>1 DEF StopProducers, Adders, Adding
    <3>3. QED
      BY <1>0, <1>6, <3>1, <3>2 DEF Adders
  <2>2. CASE ~(pending > 0)
    BY <1>10, <1>11, <2>2, StreamsAssumption DEF StopProducers, HeldBy, SmuFree
  <2>3. QED
    BY <2>1, <2>2
<1>12. ASSUME NEW c \in Consumers, Join(c) \/ (\E p \in Producers : StartProducer(c, p))
       PROVE  Watched'
  <2>1. /\ conn' = conn /\ childs' = childs /\ stopTimer' = stopTimer /\ loop' = loop
        /\ play' = play /\ pc[c] \in {"append", "start"}
    BY <1>12 DEF Join, StartProducer
  <2>2. \E s : pc' = [pc EXCEPT ![c] = s]
    BY <1>12 DEF Join, StartProducer
  <2>3. \A d \in Consumers : pc[d] \in Coming => pc'[d] \in Coming
    BY <1>0, <2>1, <2>2 DEF Coming, AddSteps
  <2>4. SmuFree' <=> SmuFree
    BY <2>1 DEF SmuFree
  <2>5. QED
    BY <1>2, <2>1, <2>3, <2>4, ChildStep
<1>13. ASSUME StopEnd PROVE Watched'
  <2>1. /\ conn' = conn /\ childs' = childs /\ stopTimer' = stopTimer /\ play' = play
        /\ loop.at > N /\ pc' = IF loop.by \in Consumers
                                THEN [pc EXCEPT ![loop.by] = After(loop.by)] ELSE pc
    BY <1>13 DEF StopEnd
  <2>2. \A d \in Consumers : pc[d] \in Coming => pc'[d] \in Coming
    BY <1>0, <2>1 DEF Coming, AddSteps, LoopOK
  <2>3. \A p \in Producers : ~(loop.at <= p)
    BY <1>0, <2>1 DEF Producers
  <2>4. QED
    BY <1>2, <2>1, <2>2, <2>3, ChildStep
<1>14. ASSUME StopCheck PROVE Watched'
  <2>1. /\ conn' = conn /\ childs' = childs /\ stopTimer' = stopTimer /\ play' = play /\ pc' = pc
        /\ loop' = IF \E k \in Kinds : childs[loop.at][k] # {}
                   THEN [loop EXCEPT !.at = @ + 1] ELSE [loop EXCEPT !.idle = TRUE]
        /\ loop.at \in Producers
    BY <1>0, <1>14 DEF StopCheck, Producers
  <2>2. SmuFree' <=> SmuFree
    BY <1>0, <2>1 DEF SmuFree, TypeOK
  <2>3. CASE \E k \in Kinds : childs[loop.at][k] # {}
    <3>1. \E c \in Consumers : Child(c, loop.at)
      BY <2>1, <2>3, ViewTypes DEF Child
    <3>2. loop'.at = loop.at + 1
      BY <1>0, <2>1, <2>3 DEF TypeOK
    <3>3. \A p \in Producers : loop.at <= p /\ (\A c \in Consumers : ~Child(c, p)) => loop'.at <= p
      BY <1>0, <2>1, <3>1, <3>2 DEF Producers
    <3>4. QED
      BY <1>2, <2>1, <2>2, <3>3, ChildStep
  <2>4. CASE ~ \E k \in Kinds : childs[loop.at][k] # {}
    <3>1. loop'.at = loop.at
      BY <1>0, <2>1, <2>4 DEF TypeOK
    <3>2. QED
      BY <1>2, <2>1, <2>2, <3>1, ChildStep
  <2>5. QED
    BY <2>3, <2>4
<1>15. ASSUME StopProducer PROVE Watched'
  <2>1. /\ stopTimer' = stopTimer /\ play' = play /\ loop' = [loop EXCEPT !.at = @ + 1, !.idle = FALSE]
    BY <1>15 DEF StopProducer
  <2>2. loop'.at = loop.at + 1 /\ loop'.by = loop.by
    BY <1>0, <2>1 DEF TypeOK
  <2>3. \A p \in Producers : loop.at <= p /\ conn'[p] => loop'.at <= p
    BY <1>0, <1>15, <2>2, StopEffect DEF Producers
  <2>4. SmuFree' <=> SmuFree
    BY <2>2 DEF SmuFree
  <2>5. \A p \in Producers : conn'[p] => conn[p]
    BY <1>15, StopEffect
  <2>6. QED
    BY <1>2, <1>15, <2>1, <2>3, <2>4, <2>5, StopEffect, ChildStep
<1>16. ASSUME NEW g \in fired, LingerCallback(g) PROVE Watched'
  <2>1. pc' = pc /\ conn' = conn /\ childs' = childs /\ play' = play
    BY <1>16 DEF LingerCallback
  <2>2. CASE generation # g
    <3>1. stopTimer' = stopTimer /\ loop' = loop
      BY <1>16, <2>2 DEF LingerCallback
    <3>2. QED
      BY <1>2, <2>1, <3>1, ChildStep DEF SmuFree
  <2>3. CASE pending > 0
    BY <1>9, <2>1, <2>3
  <2>4. CASE generation = g /\ ~(pending > 0)
    BY <1>10, <1>16, <2>4, StreamsAssumption DEF LingerCallback, HeldBy, SmuFree
  <2>5. QED
    BY <2>2, <2>3, <2>4
<1>17. ASSUME NEW i \in Players, PlayCancel(i) \/ PlayAppend(i) \/ PlayEnd(i) PROVE Watched'
  <2>1. play'[i] # "idle"
    BY <1>0, <1>17 DEF PlayCancel, PlayAppend, PlayEnd, TypeOK
  <2>2. QED
    BY <2>1 DEF Watched
<1>18. ASSUME Expire \/ UNCHANGED vars PROVE Watched'
  <2>1. /\ conn' = conn /\ childs' = childs /\ stopTimer' = stopTimer /\ loop' = loop
        /\ play' = play /\ pc' = pc
    BY <1>18 DEF Expire, vars
  <2>2. QED
    BY <1>2, <2>1, ChildStep DEF SmuFree
<1>19. QED
  BY <1>0, <1>3, <1>4, <1>5, <1>7, <1>8, <1>11, <1>12, <1>13, <1>14, <1>15, <1>16, <1>17, <1>18
     DEF Next, Session, StopLoop, Finished

\* While no connection is lost all of this holds together.
StillInv == QuietInv /\ ViewersInv /\ Served /\ Watched

THEOREM StillInvariance ==
    ASSUME MaxReconnects = 0
    PROVE  Spec => [](IInv /\ StillInv)
<1>1. Init => StillInv
  <2> SUFFICES ASSUME Init PROVE StillInv
    OBVIOUS
  <2>1. QuietInv
    BY DEF Init, QuietInv, Free, HeldBy
  <2>2. \A c \in Consumers, p \in Producers : ~Child(c, p)
    BY DEF Init, Child
  <2>3. AttachLive /\ TracksOK /\ StartsOK /\ ChildrenOK
    BY <2>2 DEF Init, AttachLive, TracksOK, StartsOK, ChildrenOK
  <2>4. Served /\ Watched
    BY DEF Init, Served, Watched
  <2>5. QED
    BY <2>1, <2>3, <2>4 DEF StillInv, ViewersInv
<1>2. IInv /\ StillInv /\ [Next]_vars => StillInv'
  BY NextQuiet, NextAttachLive, NextTracksOK, NextStartsOK, NextChildrenOK, NextServed, NextWatched
     DEF StillInv, ViewersInv
<1>3. QED
  BY <1>1, <1>2, Invariance, PTL DEF Spec

\* Every viewer whose AddConsumer returned success is a child of a connected,
\* started source until it leaves, however many viewers come and go, fail on
\* some sources, linger or stop them: a source is started for somebody only
\* after the track, and never stopped under a child (add_consumer.go:106-119).
\* With a lost connection it is not so: see module MCStreams's runs.
THEOREM ViewersAreServed ==
    ASSUME MaxReconnects = 0
    PROVE  Spec => []ViewerIsServed
<1>1. StillInv => ViewerIsServed
  BY DEF StillInv, Served, Serves, Child, ViewerIsServed
<1>2. QED
  BY <1>1, StillInvariance, PTL

\* Without a lost connection a source is forgotten only after a playback with
\* its own client, which cancels the timer and arms none (play.go:125).
THEOREM ForgottenAfterPlayOnly ==
    ASSUME MaxReconnects = 0
    PROVE  Spec => [](NoForgottenSource \/ \E i \in Players : play[i] = "over")
<1>1. IInv /\ StillInv => NoForgottenSource \/ \E i \in Players : play[i] = "over"
  <2> SUFFICES ASSUME IInv, StillInv, \A i \in Players : play[i] # "over",
                      NEW p \in Producers, conn[p], ~HasReader(p)
               PROVE  \/ stopTimer # 0 \/ ~SmuFree
                      \/ \E c \in Consumers : pc[c] \notin {"new", "on", "done"}
                      \/ \E i \in Players : play[i] \in {"cancelled", "playing"}
    BY DEF NoForgottenSource
  <2>1. \A c \in Consumers : ~Child(c, p)
    <3> SUFFICES ASSUME NEW c \in Consumers, Child(c, p) PROVE FALSE
      OBVIOUS
    <3>1. Present(c)
      BY DEF StillInv, ViewersInv, ChildrenOK, Present, AddSteps
    <3>2. c \in Readers(p)
      BY <3>1 DEF Child, Readers
    <3>3. QED
      BY <3>2 DEF HasReader
  <2>2. \/ stopTimer # 0
        \/ ~SmuFree /\ loop.at <= p
        \/ \E c \in Consumers : pc[c] \in Coming
        \/ \E i \in Players : play[i] # "idle"
    BY <2>1 DEF StillInv, Watched
  <2>3. \A i \in Players : play[i] \in {"idle", "cancelled", "playing", "over"}
    BY DEF IInv, TypeOK
  <2>4. QED
    BY <2>2, <2>3 DEF Coming, AddSteps
<1>2. QED
  BY <1>1, StillInvariance, PTL

\* No source is forgotten: as long as nobody plays into the stream with a
\* client of its own and no connection is lost, a connected source without
\* readers has a timer, a stop loop or a session that will look at it again.
THEOREM NothingForgotten ==
    ASSUME MaxReconnects = 0, Players = {}
    PROVE  Spec => []NoForgottenSource
<1>1. (NoForgottenSource \/ \E i \in Players : play[i] = "over") => NoForgottenSource
  OBVIOUS
<1>2. QED
  BY <1>1, ForgottenAfterPlayOnly, PTL

\* A source is closed only when no viewer reads from it and none holds one of
\* its receivers on the way to attach (add_consumer.go:97).  The stop loop
\* reads the children without the producer's mutex; without a reconnect that
\* is enough, with one it is not (run closed_under_reader).
THEOREM ClosedOnlyIdle ==
    ASSUME MaxReconnects = 0
    PROVE  Spec => CloseOnlyIdle
<1>1. IInv /\ StillInv /\ [Next]_vars =>
          [\A p \in Producers : Closes(p) =>
             ~HasReader(p) /\ \A c \in Consumers : ~(track[c] = "live" /\ Source(c) = p)]_vars
  <2> SUFFICES ASSUME IInv, StillInv, [Next]_vars, NEW p \in Producers, Closes(p)
               PROVE  ~HasReader(p) /\ \A c \in Consumers : ~(track[c] = "live" /\ Source(c) = p)
    OBVIOUS
  <2>0. QuietInv /\ AttachLive /\ TracksOK
    BY DEF StillInv, ViewersInv
  <2>1. StopProducer /\ p = loop.at
    <3>1. conn[p] /\ ~conn'[p]
      BY DEF Closes
    <3>2. \A c \in Consumers : ~Opens(c)
      BY <3>1, ViewTypes DEF Opens
    <3>3. ASSUME conn' = conn PROVE FALSE
      BY <3>1, <3>3
    <3>4. ~Stays /\ \A c \in Consumers : ~Moves(c) /\ ~Passes(c) /\ ~Detach(c)
      BY <3>3 DEF Stays, Moves, Passes, Detach, Quietly
    <3>5. \A c \in Consumers : ~GetTrack(c) /\ \A q \in Producers : ~StartProducer(c, q)
      BY <3>3 DEF GetTrack, StartProducer
    <3>6. \A c \in Consumers, q \in Producers, k \in Kinds : ~Attaches(c, q, k)
      BY <3>3 DEF Attaches
    <3>7. StopProducer
      BY <2>0, <3>2, <3>4, <3>5, <3>6, StepKinds
    <3>8. QED
      BY <2>0, <3>1, <3>7, StopEffect
  <2>2. \A k \in Kinds : childs[p][k] = {}
    BY <2>1 DEF StopProducer, QuietInv, StillInv
  <2>3. rec[p].carry = {}
    BY DEF QuietInv, StillInv, NoMove
  <2>4. ~HasReader(p)
    BY <2>2, <2>3 DEF HasReader, Readers
  <2>5. \A c \in Consumers : track[c] # "live"
    BY <2>0, <2>1, StopEffect DEF AttachLive, Adders, Adding
  <2>6. QED
    BY <2>4, <2>5
<1>2. QED
  BY <1>1, StillInvariance, PTL DEF CloseOnlyIdle, Spec
=============================================================================
