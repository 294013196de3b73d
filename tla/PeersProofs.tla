---------------------------- MODULE PeersProofs ----------------------------
(***************************************************************************)
(* Proofs about the parts that talk to a camera and to a HomeKit             *)
(* controller: the commands of a camera connection and their                 *)
(* acknowledgements (CommandAck), the pairing list of the accessory          *)
(* (HomeKitPairing), the SRTP socket that all its sessions share (Srtp) and   *)
(* the sessions of its viewers (HomeKit).  The four are instantiated with     *)
(* their own constants and variables, so each theorem is about any number of  *)
(* commands, controllers, connections and sessions.                          *)
(***************************************************************************)
EXTENDS Integers, FiniteSets, FiniteSetTheorems, FunctionTheorems, TLAPS

CONSTANTS Writers, NoWriter, Attempts, MaxAcks    \* CommandAck
CONSTANTS Controllers, Links, NoOne               \* HomeKitPairing
CONSTANTS Users, Readers, MaxSockets              \* Srtp
CONSTANTS Sessions, Most, MaxQueued               \* HomeKit, and those of HomeKitPairing

VARIABLES writer, repeat, cmdAck, acks, alive, confirmed
VARIABLES pairings, saved, flag, handler, removed
VARIABLES sessions, sock, open, conn, reader, panicked
VARIABLES link, slot, offer, deadline, sending, queued, listed, attached, waiting, leaving

Commands == INSTANCE CommandAck
Pairing == INSTANCE HomeKitPairing
Server == INSTANCE Srtp
Viewers == INSTANCE HomeKit

(***************************************************************************)
(* Commands and their acknowledgements                                     *)
(***************************************************************************)
CommandAssumption == Attempts \in Nat \ {0} /\ MaxAcks \in Nat /\ NoWriter \notin Writers

CommandTypes ==
    /\ writer \in [Writers -> {"out", "waiting", "done", "failed"}]
    /\ repeat \in [Writers -> -1..Attempts] /\ cmdAck \in Writers \cup {NoWriter}
    /\ acks \in [Writers -> 0..MaxAcks] /\ confirmed \subseteq Writers
AliveIsFlag == alive \in BOOLEAN

\* The worker calls the closure of the command that waits, so at most one waits.
OneCommand == \A w \in Writers : writer[w] = "waiting" => cmdAck = w

\* Nothing is acknowledged before a first command.
AcksHaveClosure == \A w \in Writers : acks[w] > 0 => cmdAck \in Writers

\* A waiting command has attempts left, or it was acknowledged.
CountedDown ==
    \A w \in Writers : writer[w] = "waiting" =>
        repeat[w] >= 0 /\ (repeat[w] = 0 => w \in confirmed)

CommandInv == /\ CommandTypes /\ AliveIsFlag /\ OneCommand /\ AcksHaveClosure /\ CountedDown
              /\ Commands!DoneIsConfirmed

\* One Write adds an acknowledgement in flight, or none.
LEMMA WrittenOnce ==
    ASSUME CommandAssumption, CommandTypes, NEW w \in Writers, Commands!WriteOnce(w)
    PROVE  /\ acks' \in [Writers -> 0..MaxAcks]
           /\ \A v \in Writers : acks'[v] > 0 => v = w \/ acks[v] > 0
<1>1. acks' = acks \/ acks' = [acks EXCEPT ![w] = @ + 1]
  BY DEF Commands!WriteOnce
<1>2. acks'[w] <= MaxAcks
  BY DEF Commands!WriteOnce
<1>3. CASE acks' = acks
  BY <1>3 DEF CommandTypes
<1>4. CASE acks' = [acks EXCEPT ![w] = @ + 1]
  BY <1>2, <1>4 DEF CommandTypes, CommandAssumption
<1>5. QED
  BY <1>1, <1>3, <1>4

LEMMA CommandStep ==
    ASSUME CommandAssumption, CommandInv, [Commands!Next]_(Commands!vars)
    PROVE  CommandInv'
<1>0. CommandTypes /\ AliveIsFlag /\ OneCommand /\ AcksHaveClosure /\ CountedDown
      /\ Commands!DoneIsConfirmed
  BY DEF CommandInv
<1>1. ASSUME NEW w \in Writers, Commands!WriteCommand(w) PROVE CommandInv'
  <2>1. /\ writer[w] = "out" /\ \A v \in Writers : writer[v] # "waiting"
        /\ repeat' = [repeat EXCEPT ![w] = Attempts] /\ cmdAck' = w
        /\ UNCHANGED <<alive, confirmed>>
    BY <1>1 DEF Commands!WriteCommand
  <2>2. \/ Commands!WriteOnce(w) /\ writer' = [writer EXCEPT ![w] = "waiting"]
        \/ writer' = [writer EXCEPT ![w] = "failed"] /\ UNCHANGED acks
    BY <1>1 DEF Commands!WriteCommand
  <2>3. acks' \in [Writers -> 0..MaxAcks]
    BY <1>0, <2>2, WrittenOnce DEF CommandTypes
  <2>4. /\ writer' \in [Writers -> {"out", "waiting", "done", "failed"}]
        /\ \A v \in Writers : writer'[v] # writer[v] => v = w /\ writer'[v] # "done"
    BY <1>0, <2>2 DEF CommandTypes
  <2>5. CommandTypes'
    <3>1. Attempts \in -1..Attempts
      BY DEF CommandAssumption
    <3>2. repeat' \in [Writers -> -1..Attempts]
      BY <1>0, <2>1, <3>1 DEF CommandTypes
    <3>3. cmdAck' \in Writers \cup {NoWriter} /\ confirmed' \subseteq Writers
      BY <1>0, <2>1 DEF CommandTypes
    <3>4. QED
      BY <2>3, <2>4, <3>2, <3>3 DEF CommandTypes
  <2>6. OneCommand'
    BY <2>1, <2>4 DEF OneCommand
  <2>7. AcksHaveClosure' /\ AliveIsFlag'
    <3>1. AcksHaveClosure'
      BY <2>1 DEF AcksHaveClosure
    <3>2. AliveIsFlag'
      BY <1>0, <2>1 DEF AliveIsFlag
    <3>3. QED
      BY <3>1, <3>2
  <2>8. CountedDown'
    BY <1>0, <2>1, <2>4 DEF CountedDown, CommandTypes, CommandAssumption
  <2>9. Commands!DoneIsConfirmed'
    BY <1>0, <2>1, <2>4 DEF Commands!DoneIsConfirmed
  <2>10. QED
    BY <2>5, <2>6, <2>7, <2>8, <2>9 DEF CommandInv
<1>2. ASSUME NEW w \in Writers, Commands!Tick(w) PROVE CommandInv'
  <2>1. /\ writer[w] = "waiting" /\ repeat' = [repeat EXCEPT ![w] = @ - 1]
        /\ UNCHANGED <<cmdAck, alive, confirmed>>
    BY <1>2 DEF Commands!Tick
  <2>2. \/ repeat[w] = 0 /\ writer' = [writer EXCEPT ![w] = "done"] /\ UNCHANGED acks
        \/ writer' = [writer EXCEPT ![w] = "failed"] /\ UNCHANGED acks
        \/ repeat[w] > 1 /\ Commands!WriteOnce(w) /\ UNCHANGED writer
    BY <1>2 DEF Commands!Tick
  <2>3. /\ acks' \in [Writers -> 0..MaxAcks]
        /\ \A v \in Writers : acks'[v] > 0 => v = w \/ acks[v] > 0
    BY <1>0, <2>2, WrittenOnce DEF CommandTypes
  <2>4. /\ writer' \in [Writers -> {"out", "waiting", "done", "failed"}]
        /\ \A v \in Writers : v # w => writer'[v] = writer[v]
        /\ writer'[w] = "waiting" => repeat[w] > 1
        /\ writer'[w] = "done" => repeat[w] = 0
    BY <1>0, <2>1, <2>2 DEF CommandTypes
  <2>5. cmdAck = w /\ repeat[w] >= 0 /\ (repeat[w] = 0 => w \in confirmed)
    BY <1>0, <2>1 DEF OneCommand, CountedDown
  <2>6. CommandTypes'
    <3>1. repeat[w] \in -1..Attempts /\ repeat[w] - 1 \in -1..Attempts
      BY <1>0, <2>5 DEF CommandTypes, CommandAssumption
    <3>2. repeat' \in [Writers -> -1..Attempts]
      BY <1>0, <2>1, <3>1 DEF CommandTypes
    <3>3. QED
      BY <1>0, <2>1, <2>3, <2>4, <3>2 DEF CommandTypes
  <2>7. OneCommand'
    BY <1>0, <2>1, <2>4 DEF OneCommand
  <2>8. AcksHaveClosure' /\ AliveIsFlag'
    <3>1. AcksHaveClosure'
      BY <2>1, <2>5 DEF AcksHaveClosure
    <3>2. AliveIsFlag'
      BY <1>0, <2>1 DEF AliveIsFlag
    <3>3. QED
      BY <3>1, <3>2
  <2>9. CountedDown'
    BY <1>0, <2>1, <2>4 DEF CountedDown, CommandTypes, CommandAssumption
  <2>10. Commands!DoneIsConfirmed'
    BY <1>0, <2>1, <2>4, <2>5 DEF Commands!DoneIsConfirmed
  <2>11. QED
    BY <2>6, <2>7, <2>8, <2>9, <2>10 DEF CommandInv
<1>3. ASSUME NEW w \in Writers, Commands!WorkerAck(w) PROVE CommandInv'
  <2>1. /\ acks[w] > 0 /\ acks' = [acks EXCEPT ![w] = @ - 1]
        /\ repeat' = [repeat EXCEPT ![cmdAck] = 0] /\ confirmed' = confirmed \cup {cmdAck}
        /\ UNCHANGED <<writer, cmdAck, alive>>
    BY <1>3 DEF Commands!WorkerAck
  <2>2. cmdAck \in Writers
    BY <1>0, <2>1 DEF AcksHaveClosure
  <2>3. CommandTypes'
    BY <1>0, <2>1, <2>2 DEF CommandTypes, CommandAssumption
  <2>4. OneCommand' /\ AcksHaveClosure' /\ AliveIsFlag'
    BY <1>0, <2>1, <2>2 DEF OneCommand, AcksHaveClosure, AliveIsFlag
  <2>5. CountedDown'
    BY <1>0, <2>1, <2>2 DEF CountedDown, CommandTypes
  <2>6. Commands!DoneIsConfirmed'
    BY <1>0, <2>1 DEF Commands!DoneIsConfirmed
  <2>7. QED
    BY <2>3, <2>4, <2>5, <2>6 DEF CommandInv
<1>4. CASE Commands!CloseConn
  <2>1. alive' = FALSE /\ UNCHANGED <<writer, repeat, cmdAck, acks, confirmed>>
    BY <1>4 DEF Commands!CloseConn
  <2>2. CommandTypes' /\ OneCommand' /\ AcksHaveClosure'
    BY <1>0, <2>1 DEF CommandTypes, OneCommand, AcksHaveClosure
  <2>3. CountedDown' /\ Commands!DoneIsConfirmed'
    BY <1>0, <2>1 DEF CountedDown, Commands!DoneIsConfirmed
  <2>4. AliveIsFlag'
    BY <2>1, Zenon DEF AliveIsFlag
  <2>5. QED
    BY <2>2, <2>3, <2>4 DEF CommandInv
<1>5. CASE UNCHANGED Commands!vars
  <2>1. UNCHANGED <<writer, repeat, cmdAck, acks, alive, confirmed>>
    BY <1>5 DEF Commands!vars
  <2>2. CommandTypes' /\ OneCommand' /\ AcksHaveClosure' /\ AliveIsFlag'
    BY <1>0, <2>1 DEF CommandTypes, OneCommand, AcksHaveClosure, AliveIsFlag
  <2>3. CountedDown' /\ Commands!DoneIsConfirmed'
    BY <1>0, <2>1 DEF CountedDown, Commands!DoneIsConfirmed
  <2>4. QED
    BY <2>2, <2>3 DEF CommandInv
<1>6. QED
  BY <1>1, <1>2, <1>3, <1>4, <1>5 DEF Commands!Next

\* However many commands are written, acknowledged late, twice or never: a command
\* is reported as sent only when an acknowledgement reached its own closure
\* (WriteCommand of pkg/xiaomi/miss/cs2/conn.go and pkg/tutk/conn.go).
THEOREM SentIsConfirmed ==
    ASSUME CommandAssumption
    PROVE  Commands!Init /\ [][Commands!Next]_(Commands!vars)
             => [](Commands!TypeOK /\ Commands!DoneIsConfirmed)
<1>1. Commands!Init => CommandInv
  <2> SUFFICES ASSUME Commands!Init PROVE CommandInv
    OBVIOUS
  <2>1. /\ writer = [w \in Writers |-> "out"] /\ repeat = [w \in Writers |-> 0]
        /\ cmdAck = NoWriter /\ acks = [w \in Writers |-> 0]
        /\ alive = TRUE /\ confirmed = {}
    BY DEF Commands!Init
  <2>2. CommandTypes /\ OneCommand /\ AcksHaveClosure
    BY <2>1 DEF CommandTypes, OneCommand, AcksHaveClosure, CommandAssumption
  <2>3. CountedDown /\ Commands!DoneIsConfirmed
    BY <2>1 DEF CountedDown, Commands!DoneIsConfirmed
  <2>4. AliveIsFlag
    BY <2>1, Zenon DEF AliveIsFlag
  <2>5. QED
    BY <2>2, <2>3, <2>4 DEF CommandInv
<1>2. CommandInv /\ [Commands!Next]_(Commands!vars) => CommandInv'
  BY CommandStep
<1>3. CommandInv => Commands!TypeOK /\ Commands!DoneIsConfirmed
  BY DEF CommandInv, CommandTypes, AliveIsFlag, Commands!TypeOK
<1>4. QED
  BY <1>1, <1>2, <1>3, PTL

(***************************************************************************)
(* The pairing list                                                        *)
(***************************************************************************)
PairingTypes ==
    /\ pairings \subseteq Controllers /\ removed \subseteq Controllers
    /\ handler \in [Links -> [at : {"off", "setup", "set", "verify", "verified", "open"},
                              who : Controllers \cup {NoOne}]]
    /\ \A l \in Links : handler[l].at # "off" => handler[l].who \in Controllers

\* The list, the file and the announced status are changed in one critical section,
\* and nobody who is on the list is out of it.
ListIsSaved == saved = pairings /\ pairings \cap removed = {}

PairingInv == PairingTypes /\ ListIsSaved /\ Pairing!FlagIsTrue

\* What a handler does to the list: nothing, one controller more, or one less.
ListKept == UNCHANGED <<pairings, saved, flag, removed>>
OneMore(c) ==
    /\ pairings' = pairings \cup {c} /\ saved' = pairings' /\ removed' = removed \ {c}
    /\ flag' = (pairings' # {})
OneLess(c) ==
    /\ pairings' = pairings \ {c} /\ saved' = pairings' /\ removed' = removed \cup {c}
    /\ flag' = (pairings' # {})

\* AddPair and DelPair do the same whether the controller is on the list or not.
LEMMA Updated ==
    ASSUME PairingInv, NEW c \in Controllers
    PROVE  /\ Pairing!AddPair(c) => OneMore(c)
           /\ Pairing!DelPair(c) => OneLess(c)
<1>0. saved = pairings /\ flag = (pairings # {})
  BY DEF PairingInv, ListIsSaved, Pairing!FlagIsTrue
<1>1. ASSUME Pairing!AddPair(c) PROVE OneMore(c)
  <2>1. removed' = removed \ {c}
    BY <1>1 DEF Pairing!AddPair
  <2>2. CASE c \in pairings
    <3>1. UNCHANGED <<pairings, saved, flag>>
      BY <1>1, <2>2 DEF Pairing!AddPair
    <3>2. pairings' = pairings \cup {c} /\ saved' = pairings'
      BY <1>0, <2>2, <3>1
    <3>3. flag' = (pairings' # {})
      BY <1>0, <3>1
    <3>4. QED
      BY <2>1, <3>2, <3>3 DEF OneMore
  <2>3. CASE c \notin pairings
    BY <1>1, <2>1, <2>3 DEF Pairing!AddPair, Pairing!Update, OneMore
  <2>4. QED
    BY <2>2, <2>3
<1>2. ASSUME Pairing!DelPair(c) PROVE OneLess(c)
  <2>1. removed' = removed \cup {c}
    BY <1>2 DEF Pairing!DelPair
  <2>2. CASE c \notin pairings
    <3>1. UNCHANGED <<pairings, saved, flag>>
      BY <1>2, <2>2 DEF Pairing!DelPair
    <3>2. pairings' = pairings \ {c} /\ saved' = pairings'
      BY <1>0, <2>2, <3>1
    <3>3. flag' = (pairings' # {})
      BY <1>0, <3>1
    <3>4. QED
      BY <2>1, <3>2, <3>3 DEF OneLess
  <2>3. CASE c \in pairings
    BY <1>2, <2>1, <2>3 DEF Pairing!DelPair, Pairing!Update, OneLess
  <2>4. QED
    BY <2>2, <2>3
<1>3. QED
  BY <1>1, <1>2

\* The list stays saved and announced, and free of those who were removed.
LEMMA ListStep ==
    ASSUME PairingInv, ListKept \/ \E c \in Controllers : OneMore(c) \/ OneLess(c)
    PROVE  /\ pairings' \subseteq Controllers /\ removed' \subseteq Controllers
           /\ ListIsSaved' /\ Pairing!FlagIsTrue'
<1>0. PairingTypes /\ ListIsSaved /\ Pairing!FlagIsTrue
  BY DEF PairingInv
<1>1. pairings' \subseteq Controllers /\ removed' \subseteq Controllers
  BY <1>0 DEF PairingTypes, ListKept, OneMore, OneLess
<1>2. ListIsSaved'
  BY <1>0 DEF ListIsSaved, ListKept, OneMore, OneLess
<1>3. Pairing!FlagIsTrue'
  <2>1. CASE ListKept
    BY <1>0, <2>1 DEF Pairing!FlagIsTrue, ListKept
  <2>2. CASE \E c \in Controllers : OneMore(c) \/ OneLess(c)
    BY <2>2, Zenon DEF Pairing!FlagIsTrue, OneMore, OneLess
  <2>3. QED
    BY <2>1, <2>2
<1>4. QED
  BY <1>1, <1>2, <1>3

\* Every step is one of three: the list is kept and a handler goes on; the list
\* changes; the process starts again.  Only PairVerifyFinish verifies, and only
\* who is on the list.
LEMMA PairingStep ==
    ASSUME PairingInv, [Pairing!Next]_(Pairing!vars)
    PROVE  /\ PairingInv'
           /\ \A l \in Links : handler'[l].at = "verified" /\ handler[l].at # "verified"
                                  => handler'[l].who \notin removed
<1>0. PairingTypes /\ ListIsSaved /\ Pairing!FlagIsTrue
  BY DEF PairingInv
<1> DEFINE Phases == {"off", "setup", "set", "verify", "verified", "open"}
           Handlers == [at : Phases, who : Controllers \cup {NoOne}]
           Known(h) == h.at # "off" => h.who \in Controllers
           Admits(l) == handler'[l].at = "verified" /\ handler[l].at # "verified"
                           => handler'[l].who \notin removed
           Goal == PairingInv' /\ \A l \in Links : Admits(l)
<1>1. ASSUME NEW l \in Links, NEW h \in Handlers, Known(h),
             handler' = [handler EXCEPT ![l] = h],
             h.at = "verified" /\ handler[l].at # "verified" => h.who \notin removed,
             ListKept \/ \E c \in Controllers : OneMore(c) \/ OneLess(c)
      PROVE  Goal
  <2>1. \A k \in Links : handler'[k] = IF k = l THEN h ELSE handler[k]
    BY <1>0, <1>1 DEF PairingTypes
  <2>2. PairingTypes'
    BY <1>0, <1>1, <2>1, ListStep DEF PairingTypes
  <2>3. \A k \in Links : Admits(k)
    BY <1>1, <2>1
  <2>4. QED
    BY <1>1, <2>2, <2>3, ListStep DEF PairingInv
<1>2. ASSUME NEW l \in Links, NEW from \in Phases, NEW to \in Phases \ {"off", "verified"},
             Pairing!GoTo(l, from, to), from # "off", ListKept
      PROVE  Goal
  <2> DEFINE h == [handler[l] EXCEPT !.at = to]
  <2>1. handler[l] \in Handlers /\ handler[l].at = from /\ handler[l].who \in Controllers
    BY <1>0, <1>2 DEF PairingTypes, Pairing!GoTo, Pairing!At
  <2>2. handler' = [handler EXCEPT ![l] = h]
    BY <1>2 DEF Pairing!GoTo
  <2>3. h \in Handlers /\ h.at = to /\ h.who \in Controllers
    BY <2>1
  <2> HIDE DEF h
  <2>4. QED
    BY <1>1, <1>2, <2>2, <2>3
<1>3. ASSUME NEW l \in Links, Pairing!HangUp(l),
             ListKept \/ \E c \in Controllers : OneMore(c) \/ OneLess(c)
      PROVE  Goal
  <2>1. /\ Pairing!Off \in Handlers /\ Pairing!Off.at = "off"
        /\ handler' = [handler EXCEPT ![l] = Pairing!Off]
    BY <1>3 DEF Pairing!HangUp, Pairing!Off
  <2>2. QED
    BY <1>1, <1>3, <2>1
<1>4. ASSUME NEW l \in Links, NEW c \in Controllers, NEW phase \in {"setup", "verify"},
             Pairing!Dial(l, c, phase)
      PROVE  Goal
  <2> DEFINE h == [at |-> phase, who |-> c]
  <2>1. handler' = [handler EXCEPT ![l] = h] /\ ListKept
    BY <1>4 DEF Pairing!Dial, ListKept
  <2>2. h \in Handlers /\ h.at = phase /\ h.who \in Controllers
    OBVIOUS
  <2> HIDE DEF h
  <2>3. QED
    BY <1>1, <1>4, <2>1, <2>2
<1>5. ASSUME NEW l \in Links, Pairing!PairSetupExchange(l) PROVE Goal
  BY <1>2, <1>5 DEF Pairing!PairSetupExchange, ListKept
<1>6. ASSUME NEW l \in Links, Pairing!AddConn(l) PROVE Goal
  BY <1>2, <1>6 DEF Pairing!AddConn, ListKept
<1>7. ASSUME NEW l \in Links, Pairing!Paired(l) PROVE Goal
  <2>1. handler[l].who \in Controllers
    BY <1>0, <1>7 DEF Pairing!Paired, Pairing!At, PairingTypes
  <2>2. Pairing!HangUp(l) /\ OneMore(handler[l].who)
    BY <1>7, <2>1, Updated DEF Pairing!Paired
  <2>3. QED
    BY <1>3, <2>1, <2>2
<1>8. ASSUME NEW l \in Links, Pairing!PairVerifyFinish(l) PROVE Goal
  <2>1. ListKept /\ handler[l].at = "verify"
    BY <1>8 DEF Pairing!PairVerifyFinish, ListKept, Pairing!At
  <2>2. CASE Pairing!HangUp(l)
    BY <1>3, <2>1, <2>2
  <2>3. CASE handler[l].who \in pairings /\ Pairing!GoTo(l, "verify", "verified")
    <3> DEFINE h == [handler[l] EXCEPT !.at = "verified"]
    <3>1. handler' = [handler EXCEPT ![l] = h]
      BY <2>3 DEF Pairing!GoTo
    <3>2. h \in Handlers /\ h.at = "verified" /\ h.who = handler[l].who
      BY <1>0 DEF PairingTypes
    <3>3. h.who \in Controllers /\ h.who \notin removed
      BY <1>0, <2>3, <3>2 DEF PairingTypes, ListIsSaved
    <3> HIDE DEF h
    <3>4. QED
      BY <1>1, <2>1, <3>1, <3>2, <3>3
  <2>4. QED
    BY <1>8, <2>2, <2>3 DEF Pairing!PairVerifyFinish
<1>9. ASSUME NEW l \in Links, NEW c \in Controllers, Pairing!HandlePairings(l, c) PROVE Goal
  <2>1. UNCHANGED handler /\ (OneMore(c) \/ OneLess(c))
    BY <1>9, Updated DEF Pairing!HandlePairings
  <2>2. PairingTypes'
    BY <1>0, <2>1, ListStep DEF PairingTypes
  <2>3. QED
    BY <2>1, <2>2, ListStep DEF PairingInv
<1>10. ASSUME NEW l \in Links, Pairing!Close(l) PROVE Goal
  BY <1>3, <1>10 DEF Pairing!Close, ListKept
<1>11. ASSUME Pairing!Restart PROVE Goal
  <2>1. /\ pairings' = saved /\ flag' = (saved # {}) /\ UNCHANGED <<saved, removed>>
        /\ handler' = [l \in Links |-> Pairing!Off]
    BY <1>11 DEF Pairing!Restart, Pairing!Load
  <2>2. UNCHANGED <<pairings, saved, removed>>
    BY <1>0, <2>1 DEF ListIsSaved
  <2>3. PairingTypes' /\ ListIsSaved'
    BY <1>0, <2>1, <2>2 DEF PairingTypes, ListIsSaved, Pairing!Off
  <2>4. Pairing!FlagIsTrue'
    <3>1. flag' = (pairings' # {})
      BY <2>1
    <3>2. QED
      BY <3>1 DEF Pairing!FlagIsTrue
  <2>5. \A l \in Links : Admits(l)
    BY <2>1 DEF Pairing!Off
  <2>6. QED
    BY <2>3, <2>4, <2>5 DEF PairingInv
<1>12. ASSUME UNCHANGED Pairing!vars PROVE Goal
  <2>1. ListKept /\ UNCHANGED handler
    BY <1>12 DEF Pairing!vars, ListKept
  <2>2. PairingTypes'
    BY <1>0, <2>1 DEF PairingTypes, ListKept
  <2>3. QED
    BY <2>1, <2>2, ListStep DEF PairingInv
<1> HIDE DEF Goal
<1>13. Goal
  BY <1>4, <1>5, <1>6, <1>7, <1>8, <1>9, <1>10, <1>11, <1>12
     DEF Pairing!Next, Pairing!PairSetup, Pairing!PairVerify
<1>14. QED
  BY <1>13 DEF Goal

LEMMA PairingInit == ASSUME Pairing!Init PROVE PairingInv
<1>1. /\ pairings = {} /\ saved = {} /\ flag = FALSE /\ removed = {}
      /\ handler = [l \in Links |-> Pairing!Off]
  BY DEF Pairing!Init
<1>2. PairingTypes /\ ListIsSaved
  BY <1>1 DEF PairingTypes, ListIsSaved, Pairing!Off
<1>3. Pairing!FlagIsTrue
  BY <1>1, Zenon DEF Pairing!FlagIsTrue
<1>4. QED
  BY <1>2, <1>3 DEF PairingInv

\* The accessory announces itself as paired exactly while it has a pairing, through
\* every handshake, removal and restart (UpdateStatus).
THEOREM AnnouncedIsTrue ==
    Pairing!Init /\ [][Pairing!Next]_(Pairing!vars) => []Pairing!FlagIsTrue
<1>1. PairingInv /\ [Pairing!Next]_(Pairing!vars) => PairingInv'
  BY PairingStep
<1>2. PairingInv => Pairing!FlagIsTrue
  BY DEF PairingInv
<1>3. Pairing!Init => PairingInv
  BY PairingInit
<1>4. QED
  BY <1>1, <1>2, <1>3, PTL

\* A controller that was removed gets through no handshake until it is set up or
\* added again: no concurrent handler and no restart brings its entry back
\* (server.go AddPair, DelPair and the file they write).
THEOREM RemovedIsRefused ==
    Pairing!Init /\ [][Pairing!Next]_(Pairing!vars) => Pairing!RemovedStaysOut
<1>1. PairingInv /\ [Pairing!Next]_(Pairing!vars) => PairingInv'
  BY PairingStep
<1>2. PairingInv /\ [Pairing!Next]_(Pairing!vars)
        => [\A l \in Links : handler'[l].at = "verified" /\ handler[l].at # "verified"
                                => handler'[l].who \notin removed]_(Pairing!vars)
  BY PairingStep
<1>3. Pairing!Init => PairingInv
  BY PairingInit
<1>4. QED
  BY <1>1, <1>2, <1>3, PTL DEF Pairing!RemovedStaysOut

(***************************************************************************)
(* The shared SRTP socket                                                  *)
(***************************************************************************)
\* There is a number for the next socket: none of those in use.
ServerAssumption ==
    IsFiniteSet(Readers) /\ MaxSockets \in Nat /\ MaxSockets > Cardinality(Readers) + 1

ServerTypes ==
    /\ sessions \subseteq Users /\ sock \in {0} \cup Server!Sockets
    /\ open \subseteq Server!Sockets /\ conn \in [Users -> {0} \cup Server!Sockets]
    /\ reader \in [Readers -> [at : {"off", "top", "busy", "read"},
                               on : {0} \cup Server!Sockets]]

ServerInv == ServerTypes /\ Server!NoSocketLeak /\ Server!SessionsAreServed

LEMMA FreshExists ==
    ASSUME ServerAssumption, ServerTypes, open = {}
    PROVE  Server!Fresh \in Server!Sockets /\ Server!Fresh # sock
<1> DEFINE f == [r \in Readers |-> reader[r].on]
           Used == Range(f) \cup {sock}
<1>1. f \in Surjection(Readers, Range(f))
  <2>1. f \in [Readers -> {0} \cup Server!Sockets]
    BY DEF ServerTypes
  <2>2. QED
    BY <2>1, Fun_RangeProperties
<1>2. IsFiniteSet(Range(f)) /\ Cardinality(Range(f)) <= Cardinality(Readers)
  BY <1>1, FS_Surjection DEF ServerAssumption
<1>3. Cardinality(Range(f)) \in Nat /\ Cardinality(Readers) \in Nat
  BY <1>2, FS_CardinalityType DEF ServerAssumption
<1>4. IsFiniteSet(Used) /\ Cardinality(Used) <= Cardinality(Readers) + 1
  BY <1>2, <1>3, FS_AddElement
<1>5. IsFiniteSet(Server!Sockets) /\ Cardinality(Server!Sockets) = MaxSockets
  BY FS_Interval DEF Server!Sockets, ServerAssumption
<1>6. ~(Server!Sockets \subseteq Used)
  <2> SUFFICES ASSUME Server!Sockets \subseteq Used PROVE FALSE
    OBVIOUS
  <2>1. Cardinality(Server!Sockets) <= Cardinality(Used)
    BY <1>4, FS_Subset
  <2>2. Cardinality(Used) \in Nat
    BY <1>4, FS_CardinalityType
  <2>3. QED
    BY <1>3, <1>4, <1>5, <2>1, <2>2 DEF ServerAssumption
<1>7. \A r \in Readers : reader[r].on \in Range(f)
  BY DEF Range
<1>8. \E n \in Server!Sockets : n # sock /\ n \notin open /\ \A r \in Readers : reader[r].on # n
  BY <1>6, <1>7
<1>9. QED
  BY <1>8 DEF Server!Fresh

\* A step other than a new session leaves the socket or closes the last one's.
LEMMA ServerStep ==
    ASSUME ServerAssumption, ServerInv, [Server!Next]_(Server!vars)
    PROVE  ServerInv'
<1>0. ServerTypes /\ Server!NoSocketLeak /\ Server!SessionsAreServed
  BY DEF ServerInv
<1>1. ASSUME NEW u \in Users, Server!Listen(u) PROVE ServerInv'
  <2>1. PICK r \in Readers :
           /\ sessions = {} /\ sock' = Server!Fresh /\ open' = open \cup {Server!Fresh}
           /\ reader' = [reader EXCEPT ![r] = Server!Top]
           /\ conn' = [conn EXCEPT ![u] = Server!Fresh] /\ sessions' = {u}
    BY <1>1 DEF Server!Listen
  <2>2. open = {}
    BY <1>0, <2>1 DEF Server!NoSocketLeak
  <2>3. sock' \in Server!Sockets /\ open' = {sock'} /\ conn' = [conn EXCEPT ![u] = sock']
    BY <1>0, <2>1, <2>2, FreshExists
  <2>4. ServerTypes'
    BY <1>0, <2>1, <2>3 DEF ServerTypes, Server!Top
  <2>5. Server!NoSocketLeak'
    BY <2>1, <2>3 DEF Server!NoSocketLeak
  <2>6. reader'[r].at = "top" /\ conn'[u] = sock'
    BY <1>0, <2>1, <2>3 DEF ServerTypes, Server!Top
  <2>7. Server!SessionsAreServed'
    BY <2>1, <2>3, <2>6 DEF Server!SessionsAreServed
  <2>8. QED
    BY <2>4, <2>5, <2>7 DEF ServerInv
<1>2. ASSUME NEW u \in Users, Server!ListenFails(u) PROVE ServerInv'
  BY <1>0, <1>2 DEF Server!ListenFails, ServerInv, ServerTypes, Server!NoSocketLeak,
                    Server!SessionsAreServed
<1>3. ASSUME NEW u \in Users, Server!Register(u) PROVE ServerInv'
  <2>1. /\ sessions # {} /\ conn' = [conn EXCEPT ![u] = sock] /\ sessions' = sessions \cup {u}
        /\ UNCHANGED <<sock, open, reader>>
    BY <1>3 DEF Server!Register
  <2>2. ServerTypes' /\ Server!NoSocketLeak'
    BY <1>0, <2>1 DEF ServerTypes, Server!NoSocketLeak
  <2>3. /\ sock \in open
        /\ \E r \in Readers : reader[r].at \in {"top", "busy"} \/ reader[r].on = sock
    BY <1>0, <2>1 DEF Server!SessionsAreServed
  <2>4. Server!SessionsAreServed'
    BY <1>0, <2>1, <2>3 DEF Server!SessionsAreServed, ServerTypes
  <2>5. QED
    BY <2>2, <2>4 DEF ServerInv
<1>4. ASSUME NEW u \in Users, Server!DelSession(u) PROVE ServerInv'
  <2>1. /\ sessions' = sessions \ {u}
        /\ open' = (IF sessions' = {} THEN open \ {sock} ELSE open)
        /\ UNCHANGED <<sock, conn, reader>>
    BY <1>4 DEF Server!DelSession
  <2>2. ServerTypes' /\ Server!NoSocketLeak'
    BY <1>0, <2>1 DEF ServerTypes, Server!NoSocketLeak
  <2>3. Server!SessionsAreServed'
    BY <1>0, <2>1 DEF Server!SessionsAreServed
  <2>4. QED
    BY <2>2, <2>3 DEF ServerInv
<1>5. ASSUME NEW r \in Readers, Server!ReadFrom(r) PROVE ServerInv'
  <2>1. /\ reader[r].at = "top" /\ UNCHANGED <<sessions, sock, open, conn>>
        /\ \/ UNCHANGED reader
           \/ reader' = [reader EXCEPT ![r] = [at |-> "read", on |-> sock]]
    BY <1>5 DEF Server!ReadFrom
  <2>2. ServerTypes' /\ Server!NoSocketLeak'
    BY <1>0, <2>1 DEF ServerTypes, Server!NoSocketLeak
  <2>3. CASE UNCHANGED reader
    BY <1>0, <2>1, <2>2, <2>3 DEF ServerInv, Server!SessionsAreServed
  <2>4. CASE reader' = [reader EXCEPT ![r] = [at |-> "read", on |-> sock]]
    <3>1. reader'[r].on = sock
      BY <1>0, <2>4 DEF ServerTypes
    <3>2. Server!SessionsAreServed'
      BY <1>0, <2>1, <3>1 DEF Server!SessionsAreServed
    <3>3. QED
      BY <2>2, <3>2 DEF ServerInv
  <2>5. QED
    BY <2>1, <2>3, <2>4
<1>6. ASSUME NEW r \in Readers, Server!Packet(r) \/ Server!Handled(r) PROVE ServerInv'
  <2>1. /\ UNCHANGED <<sessions, sock, open, conn>>
        /\ \E h \in {[at |-> "busy", on |-> 0], [at |-> "top", on |-> 0]} :
              reader' = [reader EXCEPT ![r] = h]
    BY <1>6 DEF Server!Packet, Server!Handled, Server!Top
  <2>2. ServerTypes' /\ Server!NoSocketLeak'
    BY <1>0, <2>1 DEF ServerTypes, Server!NoSocketLeak
  <2>3. reader'[r].at \in {"top", "busy"}
    BY <1>0, <2>1 DEF ServerTypes
  <2>4. Server!SessionsAreServed'
    BY <1>0, <2>1, <2>3 DEF Server!SessionsAreServed
  <2>5. QED
    BY <2>2, <2>4 DEF ServerInv
<1>7. ASSUME NEW r \in Readers, Server!Ended(r) PROVE ServerInv'
  <2>1. /\ reader[r].at = "read" /\ reader[r].on \notin open
        /\ reader' = [reader EXCEPT ![r] = Server!Idle]
        /\ UNCHANGED <<sessions, sock, open, conn>>
    BY <1>7 DEF Server!Ended
  <2>2. ServerTypes' /\ Server!NoSocketLeak'
    BY <1>0, <2>1 DEF ServerTypes, Server!NoSocketLeak, Server!Idle
  <2>3. \A q \in Readers : q # r => reader'[q] = reader[q]
    BY <1>0, <2>1 DEF ServerTypes
  <2>4. Server!SessionsAreServed'
    BY <1>0, <2>1, <2>3 DEF Server!SessionsAreServed
  <2>5. QED
    BY <2>2, <2>4 DEF ServerInv
<1>8. CASE UNCHANGED Server!vars
  BY <1>0, <1>8 DEF ServerInv, ServerTypes, Server!NoSocketLeak, Server!SessionsAreServed,
                    Server!vars
<1>9. QED
  BY <1>1, <1>2, <1>3, <1>4, <1>5, <1>6, <1>7, <1>8 DEF Server!Next, Server!AddSession

\* Whoever closed and opened sockets in between: a registered session has the open
\* socket and a reader that is on it or comes back to it, and no socket outlives
\* its sessions (pkg/srtp/server.go AddSession, DelSession, handle).
THEOREM SocketIsServed ==
    ASSUME ServerAssumption
    PROVE  Server!Init /\ [][Server!Next]_(Server!vars)
             => [](Server!SessionsAreServed /\ Server!NoSocketLeak)
<1>1. Server!Init => ServerInv
  BY DEF Server!Init, ServerInv, ServerTypes, Server!NoSocketLeak, Server!SessionsAreServed,
         Server!Idle
<1>2. ServerInv /\ [Server!Next]_(Server!vars) => ServerInv'
  BY ServerStep
<1>3. ServerInv => Server!SessionsAreServed /\ Server!NoSocketLeak
  BY DEF ServerInv
<1>4. QED
  BY <1>1, <1>2, <1>3, PTL

(***************************************************************************)
(* The viewers of the accessory                                            *)
(***************************************************************************)
ViewerAssumption ==
    /\ IsFiniteSet(Links) /\ NoOne \notin Controllers \cup Sessions \cup Links
    /\ Most \in [Sessions -> Nat] /\ MaxQueued \in Nat

ViewerTypes ==
    /\ link \in [Links -> [at: Viewers!Phases, who: Controllers \cup {NoOne},
                           doing: Sessions \cup {NoOne}]]
    /\ slot \in Sessions \cup {NoOne}
    /\ offer \in [Sessions -> [by: Links \cup {NoOne}, who: Controllers \cup {NoOne},
                               answered: BOOLEAN]]
    /\ deadline \in [Sessions -> {"nil", "armed", "due"}]
    /\ sending \subseteq Sessions /\ queued \in [Sessions -> 0..MaxQueued]
    /\ listed \in [Sessions -> Nat] /\ attached \in [Sessions -> Nat]
    /\ waiting \in [Sessions -> Nat] /\ leaving \in [Sessions -> Nat]

\* A handler that starts a session serves the controller the session was offered
\* by, or its connection is closed by now.
Serving ==
    \A l \in Links :
        /\ link[l].at \in {"off", "open"} <=> link[l].doing = NoOne
        /\ link[l].at = "open" => link[l].who \in Controllers
        /\ link[l].doing # NoOne => /\ offer[link[l].doing].who \in Controllers
                                    /\ link[l].who \in {NoOne, offer[link[l].doing].who}

Starting(s) == {l \in Links : link[l].doing = s}

\* Each start of a session, each of its viewers and each viewer that leaves has an
\* entry in the list of connections; a start that failed leaves one behind.
Entries ==
    \A s \in Sessions :
        /\ listed[s] <= Most[s] /\ waiting[s] = attached[s]
        /\ Cardinality(Starting(s)) + attached[s] + leaving[s] <= listed[s]

ViewerInv == ViewerTypes /\ Serving /\ Entries

LEMMA StartingFinite ==
    ASSUME ViewerAssumption
    PROVE  \A s : IsFiniteSet(Starting(s)) /\ Cardinality(Starting(s)) \in Nat
<1>1. \A s : Starting(s) \subseteq Links
  BY DEF Starting
<1>2. QED
  BY <1>1, FS_Subset, FS_CardinalityType DEF ViewerAssumption

\* What a step leaves to the list of connections and the viewers.
LEMMA EntriesKept ==
    ASSUME ViewerAssumption, Entries,
           UNCHANGED <<listed, attached, waiting, leaving>>,
           \A l \in Links : link'[l].doing = link[l].doing
    PROVE  Entries'
<1>1. \A s \in Sessions : Starting(s)' = Starting(s)
  BY DEF Starting
<1>2. QED
  BY <1>1 DEF Entries

\* HangUp closes a connection whose handler is between two requests.
LEMMA HangUpKeeps ==
    ASSUME ViewerAssumption, ViewerInv, NEW l \in Links, link[l].at = "open", Viewers!HangUp(l)
    PROVE  /\ link' \in [Links -> [at: Viewers!Phases, who: Controllers \cup {NoOne},
                                   doing: Sessions \cup {NoOne}]]
           /\ offer' \in [Sessions -> [by: Links \cup {NoOne}, who: Controllers \cup {NoOne},
                                       answered: BOOLEAN]]
           /\ Serving' /\ \A m \in Links : link'[m].doing = link[m].doing
<1>1. /\ link' = [link EXCEPT ![l] = [at |-> "off", who |-> NoOne, doing |-> NoOne]]
      /\ link[l].doing = NoOne
  BY DEF Viewers!HangUp, Viewers!Off, ViewerInv, Serving
<1>2. \A s \in Sessions : /\ offer'[s] \in {offer[s], [offer[s] EXCEPT !.by = NoOne]}
                          /\ offer'[s].who = offer[s].who
  BY DEF Viewers!HangUp, ViewerInv, ViewerTypes
<1>3. offer' \in [Sessions -> [by: Links \cup {NoOne}, who: Controllers \cup {NoOne},
                               answered: BOOLEAN]]
  BY DEF Viewers!HangUp, ViewerInv, ViewerTypes
<1>4. link' \in [Links -> [at: Viewers!Phases, who: Controllers \cup {NoOne},
                           doing: Sessions \cup {NoOne}]]
  BY <1>1 DEF ViewerInv, ViewerTypes, Viewers!Phases
<1>5. \A m \in Links : link'[m].doing = link[m].doing
  BY <1>1 DEF ViewerInv, ViewerTypes
<1>6. Serving'
  <2> SUFFICES ASSUME NEW m \in Links
               PROVE /\ link'[m].at \in {"off", "open"} <=> link'[m].doing = NoOne
                     /\ link'[m].at = "open" => link'[m].who \in Controllers
                     /\ link'[m].doing # NoOne =>
                           /\ offer'[link'[m].doing].who \in Controllers
                           /\ link'[m].who \in {NoOne, offer'[link'[m].doing].who}
    BY DEF Serving
  <2>1. link'[m] = link[m] \/ link'[m] = [at |-> "off", who |-> NoOne, doing |-> NoOne]
    BY <1>1 DEF ViewerInv, ViewerTypes
  <2>2. link[m].doing \in Sessions \cup {NoOne}
    BY DEF ViewerInv, ViewerTypes
  <2>3. QED
    BY <1>2, <2>1, <2>2 DEF ViewerInv, Serving
<1>7. QED
  BY <1>3, <1>4, <1>5, <1>6

\* Stop closes the connection of the session, or marks it when its handler is in
\* the middle of a start.
LEMMA StopKeeps ==
    ASSUME ViewerAssumption, ViewerInv, NEW s \in Sessions, Viewers!Stop(s)
    PROVE  /\ link' \in [Links -> [at: Viewers!Phases, who: Controllers \cup {NoOne},
                                   doing: Sessions \cup {NoOne}]]
           /\ offer' \in [Sessions -> [by: Links \cup {NoOne}, who: Controllers \cup {NoOne},
                                       answered: BOOLEAN]]
           /\ deadline' \in [Sessions -> {"nil", "armed", "due"}]
           /\ sending' \subseteq sending /\ queued' \in [Sessions -> 0..MaxQueued]
           /\ Serving' /\ \A m \in Links : link'[m].doing = link[m].doing
<1>1. \A t \in Sessions : offer'[t].who = offer[t].who
  BY DEF Viewers!Stop, ViewerInv, ViewerTypes
<1>2. offer' \in [Sessions -> [by: Links \cup {NoOne}, who: Controllers \cup {NoOne},
                               answered: BOOLEAN]]
  <2>1. /\ offer \in [Sessions -> [by: Links \cup {NoOne}, who: Controllers \cup {NoOne},
                                    answered: BOOLEAN]]
        /\ offer' = [t \in Sessions |-> IF offer[t].by = offer[s].by
                                          THEN [offer[t] EXCEPT !.by = NoOne] ELSE offer[t]]
    BY DEF Viewers!Stop, ViewerInv, ViewerTypes
  <2>2. QED
    BY <2>1
<1>3. \A m \in Links :
         \/ link'[m] = link[m]
         \/ link[m].at = "open" /\ link'[m] = [at |-> "off", who |-> NoOne, doing |-> NoOne]
         \/ link[m].at # "open" /\ link'[m] = [link[m] EXCEPT !.who = NoOne]
  BY DEF Viewers!Stop, Viewers!Off
<1>4. link' \in [Links -> [at: Viewers!Phases, who: Controllers \cup {NoOne},
                           doing: Sessions \cup {NoOne}]]
  BY DEF Viewers!Stop, Viewers!Off, Viewers!Phases, ViewerInv, ViewerTypes
<1>5. \A m \in Links :
         /\ link[m].doing \in Sessions \cup {NoOne}
         /\ link'[m].doing = link[m].doing
         /\ \/ link'[m].at = link[m].at /\ link'[m].who = link[m].who
            \/ link[m].at = "open" /\ link'[m].at = "off"
            \/ link[m].at # "open" /\ link'[m].at = link[m].at /\ link'[m].who = NoOne
         /\ link[m].at = "open" => link[m].doing = NoOne
  <2> SUFFICES ASSUME NEW m \in Links
               PROVE /\ link[m].doing \in Sessions \cup {NoOne}
                     /\ link'[m].doing = link[m].doing
                     /\ \/ link'[m].at = link[m].at /\ link'[m].who = link[m].who
                        \/ link[m].at = "open" /\ link'[m].at = "off"
                        \/ /\ link[m].at # "open" /\ link'[m].at = link[m].at
                           /\ link'[m].who = NoOne
                     /\ link[m].at = "open" => link[m].doing = NoOne
    OBVIOUS
  <2>1. /\ link[m] \in [at: Viewers!Phases, who: Controllers \cup {NoOne},
                        doing: Sessions \cup {NoOne}]
        /\ link[m].at = "open" => link[m].doing = NoOne
    BY DEF ViewerInv, ViewerTypes, Serving
  <2>2. CASE link'[m] = link[m]
    BY <2>1, <2>2
  <2>3. CASE link[m].at = "open" /\ link'[m] = [at |-> "off", who |-> NoOne, doing |-> NoOne]
    BY <2>1, <2>3
  <2>4. CASE link[m].at # "open" /\ link'[m] = [link[m] EXCEPT !.who = NoOne]
    BY <2>1, <2>4
  <2>5. QED
    BY <1>3, <2>2, <2>3, <2>4
<1>6. Serving'
  BY <1>1, <1>5 DEF ViewerInv, Serving
<1>7. deadline' \in [Sessions -> {"nil", "armed", "due"}] /\ sending' \subseteq sending
  BY DEF Viewers!Stop, ViewerInv, ViewerTypes
<1>8. queued' \in [Sessions -> 0..MaxQueued]
  BY DEF Viewers!Stop, Viewers!Left, ViewerInv, ViewerTypes
<1>9. QED
  BY <1>2, <1>4, <1>5, <1>6, <1>7, <1>8

\* A counter that goes up or down by one.
LEMMA StepKeeps ==
    ASSUME NEW f \in [Sessions -> Nat], NEW g, NEW s \in Sessions, NEW by \in {1, -1},
           g = [f EXCEPT ![s] = @ + by], f[s] + by >= 0
    PROVE  /\ g \in [Sessions -> Nat] /\ g[s] = f[s] + by
           /\ \A t \in Sessions \ {s} : g[t] = f[t]
OBVIOUS

\* A start whose handler returns.
LEMMA ReturnKeeps ==
    ASSUME ViewerAssumption, ViewerInv, NEW l \in Links, NEW from \in {"start", "tracked"},
           Viewers!Return(l, from), UNCHANGED offer, NEW s, s = link[l].doing
    PROVE  /\ link' \in [Links -> [at: Viewers!Phases, who: Controllers \cup {NoOne},
                                   doing: Sessions \cup {NoOne}]]
           /\ Serving' /\ s \in Sessions
           /\ Cardinality(Starting(s)') = Cardinality(Starting(s)) - 1
           /\ \A t \in Sessions \ {s} : Starting(t)' = Starting(t)
<1>1. /\ link[l].at = from
      /\ link[l] \in [at: Viewers!Phases, who: Controllers \cup {NoOne},
                      doing: Sessions \cup {NoOne}]
  BY DEF Viewers!Return, Viewers!At, ViewerInv, ViewerTypes
<1>2. s \in Sessions
  BY <1>1 DEF ViewerInv, Serving
<1> DEFINE off == [at |-> "off", who |-> NoOne, doing |-> NoOne]
           reopened == [link[l] EXCEPT !.at = "open", !.doing = NoOne]
           back == IF link[l].who = NoOne THEN off ELSE reopened
<1>3. /\ link' = [link EXCEPT ![l] = back] /\ back.doing = NoOne
      /\ back \in [at: Viewers!Phases, who: Controllers \cup {NoOne}, doing: Sessions \cup {NoOne}]
      /\ \/ back.at = "off" /\ back.who = NoOne
         \/ back.at = "open" /\ back.who = link[l].who /\ back.who # NoOne
  <2>1. link' = [link EXCEPT ![l] = back]
    BY Zenon DEF Viewers!Return, Viewers!Off
  <2>2. /\ off \in [at: Viewers!Phases, who: Controllers \cup {NoOne}, doing: Sessions \cup {NoOne}]
        /\ off.at = "off" /\ off.who = NoOne /\ off.doing = NoOne
    BY DEF Viewers!Phases
  <2>3. /\ reopened \in [at: Viewers!Phases, who: Controllers \cup {NoOne}, doing: Sessions \cup {NoOne}]
        /\ reopened.at = "open" /\ reopened.who = link[l].who /\ reopened.doing = NoOne
    BY <1>1 DEF Viewers!Phases
  <2> HIDE DEF off, reopened
  <2>4. QED
    BY <2>1, <2>2, <2>3
<1> HIDE DEF back
<1>4. link' \in [Links -> [at: Viewers!Phases, who: Controllers \cup {NoOne},
                          doing: Sessions \cup {NoOne}]]
  BY <1>3 DEF ViewerInv, ViewerTypes
<1>5. link'[l] = back /\ \A m \in Links \ {l} : link'[m] = link[m]
  BY <1>3 DEF ViewerInv, ViewerTypes
<1>6. Serving'
  <2>1. link[l].who \in Controllers \cup {NoOne}
    BY <1>1
  <2>2. QED
    BY <1>3, <1>5, <2>1 DEF ViewerInv, Serving
<1>7. Starting(s)' = Starting(s) \ {l} /\ l \in Starting(s)
  BY <1>2, <1>3, <1>5 DEF Starting, ViewerAssumption
<1>8. \A t \in Sessions \ {s} : Starting(t)' = Starting(t)
  BY <1>2, <1>3, <1>5 DEF Starting, ViewerAssumption
<1>9. Cardinality(Starting(s)') = Cardinality(Starting(s)) - 1
  BY <1>7, StartingFinite, FS_RemoveElement
<1>10. QED
  BY <1>2, <1>4, <1>6, <1>8, <1>9

LEMMA ViewerStep ==
    ASSUME ViewerAssumption, ViewerInv, [Viewers!Next]_(Viewers!vars)
    PROVE  ViewerInv'
<1> USE DEF Viewers!viewing, Viewers!running, Viewers!consumers, Viewers!At
<1>0. ViewerTypes /\ Serving /\ Entries
  BY DEF ViewerInv
<1>1. ASSUME NEW l \in Links, NEW c \in Controllers, Viewers!Connect(l, c) PROVE ViewerInv'
  <2>1. /\ link[l].at = "off" /\ link' = [link EXCEPT ![l] = [at |-> "open", who |-> c, doing |-> NoOne]]
        /\ link[l].doing = NoOne
        /\ UNCHANGED <<slot, offer, deadline, sending, queued, listed, attached, waiting, leaving>>
    BY <1>0, <1>1 DEF Viewers!Connect, Serving
  <2>2. ViewerTypes'
    BY <1>0, <2>1 DEF ViewerTypes, Viewers!Phases
  <2>3. \A m \in Links : /\ link'[m] = IF m = l THEN [at |-> "open", who |-> c, doing |-> NoOne]
                                                ELSE link[m]
                         /\ link'[m].doing = link[m].doing
    BY <1>0, <2>1 DEF ViewerTypes
  <2>4. Serving'
    BY <1>0, <2>1, <2>3 DEF Serving
  <2>5. QED
    BY <1>0, <2>1, <2>2, <2>3, <2>4, EntriesKept DEF ViewerInv
<1>2. ASSUME NEW l \in Links, Viewers!Close(l) PROVE ViewerInv'
  <2>1. /\ link[l].at = "open" /\ Viewers!HangUp(l)
        /\ UNCHANGED <<slot, deadline, sending, queued, listed, attached, waiting, leaving>>
    BY <1>2 DEF Viewers!Close
  <2>2. ViewerTypes' /\ Serving' /\ \A m \in Links : link'[m].doing = link[m].doing
    BY <1>0, <2>1, HangUpKeeps DEF ViewerTypes
  <2>3. QED
    BY <1>0, <2>1, <2>2, EntriesKept DEF ViewerInv
<1>3. ASSUME NEW l \in Links, NEW s \in Sessions, Viewers!SetupEndpoints(l, s) PROVE ViewerInv'
  <2>1. /\ link[l].at = "open" /\ offer[s].who = NoOne /\ slot' = s
        /\ offer' = [offer EXCEPT ![s] = [by |-> l, who |-> link[l].who, answered |-> FALSE]]
        /\ UNCHANGED <<link, deadline, sending, queued, listed, attached, waiting, leaving>>
    BY <1>3 DEF Viewers!SetupEndpoints
  <2>2. ViewerTypes'
    BY <1>0, <2>1 DEF ViewerTypes
  <2>3. \A m \in Links : link[m].doing # s /\ link[m].doing \in Sessions \cup {NoOne}
    BY <1>0, <2>1 DEF ViewerTypes, Serving, ViewerAssumption
  <2>4. \A t \in Sessions \ {s} : offer'[t] = offer[t]
    BY <1>0, <2>1 DEF ViewerTypes
  <2>5. Serving'
    BY <1>0, <2>1, <2>3, <2>4 DEF Serving
  <2>6. QED
    BY <1>0, <2>1, <2>2, <2>5, EntriesKept DEF ViewerInv
<1>4. ASSUME NEW l \in Links, Viewers!GetAnswer(l) PROVE ViewerInv'
  <2>1. /\ slot # NoOne /\ offer' = [offer EXCEPT ![slot].answered = TRUE]
        /\ UNCHANGED <<link, slot, deadline, sending, queued, listed, attached, waiting, leaving>>
    BY <1>4 DEF Viewers!GetAnswer
  <2>2. ViewerTypes' /\ \A s \in Sessions : offer'[s].who = offer[s].who
    BY <1>0, <2>1 DEF ViewerTypes
  <2>3. \A m \in Links : link[m].doing \in Sessions \cup {NoOne}
    BY <1>0 DEF ViewerTypes
  <2>4. Serving'
    BY <1>0, <2>1, <2>2, <2>3 DEF Serving
  <2>5. QED
    BY <1>0, <2>1, <2>2, <2>4, EntriesKept DEF ViewerInv
<1>5. ASSUME NEW l \in Links, NEW s \in Sessions, Viewers!Start(l, s) PROVE ViewerInv'
  <2>1. /\ link[l].at = "open" /\ offer[s].who = link[l].who /\ listed[s] < Most[s] /\ s = slot
        /\ UNCHANGED <<slot, deadline, sending, queued, attached, waiting, leaving>>
    BY <1>5 DEF Viewers!Start, Viewers!SetConfig
  <2>2. CASE offer[slot].answered
    <3>1. /\ link' = [link EXCEPT ![l].at = "start", ![l].doing = s]
          /\ listed' = [listed EXCEPT ![s] = @ + 1] /\ offer' = offer
      BY <1>5, <2>1, <2>2 DEF Viewers!Start, Viewers!Step
    <3>2. /\ link[l].doing = NoOne /\ link[l].who \in Controllers
      BY <1>0, <2>1 DEF Serving
    <3>3. /\ \A m \in Links \ {l} : link'[m] = link[m]
          /\ link'[l].at = "start" /\ link'[l].doing = s /\ link'[l].who = link[l].who
          /\ link' \in [Links -> [at: Viewers!Phases, who: Controllers \cup {NoOne},
                                  doing: Sessions \cup {NoOne}]]
      <4>1. link[l] \in [at: Viewers!Phases, who: Controllers \cup {NoOne},
                         doing: Sessions \cup {NoOne}]
        BY <1>0 DEF ViewerTypes
      <4>2. /\ \A m \in Links \ {l} : link'[m] = link[m]
            /\ link'[l] = [link[l] EXCEPT !.at = "start", !.doing = s]
            /\ link' \in [Links -> {link'[m] : m \in Links}]
        BY <1>0, <3>1 DEF ViewerTypes
      <4>3. /\ link'[l].at = "start" /\ link'[l].doing = s /\ link'[l].who = link[l].who
            /\ link'[l] \in [at: Viewers!Phases, who: Controllers \cup {NoOne},
                             doing: Sessions \cup {NoOne}]
        BY <4>1, <4>2 DEF Viewers!Phases
      <4>4. \A m \in Links : link'[m] \in [at: Viewers!Phases, who: Controllers \cup {NoOne},
                                           doing: Sessions \cup {NoOne}]
        BY <1>0, <4>2, <4>3 DEF ViewerTypes
      <4>5. QED
        BY <4>2, <4>3, <4>4
    <3>4. /\ listed' \in [Sessions -> Nat] /\ listed'[s] = listed[s] + 1
          /\ \A t \in Sessions \ {s} : listed'[t] = listed[t]
      BY <1>0, <3>1 DEF ViewerTypes
    <3>5. ViewerTypes'
      BY <1>0, <2>1, <3>1, <3>3, <3>4 DEF ViewerTypes
    <3>6. Serving'
      BY <1>0, <2>1, <3>1, <3>2, <3>3 DEF Serving, ViewerAssumption
    <3>7. /\ Starting(s)' = Starting(s) \cup {l} /\ l \notin Starting(s)
          /\ \A t \in Sessions \ {s} : Starting(t)' = Starting(t)
      BY <3>2, <3>3 DEF Starting, ViewerAssumption
    <3>8. Cardinality(Starting(s)') = Cardinality(Starting(s)) + 1
      BY <3>7, StartingFinite, FS_AddElement
    <3>9. Entries'
      <4>1. listed[s] \in Nat /\ attached[s] \in Nat /\ leaving[s] \in Nat /\ Most[s] \in Nat
        BY <1>0 DEF ViewerTypes, ViewerAssumption
      <4>2. \A t \in Sessions : Cardinality(Starting(t)) \in Nat
        BY StartingFinite
      <4>3. /\ listed'[s] <= Most[s] /\ waiting'[s] = attached'[s]
            /\ Cardinality(Starting(s)') + attached'[s] + leaving'[s] <= listed'[s]
        BY <1>0, <2>1, <3>4, <3>8, <4>1, <4>2 DEF Entries
      <4>4. \A t \in Sessions \ {s} :
               /\ listed'[t] <= Most[t] /\ waiting'[t] = attached'[t]
               /\ Cardinality(Starting(t)') + attached'[t] + leaving'[t] <= listed'[t]
        BY <1>0, <2>1, <3>4, <3>7 DEF Entries
      <4>5. QED
        BY <4>3, <4>4 DEF Entries
    <3>10. QED
      BY <3>5, <3>6, <3>9 DEF ViewerInv
  <2>3. CASE ~offer[slot].answered
    <3>1. Viewers!HangUp(l) /\ listed' = listed
      BY <1>5, <2>3 DEF Viewers!Start
    <3>2. ViewerTypes' /\ Serving' /\ \A m \in Links : link'[m].doing = link[m].doing
      BY <1>0, <2>1, <3>1, HangUpKeeps DEF ViewerTypes
    <3>3. QED
      BY <1>0, <2>1, <3>1, <3>2, EntriesKept DEF ViewerInv
  <2>4. QED
    BY <2>2, <2>3
<1>6. ASSUME NEW l \in Links, Viewers!AddTrack(l) PROVE ViewerInv'
  <2>1. /\ link[l].at = "start" /\ link' = [link EXCEPT ![l].at = "tracked"]
        /\ UNCHANGED <<slot, offer, queued, listed, attached, waiting, leaving>>
    BY <1>6 DEF Viewers!AddTrack, Viewers!GoTo
  <2>2. link[l].doing \in Sessions
    BY <1>0, <2>1 DEF ViewerTypes, Serving
  <2>3. deadline' \in [Sessions -> {"nil", "armed", "due"}] /\ sending' \subseteq Sessions
    BY <1>0, <1>6, <2>2 DEF Viewers!AddTrack, ViewerTypes
  <2>4. /\ \A m \in Links : /\ link'[m].doing = link[m].doing /\ link'[m].who = link[m].who
                            /\ link'[m].at = IF m = l THEN "tracked" ELSE link[m].at
        /\ link' \in [Links -> [at: Viewers!Phases, who: Controllers \cup {NoOne},
                                doing: Sessions \cup {NoOne}]]
    BY <1>0, <2>1 DEF ViewerTypes, Viewers!Phases
  <2>5. ViewerTypes'
    BY <1>0, <2>1, <2>3, <2>4 DEF ViewerTypes
  <2>6. Serving'
    BY <1>0, <2>1, <2>2, <2>4 DEF Serving, ViewerAssumption
  <2>7. QED
    BY <1>0, <2>1, <2>4, <2>5, <2>6, EntriesKept DEF ViewerInv
<1>7. ASSUME NEW l \in Links, Viewers!StartFails(l) PROVE ViewerInv'
  <2>1. /\ Viewers!Return(l, "start")
        /\ UNCHANGED <<slot, offer, deadline, sending, queued, listed, attached, waiting, leaving>>
    BY <1>7 DEF Viewers!StartFails
  <2> PICK s : s = link[l].doing
    OBVIOUS
  <2>2. /\ ViewerTypes' /\ Serving' /\ s \in Sessions
        /\ Cardinality(Starting(s)') = Cardinality(Starting(s)) - 1
        /\ \A t \in Sessions \ {s} : Starting(t)' = Starting(t)
    BY <1>0, <2>1, ReturnKeeps DEF ViewerTypes
  <2>3. Entries'
    <3>1. /\ listed[s] \in Nat /\ attached[s] \in Nat /\ leaving[s] \in Nat
          /\ Cardinality(Starting(s)) \in Nat
      BY <1>0, <2>2, StartingFinite DEF ViewerTypes
    <3>2. Cardinality(Starting(s)') + attached'[s] + leaving'[s] <= listed'[s]
      BY <1>0, <2>1, <2>2, <3>1 DEF Entries
    <3>3. QED
      BY <1>0, <2>1, <2>2, <3>2 DEF Entries
  <2>4. QED
    BY <2>2, <2>3 DEF ViewerInv
<1>8. ASSUME NEW l \in Links, Viewers!Join(l) PROVE ViewerInv'
  <2> PICK s : s = link[l].doing
    OBVIOUS
  <2>1. /\ Viewers!Return(l, "tracked")
        /\ attached' = [attached EXCEPT ![s] = @ + 1] /\ waiting' = [waiting EXCEPT ![s] = @ + 1]
        /\ UNCHANGED <<slot, offer, deadline, sending, queued, listed, leaving>>
    BY <1>8 DEF Viewers!Join, Viewers!Step
  <2>2. /\ link' \in [Links -> [at: Viewers!Phases, who: Controllers \cup {NoOne},
                                doing: Sessions \cup {NoOne}]]
        /\ Serving' /\ s \in Sessions
        /\ Cardinality(Starting(s)') = Cardinality(Starting(s)) - 1
        /\ \A t \in Sessions \ {s} : Starting(t)' = Starting(t)
    BY <1>0, <2>1, ReturnKeeps
  <2>3. /\ attached' \in [Sessions -> Nat] /\ attached'[s] = attached[s] + 1
        /\ waiting' \in [Sessions -> Nat] /\ waiting'[s] = waiting[s] + 1
        /\ \A t \in Sessions \ {s} : attached'[t] = attached[t] /\ waiting'[t] = waiting[t]
    BY <1>0, <2>1, <2>2 DEF ViewerTypes
  <2>4. ViewerTypes'
    BY <1>0, <2>1, <2>2, <2>3 DEF ViewerTypes
  <2>5. Entries'
    <3>1. /\ listed[s] \in Nat /\ attached[s] \in Nat /\ leaving[s] \in Nat
          /\ Cardinality(Starting(s)) \in Nat
      BY <1>0, <2>2, StartingFinite DEF ViewerTypes
    <3>2. /\ waiting'[s] = attached'[s]
          /\ Cardinality(Starting(s)') + attached'[s] + leaving'[s] <= listed'[s]
      BY <1>0, <2>1, <2>2, <2>3, <3>1 DEF Entries
    <3>3. QED
      BY <1>0, <2>1, <2>2, <2>3, <3>2 DEF Entries
  <2>6. QED
    BY <2>2, <2>4, <2>5 DEF ViewerInv
<1>9. ASSUME NEW l \in Links, NEW s \in Sessions, Viewers!End(l, s) PROVE ViewerInv'
  <2>1. UNCHANGED <<slot, listed, attached, waiting, leaving>>
    BY <1>9 DEF Viewers!End
  <2>2. CASE Viewers!Stop(s)
    <3>1. ViewerTypes' /\ Serving' /\ \A m \in Links : link'[m].doing = link[m].doing
      BY <1>0, <2>1, <2>2, StopKeeps DEF ViewerTypes
    <3>2. QED
      BY <1>0, <2>1, <3>1, EntriesKept DEF ViewerInv
  <2>3. CASE UNCHANGED <<deadline, sending, queued, link, offer>>
    BY <1>0, <2>1, <2>3, EntriesKept DEF ViewerInv, ViewerTypes, Serving
  <2>4. QED
    BY <1>9, <2>2, <2>3 DEF Viewers!End
<1>10. ASSUME NEW s \in Sessions, Viewers!Packet(s) \/ Viewers!Drain(s) \/ Viewers!Expire(s)
       PROVE ViewerInv'
  <2>1. /\ deadline' \in [Sessions -> {"nil", "armed", "due"}]
        /\ UNCHANGED <<link, slot, offer, sending, listed, attached, waiting, leaving>>
    BY <1>0, <1>10 DEF Viewers!Packet, Viewers!Drain, Viewers!Expire, ViewerTypes
  <2>2. queued' \in [Sessions -> 0..MaxQueued]
    <3>1. CASE queued' = queued
      BY <1>0, <3>1 DEF ViewerTypes
    <3>2. CASE queued[s] > 0 /\ queued' = [queued EXCEPT ![s] = @ - 1]
      BY <1>0, <3>2 DEF ViewerTypes, ViewerAssumption
    <3>3. QED
      BY <1>10, <3>1, <3>2 DEF Viewers!Packet, Viewers!Drain, Viewers!Expire
  <2>3. QED
    BY <1>0, <2>1, <2>2, EntriesKept DEF ViewerInv, ViewerTypes, Serving
<1>11. ASSUME NEW s \in Sessions, Viewers!RemoveConsumer(s) PROVE ViewerInv'
  <2>1. /\ waiting[s] > 0 /\ Viewers!Stop(s) /\ UNCHANGED <<slot, listed>>
        /\ attached' = [attached EXCEPT ![s] = @ + (-1)]
        /\ waiting' = [waiting EXCEPT ![s] = @ + (-1)] /\ leaving' = [leaving EXCEPT ![s] = @ + 1]
    BY <1>11 DEF Viewers!RemoveConsumer, Viewers!Step
  <2>2. /\ link' \in [Links -> [at: Viewers!Phases, who: Controllers \cup {NoOne},
                                doing: Sessions \cup {NoOne}]]
        /\ offer' \in [Sessions -> [by: Links \cup {NoOne}, who: Controllers \cup {NoOne},
                                    answered: BOOLEAN]]
        /\ deadline' \in [Sessions -> {"nil", "armed", "due"}] /\ sending' \subseteq Sessions
        /\ queued' \in [Sessions -> 0..MaxQueued]
        /\ Serving' /\ \A m \in Links : link'[m].doing = link[m].doing
    <3>1. sending \subseteq Sessions
      BY <1>0 DEF ViewerTypes
    <3>2. QED
      BY <2>1, <3>1, StopKeeps
  <2>3. waiting[s] \in Nat /\ attached[s] \in Nat /\ attached[s] = waiting[s]
    BY <1>0 DEF ViewerTypes, Entries
  <2>4. /\ attached' \in [Sessions -> Nat] /\ attached'[s] = attached[s] - 1
        /\ waiting' \in [Sessions -> Nat] /\ waiting'[s] = waiting[s] - 1
        /\ leaving' \in [Sessions -> Nat] /\ leaving'[s] = leaving[s] + 1
        /\ \A t \in Sessions \ {s} : /\ attached'[t] = attached[t] /\ waiting'[t] = waiting[t]
                                     /\ leaving'[t] = leaving[t]
    BY <1>0, <2>1, <2>3 DEF ViewerTypes
  <2>5. ViewerTypes'
    BY <1>0, <2>1, <2>2, <2>4 DEF ViewerTypes
  <2>6. \A t \in Sessions : Starting(t)' = Starting(t)
    BY <2>2 DEF Starting
  <2>7. Entries'
    <3>1. \A t \in Sessions : /\ listed[t] \in Nat /\ attached[t] \in Nat /\ leaving[t] \in Nat
                              /\ Cardinality(Starting(t)) \in Nat
      BY <1>0, StartingFinite DEF ViewerTypes
    <3>2. QED
      BY <1>0, <2>1, <2>3, <2>4, <2>6, <3>1 DEF Entries
  <2>8. QED
    BY <2>2, <2>5, <2>7 DEF ViewerInv
<1>12. ASSUME NEW s \in Sessions, Viewers!DelConn(s) PROVE ViewerInv'
  <2>1. /\ leaving[s] > 0 /\ leaving' = [leaving EXCEPT ![s] = @ + (-1)]
        /\ listed' = [listed EXCEPT ![s] = @ + (-1)]
        /\ UNCHANGED <<link, slot, offer, deadline, sending, queued, attached, waiting>>
    BY <1>12 DEF Viewers!DelConn, Viewers!Step
  <2>2. \A t \in Sessions : /\ listed[t] \in Nat /\ attached[t] \in Nat /\ leaving[t] \in Nat
                            /\ Cardinality(Starting(t)) \in Nat /\ Starting(t)' = Starting(t)
    BY <1>0, <2>1, StartingFinite DEF ViewerTypes, Starting
  <2>3. listed[s] > 0 /\ Most[s] \in Nat
    BY <1>0, <2>1, <2>2 DEF Entries, ViewerAssumption
  <2>4. /\ listed' \in [Sessions -> Nat] /\ listed'[s] = listed[s] - 1
        /\ leaving' \in [Sessions -> Nat] /\ leaving'[s] = leaving[s] - 1
        /\ \A t \in Sessions \ {s} : listed'[t] = listed[t] /\ leaving'[t] = leaving[t]
    BY <1>0, <2>1, <2>2, <2>3 DEF ViewerTypes
  <2>5. ViewerTypes' /\ Serving'
    BY <1>0, <2>1, <2>4 DEF ViewerTypes, Serving
  <2>6. Entries'
    BY <1>0, <2>1, <2>2, <2>3, <2>4 DEF Entries
  <2>7. QED
    BY <2>5, <2>6 DEF ViewerInv
<1>13. CASE UNCHANGED Viewers!vars
  <2>1. UNCHANGED <<link, slot, offer, deadline, sending, queued, listed, attached, waiting, leaving>>
    BY <1>13 DEF Viewers!vars
  <2>2. QED
    BY <1>0, <2>1, EntriesKept DEF ViewerInv, ViewerTypes, Serving
<1>14. QED
  <2>1. ASSUME Viewers!Next PROVE ViewerInv'
    BY ONLY <2>1, <1>1, <1>2, <1>3, <1>4, <1>5, <1>6, <1>7, <1>8, <1>9, <1>10, <1>11, <1>12, Zenon
       DEF Viewers!Next, Viewers!Handler, Viewers!Viewer
  <2>2. QED
    BY ONLY <2>1, <1>13, [Viewers!Next]_(Viewers!vars)

LEMMA ViewerInit == ASSUME ViewerAssumption, Viewers!Init PROVE ViewerInv
<1>1. /\ \A l \in Links : link[l] = [at |-> "off", who |-> NoOne, doing |-> NoOne]
      /\ \A s \in Sessions : listed[s] = 0 /\ attached[s] = 0 /\ waiting[s] = 0 /\ leaving[s] = 0
  BY DEF Viewers!Init, Viewers!Off
<1>2. ViewerTypes
  BY DEF Viewers!Init, Viewers!Off, Viewers!Phases, ViewerTypes, ViewerAssumption
<1>3. Serving
  BY <1>1 DEF Serving
<1>4. \A s \in Sessions : Starting(s) = {}
  BY <1>1 DEF Starting, ViewerAssumption
<1>5. Entries
  BY <1>1, <1>4, FS_EmptySet DEF Entries, ViewerAssumption
<1>6. QED
  BY <1>2, <1>3, <1>5 DEF ViewerInv

\* Although one slot serves every controller, and whatever offers overwrite each
\* other in it: a handler starts only a session that was offered by the
\* controller it serves; and the list of connections never loses the entry of a
\* start or a viewer to another one's DelConn (server.go, SetConfig, DelConn).
THEOREM StartsAreOwn ==
    ASSUME ViewerAssumption
    PROVE  Viewers!Init /\ [][Viewers!Next]_(Viewers!vars)
           => [](Viewers!TypeOK /\ Viewers!StartIsOwn)
<1>1. Viewers!Init => ViewerInv
  BY ViewerInit
<1>2. ViewerInv /\ [Viewers!Next]_(Viewers!vars) => ViewerInv'
  BY ViewerStep
<1>3. ViewerInv => Viewers!TypeOK /\ Viewers!StartIsOwn
  <2> SUFFICES ASSUME ViewerInv PROVE Viewers!TypeOK /\ Viewers!StartIsOwn
    OBVIOUS
  <2>1. \A s \in Sessions : /\ listed[s] <= Most[s] /\ attached[s] <= Most[s]
                            /\ waiting[s] <= Most[s] /\ leaving[s] <= Most[s]
    <3>1. \A s \in Sessions : /\ listed[s] \in Nat /\ attached[s] \in Nat /\ leaving[s] \in Nat
                              /\ Cardinality(Starting(s)) \in Nat /\ Most[s] \in Nat
      BY StartingFinite DEF ViewerInv, ViewerTypes, ViewerAssumption
    <3>2. \A s \in Sessions :
             /\ listed[s] <= Most[s] /\ waiting[s] = attached[s]
             /\ Cardinality(Starting(s)) + attached[s] + leaving[s] <= listed[s]
      BY DEF ViewerInv, Entries
    <3>3. QED
      BY <3>1, <3>2
  <2>2. \A f \in {listed, attached, waiting, leaving} :
           f \in [Sessions -> Nat] /\ \A s \in Sessions : f[s] <= Most[s]
    BY <2>1 DEF ViewerInv, ViewerTypes
  <2>3. Viewers!TypeOK
    BY <2>2 DEF ViewerInv, ViewerTypes, Viewers!TypeOK
  <2>4. Viewers!StartIsOwn
    BY DEF ViewerInv, Serving, Viewers!StartIsOwn
  <2>5. QED
    BY <2>3, <2>4
<1>4. QED
  BY <1>1, <1>2, <1>3, PTL

\* Once the senders of a consumer are closed, only the packets that were queued by
\* then push its timer, each of them once, and no second start of its session makes
\* another sender that does: the first track in its life made its only timer
\* (consumer.go, and Sender.Close of pkg/core/track.go).
THEOREM StoppedIsQuiet ==
    ASSUME ViewerAssumption
    PROVE  Viewers!Init /\ [][Viewers!Next]_(Viewers!vars) => Viewers!NeverPushedAgain
<1> DEFINE QuietOf(s) == deadline[s] # "nil" /\ s \notin sending =>
                            /\ s \notin sending' /\ queued'[s] <= queued[s]
                            /\ deadline[s] = "due" /\ deadline'[s] = "armed" =>
                                   queued'[s] < queued[s]
           Quiet == \A s \in Sessions : QuietOf(s)
<1>1. ASSUME ViewerInv, [Viewers!Next]_(Viewers!vars) PROVE Quiet
  <2> USE DEF Viewers!viewing, Viewers!running, Viewers!consumers
  <2>0. /\ deadline \in [Sessions -> {"nil", "armed", "due"}]
        /\ queued \in [Sessions -> 0..MaxQueued] /\ MaxQueued \in Nat
        /\ \A s \in Sessions : queued[s] \in Nat
    BY <1>1 DEF ViewerInv, ViewerTypes, ViewerAssumption
  <2>1. ASSUME NEW l \in Links, Viewers!AddTrack(l) PROVE Quiet
    <3> SUFFICES ASSUME NEW s \in Sessions PROVE QuietOf(s)
      OBVIOUS
    <3>1. queued' = queued
      BY <2>1 DEF Viewers!AddTrack
    <3>2. \/ deadline' = deadline /\ sending' = sending
          \/ /\ deadline[link[l].doing] = "nil"
             /\ deadline' = [deadline EXCEPT ![link[l].doing] = "armed"]
             /\ sending' = sending \cup {link[l].doing}
      BY <2>1 DEF Viewers!AddTrack
    <3>3. QED
      BY <2>0, <3>1, <3>2
  <2>2. ASSUME NEW s \in Sessions, Viewers!Stop(s) PROVE Quiet
    <3> SUFFICES ASSUME NEW t \in Sessions PROVE QuietOf(t)
      OBVIOUS
    <3>1. /\ sending' = sending \ {s}
          /\ deadline' = [deadline EXCEPT ![s] = IF @ = "nil" THEN @ ELSE "due"]
          /\ \E n \in Viewers!Left(s) : queued' = [queued EXCEPT ![s] = n]
      BY <2>2 DEF Viewers!Stop
    <3>2. s \notin sending => queued' = queued
      BY <2>0, <3>1 DEF Viewers!Left
    <3>3. t # s \/ s \notin sending => queued'[t] = queued[t]
      BY <2>0, <3>1, <3>2
    <3>4. QED
      BY <2>0, <3>1, <3>3
  <2>3. ASSUME UNCHANGED <<sending, queued>>,
               \A s \in Sessions : \/ deadline'[s] = deadline[s] \/ deadline'[s] = "due"
                                   \/ s \in sending
        PROVE  Quiet
    BY <2>0, <2>3
  <2>4. ASSUME NEW s \in Sessions, Viewers!Packet(s) \/ Viewers!Expire(s) PROVE Quiet
    <3>1. UNCHANGED <<sending, queued>>
      BY <2>4 DEF Viewers!Packet, Viewers!Expire
    <3>2. \A t \in Sessions : \/ deadline'[t] = deadline[t] \/ deadline'[t] = "due"
                               \/ t \in sending
      BY <2>0, <2>4 DEF Viewers!Packet, Viewers!Expire
    <3>3. QED
      BY <2>3, <3>1, <3>2
  <2>5. ASSUME NEW s \in Sessions, Viewers!Drain(s) PROVE Quiet
    <3> SUFFICES ASSUME NEW t \in Sessions PROVE QuietOf(t)
      OBVIOUS
    <3>1. /\ sending' = sending /\ queued' = [queued EXCEPT ![s] = @ - 1]
          /\ deadline' = [deadline EXCEPT ![s] = "armed"]
      BY <2>5 DEF Viewers!Drain
    <3>2. QED
      BY <2>0, <3>1
  <2>6. CASE UNCHANGED <<deadline, sending, queued>>
    BY <2>3, <2>6
  <2> HIDE DEF Quiet
  <2>7. ASSUME NEW l \in Links, Viewers!Handler(l) PROVE Quiet
    BY <2>1, <2>2, <2>6, <2>7 DEF Viewers!Handler, Viewers!Connect, Viewers!Close,
       Viewers!SetupEndpoints, Viewers!GetAnswer, Viewers!Start, Viewers!StartFails, Viewers!Join,
       Viewers!End
  <2>8. ASSUME NEW s \in Sessions, Viewers!Viewer(s) PROVE Quiet
    BY <2>2, <2>4, <2>5, <2>6, <2>8 DEF Viewers!Viewer, Viewers!RemoveConsumer, Viewers!DelConn
  <2>9. CASE UNCHANGED Viewers!vars
    BY <2>6, <2>9 DEF Viewers!vars
  <2>10. QED
    BY <1>1, <2>7, <2>8, <2>9 DEF Viewers!Next
<1>2. Viewers!Init => ViewerInv
  BY ViewerInit
<1>3. ViewerInv /\ [Viewers!Next]_(Viewers!vars) => ViewerInv'
  BY ViewerStep
<1>4. ViewerInv /\ [Viewers!Next]_(Viewers!vars) => [Quiet]_(Viewers!vars)
  BY <1>1
<1>5. QED
  BY <1>2, <1>3, <1>4, PTL DEF Viewers!NeverPushedAgain
=============================================================================
