---------------------------- MODULE CommandAck ----------------------------
(***************************************************************************)
(* WriteCommand of the CS2 and of the TUTK connection (the same code in      *)
(* pkg/xiaomi/miss/cs2/conn.go and pkg/tutk/conn.go): a command is written   *)
(* every second until an acknowledgement was seen or the attempts are used   *)
(* up.  The acknowledgement reaches the command through a closure, cmdAck,   *)
(* that the worker calls and the next command replaces; it does not say      *)
(* which command it is for.  Camera and network are external.                *)
(***************************************************************************)
EXTENDS Integers

CONSTANTS Writers,    \* goroutines that write one command each
          NoWriter,   \* no closure yet
          Attempts,   \* how often a command is written (5)
          MaxAcks     \* bound: acknowledgements of one command in flight

VARIABLES writer,     \* Writers -> where the goroutine is
          repeat,     \* the counter of each command's closure
          cmdAck,     \* whose closure the worker calls
          acks,       \* acknowledgements in flight for each command
          alive,      \* the socket is open
          confirmed   \* history: the commands some acknowledgement reached

vars == <<writer, repeat, cmdAck, acks, alive, confirmed>>

Init ==
    /\ writer = [w \in Writers |-> "out"] /\ repeat = [w \in Writers |-> 0]
    /\ cmdAck = NoWriter /\ acks = [w \in Writers |-> 0]
    /\ alive = TRUE /\ confirmed = {}

\* One Write of the command: the camera answers it, or the network loses it.
WriteOnce(w) ==
    /\ alive
    /\ acks' \in {acks, [acks EXCEPT ![w] = @ + 1]} /\ acks'[w] <= MaxAcks

\* cmdMu is held from the closure to the return.
WriteCommand(w) ==
    /\ writer[w] = "out" /\ \A v \in Writers : writer[v] # "waiting"
    /\ repeat' = [repeat EXCEPT ![w] = Attempts] /\ cmdAck' = w
    /\ \/ WriteOnce(w) /\ writer' = [writer EXCEPT ![w] = "waiting"]
       \/ ~alive /\ writer' = [writer EXCEPT ![w] = "failed"] /\ UNCHANGED acks
    /\ UNCHANGED <<alive, confirmed>>

\* Mutant: the last attempt counts as a success (r <= 0).
TickGivesUpWell(w) ==
    /\ writer[w] = "waiting"
    /\ repeat' = [repeat EXCEPT ![w] = @ - 1]
    /\ \/ repeat[w] <= 1 /\ writer' = [writer EXCEPT ![w] = "done"] /\ UNCHANGED acks
       \/ repeat[w] > 1 /\ WriteOnce(w) /\ UNCHANGED writer
       \/ repeat[w] > 1 /\ ~alive /\ writer' = [writer EXCEPT ![w] = "failed"] /\ UNCHANGED acks
    /\ UNCHANGED <<cmdAck, alive, confirmed>>

\* Mutant: the attempts are not counted down.
TickUncounted(w) ==
    /\ writer[w] = "waiting"
    /\ \/ repeat[w] = 0 /\ writer' = [writer EXCEPT ![w] = "done"] /\ UNCHANGED acks
       \/ repeat[w] > 0 /\ WriteOnce(w) /\ UNCHANGED writer
    /\ UNCHANGED <<repeat, cmdAck, alive, confirmed>>

\* A tick: acknowledged, given up, or written once more.
Tick(w) ==
    /\ writer[w] = "waiting"
    /\ repeat' = [repeat EXCEPT ![w] = @ - 1]
    /\ \/ repeat[w] = 0 /\ writer' = [writer EXCEPT ![w] = "done"] /\ UNCHANGED acks
       \/ repeat[w] = 1 /\ writer' = [writer EXCEPT ![w] = "failed"] /\ UNCHANGED acks
       \/ repeat[w] > 1 /\ WriteOnce(w) /\ UNCHANGED writer
       \/ repeat[w] > 1 /\ ~alive /\ writer' = [writer EXCEPT ![w] = "failed"] /\ UNCHANGED acks
    /\ UNCHANGED <<cmdAck, alive, confirmed>>

\* The worker reads an acknowledgement of some command, maybe of an old one.
WorkerAck(w) ==
    /\ alive /\ acks[w] > 0 /\ acks' = [acks EXCEPT ![w] = @ - 1]
    /\ repeat' = [repeat EXCEPT ![cmdAck] = 0]
    /\ confirmed' = confirmed \cup {cmdAck}
    /\ UNCHANGED <<writer, cmdAck, alive>>

CloseConn ==
    alive /\ alive' = FALSE /\ UNCHANGED <<writer, repeat, cmdAck, acks, confirmed>>

Next ==
    \/ \E w \in Writers : WriteCommand(w) \/ Tick(w) \/ WorkerAck(w)
    \/ CloseConn

\* The ticker ticks.
Fairness == \A w \in Writers : WF_vars(Tick(w))
-----------------------------------------------------------------------------
TypeOK ==
    /\ writer \in [Writers -> {"out", "waiting", "done", "failed"}]
    /\ repeat \in [Writers -> -1..Attempts] /\ cmdAck \in Writers \cup {NoWriter}
    /\ acks \in [Writers -> 0..MaxAcks] /\ alive \in BOOLEAN /\ confirmed \subseteq Writers

\* A command is reported as sent only when an acknowledgement reached its own
\* closure: silence is never taken for success (repeat.Add(-1) < 0).
DoneIsConfirmed == \A w \in Writers : writer[w] = "done" => w \in confirmed

\* A command returns whatever camera and socket do, and lets the next one in:
\* cmdMu is not held for ever.
CommandsEnd == \A w \in Writers : (writer[w] = "waiting") ~> (writer[w] # "waiting")

\* What the module promises.  A command always returns, and says "sent" only when it was acknowledged
\* (WriteCommand).
Promise == [](TypeOK /\ DoneIsConfirmed) /\ CommandsEnd
=============================================================================
