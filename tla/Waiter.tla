------------------------------- MODULE Waiter ------------------------------
(***************************************************************************)
(* pkg/core/waiter.go, on which the dials over WebRTC, the start of a child  *)
(* process and the signalling of several cameras wait: Wait starts the       *)
(* waiter by itself, Done may come before it, after it or twice, and carries *)
(* the error.  Done wakes the waiters before it stores the error.            *)
(***************************************************************************)
EXTENDS Integers

CONSTANTS Waiters,      \* goroutines that call Wait
          Callers,      \* goroutines that call Done, each with its own error or none
          Errors, NoError

VARIABLES state,        \* below zero: finished
          group,        \* the WaitGroup's counter
          err,          \* w.err
          mu,           \* held by a Done between its two halves
          waiter,       \* where each Wait is
          result,       \* what Wait returned
          caller, says, \* where each Done is, and its error
          final         \* history: the error of the Done that finished the waiter

vars == <<state, group, err, mu, waiter, result, caller, says, final>>

Init ==
    /\ state = 0 /\ group = 0 /\ err = NoError /\ mu = FALSE
    /\ waiter = [w \in Waiters |-> "new"] /\ result = [w \in Waiters |-> NoError]
    /\ caller = [c \in Callers |-> "new"] /\ final = NoError
    /\ says \in [Callers -> Errors \cup {NoError}]
-----------------------------------------------------------------------------
\* Mutant: every Wait is a task of its own.
WaitAddsItself(w) ==
    /\ waiter[w] = "new" /\ ~mu /\ waiter' = [waiter EXCEPT ![w] = "waits"]
    /\ IF state >= 0 THEN state' = state + 1 /\ group' = group + 1
                     ELSE UNCHANGED <<state, group>>
    /\ UNCHANGED <<err, mu, result, caller, says, final>>

\* Wait: the first one starts the waiter.
Wait(w) ==
    /\ waiter[w] = "new" /\ ~mu /\ waiter' = [waiter EXCEPT ![w] = "waits"]
    /\ IF state = 0 THEN state' = 1 /\ group' = group + 1 ELSE UNCHANGED <<state, group>>
    /\ UNCHANGED <<err, mu, result, caller, says, final>>

\* The WaitGroup lets the waiter go, and it reads the error without the mutex.
Return(w) ==
    /\ waiter[w] = "waits" /\ group = 0 /\ waiter' = [waiter EXCEPT ![w] = "back"]
    /\ result' = [result EXCEPT ![w] = err]
    /\ UNCHANGED <<state, group, err, mu, caller, says, final>>

\* Done, with the mutex: the task is taken off the group ...
Done(c) ==
    /\ caller[c] = "new" /\ ~mu /\ mu' = TRUE
    /\ caller' = [caller EXCEPT ![c] = "finish"]
    /\ IF state > 0 THEN state' = state - 1 /\ group' = group - 1
                    ELSE UNCHANGED <<state, group>>
    /\ UNCHANGED <<err, waiter, result, says, final>>

\* Mutant: every Done stores its error.
FinishOverwrites(c) ==
    /\ caller[c] = "finish" /\ mu' = FALSE /\ caller' = [caller EXCEPT ![c] = "done"]
    /\ err' = says[c] /\ IF state = 0 THEN state' = -1 /\ final' = says[c]
                                      ELSE UNCHANGED <<state, final>>
    /\ UNCHANGED <<group, waiter, result, says>>

\* ... and the last one stores its error and blocks the waiter.
Finish(c) ==
    /\ caller[c] = "finish" /\ mu' = FALSE /\ caller' = [caller EXCEPT ![c] = "done"]
    /\ IF state = 0 THEN state' = -1 /\ err' = says[c] /\ final' = says[c]
                    ELSE UNCHANGED <<state, err, final>>
    /\ UNCHANGED <<group, waiter, result, says>>

Next == (\E w \in Waiters : Wait(w) \/ Return(w)) \/ (\E c \in Callers : Done(c) \/ Finish(c))
Fairness == /\ \A w \in Waiters : WF_vars(Return(w))
            /\ \A c \in Callers : WF_vars(Finish(c))
Spec == Init /\ [][Next]_vars /\ Fairness
-----------------------------------------------------------------------------
\* Every variable has its type; the group never goes below zero, which panics.
TypeOK ==
    /\ state \in -1..1 /\ group \in 0..1 /\ mu \in BOOLEAN
    /\ {err, final} \subseteq Errors \cup {NoError}
    /\ waiter \in [Waiters -> {"new", "waits", "back"}]
    /\ caller \in [Callers -> {"new", "finish", "done"}]
    /\ result \in [Waiters -> Errors \cup {NoError}]
    /\ says \in [Callers -> Errors \cup {NoError}]

\* Nobody passes the waiter before a Done, and what it returns is the error of the
\* Done that finished it, whatever comes later ("safe Done after finish"), or none:
\* the waiter wakes before the error is stored.
FirstDoneCounts ==
    \A w \in Waiters : waiter[w] = "back" =>
        /\ \E c \in Callers : caller[c] # "new"
        /\ result[w] \in {NoError, final}

\* After one Done every Wait comes back, those that are called later too
\* ("block new waiters after last Done").
WaitersEnd ==
    \A w \in Waiters : (waiter[w] = "waits" /\ \E c \in Callers : caller[c] = "done")
                           ~> waiter[w] = "back"

\* What the module promises.  Wait and Done meet in any order and number (waiter.go).
Promise == [](TypeOK /\ FirstDoneCounts) /\ WaitersEnd
=============================================================================
