----------------------------- MODULE SourceUse -----------------------------
(***************************************************************************)
(* What internal/streams promises about the sources of one stream, without *)
(* mutexes, timers or counters: a source is opened for a viewer that is    *)
(* arriving, and it is closed only while nobody arrives and nobody uses    *)
(* it.  Streams implements this specification.                             *)
(***************************************************************************)
CONSTANTS Consumers, Sources

VARIABLES arriving, open, using

vars == <<arriving, open, using>>

Init ==
    /\ arriving = {}
    /\ open = {}
    /\ using = [p \in Sources |-> {}]

Arrive(c) ==
    /\ arriving' = arriving \union {c}
    /\ UNCHANGED <<open, using>>

Open(p) ==
    /\ arriving # {}
    /\ open' = open \union {p}
    /\ UNCHANGED <<arriving, using>>

\* An arriving viewer takes a track of an open source.
Use(c, p) ==
    /\ c \in arriving
    /\ p \in open
    /\ using' = [using EXCEPT ![p] = @ \union {c}]
    /\ UNCHANGED <<arriving, open>>

\* The viewer has everything it will get, or nothing.
Settle(c) ==
    /\ c \in arriving
    /\ arriving' = arriving \ {c}
    /\ UNCHANGED <<open, using>>

Release(c) ==
    /\ c \notin arriving
    /\ using' = [p \in Sources |-> using[p] \ {c}]
    /\ UNCHANGED <<arriving, open>>

Close(p) ==
    /\ p \in open
    /\ arriving = {}
    /\ using[p] = {}
    /\ open' = open \ {p}
    /\ UNCHANGED <<arriving, using>>

Next ==
    \/ \E c \in Consumers : Arrive(c) \/ Settle(c) \/ Release(c)
    \/ \E p \in Sources : Open(p) \/ Close(p)
    \/ \E c \in Consumers, p \in Sources : Use(c, p)

Spec == Init /\ [][Next]_vars

\* A source nobody wants is closed in the end.
Fairness == \A p \in Sources : WF_vars(Close(p))

FairSpec == Spec /\ Fairness
=============================================================================
