------------------------------- MODULE Marker -------------------------------
(***************************************************************************)
(* The activity marker: one file that every direct source of the camera      *)
(* renews while media arrives (probe-ezviz-direct-reverse.py) and that the    *)
(* warm controller reads to learn that the camera streams                    *)
(* (ezviz_warm_controller.py).  Sources overlap when the bridge starts one    *)
(* before the last is gone, a source may be killed without its finally, and   *)
(* its read and removal of the file are two steps.  A round of the controller *)
(* takes its time at the top, may then wait for the cloud for as long as the   *)
(* calls' timeouts let it, and judges the marker with the time it took.  Time  *)
(* counts in ticks of ten seconds: the renewal interval, a third of the        *)
(* marker's and of the tracker's 30 seconds.                                   *)
(***************************************************************************)
EXTENDS Integers

CONSTANTS Procs, None,  \* processes, numbered as they start; each runs once
          Grace,        \* ticks: ACTIVITY_MARKER_MAX_AGE_SECONDS, ACTIVITY_GRACE_SECONDS
          Delay         \* ticks a round takes at most, with the calls it waits for

VARIABLES file, age,    \* the marker: its owner or None; ticks since its mtime
          at,           \* [Procs -> step of a source]
          flows,        \* [Procs -> media arrives]
          due,          \* [Procs -> the renewal interval is over]
          live,         \* ticks since ActivityTracker._last_live_at
          verdict,      \* what ActivityTracker.update returned last
          stale,        \* ticks since the round took its now
          polled,       \* the round has made its update
          busy, quiet,  \* history: ticks that media flows; that no source runs;
          calm,         \* that none started or ended; each counts as far as a property asks
          sure          \* ticks since the now of the last round that met no handover

marker == <<file, age>>
controller == <<live, verdict, stale, polled>>
history == <<busy, quiet, calm, sure>>
vars == <<marker, at, flows, due, controller, history>>

Never == Grace + Delay + 1
Capped(n) == IF n >= Never THEN Never ELSE n
UpToTwo(n) == IF n > 2 THEN 2 ELSE n

Init ==
    /\ file = None /\ age = 0 /\ at = [p \in Procs |-> "new"]
    /\ flows = [p \in Procs |-> FALSE] /\ due = [p \in Procs |-> FALSE]
    /\ live = Never /\ verdict = FALSE /\ stale = 0 /\ polled = TRUE
    /\ busy = [p \in Procs |-> 0] /\ quiet = Never /\ calm = 0 /\ sure = Never
-----------------------------------------------------------------------------
Goto(p, from, to) == at[p] = from /\ at' = [at EXCEPT ![p] = to]
Gone == {"new", "off"}
Owned(p) == file = p /\ age <= Grace

\* The bridge starts a source; its first data makes it renew the marker at once.
Start(p) ==
    /\ Goto(p, "new", "stream") /\ \A q \in Procs : q < p => at[q] # "new"
    /\ quiet' = 0 /\ calm' = 0
    /\ due' = [due EXCEPT ![p] = TRUE] /\ flows' = [flows EXCEPT ![p] = TRUE]
    /\ UNCHANGED <<marker, controller, busy, sure>>

\* The camera stops sending for a while, or goes on.
Stall(p) ==
    /\ at[p] = "stream" /\ flows' = [flows EXCEPT ![p] = ~@] /\ busy' = [busy EXCEPT ![p] = 0]
    /\ UNCHANGED <<marker, at, due, controller, quiet, calm, sure>>

\* _refresh_stream_active: renew the own marker, look again, or write a new one.
Refresh(p) ==
    /\ flows[p] /\ due[p] /\ Goto(p, "stream", IF Owned(p) THEN "touch" ELSE "mark")
    /\ due' = [due EXCEPT ![p] = FALSE] /\ UNCHANGED <<marker, flows, controller, history>>
Touch(p) ==
    /\ Goto(p, "touch", IF file = None THEN "mark" ELSE "again")
    /\ age' = IF file = None THEN age ELSE 0
    /\ UNCHANGED <<file, flows, due, controller, history>>
Again(p) ==
    /\ Goto(p, "again", IF Owned(p) THEN "stream" ELSE "mark")
    /\ UNCHANGED <<marker, flows, due, controller, history>>
\* _mark_stream_active replaces the file in one step.
Mark(p) ==
    /\ Goto(p, "mark", "stream") /\ file' = p /\ age' = 0
    /\ UNCHANGED <<flows, due, controller, history>>

\* The source ends: _clear_stream_active reads the file, and removes what is there
\* by then if it was its own.
Finish(p) ==
    /\ Goto(p, "stream", IF file = p THEN "unlink" ELSE "off")
    /\ flows' = [flows EXCEPT ![p] = FALSE] /\ due' = [due EXCEPT ![p] = FALSE]
    /\ busy' = [busy EXCEPT ![p] = 0] /\ calm' = 0 /\ UNCHANGED <<marker, controller, quiet, sure>>
Unlink(p) ==
    /\ Goto(p, "unlink", "off") /\ file' = None /\ age' = 0 /\ calm' = 0
    /\ UNCHANGED <<flows, due, controller, busy, quiet, sure>>
\* SIGTERM or SIGKILL: no finally, the marker stays.
Killed(p) ==
    /\ at[p] \notin Gone /\ at' = [at EXCEPT ![p] = "off"]
    /\ flows' = [flows EXCEPT ![p] = FALSE] /\ due' = [due EXCEPT ![p] = FALSE]
    /\ busy' = [busy EXCEPT ![p] = 0] /\ calm' = 0 /\ UNCHANGED <<marker, controller, quiet, sure>>
-----------------------------------------------------------------------------
\* Mutant: the age alone counts.
LiveByAge == file # None /\ age <= Grace

\* activity_is_live: the marker is fresh and its process lives.
Live == file # None /\ age <= Grace /\ at[file] \notin Gone

\* A round begins: now = time.monotonic().
Top ==
    /\ polled /\ polled' = FALSE /\ stale' = 0
    /\ UNCHANGED <<marker, at, flows, due, live, verdict, history>>

\* No source has come or gone for two ticks, and media has flowed in one as long.
Settled == calm >= 2 /\ \E p \in Procs : busy[p] >= 2
Remember == sure' = IF Settled THEN stale ELSE sure

\* Mutant: no grace over the handover from one source to the next.
PollStrict ==
    /\ ~polled /\ polled' = TRUE /\ live' = (IF Live THEN stale ELSE live) /\ verdict' = Live
    /\ Remember /\ UNCHANGED <<marker, at, flows, due, stale, busy, quiet, calm>>

\* The calls of the round are over: ActivityTracker.update judges the marker as it is
\* by then (activity_is_live reads the clock itself) with the now of the round's top.
Poll ==
    /\ ~polled /\ polled' = TRUE
    /\ live' = (IF Live THEN stale ELSE live) /\ verdict' = (live' - stale <= Grace)
    /\ Remember /\ UNCHANGED <<marker, at, flows, due, stale, busy, quiet, calm>>

\* A tick passes: what is due is done within it (a chunk arrives at least every
\* tick where media flows, and a step of a source takes less).  The controller may
\* make no round in a tick or many, and wait in one, before or after its update.
Tick ==
    /\ stale < Delay /\ stale' = stale + 1 /\ live' = Capped(live + 1) /\ sure' = Capped(sure + 1)
    /\ age' = IF file = None THEN 0 ELSE Capped(age + 1)
    /\ \A p \in Procs : at[p] \in Gone \cup {"stream"} /\ ~(flows[p] /\ due[p])
    /\ due' = [p \in Procs |-> at[p] = "stream"]
    /\ busy' = [p \in Procs |-> IF flows[p] THEN UpToTwo(busy[p] + 1) ELSE 0]
    /\ quiet' = IF \A p \in Procs : at[p] \in Gone THEN Capped(quiet + 1) ELSE 0
    /\ calm' = UpToTwo(calm + 1) /\ UNCHANGED <<file, at, flows, verdict, polled>>

Source(p) == Refresh(p) \/ Touch(p) \/ Again(p) \/ Mark(p) \/ Finish(p) \/ Unlink(p)
Next == Top \/ Poll \/ Tick \/ \E p \in Procs : Start(p) \/ Stall(p) \/ Killed(p) \/ Source(p)
Spec == Init /\ [][Next]_vars
-----------------------------------------------------------------------------
\* Every variable has its type.
TypeOK ==
    /\ file \in Procs \cup {None} /\ {age, live, quiet, sure} \subseteq 0..Never
    /\ at \in [Procs -> {"new", "off", "stream", "touch", "again", "mark", "unlink"}]
    /\ {flows, due} \subseteq [Procs -> BOOLEAN] /\ busy \in [Procs -> 0..2] /\ calm \in 0..2
    /\ stale \in 0..Delay /\ {verdict, polled} \subseteq BOOLEAN

\* When the handovers are over for two ticks, the marker is live at every instant while
\* media of some source flows, whichever of those that run renews it.
FlowIsMarked == Settled => Live

\* "Mask short shared-marker handovers": the rounds that take their time within the
\* grace after that of a round that met no handover, and that round itself, say that the
\* camera streams, whatever the sources do to the file as they come and go meanwhile.
HandoverIsMasked == [][~polled /\ polled' /\ sure' - stale <= Grace => verdict']_vars

\* "without hiding a stopped source": a round says that the camera streams no longer than
\* the grace after the last source is gone, killed or not, and the ticks that the round
\* itself has waited for the cloud, by which its now is old.
StopIsSeen == [][~polled /\ polled' /\ quiet > Grace + stale => ~verdict']_vars

\* What the module promises.
Promise == [](TypeOK /\ FlowIsMarked) /\ HandoverIsMasked /\ StopIsSeen
=============================================================================
