----------------------------- MODULE Supervisor -----------------------------
(***************************************************************************)
(* BridgeSupervisor.run: one loop that watches the three files, and starts,*)
(* stops and restarts the bridge process (warm controller and go2rtc) so   *)
(* that it runs with the saved settings while their camera is bound.       *)
(*                                                                         *)
(* The loop reads settings, token and binding one after the other while    *)
(* they change (module Files).  A file signature that differs from the     *)
(* last one is `touched`.  Waits of the loop are left out; RESTART_DELAY   *)
(* is `delay`, over at any moment.  Stopping waits for the process: it     *)
(* ends, or survives even SIGKILL for as long as the loop waits.           *)
(***************************************************************************)
EXTENDS Naturals, FiniteSets

CONSTANTS
    Ids, None,
    Pids,        \* process ids, reused
    NoProcess,   \* no process
    MaxChanges,  \* bound on the file changes per run (a model bound)
    MaxFaults    \* bound on failing reads, starts, stops and processes per run

ASSUME SupervisorAssumption ==
    /\ None \notin Ids
    /\ "updating" \notin Ids /\ None # "updating"
    /\ NoProcess \notin Pids
    /\ MaxChanges \in Nat /\ MaxFaults \in Nat

VARIABLES
    settings, token, auth, touched,   \* the files
    reload, stop,                     \* the two events
    at, seen,                         \* the loop; the settings it read
    proc,                             \* self._process
    running, camera, killed,          \* live processes, what they serve, SIGKILL sent
    delay, startupError, status,
    changes, faults

F == INSTANCE Files

files == <<settings, token, auth, touched>>
procs == <<proc, running, camera, killed>>
vars  == <<files, reload, stop, at, seen, procs, delay, startupError, status, changes, faults>>

Init ==
    /\ F!Init
    /\ reload = FALSE /\ stop = FALSE
    /\ at = "test"                    \* the first signature is taken, and never a change
    /\ seen = None
    /\ proc = NoProcess /\ running = {} /\ killed = {}
    /\ camera = [p \in Pids |-> None]
    /\ delay = FALSE
    /\ startupError \in BOOLEAN
    /\ status = IF startupError THEN "error" ELSE "waiting"
    /\ changes = 0 /\ faults = 0

Fault == faults < MaxFaults /\ faults' = faults + 1

(***************************************************************************)
(* Around the loop                                                         *)
(***************************************************************************)
\* The wizard or the tool writes one of the files ...
FileChange ==
    /\ changes < MaxChanges
    /\ F!Change
    /\ changes' = changes + 1
    /\ UNCHANGED <<reload, stop, at, seen, procs, delay, startupError, status, faults>>

\* ... and may ask for a reload.
RequestReload ==
    /\ ~reload
    /\ changes < MaxChanges
    /\ reload' = TRUE
    /\ changes' = changes + 1
    /\ UNCHANGED <<files, stop, at, seen, procs, delay, startupError, status, faults>>

RequestStop ==
    /\ ~stop
    /\ stop' = TRUE
    /\ reload' = TRUE
    /\ UNCHANGED <<files, at, seen, procs, delay, startupError, status, changes, faults>>

\* The bridge exits by itself ...
ChildCrashes(p) ==
    /\ p \in running \ killed
    /\ Fault
    /\ running' = running \ {p}
    /\ UNCHANGED <<files, reload, stop, at, seen, proc, camera, killed, delay, startupError,
                   status, changes>>

\* ... or dies of SIGKILL at last.
ChildDies(p) ==
    /\ p \in running \cap killed
    /\ running' = running \ {p}
    /\ UNCHANGED <<files, reload, stop, at, seen, proc, camera, killed, delay, startupError,
                   status, changes, faults>>

DelayOver ==
    /\ delay
    /\ delay' = FALSE
    /\ UNCHANGED <<files, reload, stop, at, seen, procs, startupError, status, changes, faults>>

(***************************************************************************)
(* The loop                                                                *)
(***************************************************************************)
\* Mutant: only an explicit request reloads.
LookAtEvents ==
    /\ at = "look"
    /\ IF stop
       THEN at' = "final" /\ status' = "stopping" /\ UNCHANGED files
       ELSE at' = "test" /\ F!Noted /\ UNCHANGED status
    /\ UNCHANGED <<reload, stop, seen, procs, delay, startupError, changes, faults>>

Look ==
    /\ at = "look"
    /\ IF stop
       THEN at' = "final" /\ status' = "stopping" /\ UNCHANGED <<files, reload>>
       ELSE at' = "test" /\ F!Noted /\ reload' = (reload \/ touched) /\ UNCHANGED status
    /\ UNCHANGED <<stop, seen, procs, delay, startupError, changes, faults>>

Test ==
    /\ at = "test"
    /\ ~reload
    /\ at' = "read"
    /\ UNCHANGED <<files, reload, stop, seen, procs, delay, startupError, status, changes, faults>>

TakeReload ==
    /\ at = "test"
    /\ reload
    /\ reload' = FALSE
    /\ IF proc # NoProcess
       THEN at' = "restart" /\ status' = "restarting"
       ELSE at' = "init" /\ UNCHANGED status
    /\ UNCHANGED <<files, stop, seen, procs, delay, startupError, changes, faults>>

\* _retry_startup_initialization, and no delay for the next start.
InitAgain ==
    /\ at = "init"
    /\ delay' = FALSE
    /\ \/ ~startupError /\ UNCHANGED <<startupError, status, faults>>
       \/ startupError /\ Fault /\ status' = "error" /\ UNCHANGED startupError
       \/ startupError /\ startupError' = FALSE /\ status' = "waiting" /\ UNCHANGED faults
    /\ at' = "read"
    /\ UNCHANGED <<files, reload, stop, seen, procs, changes>>

\* Mutant: incomplete settings pass.
ReadSettingsAnyway ==
    /\ at = "read"
    /\ IF startupError
       THEN at' = "unready" /\ UNCHANGED seen
       ELSE at' = "token" /\ seen' = settings
    /\ UNCHANGED <<files, reload, stop, procs, delay, startupError, status, changes, faults>>

\* _ready: the settings first ...
ReadSettings ==
    /\ at = "read"
    /\ IF startupError \/ settings = None
       THEN at' = "unready" /\ UNCHANGED seen
       ELSE at' = "token" /\ seen' = settings
    /\ UNCHANGED <<files, reload, stop, procs, delay, startupError, status, changes, faults>>

ReadFails ==
    /\ at = "read" /\ ~startupError
    /\ Fault
    /\ at' = "unreadable"
    /\ UNCHANGED <<files, reload, stop, seen, procs, delay, startupError, status, changes>>

\* ... then the token, then the binding (token_matches_identity).
ReadToken ==
    /\ at = "token"
    /\ at' = IF token = None THEN "unready" ELSE "binding"
    /\ UNCHANGED <<files, reload, stop, seen, procs, delay, startupError, status, changes, faults>>

\* Mutant: any binding will do.
ReadAnyBinding ==
    /\ at = "binding"
    /\ at' = IF auth \in Ids THEN "start" ELSE "unready"
    /\ UNCHANGED <<files, reload, stop, seen, procs, delay, startupError, status, changes, faults>>

ReadBinding ==
    /\ at = "binding"
    /\ at' = IF auth = seen THEN "start" ELSE "unready"
    /\ UNCHANGED <<files, reload, stop, seen, procs, delay, startupError, status, changes, faults>>

\* An error while reading them counts as no match.
MatchFails ==
    /\ at \in {"token", "binding"}
    /\ Fault
    /\ at' = "unready"
    /\ UNCHANGED <<files, reload, stop, seen, procs, delay, startupError, status, changes>>

\* What the loop goes on to once no process of its own is left.
Stopped ==
    CASE at = "restart"    -> at' = "init" /\ UNCHANGED status
      [] at = "unreadable" -> at' = "look" /\ status' = "error"
      [] at = "unready"    -> at' = "look" /\ status' = IF startupError THEN "error" ELSE "waiting"
      [] at = "final"      -> at' = "off" /\ UNCHANGED status

Stopping == at \in {"restart", "unreadable", "unready", "final"}

\* Mutant: the loop ends without stopping the bridge.
StopChildUnlessFinal ==
    /\ Stopping
    /\ IF at = "final" THEN UNCHANGED <<running, proc>>
       ELSE running' = running \ {proc} /\ proc' = NoProcess
    /\ Stopped
    /\ UNCHANGED <<files, reload, stop, seen, camera, killed, delay, startupError, changes, faults>>

\* _stop_child succeeds: there is no process, or it has ended.
StopChild ==
    /\ Stopping
    /\ running' = running \ {proc}
    /\ proc' = NoProcess
    /\ Stopped
    /\ UNCHANGED <<files, reload, stop, seen, camera, killed, delay, startupError, changes, faults>>

\* Mutant: a process that cannot be reaped is forgotten.
StopForgets ==
    /\ Stopping
    /\ proc \in running
    /\ Fault
    /\ killed' = killed \cup {proc}
    /\ proc' = NoProcess
    /\ status' = "error"
    /\ at' = IF at = "final" THEN "off" ELSE "look"
    /\ UNCHANGED <<files, reload, stop, seen, running, camera, delay, startupError, changes>>

\* _stop_child fails: the process outlives SIGTERM and SIGKILL.
StopTimesOut ==
    /\ Stopping
    /\ proc \in running
    /\ Fault
    /\ killed' = killed \cup {proc}
    /\ status' = "error"
    /\ at' = IF at = "final" THEN "off" ELSE "look"
    /\ UNCHANGED <<files, reload, stop, seen, proc, running, camera, delay, startupError, changes>>

Start ==
    /\ at = "start"
    /\ proc = NoProcess /\ ~delay
    /\ \E p \in Pids \ running :
          /\ proc' = p
          /\ running' = running \cup {p}
          /\ camera' = [camera EXCEPT ![p] = seen]
          /\ killed' = killed \ {p}
    /\ status' = "running"
    /\ at' = "poll"
    /\ UNCHANGED <<files, reload, stop, seen, delay, startupError, changes, faults>>

StartFails ==
    /\ at = "start"
    /\ proc = NoProcess /\ ~delay
    /\ Fault
    /\ delay' = TRUE
    /\ status' = "error"
    /\ at' = "poll"
    /\ UNCHANGED <<files, reload, stop, seen, procs, startupError, changes>>

\* It runs already, or it is too early.
NoStart ==
    /\ at = "start"
    /\ proc # NoProcess \/ delay
    /\ at' = "poll"
    /\ UNCHANGED <<files, reload, stop, seen, procs, delay, startupError, status, changes, faults>>

\* Mutant: an exit is reported and the dead process kept.
PollKeeps ==
    /\ at = "poll"
    /\ at' = "look"
    /\ IF proc # NoProcess /\ proc \notin running
       THEN delay' = TRUE /\ status' = "error"
       ELSE UNCHANGED <<delay, status>>
    /\ UNCHANGED <<files, reload, stop, seen, procs, startupError, changes, faults>>

Poll ==
    /\ at = "poll"
    /\ at' = "look"
    /\ IF proc # NoProcess /\ proc \notin running
       THEN proc' = NoProcess /\ delay' = TRUE /\ status' = "error"
       ELSE UNCHANGED <<proc, delay, status>>
    /\ UNCHANGED <<files, reload, stop, seen, running, camera, killed, startupError, changes, faults>>

(***************************************************************************)
(* Specification                                                           *)
(***************************************************************************)
Loop ==
    \/ Look \/ Test \/ TakeReload \/ InitAgain
    \/ ReadSettings \/ ReadFails \/ ReadToken \/ ReadBinding \/ MatchFails
    \/ StopChild \/ StopTimesOut
    \/ Start \/ StartFails \/ NoStart \/ Poll

Off == at = "off" /\ UNCHANGED vars

Next ==
    \/ FileChange \/ RequestReload \/ RequestStop
    \/ \E p \in Pids : ChildCrashes(p) \/ ChildDies(p)
    \/ DelayOver
    \/ Loop
    \/ Off

Spec == Init /\ [][Next]_vars

\* The loop goes round, its waits and delays are over some time, and a
\* process that was sent SIGKILL dies.
Fairness ==
    /\ WF_vars(Loop)
    /\ WF_vars(DelayOver)
    /\ \A p \in Pids : WF_vars(ChildDies(p))

FairSpec == Spec /\ Fairness

(***************************************************************************)
(* Properties                                                              *)
(***************************************************************************)
\* Every variable keeps its type.
TypeOK ==
    /\ settings \in Ids \cup {None} /\ token \in Ids \cup {None}
    /\ auth \in Ids \cup {None, "updating"}
    /\ touched \in BOOLEAN /\ reload \in BOOLEAN /\ stop \in BOOLEAN
    /\ delay \in BOOLEAN /\ startupError \in BOOLEAN
    /\ at \in {"look", "test", "init", "read", "token", "binding", "start", "poll",
               "restart", "unreadable", "unready", "final", "off"}
    /\ seen \in Ids \cup {None}
    /\ at \in {"token", "binding", "start"} => seen \in Ids
    /\ proc \in Pids \cup {NoProcess}
    /\ running \subseteq Pids /\ killed \subseteq Pids
    /\ camera \in [Pids -> Ids \cup {None}]
    /\ status \in {"waiting", "restarting", "running", "error", "stopping"}
    /\ changes \in 0..MaxChanges /\ faults \in 0..MaxFaults

\* The supervisor never runs two bridges, and never loses sight of the one
\* it runs: two would fight for the ports and the camera
\* (service_supervisor.py:192).
OneChild == running \subseteq {proc}

\* A bridge that does not match the files is never left alone: the change
\* is still to be noticed, or the loop is about to stop the bridge, or the
\* bridge has been killed and only has to die.  Files that change while they
\* are read, and a reload whose stop timed out, are the hard cases.
StaleIsNoticed ==
    \A p \in running :
        \/ F!Matches(camera[p]) /\ settings = camera[p]
        \/ touched \/ reload \/ stop
        \/ Stopping
        \/ p \in killed

Ready == ~startupError /\ settings # None /\ F!Matches(settings)

\* After the last change the bridge runs with the settings on disk if their
\* camera is bound, and does not run otherwise (README.md:82, saving or
\* logging in reloads the bridge).
Applied ==
    \/ stop
    \/ IF Ready THEN \E p \in running : camera[p] = settings ELSE running = {}

LatestApplied == <>[]Applied

\* The health endpoint settles: an installation that is ready is not reported
\* as broken for ever after a fault that is over, and one that waits for the
\* user is healthy.
Healthy == IF Ready THEN status \in {"running", "restarting"} ELSE status = "waiting"

HealthSettles == <>[](stop \/ startupError \/ Healthy)

\* Both: after the last change the bridge and what is said of it are right.
Settles == LatestApplied /\ HealthSettles

\* A requested stop ends the loop, with no process left but one that even
\* SIGKILL has not ended yet.
StopEnds == stop ~> at = "off" /\ running \subseteq killed

\* Left alone the supervisor settles on what the files say; told to stop, it ends.
SettlesOrStops == Settles /\ StopEnds
=============================================================================
