-------------------------- MODULE SupervisorProofs --------------------------
(***************************************************************************)
(* Supervisor runs one bridge at most and never leaves one alone that does *)
(* not match the files, for any cameras, process ids, changes and faults.  *)
(*                                                                         *)
(* StaleIsNoticed is not inductive: a bridge is started with what was read *)
(* in three steps before (Informed), and the reload event is cleared while *)
(* the old bridge still runs (Emptied).                                    *)
(***************************************************************************)
EXTENDS Supervisor, TLAPS

\* Something still makes the loop look at the files again.
Due == touched \/ reload \/ stop

\* What the loop has read so far is still on disk, or a change is due.
Informed ==
    \/ Due
    \/ /\ at \in {"token", "binding", "start"} => settings = seen
       /\ at \in {"binding", "start"} => token # None
       /\ at = "start" => auth = seen

\* No process is left when a reload goes on.
Emptied == at = "init" => proc = NoProcess

IInv == TypeOK /\ OneChild /\ Emptied /\ Informed /\ StaleIsNoticed

LEMMA InitInv == Init => IInv
  <1> SUFFICES ASSUME Init PROVE IInv
    OBVIOUS
  <1>1. TypeOK
    <2>1. status \in {"waiting", "error"} /\ startupError \in BOOLEAN
      BY DEF Init
    <2>2. settings \in Ids \cup {None} /\ token \in Ids \cup {None}
          /\ auth \in Ids \cup {None, "updating"} /\ touched \in BOOLEAN
      BY DEF Init, F!Init
    <2>3. camera \in [Pids -> Ids \cup {None}]
      BY DEF Init
    <2>4. changes \in 0..MaxChanges /\ faults \in 0..MaxFaults
      BY SupervisorAssumption DEF Init
    <2>5. reload \in BOOLEAN /\ stop \in BOOLEAN /\ delay \in BOOLEAN
      BY DEF Init
    <2>6. at = "test" /\ seen = None /\ proc = NoProcess /\ running = {} /\ killed = {}
      BY DEF Init
    <2> QED
      BY <2>1, <2>2, <2>3, <2>4, <2>5, <2>6 DEF TypeOK
  <1>2. OneChild /\ Emptied /\ StaleIsNoticed
    BY DEF Init, OneChild, Emptied, StaleIsNoticed
  <1>3. Informed
    BY DEF Init, Informed
  <1> QED
    BY <1>1, <1>2, <1>3 DEF IInv

\* The steps of others: the files, the events, the processes and the clock.
LEMMA AroundStep ==
    ASSUME IInv,
           \/ FileChange \/ RequestReload \/ RequestStop \/ DelayOver
           \/ \E p \in Pids : ChildCrashes(p) \/ ChildDies(p)
    PROVE  IInv'
  <1>1. CASE FileChange
    <2>1. touched' /\ settings' \in Ids \cup {None} /\ token' \in Ids \cup {None}
          /\ auth' \in Ids \cup {None, "updating"}
      BY <1>1 DEF FileChange, F!Change, F!Unbind, F!Bind, F!Select, F!Replace, IInv, TypeOK
    <2>2. changes' \in 0..MaxChanges
      BY <1>1, SupervisorAssumption DEF FileChange, IInv, TypeOK
    <2>3. touched' \in BOOLEAN
      BY <1>1 DEF FileChange, F!Change
    <2>4. TypeOK'
      BY <1>1, <2>1, <2>2, <2>3 DEF FileChange, procs, IInv, TypeOK
    <2>5. OneChild' /\ Emptied'
      BY <1>1 DEF FileChange, procs, IInv, OneChild, Emptied
    <2>6. Informed' /\ StaleIsNoticed'
      BY <2>1 DEF Informed, Due, StaleIsNoticed
    <2> QED
      BY <2>4, <2>5, <2>6 DEF IInv
  <1>2. CASE RequestReload \/ RequestStop
    <2>0. reload' \in BOOLEAN /\ stop' \in BOOLEAN /\ changes' \in 0..MaxChanges
      <3>1. CASE RequestReload
        BY <3>1, SupervisorAssumption DEF RequestReload, IInv, TypeOK
      <3>2. CASE RequestStop
        BY <3>2 DEF RequestStop, IInv, TypeOK
      <3> QED
        BY <1>2, <3>1, <3>2
    <2>1. TypeOK'
      BY <1>2, <2>0 DEF RequestReload, RequestStop, files, procs, IInv, TypeOK
    <2>2. OneChild' /\ Emptied'
      BY <1>2 DEF RequestReload, RequestStop, procs, IInv, OneChild, Emptied
    <2>3. Informed' /\ StaleIsNoticed'
      BY <1>2 DEF RequestReload, RequestStop, Informed, Due, StaleIsNoticed
    <2> QED
      BY <2>1, <2>2, <2>3 DEF IInv
  <1>3. CASE DelayOver \/ \E p \in Pids : ChildCrashes(p) \/ ChildDies(p)
    <2>1. running' \subseteq running
      BY <1>3 DEF DelayOver, ChildCrashes, ChildDies, procs
    <2>2. UNCHANGED <<files, reload, stop, at, seen, proc, camera, killed, startupError, changes>>
      BY <1>3 DEF DelayOver, ChildCrashes, ChildDies, procs
    <2>3. delay' \in BOOLEAN /\ status' = status /\ faults' \in 0..MaxFaults
      <3>1. CASE DelayOver
        BY <3>1 DEF DelayOver, IInv, TypeOK
      <3>2. CASE \E p \in Pids : ChildCrashes(p) \/ ChildDies(p)
        BY <3>2, SupervisorAssumption DEF ChildCrashes, ChildDies, Fault, IInv, TypeOK
      <3> QED
        BY <1>3, <3>1, <3>2
    <2>4. TypeOK'
      BY <2>1, <2>2, <2>3 DEF files, IInv, TypeOK
    <2>5. OneChild' /\ Emptied' /\ Informed'
      BY <2>1, <2>2 DEF files, IInv, OneChild, Emptied, Informed, Due
    <2>6. StaleIsNoticed'
      BY <2>1, <2>2 DEF files, IInv, StaleIsNoticed, Stopping, F!Matches
    <2> QED
      BY <2>4, <2>5, <2>6 DEF IInv
  <1> QED
    BY <1>1, <1>2, <1>3

LEMMA LoopType == IInv /\ Loop => TypeOK'
  <1> SUFFICES ASSUME IInv, Loop PROVE TypeOK'
    OBVIOUS
  <1>0. TypeOK
    BY DEF IInv
  <1> USE <1>0 DEF TypeOK, files, procs
  <1>1. CASE Look
    BY <1>1 DEF Look, F!Noted
  <1>2. CASE Test \/ TakeReload
    BY <1>2, ZenonT(60) DEF Test, TakeReload
  <1>3. CASE InitAgain
    <2>1. faults' \in 0..MaxFaults
      BY <1>3, SupervisorAssumption DEF InitAgain, Fault
    <2>2. startupError' \in BOOLEAN /\ status' \in {status, "error", "waiting"}
      BY <1>3 DEF InitAgain
    <2>3. at' = "read"
      BY <1>3 DEF InitAgain
    <2>4. /\ UNCHANGED <<settings, token, auth, touched, reload, stop, seen>>
          /\ UNCHANGED <<proc, running, camera, killed, changes>> /\ delay' = FALSE
      BY <1>3 DEF InitAgain
    <2> QED
      BY <2>1, <2>2, <2>3, <2>4, ZenonT(60)
  <1>4. CASE ReadSettings
    BY <1>4 DEF ReadSettings
  <1>5. CASE ReadFails \/ MatchFails
    BY <1>5, SupervisorAssumption DEF ReadFails, MatchFails, Fault
  <1>6. CASE ReadToken \/ ReadBinding
    BY <1>6 DEF ReadToken, ReadBinding
  <1>7. CASE StopChild
    <2>1. at' \in {"init", "look", "off"} /\ status' \in {status, "error", "waiting"}
      BY <1>7 DEF StopChild, Stopping, Stopped
    <2> QED
      BY <1>7, <2>1 DEF StopChild
  <1>8. CASE StopTimesOut
    <2>1. proc \in Pids /\ at' \in {"off", "look"}
      BY <1>8 DEF StopTimesOut
    <2>2. faults' \in 0..MaxFaults
      BY <1>8, SupervisorAssumption DEF StopTimesOut, Fault
    <2> QED
      BY <1>8, <2>1, <2>2 DEF StopTimesOut
  <1>9. CASE Start
    BY <1>9 DEF Start
  <1>10. CASE StartFails
    BY <1>10, SupervisorAssumption DEF StartFails, Fault
  <1>11. CASE NoStart \/ Poll
    BY <1>11, ZenonT(60) DEF NoStart, Poll
  <1> QED
    BY <1>1, <1>2, <1>3, <1>4, <1>5, <1>6, <1>7, <1>8, <1>9, <1>10, <1>11 DEF Loop

LEMMA LoopChild == IInv /\ Loop => OneChild' /\ Emptied'
  <1> SUFFICES ASSUME IInv, Loop PROVE OneChild' /\ Emptied'
    OBVIOUS
  <1>1. CASE Start
    BY <1>1, SupervisorAssumption DEF Start, IInv, OneChild, Emptied, TypeOK
  <1>2. CASE StopChild
    BY <1>2 DEF StopChild, IInv, OneChild, Emptied
  <1>3. CASE Poll
    BY <1>3 DEF Poll, IInv, OneChild, Emptied
  <1>4. CASE TakeReload
    BY <1>4 DEF TakeReload, procs, IInv, OneChild, Emptied
  <1>5. CASE ~Start /\ ~StopChild /\ ~Poll /\ ~TakeReload
    <2>1. proc' = proc /\ running' = running /\ at' # "init"
      BY <1>5 DEF Loop, Look, Test, InitAgain, ReadSettings, ReadFails, ReadToken, ReadBinding,
                  MatchFails, StopTimesOut, StartFails, NoStart, procs
    <2> QED
      BY <2>1 DEF IInv, OneChild, Emptied
  <1> QED
    BY <1>1, <1>2, <1>3, <1>4, <1>5

LEMMA LoopInformed == IInv /\ Loop => Informed'
  <1> SUFFICES ASSUME IInv, Loop PROVE Informed'
    OBVIOUS
  <1>1. CASE at' \notin {"token", "binding", "start"}
    BY <1>1 DEF Informed
  <1>2. CASE at' \in {"token", "binding", "start"}
    <2>1. ReadSettings \/ ReadToken \/ ReadBinding
      BY <1>2 DEF Loop, Look, Test, TakeReload, InitAgain, ReadFails, MatchFails, StopChild,
                  Stopped, Stopping, StopTimesOut, Start, StartFails, NoStart, Poll
    <2>2. UNCHANGED <<settings, token, auth, touched, reload, stop>>
      BY <2>1 DEF ReadSettings, ReadToken, ReadBinding, files
    <2>3. CASE ReadSettings
      BY <2>2, <2>3, <1>2 DEF ReadSettings, Informed, Due
    <2>4. CASE ReadToken
      BY <2>2, <2>4, <1>2 DEF ReadToken, IInv, Informed, Due
    <2>5. CASE ReadBinding
      BY <2>2, <2>5, <1>2 DEF ReadBinding, IInv, Informed, Due
    <2> QED
      BY <2>1, <2>3, <2>4, <2>5
  <1> QED
    BY <1>1, <1>2

LEMMA LoopStale == IInv /\ Loop => StaleIsNoticed'
  <1> SUFFICES ASSUME IInv, Loop PROVE StaleIsNoticed'
    OBVIOUS
  <1>1. CASE Look
    <2>1. CASE stop
      BY <1>1, <2>1 DEF Look, StaleIsNoticed
    <2>2. CASE ~stop
      <3>1. Due => reload'
        BY <1>1, <2>2 DEF Look, Due
      <3>2. UNCHANGED <<settings, token, auth, running, camera, killed, stop>> /\ ~Stopping
        BY <1>1, <2>2 DEF Look, F!Noted, procs, Stopping
      <3> QED
        BY <3>1, <3>2 DEF IInv, StaleIsNoticed, Due, F!Matches
    <2> QED
      BY <2>1, <2>2
  <1>2. CASE TakeReload
    <2>1. CASE proc = NoProcess
      <3>1. running' = {}
        BY <1>2, <2>1, SupervisorAssumption DEF TakeReload, procs, IInv, OneChild, TypeOK
      <3> QED
        BY <3>1 DEF StaleIsNoticed
    <2>2. CASE proc # NoProcess
      BY <1>2, <2>2 DEF TakeReload, StaleIsNoticed, Stopping
    <2> QED
      BY <2>1, <2>2
  <1>3. CASE InitAgain
    <2>1. running' = {}
      BY <1>3, SupervisorAssumption DEF InitAgain, procs, IInv, OneChild, Emptied, TypeOK
    <2> QED
      BY <2>1 DEF StaleIsNoticed
  <1>4. CASE StopChild
    <2>1. running' = {}
      BY <1>4 DEF StopChild, IInv, OneChild
    <2> QED
      BY <2>1 DEF StaleIsNoticed
  <1>5. CASE StopTimesOut
    <2>1. \A p \in running' : p \in killed'
      BY <1>5 DEF StopTimesOut, IInv, OneChild
    <2> QED
      BY <2>1 DEF StaleIsNoticed
  <1>6. CASE Start
    <2>1. PICK p \in Pids \ running : running' = running \cup {p} /\ camera' = [camera EXCEPT ![p] = seen]
      BY <1>6 DEF Start
    <2>2. running' = {p}
      BY <1>6, <2>1, SupervisorAssumption DEF Start, IInv, OneChild, TypeOK
    <2>3. camera'[p] = seen
      BY <2>1 DEF IInv, TypeOK
    <2>4. Due \/ (settings = seen /\ token # None /\ auth = seen)
      BY <1>6 DEF Start, IInv, Informed
    <2>5. UNCHANGED <<settings, token, auth, touched, reload, stop>>
      BY <1>6 DEF Start, files
    <2> QED
      BY <2>2, <2>3, <2>4, <2>5 DEF StaleIsNoticed, Due, F!Matches
  <1>7. CASE Test \/ ReadSettings \/ ReadFails \/ ReadToken \/ ReadBinding \/ MatchFails
             \/ StartFails \/ NoStart \/ Poll
    <2>1. UNCHANGED <<settings, token, auth, touched, reload, stop, running, camera, killed>>
      BY <1>7 DEF Test, ReadSettings, ReadFails, ReadToken, ReadBinding, MatchFails, StartFails,
                  NoStart, Poll, files, procs
    <2>2. ~Stopping
      BY <1>7 DEF Test, ReadSettings, ReadFails, ReadToken, ReadBinding, MatchFails, StartFails,
                  NoStart, Poll, Stopping
    <2> QED
      BY <2>1, <2>2 DEF IInv, StaleIsNoticed, F!Matches
  <1> QED
    BY <1>1, <1>2, <1>3, <1>4, <1>5, <1>6, <1>7 DEF Loop

LEMMA InvStep == IInv /\ [Next]_vars => IInv'
  <1> SUFFICES ASSUME IInv, [Next]_vars PROVE IInv'
    OBVIOUS
  <1>1. CASE Loop
    BY <1>1, LoopType, LoopChild, LoopInformed, LoopStale DEF IInv
  <1>2. CASE Off \/ UNCHANGED vars
    <2>1. UNCHANGED vars
      BY <1>2 DEF Off
    <2>2. TypeOK' /\ OneChild' /\ Emptied'
      BY <2>1 DEF vars, files, procs, IInv, TypeOK, OneChild, Emptied
    <2>3. Informed' /\ StaleIsNoticed'
      BY <2>1 DEF vars, files, procs, IInv, Informed, Due, StaleIsNoticed, Stopping, F!Matches
    <2> QED
      BY <2>2, <2>3 DEF IInv
  <1> QED
    BY <1>1, <1>2, AroundStep DEF Next

LEMMA Invariance == Spec => []IInv
  BY InitInv, InvStep, PTL DEF Spec

\* Every variable of Supervisor keeps its type.
THEOREM TypeCorrect == Spec => []TypeOK
  BY Invariance, PTL DEF IInv

\* The supervisor never runs two bridges, whatever stops time out.
THEOREM NeverTwo == Spec => []OneChild
  BY Invariance, PTL DEF IInv

\* No change of the files is lost, whenever it happens: a bridge that does
\* not match them is about to be stopped, or something makes the loop look.
THEOREM NoChangeIsLost == Spec => []StaleIsNoticed
  BY Invariance, PTL DEF IInv
=============================================================================
