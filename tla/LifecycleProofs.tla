-------------------------- MODULE LifecycleProofs --------------------------
(***************************************************************************)
(* Safety of activation and removal, however often the game authors its    *)
(* arm bounds.                                                             *)
(***************************************************************************)
EXTENDS Lifecycle, SequenceTheorems, TLAPS

Before == {"none", "poll", "activate", "validate", "enable"}
Over == {"none", "done"}
Restored == {"unhook", "done"}

(* The removal goes on only when the readiness thread is over, and a mod   *)
(* that was never installed never had one.                                 *)
RemovalWaits ==
  /\ loaded = "no" => remover = "idle"
  /\ loaded \in {"no", "failed"} => worker = "none" /\ ~basePointer
  /\ loaded = "installed" => worker # "none"
  /\ loaded = "removed" => remover = "done"
  /\ remover \notin {"idle", "join"} => worker \in Over
  /\ remover \in {"disable", "stopMonitor", "restore", "unhook"} => loaded = "installed"
  /\ remover = "done" => loaded \in {"failed", "removed"} /\ ~basePointer

(* The hooks are dormant until the thread enables them and again once the  *)
(* removal did; a verdict is the thread's last word.                       *)
Dormant ==
  /\ worker \in Before => ~enabled
  /\ remover \in {"stopMonitor", "restore", "unhook", "done"} => ~enabled
  /\ worker \in {"start", "report"} => enabled
  /\ status \in {"active", "abort"} => worker \in Over
  /\ status = "active" /\ remover \in {"idle", "join", "disable"} => enabled
  /\ status = "abort" => ~enabled

(* Before the thread has taken the game's bounds nothing of the mod's is   *)
(* in them; from then on what would be put back is kept until it is.       *)
Untouched == ~usable /\ captured = 0 /\ bounds # Ours
BoundsKept ==
  /\ worker \in Before \ {"enable"} => Untouched
  /\ ready => bounds # 0
  /\ usable /\ remover \notin Restored => captured # 0
  /\ bounds = Ours => usable
  /\ remover \in Restored /\ ready /\ ~overtaken => bounds # Ours

(* The main queue holds at most the start and, behind it, the stop.        *)
Outstanding ==
  \/ startRequested /\ blocks = <<"start">> /\ ~token
  \/ startRequested /\ blocks = <<>> /\ token
  \/ ~startRequested /\ blocks = <<"start", "stop">> /\ ~token
  \/ ~startRequested /\ blocks = <<"stop">> /\ token
  \/ ~startRequested /\ blocks = <<>> /\ ~token
MonitorOwned ==
  /\ Outstanding
  /\ worker \in Before \cup {"start"} => ~startRequested /\ blocks = <<>> /\ ~token
  /\ remover \in Restored \cup {"restore"} => ~startRequested

IInv == TypeOK /\ RemovalWaits /\ Dormant /\ BoundsKept /\ MonitorOwned

-----------------------------------------------------------------------------
(* The mod's own bounds are none of the game's. *)
LEMMA OursApart == Versions \in Nat \ {0} /\ Ours \in Nat /\ Ours > Versions
  BY LifecycleConstants DEF Ours

(* What the queue's operators do to the few values it can have.            *)
LEMMA StopBehindStart == Append(<<"start">>, "stop") = <<"start", "stop">>
<1> DEFINE S == {"start", "stop"}
           one == <<"start">>
           both == <<"start", "stop">>
           result == Append(one, "stop")
<1>1. one \in Seq(S) /\ Len(one) = 1 /\ one[1] = "start"
  OBVIOUS
<1>2. both \in Seq(S) /\ Len(both) = 2 /\ both[1] = "start" /\ both[2] = "stop"
  OBVIOUS
<1>3. /\ result \in Seq(S) /\ Len(result) = 2
      /\ result[1] = "start" /\ result[2] = "stop"
  BY <1>1, AppendProperties
<1> HIDE DEF S, both, result
<1>4. \A i \in 1 .. Len(result) : result[i] = both[i]
  BY <1>2, <1>3
<1>5. result = both
  BY <1>2, <1>3, <1>4, SeqEqual
<1> QED BY <1>5 DEF both, result

(* What the main queue looks like before and after one append or take.     *)
LEMMA Queues ==
  /\ Append(<<>>, "start") = <<"start">> /\ Append(<<>>, "stop") = <<"stop">>
  /\ Head(<<"start">>) = "start" /\ Tail(<<"start">>) = <<>>
  /\ Head(<<"stop">>) = "stop" /\ Tail(<<"stop">>) = <<>>
  /\ Head(<<"start", "stop">>) = "start" /\ Tail(<<"start", "stop">>) = <<"stop">>
  /\ <<>> # <<"start">> /\ <<>> # <<"stop">> /\ <<>> # <<"start", "stop">>
  OBVIOUS

(* The four queues the main thread can hold are sequences of its blocks.   *)
LEMMA QueueValues ==
  \A q \in {<<>>, <<"start">>, <<"stop">>, <<"start", "stop">>} :
    q \in Seq({"start", "stop"})
<1>1. /\ <<>> \in Seq({"start", "stop"})
      /\ <<"start">> \in Seq({"start", "stop"})
      /\ <<"stop">> \in Seq({"start", "stop"})
      /\ <<"start", "stop">> \in Seq({"start", "stop"})
  OBVIOUS
<1> QED BY <1>1

(* A freshly loaded library satisfies the inductive invariant.             *)
LEMMA InitIInv == Init => IInv
<1> SUFFICES ASSUME Init PROVE IInv
  OBVIOUS
<1>1. TypeOK
  <2>1. LabelsOK /\ BoundsOK
    BY OursApart DEF Init, LabelsOK, BoundsOK
  <2>2. FlagsOK
    BY DEF Init, FlagsOK
  <2> QED BY <2>1, <2>2, QueueValues DEF Init, TypeOK
<1>2. RemovalWaits /\ Dormant
  BY DEF Init, RemovalWaits, Dormant, Before, Over
<1>3. BoundsKept
  BY OursApart DEF Init, BoundsKept, Untouched, Restored
<1>4. MonitorOwned
  BY DEF Init, MonitorOwned, Outstanding, Restored
<1> QED BY <1>1, <1>2, <1>3, <1>4 DEF IInv

(* The readiness thread. *)
LEMMA WorkerKeeps == IInv /\ Worker => IInv'
<1> SUFFICES ASSUME IInv PROVE Worker => IInv'
  OBVIOUS
<1> USE DEF IInv, RemovalWaits, Dormant, BoundsKept, Untouched, Before, Over, Restored,
           TypeOK, LabelsOK, FlagsOK, BoundsOK, module, definitions, hooks, update, monitor, MonitorOwned, Outstanding
<1>1. ASSUME Stopped PROVE IInv'
  BY <1>1, OursApart, QueueValues DEF Stopped
<1>2. ASSUME SiteInvalid PROVE IInv'
  BY <1>2, OursApart, QueueValues DEF SiteInvalid, Abort
<1>3. ASSUME BecameReady PROVE IInv'
  BY <1>3, OursApart, QueueValues DEF BecameReady
<1>4. ASSUME TimedOut PROVE IInv'
  BY <1>4, OursApart, QueueValues DEF TimedOut, Abort
<1>5. ASSUME ActivateLocks PROVE IInv'
  BY <1>5, OursApart, QueueValues DEF ActivateLocks
<1>6. ASSUME ActivateRefuses PROVE IInv'
  BY <1>6, OursApart, QueueValues DEF ActivateRefuses, Abort
<1>7. ASSUME TakeBounds PROVE IInv'
  <2>1. TypeOK'
    <3>0. bounds \in 0 .. Versions /\ Ours = Versions + 1
      BY <1>7, OursApart DEF TakeBounds, Ours
    <3>1. LabelsOK' /\ BoundsOK'
      BY <1>7, <3>0, OursApart DEF TakeBounds
    <3>2. FlagsOK'
      BY <1>7 DEF TakeBounds
    <3>3. blocks' \in Seq({"start", "stop"})
      BY <1>7, QueueValues DEF TakeBounds
    <3> QED BY <3>1, <3>2, <3>3
  <2>2. RemovalWaits'
    BY <1>7 DEF TakeBounds
  <2>3. Dormant'
    BY <1>7 DEF TakeBounds
  <2>4. BoundsKept'
    BY <1>7, OursApart DEF TakeBounds
  <2>5. MonitorOwned'
    BY <1>7 DEF TakeBounds
  <2> QED BY <2>1, <2>2, <2>3, <2>4, <2>5
<1>8. ASSUME Enable PROVE IInv'
  BY <1>8, OursApart, QueueValues DEF Enable
<1>9. ASSUME RequestMonitor PROVE IInv'
  BY <1>9, OursApart, QueueValues, Queues, StopBehindStart DEF RequestMonitor
<1>10. ASSUME ReportActive PROVE IInv'
  BY <1>10, OursApart, QueueValues DEF ReportActive
<1> QED BY <1>1, <1>2, <1>3, <1>4, <1>5, <1>6, <1>7, <1>8, <1>9, <1>10 DEF Worker, Proceed

(* The updates. *)
LEMMA CameraKeeps == IInv /\ Camera => IInv'
<1> SUFFICES ASSUME IInv PROVE Camera => IInv'
  OBVIOUS
<1> USE DEF IInv, RemovalWaits, Dormant, BoundsKept, Untouched, Before, Over, Restored,
           TypeOK, LabelsOK, FlagsOK, BoundsOK, module, definitions, hooks, update, monitor, MonitorOwned, Outstanding
<1>1. ASSUME UpdateEnters PROVE IInv'
  BY <1>1, OursApart, QueueValues DEF UpdateEnters
<1>2. ASSUME UpdateLocks PROVE IInv'
  BY <1>2, OursApart, QueueValues DEF UpdateLocks
<1>3. ASSUME UpdateFaults PROVE IInv'
  BY <1>3, OursApart, QueueValues DEF UpdateFaults
<1>4. ASSUME UpdateReturns PROVE IInv'
  BY <1>4, OursApart, QueueValues DEF UpdateReturns
<1> QED BY <1>1, <1>2, <1>3, <1>4 DEF Camera

(* The game's definitions. *)
LEMMA GameKeeps == IInv /\ Game => IInv'
<1> SUFFICES ASSUME IInv PROVE Game => IInv'
  OBVIOUS
<1> USE DEF IInv, RemovalWaits, Dormant, BoundsKept, Untouched, Before, Over, Restored,
           TypeOK, LabelsOK, FlagsOK, BoundsOK, module, definitions, hooks, update, monitor, MonitorOwned, Outstanding
<1>1. ASSUME Created PROVE IInv'
  BY <1>1, OursApart, QueueValues DEF Created, Author
<1>2. ASSUME Reauthored PROVE IInv'
  BY <1>2, OursApart, QueueValues DEF Reauthored, Author
<1>3. ASSUME GivenUp PROVE IInv'
  <2>1. TypeOK'
    <3>1. LabelsOK' /\ BoundsOK'
      BY <1>3, OursApart DEF GivenUp
    <3>2. FlagsOK'
      BY <1>3 DEF GivenUp
    <3>3. blocks' \in Seq({"start", "stop"})
      BY <1>3, QueueValues DEF GivenUp
    <3> QED BY <3>1, <3>2, <3>3
  <2>2. RemovalWaits'
    BY <1>3 DEF GivenUp
  <2>3. Dormant'
    BY <1>3 DEF GivenUp
  <2>4. BoundsKept'
    BY <1>3, OursApart DEF GivenUp
  <2>5. MonitorOwned'
    BY <1>3 DEF GivenUp
  <2> QED BY <2>1, <2>2, <2>3, <2>4, <2>5
<1> QED BY <1>1, <1>2, <1>3 DEF Game

(* The main queue. *)
LEMMA MainKeeps == IInv /\ Main => IInv'
<1> SUFFICES ASSUME IInv PROVE Main => IInv'
  OBVIOUS
<1> USE DEF IInv, RemovalWaits, Dormant, BoundsKept, Untouched, Before, Over, Restored,
           TypeOK, LabelsOK, FlagsOK, BoundsOK, module, definitions, hooks, update, monitor, MonitorOwned, Outstanding
<1>1. ASSUME RunStart PROVE IInv'
  <2>1. TypeOK'
    <3>1. LabelsOK' /\ BoundsOK'
      BY <1>1, OursApart DEF RunStart
    <3>2. FlagsOK'
      BY <1>1 DEF RunStart
    <3>3. blocks' \in Seq({"start", "stop"})
      BY <1>1, QueueValues, Queues, StopBehindStart DEF RunStart
    <3> QED BY <3>1, <3>2, <3>3
  <2>2. RemovalWaits'
    BY <1>1 DEF RunStart
  <2>3. Dormant'
    BY <1>1 DEF RunStart
  <2>4. BoundsKept'
    BY <1>1, OursApart DEF RunStart
  <2>5. MonitorOwned'
    BY <1>1, Queues, StopBehindStart DEF RunStart
  <2> QED BY <2>1, <2>2, <2>3, <2>4, <2>5
<1>2. ASSUME RunStop PROVE IInv'
  <2>1. TypeOK'
    <3>1. LabelsOK' /\ BoundsOK'
      BY <1>2, OursApart DEF RunStop
    <3>2. FlagsOK'
      BY <1>2 DEF RunStop
    <3>3. blocks' \in Seq({"start", "stop"})
      BY <1>2, QueueValues, Queues, StopBehindStart DEF RunStop
    <3> QED BY <3>1, <3>2, <3>3
  <2>2. RemovalWaits'
    BY <1>2 DEF RunStop
  <2>3. Dormant'
    BY <1>2 DEF RunStop
  <2>4. BoundsKept'
    BY <1>2, OursApart DEF RunStop
  <2>5. MonitorOwned'
    BY <1>2, Queues, StopBehindStart DEF RunStop
  <2> QED BY <2>1, <2>2, <2>3, <2>4, <2>5
<1> QED BY <1>1, <1>2 DEF Main

(* The removal. *)
LEMMA RemoverKeeps == IInv /\ Remover => IInv'
<1> SUFFICES ASSUME IInv PROVE Remover => IInv'
  OBVIOUS
<1> USE DEF IInv, RemovalWaits, Dormant, BoundsKept, Untouched, Before, Over, Restored,
           TypeOK, LabelsOK, FlagsOK, BoundsOK, module, definitions, hooks, update, monitor, MonitorOwned, Outstanding
<1>1. ASSUME Joined PROVE IInv'
  BY <1>1, OursApart, QueueValues DEF Joined
<1>2. ASSUME Disable PROVE IInv'
  <2>1. TypeOK'
    <3>1. LabelsOK' /\ BoundsOK'
      BY <1>2, OursApart DEF Disable
    <3>2. FlagsOK'
      BY <1>2 DEF Disable
    <3>3. blocks' \in Seq({"start", "stop"})
      BY <1>2, QueueValues DEF Disable
    <3> QED BY <3>1, <3>2, <3>3
  <2>2. RemovalWaits'
    BY <1>2 DEF Disable
  <2>3. Dormant'
    BY <1>2 DEF Disable
  <2>4. BoundsKept'
    BY <1>2, OursApart DEF Disable
  <2>5. MonitorOwned'
    BY <1>2 DEF Disable
  <2> QED BY <2>1, <2>2, <2>3, <2>4, <2>5
<1>3. ASSUME StopMonitor PROVE IInv'
  <2>1. TypeOK'
    <3>1. LabelsOK' /\ BoundsOK'
      BY <1>3, OursApart DEF StopMonitor
    <3>2. FlagsOK'
      BY <1>3 DEF StopMonitor
    <3>3. blocks' \in Seq({"start", "stop"})
      BY <1>3, QueueValues, Queues, StopBehindStart DEF StopMonitor
    <3> QED BY <3>1, <3>2, <3>3
  <2>2. RemovalWaits'
    BY <1>3 DEF StopMonitor
  <2>3. Dormant'
    BY <1>3 DEF StopMonitor
  <2>4. BoundsKept'
    BY <1>3, OursApart DEF StopMonitor
  <2>5. MonitorOwned'
    BY <1>3, Queues, StopBehindStart DEF StopMonitor
  <2> QED BY <2>1, <2>2, <2>3, <2>4, <2>5
<1>4. ASSUME RestoreBounds PROVE IInv'
  BY <1>4, OursApart, QueueValues DEF RestoreBounds
<1>5. ASSUME Unhook PROVE IInv'
  <2>1. TypeOK'
    <3>1. LabelsOK' /\ BoundsOK'
      BY <1>5, OursApart DEF Unhook
    <3>2. FlagsOK'
      BY <1>5 DEF Unhook
    <3>3. blocks' \in Seq({"start", "stop"})
      BY <1>5, QueueValues DEF Unhook
    <3> QED BY <3>1, <3>2, <3>3
  <2>2. RemovalWaits'
    BY <1>5 DEF Unhook
  <2>3. Dormant'
    BY <1>5 DEF Unhook
  <2>4. BoundsKept'
    BY <1>5, OursApart DEF Unhook
  <2>5. MonitorOwned'
    BY <1>5 DEF Unhook
  <2> QED BY <2>1, <2>2, <2>3, <2>4, <2>5
<1> QED BY <1>1, <1>2, <1>3, <1>4, <1>5 DEF Remover

(* What belongs to no thread: the constructor, the clock, the destructor's *)
(* beginning.                                                              *)
LEMMA ProcessKeeps ==
  IInv /\ (InstallFails \/ Install \/ TimeoutElapses \/ ShutdownBegins) => IInv'
<1> SUFFICES ASSUME IInv PROVE
      (InstallFails \/ Install \/ TimeoutElapses \/ ShutdownBegins) => IInv'
  OBVIOUS
<1> USE DEF IInv, RemovalWaits, Dormant, BoundsKept, Untouched, Before, Over, Restored,
           TypeOK, LabelsOK, FlagsOK, BoundsOK, module, definitions, hooks, update,
           monitor, MonitorOwned, Outstanding
<1>1. ASSUME InstallFails PROVE IInv'
  BY <1>1, OursApart DEF InstallFails
<1>2. ASSUME Install PROVE IInv'
  BY <1>2, OursApart DEF Install
<1>3. ASSUME TimeoutElapses PROVE IInv'
  BY <1>3, OursApart DEF TimeoutElapses
<1>4. ASSUME ShutdownBegins PROVE IInv'
  BY <1>4, OursApart DEF ShutdownBegins
<1> QED BY <1>1, <1>2, <1>3, <1>4

(* Every step of every actor keeps the inductive invariant.                *)
LEMMA StepKeeps == IInv /\ [Next]_vars => IInv'
<1> SUFFICES ASSUME IInv, [Next]_vars PROVE IInv'
  OBVIOUS
<1>1. CASE UNCHANGED vars
  BY <1>1 DEF vars, module, definitions, hooks, update, monitor, IInv, TypeOK,
     LabelsOK, FlagsOK, BoundsOK, RemovalWaits, Dormant, BoundsKept, Untouched,
     MonitorOwned, Outstanding
<1> QED BY <1>1, WorkerKeeps, CameraKeeps, GameKeeps, MainKeeps, RemoverKeeps,
           ProcessKeeps DEF Next

(* Every reachable state satisfies it, however often the bounds change.    *)
THEOREM InductiveInvariant == Spec => []IInv
<1>1. Init => IInv
  BY InitIInv
<1>2. IInv /\ [Next]_vars => IInv'
  BY StepKeeps
<1> QED BY <1>1, <1>2, PTL DEF Spec

-----------------------------------------------------------------------------
(* What the removal would put back is something the game wrote.            *)
THEOREM TypeCorrect == Spec => []TypeOK
<1>1. IInv => TypeOK
  BY DEF IInv
<1> QED BY <1>1, InductiveInvariant, PTL

(* "active" is said of live hooks, "abort" of hooks that stay dormant.     *)
THEOREM StatusTrue == Spec => []StatusIsTruth
<1>1. IInv => StatusIsTruth
  BY DEF IInv, Dormant, StatusIsTruth
<1> QED BY <1>1, InductiveInvariant, PTL

(* A removed mod stays removed, and leaves no event monitor behind.        *)
THEOREM Quiet == Spec => []QuietAfterShutdown
<1>1. IInv => QuietAfterShutdown
  BY Queues DEF IInv, Dormant, MonitorOwned, Outstanding, Restored, QuietAfterShutdown
<1> QED BY <1>1, InductiveInvariant, PTL

(* Unless an update overtook the restore, the game has its own bounds.     *)
THEOREM HandedBack == Spec => []BoundsHandedBack
<1>1. IInv => BoundsHandedBack
  BY DEF IInv, BoundsKept, Restored, BoundsHandedBack
<1> QED BY <1>1, InductiveInvariant, PTL

-----------------------------------------------------------------------------
(* Who holds the lock, and who can still ask for it.  An update is only    *)
(* ever under way once the hooks were enabled; the one that finds no base  *)
(* pointer finds it missing after the removal, never before.               *)
LockHeld ==
  /\ lock = "worker" <=> worker \in {"validate", "enable", "start"}
  /\ lock = "camera" <=> camera \in {"updating", "faulted"}
UpdatesAfterEnable ==
  camera # "idle" => worker \notin Before /\ loaded \in {"installed", "removed"}
BaseUntilUnhook ==
  /\ loaded = "installed" => basePointer
  /\ camera = "faulted" => remover = "done"
Waits == LockHeld /\ UpdatesAfterEnable /\ BaseUntilUnhook /\ (remover # "idle" => stop)

(* Every step keeps the lock with whoever is in its section.               *)
LEMMA WaitsKept == IInv /\ Waits /\ [Next]_vars => Waits'
<1> SUFFICES ASSUME IInv, Waits PROVE [Next]_vars => Waits'
  OBVIOUS
<1> USE DEF Waits, LockHeld, UpdatesAfterEnable, BaseUntilUnhook, IInv, RemovalWaits,
            Dormant, Before, Over, TypeOK, LabelsOK, module, definitions, hooks,
            update, monitor
<1>1. ASSUME Proceed \/ SiteInvalid PROVE Waits'
  <2>1. ASSUME Stopped \/ SiteInvalid \/ BecameReady \/ TimedOut PROVE Waits'
    BY <2>1 DEF Stopped, SiteInvalid, BecameReady, TimedOut, Abort
  <2>2. ASSUME ActivateLocks \/ ActivateRefuses \/ TakeBounds PROVE Waits'
    BY <2>2 DEF ActivateLocks, ActivateRefuses, TakeBounds, Abort
  <2>3. ASSUME Enable \/ RequestMonitor \/ ReportActive PROVE Waits'
    BY <2>3 DEF Enable, RequestMonitor, ReportActive
  <2> QED BY <1>1, <2>1, <2>2, <2>3 DEF Proceed
<1>2. ASSUME Camera PROVE Waits'
  BY <1>2 DEF Camera, UpdateEnters, UpdateLocks, UpdateFaults, UpdateReturns
<1>3. ASSUME Game \/ Main PROVE Waits'
  BY <1>3 DEF Game, Created, Reauthored, Author, GivenUp, Main, RunStart, RunStop
<1>4. ASSUME Remover PROVE Waits'
  BY <1>4 DEF Remover, Joined, Disable, StopMonitor, RestoreBounds, Unhook
<1>5. ASSUME InstallFails \/ Install \/ TimeoutElapses \/ ShutdownBegins PROVE Waits'
  BY <1>5 DEF InstallFails, Install, TimeoutElapses, ShutdownBegins
<1>6. ASSUME UNCHANGED vars PROVE Waits'
  BY <1>6 DEF vars
<1> QED BY <1>1, <1>2, <1>3, <1>4, <1>5, <1>6 DEF Next, Worker

(* Nobody waits for the lock but the three that may, one at a time.        *)
THEOREM LockDiscipline == Spec => [](IInv /\ Waits)
<1>1. Init => Waits
  BY DEF Init, Waits, LockHeld, UpdatesAfterEnable, BaseUntilUnhook
<1> QED BY <1>1, WaitsKept, InductiveInvariant, PTL DEF Spec

-----------------------------------------------------------------------------
(* Liveness.  That a guard enables its action is the one fact the prover   *)
(* cannot show, ENABLED being beyond it; Enabling states it and is a       *)
(* hypothesis of what follows.                                             *)
At(w) == worker = w
Settled == status \in {"active", "abort"} \/ stop
Sound == IInv /\ Waits

(* Where the thread can go in one step, whoever takes it: it stays, or it  *)
(* moves on, and it is over only with a verdict or when it was stopped.    *)
LEMMA ThreadMoves ==
  ASSUME Sound, [Next]_vars
  PROVE  /\ At("poll") => At("poll")' \/ At("activate")' \/ Settled'
         /\ At("activate") => At("activate")' \/ At("validate")'
         /\ At("validate") => At("validate")' \/ At("enable")' \/ Settled'
         /\ At("enable") => At("enable")' \/ At("start")'
         /\ At("start") => At("start")' \/ At("report")'
         /\ At("report") => At("report")' \/ Settled'
         /\ At("poll") /\ expired => expired'
<1> USE DEF At, Settled
<1>1. CASE Proceed \/ SiteInvalid
  BY <1>1 DEF Proceed, Stopped, SiteInvalid, BecameReady, TimedOut, ActivateLocks,
     ActivateRefuses, TakeBounds, Enable, RequestMonitor, ReportActive, Abort
<1>2. CASE UNCHANGED worker /\ UNCHANGED expired
  BY <1>2
<1>3. CASE TimeoutElapses
  BY <1>3 DEF TimeoutElapses
<1>4. CASE Install \/ InstallFails
  BY <1>4 DEF Sound, IInv, RemovalWaits, Install, InstallFails
<1>5. Camera \/ Game \/ Main \/ Remover \/ ShutdownBegins \/ UNCHANGED vars
        => UNCHANGED worker /\ UNCHANGED expired
  BY DEF Camera, UpdateEnters, UpdateLocks, UpdateFaults, UpdateReturns, Game,
     Created, Reauthored, Author, GivenUp, Main, RunStart, RunStop, Remover,
     Joined, Disable, StopMonitor, RestoreBounds, Unhook, ShutdownBegins,
     vars, module
<1> QED BY <1>1, <1>2, <1>3, <1>4, <1>5 DEF Next, Worker

(* What the thread does when it is its turn.                               *)
LEMMA ThreadProceeds ==
  ASSUME <<Proceed>>_vars
  PROVE  /\ At("poll") => At("activate")' \/ Settled'
         /\ At("activate") => At("validate")'
         /\ At("validate") => At("enable")' \/ Settled'
         /\ At("enable") => At("start")'
         /\ At("start") => At("report")'
         /\ At("report") => Settled'
  BY DEF At, Settled, Proceed, Stopped, BecameReady, TimedOut, ActivateLocks,
     ActivateRefuses, TakeBounds, Enable, RequestMonitor, ReportActive, Abort

(* And it always is, but for a game that is not ready yet: the lock is     *)
(* free for the activation, because no update runs before it.              *)
LEMMA ThreadCan ==
  Sound => /\ At("poll") => ClockCan \/ ProceedCan
           /\ worker \in {"activate", "validate", "enable", "start", "report"}
                => ProceedCan
  BY DEF Sound, IInv, TypeOK, LabelsOK, Waits, LockHeld, UpdatesAfterEnable, Before,
     At, ClockCan, ProceedCan

(* The launcher gets a verdict unless the game exits first.                *)
THEOREM VerdictGiven == FairSpec /\ []Enabling => VerdictReported
<1>0. FairSpec => []Sound
  BY LockDiscipline, PTL DEF FairSpec, Sound
<1>1. FairSpec /\ []Enabling => (At("poll") ~> (expired /\ At("poll")) \/ At("activate") \/ Settled)
  <2>1. Sound /\ At("poll") /\ [Next]_vars
          => At("poll")' \/ At("activate")' \/ Settled'
    BY ThreadMoves
  <2>2. At("poll") /\ <<TimeoutElapses>>_vars => expired' /\ At("poll")'
    BY DEF TimeoutElapses, At
  <2>3. Enabling /\ At("poll") /\ ~expired => ENABLED <<TimeoutElapses>>_vars
    BY DEF Enabling, ClockCan, At
  <2> QED BY <1>0, <2>1, <2>2, <2>3, PTL DEF FairSpec, Spec, Fairness
<1>2. FairSpec /\ []Enabling => (expired /\ At("poll") ~> At("activate") \/ Settled)
  <2>1. Sound /\ expired /\ At("poll") /\ [Next]_vars
          => (expired' /\ At("poll")') \/ At("activate")' \/ Settled'
    BY ThreadMoves
  <2>2. At("poll") /\ <<Proceed>>_vars => At("activate")' \/ Settled'
    BY ThreadProceeds
  <2>3. Enabling /\ expired /\ At("poll") => ENABLED <<Proceed>>_vars
    BY DEF Enabling, ProceedCan, At
  <2> QED BY <1>0, <2>1, <2>2, <2>3, PTL DEF FairSpec, Spec, Fairness
<1>3. FairSpec /\ []Enabling => (At("activate") ~> At("validate"))
  <2>1. Sound /\ At("activate") /\ [Next]_vars => At("activate")' \/ At("validate")'
    BY ThreadMoves
  <2>2. At("activate") /\ <<Proceed>>_vars => At("validate")'
    BY ThreadProceeds
  <2>3. Sound /\ Enabling /\ At("activate") => ENABLED <<Proceed>>_vars
    BY ThreadCan DEF Enabling, At
  <2> QED BY <1>0, <2>1, <2>2, <2>3, PTL DEF FairSpec, Spec, Fairness
<1>4. FairSpec /\ []Enabling => (At("validate") ~> At("enable") \/ Settled)
  <2>1. Sound /\ At("validate") /\ [Next]_vars => At("validate")' \/ At("enable")' \/ Settled'
    BY ThreadMoves
  <2>2. At("validate") /\ <<Proceed>>_vars => At("enable")' \/ Settled'
    BY ThreadProceeds
  <2>3. Sound /\ Enabling /\ At("validate") => ENABLED <<Proceed>>_vars
    BY ThreadCan DEF Enabling, At
  <2> QED BY <1>0, <2>1, <2>2, <2>3, PTL DEF FairSpec, Spec, Fairness
<1>5. FairSpec /\ []Enabling => (At("enable") ~> At("start"))
  <2>1. Sound /\ At("enable") /\ [Next]_vars => At("enable")' \/ At("start")'
    BY ThreadMoves
  <2>2. At("enable") /\ <<Proceed>>_vars => At("start")'
    BY ThreadProceeds
  <2>3. Sound /\ Enabling /\ At("enable") => ENABLED <<Proceed>>_vars
    BY ThreadCan DEF Enabling, At
  <2> QED BY <1>0, <2>1, <2>2, <2>3, PTL DEF FairSpec, Spec, Fairness
<1>6. FairSpec /\ []Enabling => (At("start") ~> At("report"))
  <2>1. Sound /\ At("start") /\ [Next]_vars => At("start")' \/ At("report")'
    BY ThreadMoves
  <2>2. At("start") /\ <<Proceed>>_vars => At("report")'
    BY ThreadProceeds
  <2>3. Sound /\ Enabling /\ At("start") => ENABLED <<Proceed>>_vars
    BY ThreadCan DEF Enabling, At
  <2> QED BY <1>0, <2>1, <2>2, <2>3, PTL DEF FairSpec, Spec, Fairness
<1>7. FairSpec /\ []Enabling => (At("report") ~> Settled)
  <2>1. Sound /\ At("report") /\ [Next]_vars => At("report")' \/ Settled'
    BY ThreadMoves
  <2>2. At("report") /\ <<Proceed>>_vars => Settled'
    BY ThreadProceeds
  <2>3. Sound /\ Enabling /\ At("report") => ENABLED <<Proceed>>_vars
    BY ThreadCan DEF Enabling, At
  <2> QED BY <1>0, <2>1, <2>2, <2>3, PTL DEF FairSpec, Spec, Fairness
<1>8. VerdictReported <=> (At("poll") ~> Settled)
  BY DEF VerdictReported, At, Settled
<1> QED BY <1>1, <1>2, <1>3, <1>4, <1>5, <1>6, <1>7, <1>8, PTL

-----------------------------------------------------------------------------
(* Shutdown's own steps and the thread's, while Shutdown waits for it.     *)
Join(w) == remover = "join" /\ worker = w
Gone == remover = "join" /\ worker \in Over
Stage(r) == remover = r

(* Nobody moves Shutdown but Shutdown, and the thread it waits for only    *)
(* goes forward.                                                           *)
LEMMA ShutdownMoves ==
  ASSUME Sound, [Next]_vars
  PROVE  /\ Join("poll") => Join("poll")' \/ Join("activate")' \/ Gone'
         /\ Join("activate") => Join("activate")' \/ Join("validate")'
         /\ Join("validate") => Join("validate")' \/ Join("enable")' \/ Gone'
         /\ Join("enable") => Join("enable")' \/ Join("start")'
         /\ Join("start") => Join("start")' \/ Join("report")'
         /\ Join("report") => Join("report")' \/ Gone'
         /\ Gone => Gone' \/ Stage("disable")' \/ Stage("done")'
         /\ Stage("disable") => Stage("disable")' \/ Stage("stopMonitor")'
         /\ Stage("stopMonitor") => Stage("stopMonitor")' \/ Stage("restore")'
         /\ Stage("unhook") => Stage("unhook")' \/ Stage("done")'
<1> USE DEF Join, Gone, Stage, Over
<1>1. CASE Proceed \/ SiteInvalid
  BY <1>1 DEF Proceed, Stopped, SiteInvalid, BecameReady, TimedOut, ActivateLocks,
     ActivateRefuses, TakeBounds, Enable, RequestMonitor, ReportActive, Abort,
     Sound, IInv, RemovalWaits, module, update, hooks, monitor, definitions
<1>2. CASE Remover
  BY <1>2 DEF Remover, Joined, Disable, StopMonitor, RestoreBounds, Unhook,
     Sound, IInv, RemovalWaits, module
<1>3. CASE Install \/ InstallFails \/ ShutdownBegins
  BY <1>3 DEF Sound, IInv, RemovalWaits, Install, InstallFails, ShutdownBegins
<1>4. Camera \/ Game \/ Main \/ TimeoutElapses \/ UNCHANGED vars
        => UNCHANGED <<worker, remover>>
  BY DEF Camera, UpdateEnters, UpdateLocks, UpdateFaults, UpdateReturns, Game,
     Created, Reauthored, Author, GivenUp, Main, RunStart, RunStop,
     TimeoutElapses, vars, module
<1>5. CASE UNCHANGED <<worker, remover>>
  BY <1>5
<1> QED BY <1>1, <1>2, <1>3, <1>4, <1>5 DEF Next, Worker

(* What Shutdown does when it is its turn.                                 *)
LEMMA ShutdownProceeds ==
  ASSUME <<Remover>>_vars
  PROVE  /\ Gone => Stage("disable")' \/ Stage("done")'
         /\ Stage("disable") => Stage("stopMonitor")'
         /\ Stage("stopMonitor") => Stage("restore")'
         /\ Stage("restore") => Stage("unhook")'
         /\ Stage("unhook") => Stage("done")'
  BY DEF Gone, Stage, Remover, Joined, Disable, StopMonitor, RestoreBounds, Unhook

(* The thread, once it is waited for, can always go on.                    *)
LEMMA ThreadCanWhileJoined ==
  Sound /\ remover = "join" /\ worker \notin Over => ProceedCan
  BY DEF Sound, IInv, TypeOK, LabelsOK, Waits, LockHeld, UpdatesAfterEnable, Before,
     Over, ProceedCan

(* What the thread does when it is its turn and Shutdown waits.            *)
LEMMA ThreadProceedsWhileJoined ==
  ASSUME Sound, <<Proceed>>_vars
  PROVE  /\ Join("poll") => Join("activate")' \/ Gone'
         /\ Join("activate") => Join("validate")'
         /\ Join("validate") => Join("enable")' \/ Gone'
         /\ Join("enable") => Join("start")'
         /\ Join("start") => Join("report")'
         /\ Join("report") => Gone'
  BY DEF Join, Gone, Over, Proceed, Stopped, BecameReady, TimedOut, ActivateLocks,
     ActivateRefuses, TakeBounds, Enable, RequestMonitor, ReportActive, Abort

(* At the restore the lock can be with an update, at most one, which then  *)
(* returns to hooks that are disabled.                                     *)
Contended(c) == remover = "restore" /\ camera = c

LEMMA AtMostOneMore ==
  ASSUME Sound, [Next]_vars
  PROVE  /\ Contended("idle") => Contended("idle")' \/ Stage("unhook")'
         /\ Contended("updating") => Contended("updating")' \/ Contended("idle")'
         /\ Contended("waiting") => \/ Contended("waiting")' \/ Contended("updating")'
                                    \/ Stage("unhook")'
<1> USE DEF Contended, Stage, Sound, IInv, Waits, LockHeld, BaseUntilUnhook,
            RemovalWaits, Dormant, Over, TypeOK, LabelsOK
<1>1. CASE Camera
  BY <1>1 DEF Camera, UpdateEnters, UpdateLocks, UpdateFaults, UpdateReturns
<1>2. CASE Remover
  BY <1>2 DEF Remover, Joined, Disable, StopMonitor, RestoreBounds, Unhook, update
<1>3. CASE Proceed \/ SiteInvalid \/ Install \/ InstallFails \/ ShutdownBegins
  BY <1>3 DEF Proceed, Stopped, SiteInvalid, BecameReady, TimedOut, ActivateLocks,
     ActivateRefuses, TakeBounds, Enable, RequestMonitor, ReportActive, Abort,
     Install, InstallFails, ShutdownBegins, update
<1>4. Game \/ Main \/ TimeoutElapses \/ UNCHANGED vars => UNCHANGED <<camera, remover>>
  BY DEF Game, Created, Reauthored, Author, GivenUp, Main, RunStart, RunStop,
     TimeoutElapses, vars, update
<1>5. CASE UNCHANGED <<camera, remover>>
  BY <1>5
<1> QED BY <1>1, <1>2, <1>3, <1>4, <1>5 DEF Next, Worker

(* Shutdown gets through: whoever it waits for goes on, the thread to its  *)
(* end and an update out of the lock, and no further update follows.       *)
THEOREM ShutdownGetsThrough == FairSpec /\ []Enabling => ShutdownCompletes
<1>0. FairSpec => []Sound
  BY LockDiscipline, PTL DEF FairSpec, Sound
<1>1. FairSpec /\ []Enabling => (Join("poll") ~> Join("activate") \/ Gone)
  <2>1. Sound /\ Join("poll") /\ [Next]_vars => Join("poll")' \/ Join("activate")' \/ Gone'
    BY ShutdownMoves
  <2>2. Sound /\ Join("poll") /\ <<Proceed>>_vars => Join("activate")' \/ Gone'
    BY ThreadProceedsWhileJoined
  <2>3. Sound /\ Enabling /\ Join("poll") => ENABLED <<Proceed>>_vars
    BY ThreadCanWhileJoined DEF Enabling, Join, Over
  <2> QED BY <1>0, <2>1, <2>2, <2>3, PTL DEF FairSpec, Spec, Fairness
<1>2. FairSpec /\ []Enabling => (Join("activate") ~> Join("validate"))
  <2>1. Sound /\ Join("activate") /\ [Next]_vars => Join("activate")' \/ Join("validate")'
    BY ShutdownMoves
  <2>2. Sound /\ Join("activate") /\ <<Proceed>>_vars => Join("validate")'
    BY ThreadProceedsWhileJoined
  <2>3. Sound /\ Enabling /\ Join("activate") => ENABLED <<Proceed>>_vars
    BY ThreadCanWhileJoined DEF Enabling, Join, Over
  <2> QED BY <1>0, <2>1, <2>2, <2>3, PTL DEF FairSpec, Spec, Fairness
<1>3. FairSpec /\ []Enabling => (Join("validate") ~> Join("enable") \/ Gone)
  <2>1. Sound /\ Join("validate") /\ [Next]_vars => Join("validate")' \/ Join("enable")' \/ Gone'
    BY ShutdownMoves
  <2>2. Sound /\ Join("validate") /\ <<Proceed>>_vars => Join("enable")' \/ Gone'
    BY ThreadProceedsWhileJoined
  <2>3. Sound /\ Enabling /\ Join("validate") => ENABLED <<Proceed>>_vars
    BY ThreadCanWhileJoined DEF Enabling, Join, Over
  <2> QED BY <1>0, <2>1, <2>2, <2>3, PTL DEF FairSpec, Spec, Fairness
<1>4. FairSpec /\ []Enabling => (Join("enable") ~> Join("start"))
  <2>1. Sound /\ Join("enable") /\ [Next]_vars => Join("enable")' \/ Join("start")'
    BY ShutdownMoves
  <2>2. Sound /\ Join("enable") /\ <<Proceed>>_vars => Join("start")'
    BY ThreadProceedsWhileJoined
  <2>3. Sound /\ Enabling /\ Join("enable") => ENABLED <<Proceed>>_vars
    BY ThreadCanWhileJoined DEF Enabling, Join, Over
  <2> QED BY <1>0, <2>1, <2>2, <2>3, PTL DEF FairSpec, Spec, Fairness
<1>5. FairSpec /\ []Enabling => (Join("start") ~> Join("report"))
  <2>1. Sound /\ Join("start") /\ [Next]_vars => Join("start")' \/ Join("report")'
    BY ShutdownMoves
  <2>2. Sound /\ Join("start") /\ <<Proceed>>_vars => Join("report")'
    BY ThreadProceedsWhileJoined
  <2>3. Sound /\ Enabling /\ Join("start") => ENABLED <<Proceed>>_vars
    BY ThreadCanWhileJoined DEF Enabling, Join, Over
  <2> QED BY <1>0, <2>1, <2>2, <2>3, PTL DEF FairSpec, Spec, Fairness
<1>6. FairSpec /\ []Enabling => (Join("report") ~> Gone)
  <2>1. Sound /\ Join("report") /\ [Next]_vars => Join("report")' \/ Gone'
    BY ShutdownMoves
  <2>2. Sound /\ Join("report") /\ <<Proceed>>_vars => Gone'
    BY ThreadProceedsWhileJoined
  <2>3. Sound /\ Enabling /\ Join("report") => ENABLED <<Proceed>>_vars
    BY ThreadCanWhileJoined DEF Enabling, Join, Over
  <2> QED BY <1>0, <2>1, <2>2, <2>3, PTL DEF FairSpec, Spec, Fairness
<1>7. FairSpec /\ []Enabling => (Gone ~> Stage("disable") \/ Stage("done"))
  <2>1. Sound /\ Gone /\ [Next]_vars => Gone' \/ Stage("disable")' \/ Stage("done")'
    BY ShutdownMoves
  <2>2. Gone /\ <<Remover>>_vars => Stage("disable")' \/ Stage("done")'
    BY ShutdownProceeds
  <2>3. Enabling /\ Gone => ENABLED <<Remover>>_vars
    BY DEF Enabling, RemoverCan, Gone, Stage, Over
  <2> QED BY <1>0, <2>1, <2>2, <2>3, PTL DEF FairSpec, Spec, Fairness
<1>8. FairSpec /\ []Enabling => (Stage("disable") ~> Stage("stopMonitor"))
  <2>1. Sound /\ Stage("disable") /\ [Next]_vars => Stage("disable")' \/ Stage("stopMonitor")'
    BY ShutdownMoves
  <2>2. Stage("disable") /\ <<Remover>>_vars => Stage("stopMonitor")'
    BY ShutdownProceeds
  <2>3. Enabling /\ Stage("disable") => ENABLED <<Remover>>_vars
    BY DEF Enabling, RemoverCan, Gone, Stage, Over
  <2> QED BY <1>0, <2>1, <2>2, <2>3, PTL DEF FairSpec, Spec, Fairness
<1>9. FairSpec /\ []Enabling => (Stage("stopMonitor") ~> Stage("restore"))
  <2>1. Sound /\ Stage("stopMonitor") /\ [Next]_vars => Stage("stopMonitor")' \/ Stage("restore")'
    BY ShutdownMoves
  <2>2. Stage("stopMonitor") /\ <<Remover>>_vars => Stage("restore")'
    BY ShutdownProceeds
  <2>3. Enabling /\ Stage("stopMonitor") => ENABLED <<Remover>>_vars
    BY DEF Enabling, RemoverCan, Gone, Stage, Over
  <2> QED BY <1>0, <2>1, <2>2, <2>3, PTL DEF FairSpec, Spec, Fairness
<1>10. FairSpec /\ []Enabling => (Contended("idle") ~> Stage("unhook"))
  <2>1. Sound /\ Contended("idle") /\ [Next]_vars => Contended("idle")' \/ Stage("unhook")'
    BY AtMostOneMore
  <2>2. Contended("idle") /\ <<Remover>>_vars => Stage("unhook")'
    BY ShutdownProceeds DEF Contended, Stage
  <2>3. Sound /\ Enabling /\ Contended("idle") => ENABLED <<Remover>>_vars
    BY DEF Sound, IInv, RemovalWaits, Over, TypeOK, LabelsOK, Waits, LockHeld, Contended,
       Enabling, RemoverCan
  <2> QED BY <1>0, <2>1, <2>2, <2>3, PTL DEF FairSpec, Spec, Fairness
<1>11. FairSpec /\ []Enabling => (Contended("updating") ~> Contended("idle"))
  <2>1. Sound /\ Contended("updating") /\ [Next]_vars
          => Contended("updating")' \/ Contended("idle")'
    BY AtMostOneMore
  <2>2. Contended("updating") /\ <<UpdateReturns>>_vars => Contended("idle")'
    BY DEF Contended, UpdateReturns
  <2>3. Enabling /\ Contended("updating") => ENABLED <<UpdateReturns>>_vars
    BY DEF Enabling, Contended
  <2> QED BY <1>0, <2>1, <2>2, <2>3, PTL DEF FairSpec, Spec, Fairness
<1>12. FairSpec /\ []Enabling
         => (Contended("waiting") ~> Contended("updating") \/ Stage("unhook"))
  <2>1. Sound /\ Contended("waiting") /\ [Next]_vars
          => Contended("waiting")' \/ Contended("updating")' \/ Stage("unhook")'
    BY AtMostOneMore
  <2>2. Contended("waiting") /\ <<Remover>>_vars => Stage("unhook")'
    BY ShutdownProceeds DEF Contended, Stage
  <2>3. Sound /\ Enabling /\ Contended("waiting") => ENABLED <<Remover>>_vars
    BY DEF Sound, IInv, RemovalWaits, Over, TypeOK, LabelsOK, Waits, LockHeld, Contended,
       Enabling, RemoverCan
  <2> QED BY <1>0, <2>1, <2>2, <2>3, PTL DEF FairSpec, Spec, Fairness
<1>13. FairSpec /\ []Enabling => (Stage("unhook") ~> Stage("done"))
  <2>1. Sound /\ Stage("unhook") /\ [Next]_vars => Stage("unhook")' \/ Stage("done")'
    BY ShutdownMoves
  <2>2. Stage("unhook") /\ <<Remover>>_vars => Stage("done")'
    BY ShutdownProceeds
  <2>3. Enabling /\ Stage("unhook") => ENABLED <<Remover>>_vars
    BY DEF Enabling, RemoverCan, Gone, Stage, Over
  <2> QED BY <1>0, <2>1, <2>2, <2>3, PTL DEF FairSpec, Spec, Fairness
<1>14. Sound => (Stage("restore") => \/ Contended("idle") \/ Contended("waiting")
                                    \/ Contended("updating"))
  BY DEF Sound, IInv, TypeOK, LabelsOK, Waits, BaseUntilUnhook, Stage, Contended
<1>15. Sound /\ remover = "join"
         => \/ Join("poll") \/ Join("activate") \/ Join("validate") \/ Join("enable")
            \/ Join("start") \/ Join("report") \/ Gone
  BY DEF Sound, IInv, TypeOK, LabelsOK, Join, Gone, Over
<1>16. FairSpec /\ []Enabling => (remover = "join" ~> Gone)
  BY <1>0, <1>1, <1>2, <1>3, <1>4, <1>5, <1>6, <1>15, PTL
<1>17. FairSpec /\ []Enabling => (Stage("restore") ~> Stage("unhook"))
  BY <1>0, <1>10, <1>11, <1>12, <1>14, PTL
<1>18. FairSpec /\ []Enabling => (remover = "join" ~> Stage("done"))
  BY <1>7, <1>8, <1>9, <1>13, <1>16, <1>17, PTL
<1>19. ShutdownCompletes <=> (remover = "join" ~> Stage("done"))
  BY DEF ShutdownCompletes, Stage
<1> QED BY <1>18, <1>19, PTL
=============================================================================
