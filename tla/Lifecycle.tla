------------------------------ MODULE Lifecycle ------------------------------
(***************************************************************************)
(* From the dylib's constructor to its destructor.                         *)
(*                                                                         *)
(* Initialize installs the hooks dormant and starts the readiness thread,  *)
(* which waits for the game's camera definitions, activates the hooks and  *)
(* reports to the launcher.  Activation captures the game's arm bounds,    *)
(* writes the configured ones and asks the main thread for the scroll      *)
(* monitor.  The camera thread, in every update it runs through the hook,  *)
(* writes the bounds again under gCameraDefinitionMutex.  Shutdown stops   *)
(* the readiness thread, and RemoveCameraHooks disables, restores and      *)
(* forgets.                                                                *)
(*                                                                         *)
(* Installing and removing the individual hooks is one step here.          *)
(***************************************************************************)
EXTENDS Naturals, Sequences

CONSTANT Versions  \* bound: how often the game authors the arm bounds

ASSUME LifecycleConstants == Versions \in Nat \ {0}

VARIABLES
  loaded,        \* "no", "failed", "installed" (gInstalled), "removed"
  status,        \* what the launcher's status file says
  stop,          \* gStopRequested
  worker,        \* the readiness thread
  expired,       \* kReadinessTimeout has elapsed
  ready,         \* the game's definitions exist
  authored,      \* how often the game has authored their bounds
  bounds,        \* the bounds in them: the game's n-th, or Ours
  enabled,       \* gHooksEnabled
  basePointer,   \* gCameraDefinitionsBasePointer is set
  usable,        \* gZoomBoundsUsable
  captured,      \* gAuthoredZoomBounds; 0 while gZoomBoundsCaptured is false
  lock,          \* holder of gCameraDefinitionMutex
  camera,        \* the camera thread in UpdateGameCameraBehaviorHook
  overtaken,     \* history: an update got the lock after RestoreZoomBounds
  remover,       \* Shutdown and RemoveCameraHooks
  startRequested,\* gRawTrackpadStartRequested
  blocks,        \* dispatched to the main queue, in order
  token,         \* gRawTrackpadMonitorToken
  monitorActive  \* RawTrackpadMonitorActive()

module == <<loaded, status, stop, worker, expired>>
definitions == <<ready, authored, bounds>>
hooks == <<enabled, basePointer, usable, captured>>
update == <<camera, overtaken>>
monitor == <<startRequested, blocks, token, monitorActive>>
Ours == Versions + 1
vars == <<module, definitions, hooks, lock, update, remover, monitor>>

-----------------------------------------------------------------------------
(* Initialize: abort statuses are one value, "abort".                      *)
InstallFails ==
  /\ loaded = "no"
  /\ loaded' = "failed" /\ status' = "abort"
  /\ UNCHANGED <<stop, worker, expired, definitions, hooks, lock, update,
                 remover, monitor>>

Install ==
  /\ loaded = "no"
  /\ loaded' = "installed" /\ basePointer' = TRUE
  /\ \/ worker' = "poll" /\ status' = "waiting"
     \/ worker' = "done" /\ status' = "abort"
  /\ UNCHANGED <<stop, expired, definitions, enabled, usable, captured, lock,
                 update, remover, monitor>>

-----------------------------------------------------------------------------
(* WaitForCameraSubsystemAndActivate.                                      *)
Abort == worker' = "done" /\ status' = "abort"

Stopped ==
  /\ worker = "poll" /\ stop
  /\ worker' = "done"
  /\ UNCHANGED <<loaded, status, stop, expired, definitions, hooks, lock,
                 update, remover, monitor>>

SiteInvalid ==
  /\ worker = "poll" /\ ~stop
  /\ Abort
  /\ UNCHANGED <<loaded, stop, expired, definitions, hooks, lock, update,
                 remover, monitor>>

BecameReady ==
  /\ worker = "poll" /\ ~stop /\ ready
  /\ worker' = "activate"
  /\ UNCHANGED <<loaded, status, stop, expired, definitions, hooks, lock,
                 update, remover, monitor>>

(* Variant: the thread gives up without a word. *)
GiveUpSilently ==
  /\ worker = "poll" /\ ~stop /\ ~ready /\ expired
  /\ worker' = "done"
  /\ UNCHANGED <<loaded, status, stop, expired, definitions, hooks, lock,
                 update, remover, monitor>>

TimedOut ==
  /\ worker = "poll" /\ ~stop /\ ~ready /\ expired
  /\ Abort
  /\ UNCHANGED <<loaded, stop, expired, definitions, hooks, lock, update,
                 remover, monitor>>

TimeoutElapses ==
  /\ worker = "poll" /\ ~expired
  /\ expired' = TRUE
  /\ UNCHANGED <<loaded, status, stop, worker, definitions, hooks, lock,
                 update, remover, monitor>>

(* ActivateCameraHooks, under the lock until it returns.                   *)
(* Variant: the hooks go live before anything is validated. *)
EnableFirst ==
  /\ worker = "activate" /\ lock = "free"
  /\ lock' = "worker" /\ worker' = "validate" /\ enabled' = TRUE
  /\ UNCHANGED <<loaded, status, stop, expired, definitions, basePointer, usable,
                 captured, update, remover, monitor>>

ActivateLocks ==
  /\ worker = "activate" /\ lock = "free"
  /\ lock' = "worker" /\ worker' = "validate"
  /\ UNCHANGED <<loaded, status, stop, expired, definitions, hooks, update,
                 remover, monitor>>

(* No base any more, or an implausible approach rate. *)
ActivateRefuses ==
  /\ worker = "validate"
  /\ Abort /\ lock' = "free"
  /\ UNCHANGED <<loaded, stop, expired, definitions, hooks, update, remover,
                 monitor>>

(* Variant: the configured bounds are written before the game's are read. *)
ApplyThenCapture ==
  /\ worker = "validate" /\ ready
  /\ \/ usable' = TRUE /\ captured' = Ours /\ bounds' = Ours
     \/ usable' = FALSE /\ UNCHANGED <<captured, bounds>>
  /\ worker' = "enable"
  /\ UNCHANGED <<loaded, status, stop, expired, ready, authored, enabled,
                 basePointer, lock, update, remover, monitor>>

TakeBounds ==
  /\ worker = "validate" /\ ready
  /\ \/ usable' = TRUE /\ captured' = bounds /\ bounds' = Ours
     \/ usable' = FALSE /\ UNCHANGED <<captured, bounds>>
  /\ worker' = "enable"
  /\ UNCHANGED <<loaded, status, stop, expired, ready, authored, enabled,
                 basePointer, lock, update, remover, monitor>>

Enable ==
  /\ worker = "enable"
  /\ enabled' = TRUE
  /\ worker' = "start"
  /\ UNCHANGED <<loaded, status, stop, expired, definitions, basePointer, usable,
                 captured, lock, update, remover, monitor>>

(* StartRawTrackpadMonitor, and the return that releases the lock. *)
RequestMonitor ==
  /\ worker = "start"
  /\ startRequested' = TRUE
  /\ blocks' = IF startRequested THEN blocks ELSE Append(blocks, "start")
  /\ lock' = "free" /\ worker' = "report"
  /\ UNCHANGED <<loaded, status, stop, expired, definitions, hooks, update,
                 remover, token, monitorActive>>

ReportActive ==
  /\ worker = "report"
  /\ worker' = "done" /\ status' = "active"
  /\ UNCHANGED <<loaded, stop, expired, definitions, hooks, lock, update,
                 remover, monitor>>

-----------------------------------------------------------------------------
(* The main thread's queue. *)
RunStart ==
  /\ blocks # <<>> /\ Head(blocks) = "start"
  /\ blocks' = Tail(blocks)
  /\ token' = TRUE
  /\ monitorActive' = (monitorActive \/ ~token)
  /\ UNCHANGED <<module, definitions, hooks, lock, update, remover, startRequested>>

RunStop ==
  /\ blocks # <<>> /\ Head(blocks) = "stop"
  /\ blocks' = Tail(blocks)
  /\ token' = FALSE
  /\ UNCHANGED <<module, definitions, hooks, lock, update, remover,
                 startRequested, monitorActive>>

-----------------------------------------------------------------------------
(* The game: it creates its definitions, authors them anew on a zone       *)
(* change, and gives them up.                                              *)
Author(readyNow) ==
  /\ authored < Versions
  /\ ready' = readyNow
  /\ authored' = authored + 1 /\ bounds' = authored + 1
  /\ UNCHANGED <<module, hooks, lock, update, remover, monitor>>

Created == ~ready /\ Author(TRUE)
Reauthored == ready /\ Author(TRUE)

GivenUp ==
  /\ ready
  /\ ready' = FALSE
  /\ UNCHANGED <<module, authored, bounds, hooks, lock, update, remover, monitor>>

(* UpdateGameCameraBehaviorHook: the flags are read before the lock. *)
UpdateEnters ==
  /\ camera = "idle" /\ enabled /\ basePointer
  /\ camera' = "waiting"
  /\ UNCHANGED <<module, definitions, hooks, lock, overtaken, remover, monitor>>

UpdateLocks ==
  /\ camera = "waiting" /\ lock = "free" /\ basePointer
  /\ lock' = "camera" /\ camera' = "updating"
  /\ bounds' = IF ready /\ usable THEN Ours ELSE bounds
  /\ overtaken' = (overtaken \/ remover = "unhook")
  /\ UNCHANGED <<module, ready, authored, hooks, remover, monitor>>

(* The base pointer that was there before the lock is gone after it. *)
UpdateFaults ==
  /\ camera = "waiting" /\ lock = "free" /\ ~basePointer
  /\ camera' = "faulted" /\ lock' = "camera" /\ overtaken' = TRUE
  /\ UNCHANGED <<module, definitions, hooks, remover, monitor>>

UpdateReturns ==
  /\ camera = "updating"
  /\ camera' = "idle" /\ lock' = "free"
  /\ UNCHANGED <<module, definitions, hooks, overtaken, remover, monitor>>

-----------------------------------------------------------------------------
(* Shutdown and RemoveCameraHooks. *)
ShutdownBegins ==
  /\ loaded # "no" /\ remover = "idle"
  /\ stop' = TRUE
  /\ remover' = "join"
  /\ UNCHANGED <<loaded, status, worker, expired, definitions, hooks, lock,
                 update, monitor>>

(* Variant: the thread is not waited for. *)
JoinNobody ==
  /\ remover = "join"
  /\ remover' = IF loaded = "installed" THEN "disable" ELSE "done"
  /\ UNCHANGED <<module, definitions, hooks, lock, update, monitor>>

Joined ==
  /\ remover = "join" /\ worker \in {"none", "done"}
  /\ remover' = IF loaded = "installed" THEN "disable" ELSE "done"
  /\ UNCHANGED <<module, definitions, hooks, lock, update, monitor>>

(* Variant: the hooks stay live until the code is taken out. *)
DisableLater ==
  /\ remover = "disable"
  /\ remover' = "stopMonitor"
  /\ UNCHANGED <<module, definitions, hooks, lock, update, monitor>>

Disable ==
  /\ remover = "disable"
  /\ enabled' = FALSE
  /\ remover' = "stopMonitor"
  /\ UNCHANGED <<module, definitions, basePointer, usable, captured, lock,
                 update, monitor>>

(* StopRawTrackpadMonitor *)
StopMonitor ==
  /\ remover = "stopMonitor"
  /\ IF startRequested
     THEN /\ startRequested' = FALSE /\ monitorActive' = FALSE
          /\ blocks' = Append(blocks, "stop")
     ELSE UNCHANGED <<startRequested, monitorActive, blocks>>
  /\ remover' = "restore"
  /\ UNCHANGED <<module, definitions, hooks, lock, update, token>>

(* Variant: the captured bounds are only forgotten. *)
ForgetBounds ==
  /\ remover = "restore" /\ lock = "free"
  /\ captured' = 0
  /\ remover' = "unhook"
  /\ UNCHANGED <<module, definitions, enabled, basePointer, usable, lock, update,
                 monitor>>

RestoreBounds ==
  /\ remover = "restore" /\ lock = "free"
  /\ IF captured # 0 /\ ready
     THEN bounds' = captured /\ captured' = 0
     ELSE UNCHANGED <<bounds, captured>>
  /\ remover' = "unhook"
  /\ UNCHANGED <<module, ready, authored, enabled, basePointer, usable, lock,
                 update, monitor>>

(* The hooks come out, the originals and the base pointer are forgotten. *)
Unhook ==
  /\ remover = "unhook"
  /\ basePointer' = FALSE
  /\ loaded' = "removed"
  /\ remover' = "done"
  /\ UNCHANGED <<status, stop, worker, expired, definitions, enabled, usable,
                 captured, lock, update, monitor>>

-----------------------------------------------------------------------------
Init ==
  /\ loaded = "no" /\ status = "none" /\ stop = FALSE
  /\ worker = "none" /\ expired = FALSE
  /\ ready = FALSE /\ authored = 0 /\ bounds = 0
  /\ enabled = FALSE /\ basePointer = FALSE /\ usable = FALSE /\ captured = 0
  /\ lock = "free" /\ camera = "idle" /\ overtaken = FALSE
  /\ remover = "idle"
  /\ startRequested = FALSE /\ blocks = <<>>
  /\ token = FALSE /\ monitorActive = FALSE

Proceed ==
  \/ Stopped \/ BecameReady \/ TimedOut
  \/ ActivateLocks \/ ActivateRefuses \/ TakeBounds
  \/ Enable \/ RequestMonitor \/ ReportActive
Worker == Proceed \/ SiteInvalid

Camera == UpdateEnters \/ UpdateLocks \/ UpdateFaults \/ UpdateReturns
Game == Created \/ Reauthored \/ GivenUp
Main == RunStart \/ RunStop
Remover == Joined \/ Disable \/ StopMonitor \/ RestoreBounds \/ Unhook

Next ==
  \/ InstallFails \/ Install \/ TimeoutElapses \/ ShutdownBegins
  \/ Worker \/ Camera \/ Game \/ Main \/ Remover

(* Each thread goes on when it can; the clock does too. Nothing forces the *)
(* game to create its definitions, to damage a site, to ask for an update  *)
(* or to exit.                                                             *)
Fairness ==
  /\ WF_vars(Proceed) /\ WF_vars(TimeoutElapses) /\ WF_vars(Remover)
  /\ WF_vars(UpdateReturns)

Spec == Init /\ [][Next]_vars
FairSpec == Spec /\ Fairness

(* When each of them can. *)
ProceedCan ==
  \/ worker = "poll" /\ (stop \/ ready \/ expired)
  \/ worker = "activate" /\ lock = "free"
  \/ worker \in {"validate", "enable", "start", "report"}
ClockCan == worker = "poll" /\ ~expired
RemoverCan ==
  \/ remover = "join" /\ worker \in {"none", "done"}
  \/ remover \in {"disable", "stopMonitor", "unhook"}
  \/ remover = "restore" /\ lock = "free"

(* The actions are enabled where that says so. *)
Enabling ==
  /\ ProceedCan => ENABLED <<Proceed>>_vars
  /\ ClockCan => ENABLED <<TimeoutElapses>>_vars
  /\ RemoverCan => ENABLED <<Remover>>_vars
  /\ camera = "updating" => ENABLED <<UpdateReturns>>_vars

-----------------------------------------------------------------------------
LabelsOK ==
  /\ loaded \in {"no", "failed", "installed", "removed"}
  /\ status \in {"none", "waiting", "active", "abort"}
  /\ worker \in {"none", "poll", "activate", "validate", "enable", "start",
                 "report", "done"}
  /\ camera \in {"idle", "waiting", "updating", "faulted"}
  /\ remover \in {"idle", "join", "disable", "stopMonitor", "restore",
                  "unhook", "done"}
  /\ lock \in {"free", "worker", "camera"}
FlagsOK ==
  /\ stop \in BOOLEAN /\ expired \in BOOLEAN /\ ready \in BOOLEAN
  /\ enabled \in BOOLEAN /\ basePointer \in BOOLEAN /\ usable \in BOOLEAN
  /\ overtaken \in BOOLEAN /\ startRequested \in BOOLEAN
  /\ token \in BOOLEAN /\ monitorActive \in BOOLEAN
BoundsOK ==
  /\ authored \in 0 .. Versions /\ bounds \in 0 .. Ours
  /\ captured \in 0 .. Versions

(* Every variable holds a value of its kind; what is kept for the removal  *)
(* is something the game wrote, never the mod's own bounds.                *)
TypeOK == LabelsOK /\ FlagsOK /\ BoundsOK /\ blocks \in Seq({"start", "stop"})

(* What the launcher is told is so: after "active" the hooks are live      *)
(* until they are removed, after an "abort" they never are.                *)
StatusIsTruth ==
  /\ status = "active" /\ remover \in {"idle", "join", "disable"} => enabled
  /\ status = "abort" => ~enabled

(* A removed mod stays removed: no late activation, and once the main      *)
(* queue is worked off no event monitor.                                   *)
QuietAfterShutdown ==
  remover = "done" => ~enabled /\ (blocks = <<>> => ~token)

(* "The originals go back when the hooks come out": the game is not left   *)
(* with the mod's bounds, unless an update that was waiting on the lock    *)
(* got it after the restore.                                               *)
BoundsHandedBack == remover = "done" /\ ready /\ ~overtaken => bounds # Ours

(* "Nothing is left changed after unload", whatever was waiting.           *)
NothingLeftChanged == remover = "done" /\ ready => bounds # Ours

(* The launcher gets a verdict unless the game exits first. *)
VerdictReported == worker = "poll" ~> status \in {"active", "abort"} \/ stop

(* Shutdown gets through: it waits for the readiness thread, which may be  *)
(* waiting for the lock, and then for the lock itself.                     *)
ShutdownCompletes == remover = "join" ~> remover = "done"
=============================================================================
