# BG3 Camera Unlock: models, checks and proofs

TLA+ modules for the concurrent and failure-prone parts of BG3 Camera Unlock,
the TLC configurations that check them on small instances, and TLAPS proofs
of what matters most, for every value of the constants. Line numbers are those
of the sources these modules were translated from; `PROJECT.json` maps every
definition to its lines.

## 1. The system

A macOS launcher application starts Baldur's Gate 3 with a dylib injected. The
dylib patches ten places of the game's code and turns trackpad, mouse and
gamepad input into rotation, pitch and zoom of the game's camera.

| Part | Source | State it keeps | Operations |
|---|---|---|---|
| Horizontal transport | `CameraHooks.cpp` | `gWheelRotateTravel`, `gLastWheelTravelTime`, `gPendingYawTravel`, `gInjection`, the game's pointer channel (+0xa0, +0xa9) | bank a scroll sample, drain, inject into the channel, verify, debit, restore, discard |
| Vertical transport | `CameraHooks.cpp` | `gPitchTravel`, `gRightStickY`, `gMousePitchTravel`, the published gesture, `gCurrentPitch`, the per-update token | gesture phases, 104/105 events, middle drag, pitch getter, mode reset |
| Mode toggle | `CameraHooks.cpp` | `gDeferredToggle`, `gRpgCameraModeActive`, last L3 sample | press 0x140, low-level release 0xc0, mode change 0xac, zoomed stick sample |
| Code patching | `HookInstaller.cpp`, `InstallCameraHooks`, `RemoveCameraHooks` | patched code, trampolines, `gOriginal...` | install, roll back, take out |
| Lifecycle | `ModMain.cpp`, `RawTrackpadMonitor.mm`, `ActivateCameraHooks` | `gInstalled`, `gStopRequested`, `gHooksEnabled`, zoom bounds, event monitor, status file | initialize, wait for readiness, activate, shut down |
| Launcher | `launcher/main.mm`, `InputBindings.mm` | input profile, its backup, the state file, the `NoLauncher` preference | merge and take back bindings, set and restore the preference, spawn, wait for the verdict |
| Camera constraints | `CameraHooks.cpp` | `gFloorConstraint`, `gCollisionClampActive`, the zoom fields of the camera | sweep the arm, find and remember the floor limit, clear it on a mode change (scaling of zoom input: not modelled) |
| Configuration | `CameraConfig.cpp` | `gConfig` | read the file once, check pairs, fold legacy keys |
| Lookup | `Patterns.hpp`, `PatternScanner.cpp`, `MachOImage.cpp` | none | find `__text`, find every pattern exactly once |
| Detours | `*.S` | none | save registers around a call (not modelled) |

How they interact. The launcher writes the bindings and the preference before
the game starts, spawns it, and then watches one status file for up to 125 s.
In the game the dylib's constructor loads the configuration, looks up the
sites, installs the hooks dormant and starts the *readiness thread*. That
thread polls for up to 120 s, activates the hooks under
`gCameraDefinitionMutex` and writes `active` or `abort: ...`. From then on
four threads meet in the shared state:

- the **main thread** runs the scroll and mouse monitor (gestures, middle
  drag) and the blocks that install and remove it;
- the game's **input thread** runs the event hooks (104/105, rotation, the
  mode toggle);
- the **camera thread** runs the update hook, the three detours and the pitch
  getter, and holds `gCameraDefinitionMutex` for a whole update;
- **Shutdown**, the destructor, joins the readiness thread and removes
  everything while the other three may still be running.

Accumulators are atomics, the buffers behind them sit under short mutexes,
and most flags are read without either. The hard behaviour is therefore
interleaving (who clears what between whose check and whose store), values
that are stale when they are used, writes that fail in the middle of a
transaction, and, for the launcher, a process that may end between two files.
`PROJECT.json` lists these hazards with their lines; the properties were
chosen from that list.

What makes each part correct: no travel lost, doubled or turned twice, and the
game's channel given back (horizontal); one turn per update, nothing left
after a swipe or a mode change (vertical); clicks toggle, zooms do not, and
the mod's mode is the game's (toggle); only a site whose own write failed
stays patched, and calls find their way back (patching); one true
verdict, nothing live after the removal and the game's bounds back
(lifecycle); what the mod wrote can always be taken back (launcher); a camera
before the wall and above the floor on an arm that neither oscillates nor
jumps (constraints); the settings the file says, whatever its order
(configuration); no code replaced but what was identified (lookup).

## 2. Modules

### YawTransport

Variables carry the code's names in comments. `pc`, `sample` and `seen` are
the program counters and locals of the threads in `Threads`; `update` is where
the camera thread is inside one game update. `StartSample`, `Accumulate` and
`Stamp` are `AccumulateWheelTravel`, one turn of its compare-exchange loop per
step; `DropWheel`, `DropTime`, `DropPending` are `DiscardWheelTravel` and
`ResetPitchState` as their callers interleave them; `Take` and `Decide` are
the two critical parts of `TryInjectNativeRotation`; `PreGate`, `PreYaw`,
`AfterZoom` and `Commit` are the detours' C++ functions, `Leave` the
destructors at the end of the update. `owed`, `credit`, `raced` and `overdrawn`
are history variables: travel fed and not yet turned, travel turned in this
update and not yet debited, whether a discard overtook the injection, and
whether what is banked comes from the debit of such an injection.
`WheelIsBank` says that the accumulator implements `TravelBank` (below),
`DebitNeverOvershoots` that a debit leaves a rest of the same sign.
`MonitoredSpec` is a session whose scroll monitor was installed before the
first swipe, `CameraStopsOnLift` what the code promises of it, and
`CameraStopsUnlessOverdrawn` what it keeps.

Abstractions. Travel is an integer, one unit being the smallest amount the
drain distinguishes; `TravelMax` stands for the largest finite float, so
"not finite" is reachable. A frame spends any fraction short of the whole
while samples are recent, the whole once they are not (`Spends`), capped by
`FrameCap`. The axis lock is the single flag `gesture`. A spurious failure of
`compare_exchange_weak` is a stutter. Nested updates are left out: the mutex
is not recursive. The pitch getter's `ResetPitchState` is one step here; the
getter has a module of its own. `SiteDone` says the game passes each detour
site once; with `MaxVisits > 1` even that is dropped.

### PitchTransport and TravelBank

Main thread: `GestureBegan`, `AxisDecided`, `GestureEnded` and the steps of
`RawTrackpadEndGesture` and `PublishRawGesture` one store at a time;
`DragStarted` and `DragBanked` are `MouseMiddleDragged`'s loop. Input thread:
`VerticalEvent` to `StoreDeflection` are the 104/105 path of
`CameraInputEventHook`, split at every shared read and write; `ToggleMode`,
`ClearStick`, `ResetPitchState` the mode change. Camera thread: the update's
scope and `GetCameraPitchDegreesHook`, which the game may call at any time
and any number of times. `TravelBank` is the abstract accumulator: it gains
samples as a whole and is emptied as a whole. `MouseIsBank` says the mouse's
lock-free accumulator implements it, `TrackpadIsBank` the same of
`gPitchTravel`, which does not. The history variable `overtaken` marks a
discard that had an event past the gesture check beside it;
`PitchStopsUnlessOvertaken` says that nothing else leaves travel or deflection
behind.

Abstractions. Sensitivities and frame length are folded into one integer unit.
The axis is decided freely at any sample of an undecided gesture. The zoom
chord of an event is chosen when it arrives. The 1.5 s inertia tail only
decides whether the game sees a neutralized event, which no property looks at.

### ModeToggle

The environment raises events into `queue` in order; the hooks handle its
head. `CaptureChord` is the 0x140 branch, `Vertical` the marking of a zoom,
`FilterRelease`, `PassRelease` and `PassOversize` are `FireInputEventsHook`,
`ModeChanged` the 0xac branch. The game raises 0xac for a mode change ahead of
what it raises afterwards. A *disturbance* is something the deferral is not
built for: a press with no stick sample in the last 0.25 s, a release polled
before its press was handled, an unplugged pad, a batch of more than 32
events. They all happen in the model; `disturbed` records which have, and each
property names those it does not survive. What is said of the *modes*
(`TrackedFollowsGame`, `ZoomNeverToggles`) survives an unplugged pad and no
other disturbance (`Sampled`); what is said of the *clicks* (`DeferredIsLive`,
`ClickStillToggles`) survives every disturbance but an unplugged pad
(`Plugged`), which leaves a mark that outlives its hold.

### HookInstaller

Ten sites (`Plan`): five entry hooks, three mid-function hooks with
trampolines, one tail hook without, one instruction patch. Every code write
can fail when the pages are made writable and again when they are made
executable, a trampoline when it is mapped, up to `FailuresMax` times anywhere
in install, rollback and removal. Protection is by the page: `PagesOf` gives
the one or two pages of every site, `sealed` is the set of pages left without
execution. A write that fails at the end takes execution from all of its
pages (`LeaveWritable`), one that succeeds gives it back to all of them
(`MakeExecutable`), whatever sites they hold. `stuck` records the sites whose own
write or restore failed; those of them that do not count as installed,
because their install was the one that failed, are `Abandoned`. `Place` is the
order of the rollback and the removal: backwards, but for two of the input
hooks. Which sites share a page depends on the game's build; the proofs allow
any layout, and `Layout` has neighbours and distant sites on one page, one site
on two pages and one by itself.

Abstractions. The constructor installs before game threads run, so installing
is sequential. During a removal a page is without execution while it is being
written; a game thread that runs on it then is not modelled, nor is one still
inside a trampoline when it is unmapped. The protection of two pages is set
with one call, which succeeds or fails for both.

### Lifecycle

One action per step of the constructor, of the readiness thread, of
`ActivateCameraHooks` between taking and releasing the lock, of the main
queue, of the update hook around the lock, and of `Shutdown` and
`RemoveCameraHooks`. The game creates, re-authors and gives up its definitions
at any time. `bounds` is the number of the game's authoring, or `Ours`.
Installing and unhooking are one step each (HookInstaller has their parts),
and the status file is assumed to be writable. `overtaken` records an update
that waited for the lock across the removal's restore, `faulted` one that
found its base pointer gone.

### Launcher

`Merged` and `Recorded` are `ComputeBindingPlan`: the profile and the state
file it would write. `PlanBindings`, `BackUp`, `WriteProfile` and `SaveState`
are `ApplyInputBindings`, each with its failure, the two reads included: a
profile that exists and cannot be read is taken as one without bindings
(`NoBindings`), a state file that cannot be read or parsed as none. A profile
that is missing, or that is read and is no JSON, is skipped. `Enable` to
`RestoreNoLauncher` are the rest of `main`. The game reads the profile into
`memory` when it starts and writes that back when it exits; the player rebinds
in between. A binding is abstracted to who wrote it: the mod, the player
(`Choices`), or nobody. A player who has chosen exactly the mod's binding is
therefore not modelled. Single file writes are atomic
(`NSDataWritingAtomic`); a preference that fails to synchronize counts as not
written; the stored value "no" is folded into "absent". The verdict is
whatever `WaitForModStatus` returns.

A *disturbance* here is a crash, a state file that cannot be read or written, a
profile that cannot be read, a game started behind the launcher's back, or a
preference that cannot be restored. `disturbed` records not that one happened
but what it may have spoilt: the record of the mod's bindings, the player's
bindings in the profile, or the preference. A crash spoils the record only
between the two writes and the preference only while it is the mod's
(`Spoilt`); anywhere else it spoils nothing, and everything is still promised.
Each property names what has to be `Spared` for it.

`PlayersBindings` is the abstract specification, without files, plan or game:
a launch borrows its flavor's actions, setting the player's bindings aside, and
gives back the other's, in one step (`Launch`); the player rebinds (`Rebind`);
once the record or the profile has been spoilt nothing is promised.
`LaunchIsOneStep` says that `Launcher` implements it, reading the bindings in
force from the running game or, without one, from the profile, and those set
aside from the state file, or from the plan between the two writes.
`PlayersBindingsKept` is what follows from it for the player.

### CameraConstraints

One update's work on the arm: `AfterZoom` is `BG3AfterZoomApply`, `Collide`
`ApplyCameraCollisionLimit`, `Measure` to `Write` `ApplyFloorClearanceLimit`
with one probe of the bisection per step. Between updates the player zooms and
the scene moves (`PlayerZooms`, `SceneMoves`); at the start of one the game
glides the current arm towards the desired one. On the input thread `Toggle`
and `ClearWords` are `ToggleTrackedCameraMode` and `ResetFloorConstraint`:
the assignment to `gFloorConstraint` is a plain store of several words, so any
of them may be seen cleared before the others, at any point of the update.
`active` and `limitedZoom` share a word and are cleared together, but the
update reads them one after the other: `LimitCleared` and `HoldCleared` are the
updates that are overtaken in between. `kept` is the limit the camera thread
has just computed; `Write` uses it or the memory, as the compiler may have it.

Abstractions. Arms are integers along one direction; a wall is the distance of
the first obstacle, a floor the set of arms that end above it, so a stair need
not be monotonic. `Readings` says which queries of the game an update finds in
order (null pointers, vectors that are not finite, no usable hit distance).
The probes of the bisection see one floor; the count of clear updates is
capped one above `ClearFrames`. `before`, `unblocked`, `steady` and `raced`
are history variables.

### CameraConfig, PatternScan and Startup

`CameraConfig` is `LoadCameraConfig` over a file of lines: `ReadLine` assigns
the candidate, `FinishConfig` reverts contradictory pairs, folds the legacy
keys and makes it the configuration. All keys are there with their ranges;
numbers are integers in hundredths. `PatternScan` is `FindMainExecutableText`
and the loop over the required patterns, each step of `FindAll` an action:
`Search` for patterns without a mask, `Try` for those with one. `Startup`
composes the two as `Initialize` does, installs or refuses, and then applies
the configured zoom bounds to definitions the game goes on authoring
(`ApplyZoomBounds`, `CaptureZoomBounds`, `RestoreZoomBounds`).

Abstractions. Trimming, case and comments within a line are left out: a line
is a key and a text. Load commands are the sections they hold, or unsound.
The bytes of the patterns are a parameter. Installing and activating are one
step each; HookInstaller and Lifecycle have their parts. `authored` is the
history of what the game wrote.

## 3. Runs

| Run | Instance | What it shows |
|---|---|---|
| `yaw_routed` | main, input and removing thread beside the camera, 1 camera object, travel up to 2, frame cap 1 | `LedgerBalance`, `NothingTurnedTwice` |
| `yaw_unrouted` | 2 camera objects, each site passed up to twice, native writes during the update | `DebitOnlyWhatTurned`, `ChannelReturned` without trusting the game's control flow |
| `yaw_fair` | 1 feeder, samples of both signs, travel up to 4, frame cap 2 | `BacklogDrains` (liveness), `CameraStopsUnlessOverdrawn` |
| `pitch_mixed` | pointer and gamepad, travel up to 2 | `OneTurnPerUpdate`, `SilentOutsideRpg`, refinement `MouseIsBank` |
| `pitch_lift` | pointer only | refutes `PitchStopsOnLift` |
| `toggle_clicks` | 4 queued events, all disturbances | `ZoomNeverToggles`, `ClickStillToggles`, `TrackedFollowsGame`, `DeferredIsLive` |
| `session` | 2 authored versions of the bounds | `StatusIsTruth`, `QuietAfterShutdown`, `BoundsHandedBack`, `VerdictReported`, `ShutdownCompletes` |
| `session_unload` | 1 version | refutes `NothingLeftChanged` |
| `hook_failures` | the ten sites on 6 pages, 2 failures of any kind | `CodeHandedBack`, `CallsFindTheirWay` |
| `launches` | 3 launches, 1 shared and 1 WASD-only action, all disturbances | `BindingsOnRecord`, `BackupIsUntouched`, `LaunchIsIdempotent`, `PreferenceHandedBack`, refinement `LaunchIsOneStep` |
| `constraints` | 2 cameras, arms up to 5 of which 4 are sane, a wall, a stair, 2 probes, 1 clear frame | `ArmIsSafe`, `SearchResolves`, `SweepSettles`, `ReleaseIsEarned` |
| `startup` | files of up to 3 of 13 lines, 3 patterns, 8 versions of the code, 3 ranges the game may author | `LoadedAsWritten`, `PatchedAsLocated`, `BoundsStayARange` |

Why the bounds are enough. An accumulator of two units distinguishes nothing,
part and all of the travel, and overflows; every race needs at most one sample
per thread in flight and one discard. Two visits to a detour site are the
first repetition, and two cameras the first mismatch. The ledger and the
channel are proved for every value anyway. A press, its release, a mode change
and one sample between them fill the queue of four. Two authored versions are
the first in which the captured bounds can be stale, two failures the first in
which a rollback fails, and with shared pages the first that lets one write undo
what another left; three launches the first in which a flavor comes back
after the other. An arm of four sane lengths needs both probes and has a length
beyond; one clear frame is the first that does not release. Three lines hold a
canonical key, its legacy key and a repetition, or a pair and a line between;
the patterns include one that overlaps itself, and the code one version for
each way a pattern can be missing, doubled or changed. Deadlock checking is off in all runs: each system may stop,
when the hooks are removed, the travel has hit its bound or no launch is left.

Every property of a passing run is broken by at least one mutant of a mapped
definition (a variant operator beside the real one), run under the same cfg.

Fairness. `yaw_fair` assumes that the game renders on (frames begin and
finish, some have a positive length), that time passes, and that no thread
stops inside a handler; nothing forces the player. `session` assumes that the
readiness thread and the removal go on when they can (`Proceed`, `Remover`),
that an update once begun returns, and that the clock advances. Nothing forces
the game to create its definitions, to damage a site (`SiteInvalid` is the one
step of the thread without fairness), to ask for an update, to get the lock for
one, to run its main queue or to exit. Mutexes are weakly fair only.

### What the refutations show

- `pitch_lift`: an event that passed the gesture check stores its deflection
  after `RawTrackpadEndGesture` cleared it; it is integrated from then on.
- `session_unload`: an update that waited for the lock across the removal
  writes the configured bounds over the restored ones.

The others are stated in their modules and refuted without a run of their
own. To see one fail, check it as the only property:

| Property | Constants | What happens |
|---|---|---|
| `CameraStopsOnLift` | `YawTransport_routed.cfg`, with `MonitoredSpec` and `NativeValues <- IdleOrMoved` | a gesture that ends between an injection and its debit leaves minus one frame's travel banked; the next update turns the camera back |
| `TrackpadIsBank` | `PitchTransport_lift.cfg` | the load-and-store of `gPitchTravel` has more than one writer |
| `ChangeIsFollowed` | `ModeToggle_clicks.cfg` | 0xac after an unfiltered zoomed release is swallowed |
| `RefusedIsUnpatched` | `HookInstaller_failures.cfg` | a jump stays when the page cannot be made executable again |
| `CallsAlwaysFindTheirWay` | `HookInstaller_failures.cfg` | the rollback restores a neighbour on the page of a failed install: the jump left there is executable again, without trampoline |
| `NeighboursUnharmed` | `HookInstaller_failures.cfg` | a failed write leaves its page, and every other site on it, without execution |
| `FilesAgree` | `Launcher_launches.cfg`, with `Launches = 1` and `Disturbances = {"unsaved"}` | a launcher that wrote the profile and not the record leaves bindings the next launch takes for the player's own |
| `UnreadableIsKept` | `Launcher_launches.cfg` | a profile that cannot be read is taken as empty and overwritten with the mod's bindings alone |
| `ArmNeverCloses` | `CameraConstraints.cfg` | a mode change clears the limit between its computation and its use: an arm of length 0 |
| `MarginIsKept` | `CameraConstraints.cfg` | the sweep ends with the arm; a wall just behind its end is not seen |
| `LongArmsAreSafe` | `CameraConstraints.cfg` | arms beyond `kMaximumSaneZoom`, which `MaximumZoomDistance` admits, are not limited at all |
| `RejectedNeverActive` | `Startup.cfg` | a value reported as ignored is stored |
| `AlwaysARange` | `Startup.cfg` | a minimum configured alone may exceed the game's own maximum |

How far these refutations reach is proved for five of them: `StopsUnlessOverdrawn`,
`PitchStops`, `ArmOpen`, and `PagesAreTheCause` for two (section 4) say that the
cause shown is the only one. TLC finds `UnreadableIsKept` to hold once
`"unreadProfile"` is taken out of `Disturbances`.

The findings in `PROJECT.json` quote the lines they contradict; `AlwaysARange`
contradicts none and is the limit of what `BoundsStayARange` promises.

## 4. Proofs

All theorems are of the form `Spec => []P` (or `Spec => [][A]_vars`, a
refinement, or liveness from fairness), for every value of the constants the named assumptions admit.
`LauncherConstants`, `HookConstants`, `ToggleConstants`, `PitchConstants`,
`LifecycleConstants` and `ConstantsAssumption` ask only for the kinds of the
constants, nonempty bounds, that the mod's bindings are nobody's choice and that
the flavors have one action in common, that every site lies on a page and that
the order of removal is one.
`ConstraintConstants` orders the three lengths and says that what `k` probes
resolve doubles with `k`; `PatternConstants` that patterns are not empty, have
a mask over all their bytes or none, and names of their own; `ConfigConstants`
and `StartupConstants` that files are sequences of lines and the guard holds
its branch.

**YawTransportProofs.** `TypeCorrect` and `LedgerCorrect` are nearly inductive
as they stand. `ChannelCorrect` and `DebitCorrect` are not: a camera may carry
a mod's rate only while an injection is active for just that camera, the value
it will be restored to is the snapshot of the same update, `conditional` is
only ever set at the single verified pass, and from then on `turned` is the
amount to be debited. `IInv` says this stage by stage of the update.
`NoDoubleTurn` adds what `credit` is while neither a discard nor a mode change
nor the removal has overtaken the injection. `NoOvershoot` needs `ShareInv`:
what an injection in flight spends is a share of what is banked, with its
sign, since the cap and the drain only shorten and what empties the bank leaves
`raced` set; feeders meanwhile add to the accumulator, not to the bank.
`WheelImplementsBank` maps each step to an addition, an emptying or a stutter,
with `SampleInv` for what the loop is about to add. `StopsUnlessOverdrawn` is
the promise of `CameraStopsOnLift` with its exception: `LiftInv` follows the end
of a gesture through the three discards (`NothingBanked`) while the main thread
alone feeds (`OnlyTheMonitorFeeds`). Only a debit can put something back behind
the discard, and by `ShareInv` only one that was overtaken.

**PitchTransportProofs.** `TurnsOnce` rests on `TurnRecorded`: a turn is
always recorded in the token, and the token is reset only by the two ends of
the update's scope, which reset the count as well. `StickIsSilent` needs
`StickSilent`, which also says what the input thread is about to store: an
event is only worked on in RPG mode, on the same thread that changes the mode,
and after a change away from it the thread clears the deflection before it
handles anything else. `MouseImplementsBank` needs `DragPending` (what the
loop is about to add is a drag sample) and maps each step to an addition, an
emptying or a stutter. `PitchStops` is `PitchStopsOnLift` with its exception:
`StaysDiscarded` says that, once the discard has found no event past the check,
none passes it before the end is published, and without one nothing is stored;
getter, mode change and the order of the two published stores are harmless.

**HookInstallerProofs.** The invariant is `PatchedIsKnown` (code of the mod's is
recorded as installed or stuck, and a stuck site that is not installed is the
one whose install failed), `Progress` (which sites are installed at each phase;
in a rollback or removal those already passed are stuck), `Contiguous` (below a
site ever written everything was installed, and still is where the removal has
not come by), `SealedHeld` (a page without execution holds a stuck site, and what
lies on it and was passed after that one is stuck too, since a successful
write would have given the page back), `AbandonedInert` (an abandoned jump lies
above everything installed, and is without execution unless an earlier site
shares a page with it) and
`WaysKept` (any other executable jump has its trampoline or original until the
very end, and one in mid-function beyond it). `PagesAreTheCause` adds the one
assumption that no two sites share a page: then nothing brings an abandoned
jump back, and no failed write harms another site.

**LifecycleProofs.** Four parts say what the program counters imply:
`RemovalWaits` (the removal runs only after the readiness thread is over),
`Dormant` (`enabled` holds only between `Enable` and `Disable`, and a verdict
is the thread's last word), `BoundsKept` (what would be put back is kept from
the capture to the restore) and `MonitorOwned` (the main queue holds at most
the start and, behind it, the stop).

Both liveness properties are proved. `LockDiscipline` adds who holds the lock
and until when. `VerdictGiven` follows the readiness thread: from polling by
the clock, from the lock by the update in it, which returns, and from there
label by label to the verdict. `ShutdownGetsThrough` follows the removal: the
stop request ends the polling, at most one more update gets the lock once the
hooks are off (`AtMostOneMore`), and the removal waits for nothing else, least
of all for the main queue. The one fact the prover cannot show, because it has
no `ENABLED`, is that an action whose guard holds can be taken; `Enabling`
states it for the four fair actions and is a hypothesis of both theorems. It
speaks of single states, names no property of the system beyond the guards, and
TLC confirms it as the only invariant with the constants of
`Lifecycle_session.cfg`. The proofs needed the fairness to be the weaker one
given above: with `SiteInvalid` among the fair steps, the thread would have
left its polling without the clock.

**LauncherProofs.** One part that always holds, and one for each thing that can
be spoilt. `FirstWrite`: before there is a backup, nothing of the mod's exists
anywhere, not even in a running game; this needs no condition at all, so
`BackupKept` holds whatever happens. `RecordSide`, while the record is spared:
no game runs while a launch is at work, the plan still covers every binding
of the mod's when it is carried out (`PlanCurrent`), and the files agree except
between the two writes (`RecordsKept`). `ProfileSide`, while the profile is
spared too: the plan is that of the two files as they are (`PlanOfFiles`).
`PreferenceSide`: the preference is the player's or in the snapshot. `SpoiltForGood`
says that a thing once spoilt stays so, and `FailedReads` that a plan of anything
but the files has spoilt one. Two lemmas on the plan itself carry the rest:
`PlanIsIdempotent` and `PlanKeepsRecord`, for all profiles and states.

`LaunchImplementsPromise` shows the refinement. `MergeIsLaunch` is its core: for
all profiles and states of an orderly session, the profile and record that
`ComputeBindingPlan` merges are one `Launch` of the abstract specification. The
profile write is that step, because the record is read from the plan until it
is on disk; the second write, a failure before the first, and a game that reads
the profile or writes it back are stutters. What the player changes, in a game
or between two, is a `Rebind`. `BindingsSurvive` then is a property of
`PlayersBindings` alone, together with `ForceOnRecord`: a binding of the mod's in
force always has one of the player's, or none, set aside.

**ModeToggleProofs.** The invariant has two sides, each with the disturbances it
survives. `Order`: a mode change stands at the head of the queue, a release
before the press of the next hold, and there is at most one of each. `Button`
relates the queue to the button, `Deferral` the pending press to both,
`Agreement` the two modes to the changes still queued: together `ModeSide`, which
holds while `Sampled` and gives `SameMode` and `ZoomHarmless`. `ClickSide` holds
while `Plugged` and gives `DeferralLive` and `ClickToggles`: between two presses in
the queue there is a release however late it comes (`Alternate`), the end of a
pending press comes before the next press (`Alive`), and so a zoom mark is never
that of an earlier hold (`Marked`). `TrackedFollowsGame` alone is far from
inductive: it speaks of the empty queue only.

**CameraConstraintsProofs.** The parts follow the update. `MeasuredSane` and
`Bracket` say what the search holds, with one clear and one blocked end
however the floor looks; `Halved` that the interval after `k` probes is no
longer than what the remaining ones resolve. `LimitOpen` keeps every limit
positive, except one being cleared (`ArmOpen`). `WallInv` and `FloorInv` carry the arm's
safety from the step that establishes it over those that only shorten the arm;
`FreeInv` the clear sweep from one update to the next; `EarnInv` bounds the
code's own count of clear updates by the true one, which a mode change in the
middle only lowers.

**StartupProofs.** `ConfigInv` says line by line that the candidate holds what
the lines read so far say (`CandidateIsSaid`, with an index of the last valid
line rather than a recursion) and which canonical keys were seen. `ScanInv`
is `FoundSoFar`, the addresses placed, and that `unique` still means unique;
that a masked search may skip offsets by its anchor, and an unmasked one go
from match to match, is a lemma each. `RangeAsked` and `BoundsInv` give
`BoundsStayARange` over any later authoring.

Only model-checked: `BacklogDrains`, whose proof is an induction over the size
of the backlog, which no installed prover can do, and `Enabling`, the premise of
the other two liveness theorems. Every other property of a passing run is a
theorem.

Six theorems state properties that no run lists (beside `PagesAreTheCause`, whose
premise the run's layout does not meet). TLC finds them to hold, each as
the only property with these constants:

| Theorem | Property | Constants |
|---|---|---|
| `NoOvershoot`, `WheelImplementsBank` | `DebitNeverOvershoots`, `WheelIsBank` | `YawTransport_routed.cfg`, `YawTransport_unrouted.cfg` |
| `PitchStops` | `PitchStopsUnlessOvertaken` | `PitchTransport_lift.cfg` |
| `PreviousKept`, `BindingsSurvive` | `PreviousIsPlayers`, `PlayersBindingsKept` | `Launcher_launches.cfg`, with `Launches = 2` |
| `ArmOpen` | `ArmStaysOpen` | `CameraConstraints.cfg` |

## 5. Not modelled

The scaling of zoom input (response curves on floats, a function of one
sample), vectors and the geometry behind a hit distance; the byte patterns
themselves; the assembly detours, which save registers around a call; the 1.5 s
inertia tail filter; alerts, logs, choosing the game application, migrating
old files and waiting for Steam in the launcher (all of them refusals before
the first write, `Refuse`); tools, tests and packaging.

## 6. Plan

Done: YawTransport, PitchTransport with TravelBank, ModeToggle, HookInstaller,
Lifecycle, Launcher with PlayersBindings, CameraConstraints, CameraConfig with
PatternScan and Startup, and the proofs above.

Next:

1. The pointer zoom chord of the horizontal actions, and the pointer's
   modifier in toggle mode.
2. Zoom input scaling on integers: monotonic in the deflection, within the
   bounds the configuration admits.
3. A composition of Lifecycle and HookInstaller: threads that are inside a
   trampoline when it is taken out.
4. The launcher's choice of the game application and the migration of old
   files.
5. What a proof can give towards `BacklogDrains`: that each stage of a quiet
   frame is followed by the next, and that a debit then leaves strictly less;
   the induction over the size remains with TLC.
