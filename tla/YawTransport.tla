---------------------------- MODULE YawTransport ----------------------------
(***************************************************************************)
(* How horizontal trackpad travel becomes camera rotation.                 *)
(*                                                                         *)
(* Two feeder threads bank signed travel in the atomic `wheel`             *)
(* (gWheelRotateTravel); once per frame the camera update thread moves it  *)
(* into `pending` (gPendingYawTravel), writes one frame's worth of it into *)
(* the pointer channel of the camera object the game is about to read, and *)
(* debits `pending` only after the update was seen to consume that value.  *)
(* The end of a gesture, a camera-mode change and the removal of the hooks *)
(* discard the travel from three other threads while this goes on.         *)
(*                                                                         *)
(* Travel is an integer: one unit stands for the smallest amount the       *)
(* drain tells apart, so the 1e-6 snap-to-zero has nothing left to do.     *)
(***************************************************************************)
EXTENDS Integers

CONSTANTS
  Threads,     \* the threads beside the camera's that touch the travel
  Cameras,     \* camera objects an update may work on
  NoCamera,    \* the null camera pointer
  NativeValues,\* what the game itself writes into a pointer channel
  Samples,     \* scaled travel one scroll event can carry
  TravelMax,   \* largest finite accumulator value; beyond it is "not finite"
  FrameCap,    \* travel the 540 deg/s ceiling lets one frame spend
  MaxVisits    \* how often the game may pass one detour site in an update

ASSUME ConstantsAssumption ==
  /\ Threads \subseteq {"main", "input", "remover"}
  /\ NoCamera \notin Cameras
  /\ NativeValues \subseteq [by : {"none", "mouse"}, travel : {0}, sel : BOOLEAN]
  /\ Samples \subseteq Int
  /\ TravelMax \in Nat \ {0}
  /\ FrameCap \in Nat \ {0}
  /\ MaxVisits \in Nat \ {0}

VARIABLES
  hooksEnabled,   \* gHooksEnabled
  rpg,            \* gRpgCameraModeActive
  nativeRotation, \* config.pointerRotationNative, fixed once loaded
  monitorActive,  \* RawTrackpadMonitorActive()
  gesture,        \* fingers down, axis locked horizontally (main thread)
  wheel,          \* gWheelRotateTravel
  recent,         \* gLastWheelTravelTime lies inside the smoothing window
  pending,        \* gPendingYawTravel
  yawLocked,      \* TryInjectNativeRotation is holding gYawStateMutex
  pc,             \* where each non-camera thread is
  sample,         \* AccumulateWheelTravel's argument, per thread
  seen,           \* AccumulateWheelTravel's `previous`, per thread
  update,         \* where the camera thread is in its update
  visits,         \* passes of the current site in this update
  frameUsable,    \* this frame's delta time is positive and finite
  gate,           \* pre-gate snapshot and the per-update hit counters
  inj,            \* gInjection
  chan,           \* +0xa0 delta and +0xa9 selector of every camera
  native,         \* what the game itself last put in each channel
  owed,           \* travel fed, not yet turned by the game, not discarded
  credit,         \* travel turned in this update that `pending` still holds
  raced,          \* `pending` was discarded with this update's injection in flight
  overdrawn       \* `pending` holds a debit of travel discarded under it

shared == <<hooksEnabled, rpg, nativeRotation, monitorActive, gesture>>
buffer == <<wheel, recent, pending, yawLocked, owed, credit, raced, overdrawn>>
threads == <<pc, sample, seen>>
frame == <<update, visits, frameUsable, gate, inj>>
vars == <<shared, buffer, threads, frame, chan, native>>

-----------------------------------------------------------------------------
(* A channel holds nothing, a mouse delta of the game's, or a rate of the  *)
(* mod's that is worth `travel`; `sel` is the selector bit.                *)
Injected(spend) == [by |-> "mod", travel |-> spend, sel |-> TRUE]
Empty == [by |-> "none", travel |-> 0, sel |-> FALSE]

NoGate == [hits |-> 0, camera |-> NoCamera, snap |-> Empty,
           preYawHits |-> 0, afterZoom |-> FALSE]
NoInjection == [active |-> FALSE, camera |-> NoCamera, prev |-> Empty,
                spend |-> 0, turned |-> 0, conditional |-> FALSE,
                committed |-> FALSE]

Abs(x) == IF x < 0 THEN -x ELSE x
FiniteAlways(x) == x = x
Finite(x) == Abs(x) <= TravelMax
Clip(x) == IF x > FrameCap THEN FrameCap
           ELSE IF x < -FrameCap THEN -FrameCap ELSE x

(* Variant: the exponential drain without its completion rule. *)
SpendsFraction ==
  {Clip(IF pending < 0 THEN -k ELSE k) : k \in 0 .. Abs(pending) - 1}

(* The share of `pending` one frame spends: all of it once the feeder has  *)
(* gone quiet, a fraction that never reaches the whole while it has not.   *)
Spends == IF recent
          THEN {Clip(IF pending < 0 THEN -k ELSE k) : k \in 0 .. Abs(pending) - 1}
          ELSE {Clip(pending)}

InFlight == inj.active /\ ~inj.committed

-----------------------------------------------------------------------------
(* Discarding banked travel.  Whatever the game has already turned is no   *)
(* longer owed, so only the rest is forgotten.                             *)
ForgetWheel ==
  /\ wheel' = 0
  /\ owed' = owed - wheel
  /\ UNCHANGED <<pending, credit, raced, overdrawn>>

ForgetPending ==
  /\ pending' = 0
  /\ owed' = owed - pending + credit
  /\ credit' = 0
  /\ raced' = InFlight /\ overdrawn' = FALSE
  /\ UNCHANGED wheel

ForgetAll ==
  /\ wheel' = 0
  /\ pending' = 0
  /\ owed' = owed - wheel - pending + credit
  /\ credit' = 0
  /\ raced' = InFlight /\ overdrawn' = FALSE

Idle(t) == t \in Threads /\ pc[t] = "idle"
Goto(t, label) == pc' = [pc EXCEPT ![t] = label]

-----------------------------------------------------------------------------
(* Feeding: RawTrackpadPushScaledX on the main thread; branch C of         *)
(* CameraInputEventHook on the input thread while no monitor is installed. *)
MayFeed(t) ==
  /\ hooksEnabled
  /\ \/ t = "main" /\ monitorActive /\ gesture
     \/ t = "input" /\ ~monitorActive /\ nativeRotation

StartSample(t, a) ==
  /\ Idle(t)
  /\ MayFeed(t)
  /\ a # 0
  /\ Goto(t, "cas")
  /\ sample' = [sample EXCEPT ![t] = a]
  /\ seen' = [seen EXCEPT ![t] = wheel]
  /\ UNCHANGED <<shared, buffer, frame, chan, native>>

(* Variant: load, then store, as the vertical feeder does it. *)
AccumulateByStore(t) ==
  /\ pc[t] = "cas"
  /\ Finite(seen[t] + sample[t])
  /\ wheel' = seen[t] + sample[t]
  /\ owed' = owed + sample[t]
  /\ Goto(t, "stamp")
  /\ UNCHANGED <<shared, recent, yawLocked, sample, frame, chan, native,
                 pending, credit, raced, overdrawn, seen>>

(* One turn of the compare-exchange loop. *)
Accumulate(t) ==
  /\ pc[t] = "cas"
  /\ \/ /\ ~Finite(seen[t] + sample[t])
        /\ ForgetWheel
        /\ Goto(t, "stamp")
        /\ UNCHANGED seen
     \/ /\ Finite(seen[t] + sample[t])
        /\ wheel = seen[t]
        /\ wheel' = seen[t] + sample[t]
        /\ owed' = owed + sample[t]
        /\ Goto(t, "stamp")
        /\ UNCHANGED <<pending, credit, raced, overdrawn, seen>>
     \/ /\ Finite(seen[t] + sample[t])
        /\ wheel # seen[t]
        /\ seen' = [seen EXCEPT ![t] = wheel]
        /\ UNCHANGED <<wheel, owed, pending, credit, raced, overdrawn, pc>>
  /\ UNCHANGED <<shared, recent, yawLocked, sample, frame, chan, native>>

Stamp(t) ==
  /\ pc[t] = "stamp"
  /\ recent' = TRUE
  /\ Goto(t, "idle")
  /\ sample' = [sample EXCEPT ![t] = 0]
  /\ seen' = [seen EXCEPT ![t] = 0]
  /\ UNCHANGED <<shared, wheel, pending, yawLocked, owed, credit, raced, overdrawn,
                 frame, chan, native>>

(* The smoothing window passes with no new sample. *)
GoQuiet ==
  /\ recent
  /\ recent' = FALSE
  /\ UNCHANGED <<shared, wheel, pending, yawLocked, owed, credit, raced, overdrawn,
                 threads, frame, chan, native>>

-----------------------------------------------------------------------------
(* The three callers that discard, and the steps they share.               *)
BeginGesture ==
  /\ Idle("main") /\ hooksEnabled /\ monitorActive /\ ~gesture
  /\ gesture' = TRUE
  /\ UNCHANGED <<hooksEnabled, rpg, nativeRotation, monitorActive,
                 buffer, threads, frame, chan, native>>

EndGesture ==
  /\ Idle("main") /\ hooksEnabled /\ monitorActive
  /\ Goto("main", "dropWheel")
  /\ UNCHANGED <<shared, buffer, sample, seen, frame, chan, native>>

ToggleMode ==
  /\ Idle("input") /\ hooksEnabled
  /\ rpg' = ~rpg
  /\ Goto("input", "dropWheel")
  /\ UNCHANGED <<hooksEnabled, nativeRotation, monitorActive, gesture,
                 buffer, sample, seen, frame, chan, native>>

RemoveHooks ==
  /\ Idle("remover")
  /\ hooksEnabled' = FALSE
  /\ monitorActive' = FALSE
  /\ Goto("remover", "await")
  /\ UNCHANGED <<rpg, nativeRotation, gesture, buffer, sample, seen, frame,
                 chan, native>>

(* Restoring the zoom bounds takes gCameraDefinitionMutex, which an update *)
(* holds from start to finish.                                             *)
AwaitUpdate ==
  /\ "remover" \in Threads /\ pc["remover"] = "await"
  /\ update \in {"idle", "entered"}
  /\ Goto("remover", "dropWheel")
  /\ UNCHANGED <<shared, buffer, sample, seen, frame, chan, native>>

DropWheel(t) ==
  /\ pc[t] = "dropWheel"
  /\ ForgetWheel
  /\ Goto(t, IF t = "input" THEN "dropPending" ELSE "dropTime")
  /\ UNCHANGED <<shared, recent, yawLocked, sample, seen, frame, chan, native>>

DropTime(t) ==
  /\ pc[t] = "dropTime"
  /\ recent' = FALSE
  /\ Goto(t, "dropPending")
  /\ UNCHANGED <<shared, wheel, pending, yawLocked, owed, credit, raced, overdrawn,
                 sample, seen, frame, chan, native>>

DropPending(t) ==
  /\ pc[t] = "dropPending"
  /\ ~yawLocked
  /\ ForgetPending
  /\ Goto(t, CASE t = "main" -> "publish" [] t = "input" -> "idle"
                  [] OTHER -> "done")
  /\ UNCHANGED <<shared, recent, yawLocked, sample, seen, frame, chan, native>>

PublishEnd ==
  /\ "main" \in Threads /\ pc["main"] = "publish"
  /\ gesture' = FALSE
  /\ Goto("main", "idle")
  /\ UNCHANGED <<hooksEnabled, rpg, nativeRotation, monitorActive, buffer,
                 sample, seen, frame, chan, native>>

(* The block StartRawTrackpadMonitor queued runs on the main thread.  Run  *)
(* after the removal it would change nothing here: both feeders check      *)
(* gHooksEnabled first.                                                    *)
MonitorInstalled ==
  /\ Idle("main") /\ hooksEnabled /\ ~monitorActive
  /\ monitorActive' = TRUE
  /\ UNCHANGED <<hooksEnabled, rpg, nativeRotation, gesture, buffer, threads,
                 frame, chan, native>>

-----------------------------------------------------------------------------
(* The camera update thread.                                               *)
Enter ==
  /\ update = "idle" /\ hooksEnabled /\ rpg
  /\ update' = "entered"
  /\ UNCHANGED <<shared, buffer, threads, visits, frameUsable, gate, inj,
                 chan, native>>

(* gCameraDefinitionMutex taken, GameCameraUpdateScope constructed. *)
Acquire(usable) ==
  /\ update = "entered"
  /\ update' = "gate"
  /\ frameUsable' = usable
  /\ gate' = NoGate
  /\ inj' = NoInjection
  /\ raced' = FALSE
  /\ UNCHANGED <<shared, wheel, recent, pending, yawLocked, owed, credit, overdrawn,
                 threads, visits, chan, native>>

(* BG3PreGateApply: the first pass takes the snapshot and calls            *)
(* TryInjectNativeRotation, a repeat is only counted.                      *)
PreGate(c) ==
  /\ update = "gate" /\ visits < MaxVisits
  /\ visits' = visits + 1
  /\ \/ /\ ~hooksEnabled
        /\ UNCHANGED <<update, gate>>
     \/ /\ hooksEnabled /\ gate.hits > 0
        /\ gate' = [gate EXCEPT !.hits = @ + 1]
        /\ UNCHANGED update
     \/ /\ hooksEnabled /\ gate.hits = 0
        /\ gate' = [gate EXCEPT !.hits = 1, !.camera = c, !.snap = chan[c]]
        /\ update' = "take"
  /\ UNCHANGED <<shared, buffer, threads, frameUsable, inj, chan, native>>

(* TryInjectNativeRotation, up to the point where the samples are taken. *)
Take ==
  /\ update = "take"
  /\ ~yawLocked
  /\ \/ /\ ~nativeRotation
        /\ ForgetAll
        /\ recent' = FALSE
        /\ update' = "gate"
        /\ UNCHANGED yawLocked
     \/ /\ nativeRotation
        /\ Finite(pending + wheel)
        /\ pending' = pending + wheel
        /\ wheel' = 0
        /\ yawLocked' = TRUE
        /\ update' = "decide"
        /\ UNCHANGED <<recent, owed, credit, raced, overdrawn>>
     \/ /\ nativeRotation
        /\ ~Finite(pending + wheel)
        /\ ForgetAll
        /\ update' = "gate"
        /\ UNCHANGED <<recent, yawLocked>>
  /\ UNCHANGED <<shared, threads, visits, frameUsable, gate, inj, chan, native>>

(* The rest of TryInjectNativeRotation, still under the lock. *)
NativeOwnsFrame == gate.snap.sel /\ gate.snap.by # "none"

KeepTravel ==
  /\ \/ pending = 0
     \/ ~NativeOwnsFrame /\ (~frameUsable \/ 0 \in Spends)
  /\ UNCHANGED <<wheel, recent, pending, owed, credit, raced, overdrawn, inj, chan>>

DropToNative ==
  /\ pending # 0
  /\ NativeOwnsFrame
  /\ ForgetAll
  /\ recent' = FALSE
  /\ UNCHANGED <<inj, chan>>

Inject(s) ==
  /\ pending # 0 /\ ~NativeOwnsFrame /\ frameUsable
  /\ s # 0
  /\ inj' = [NoInjection EXCEPT !.active = TRUE, !.camera = gate.camera,
                                !.prev = gate.snap, !.spend = s]
  /\ chan' = [chan EXCEPT ![gate.camera] = Injected(s)]
  /\ UNCHANGED <<wheel, recent, pending, owed, credit, raced, overdrawn>>

Decide ==
  /\ update = "decide"
  /\ KeepTravel \/ DropToNative \/ \E s \in Spends : Inject(s)
  /\ yawLocked' = FALSE
  /\ update' = "gate"
  /\ UNCHANGED <<shared, threads, visits, frameUsable, gate, native>>

-----------------------------------------------------------------------------
(* BG3PreYawApply, then the instruction after it, which consumes the       *)
(* channel when the selector is set.                                       *)
(* Variant: compared with what was there before the injection. *)
VerifiedAgainstSnapshot(c) == inj.camera = c /\ chan[c] = gate.snap
Verified(c) == inj.camera = c /\ chan[c] = Injected(inj.spend)

(* Variant: any pass of the pre-yaw site counts as verification. *)
ConsumeAnyPass(c) ==
  LET t == IF chan[c].sel THEN chan[c].travel ELSE 0
  IN /\ owed' = owed - t
     /\ credit' = credit + t
     /\ inj' = [inj EXCEPT !.turned = @ + t,
                           !.conditional = inj.active /\ Verified(c)]

Consume(c) ==
  LET t == IF chan[c].sel THEN chan[c].travel ELSE 0
  IN /\ owed' = owed - t
     /\ credit' = credit + t
     /\ inj' = [inj EXCEPT
                  !.turned = @ + t,
                  !.conditional =
                     IF hooksEnabled /\ inj.active
                     THEN /\ gate.hits = 1 /\ gate.preYawHits = 0
                          /\ Verified(c)
                     ELSE @]

PreYaw(c) ==
  /\ update = "turn" /\ visits < MaxVisits
  /\ visits' = visits + 1
  /\ gate' = IF hooksEnabled
             THEN [gate EXCEPT !.preYawHits = @ + 1] ELSE gate
  /\ Consume(c)
  /\ UNCHANGED <<shared, wheel, recent, pending, yawLocked, raced, overdrawn, threads,
                 update, frameUsable, chan, native>>

(* BG3AfterZoomApply: verify, then debit under the lock. *)
AfterZoom(c) ==
  /\ update = "zoom" /\ visits < MaxVisits
  /\ visits' = visits + 1
  /\ \/ /\ ~hooksEnabled \/ ~rpg \/ gate.afterZoom
        /\ UNCHANGED <<update, gate>>
     \/ /\ hooksEnabled /\ rpg /\ ~gate.afterZoom
        /\ gate' = [gate EXCEPT !.afterZoom = TRUE]
        /\ update' = IF inj.active /\ inj.conditional /\ Verified(c)
                     THEN "commit" ELSE "zoom"
  /\ UNCHANGED <<shared, buffer, threads, frameUsable, inj, chan, native>>

Commit ==
  /\ update = "commit"
  /\ ~yawLocked
  /\ \/ /\ Finite(pending - inj.spend)
        /\ pending' = pending - inj.spend
        /\ credit' = credit - inj.spend
        /\ overdrawn' = (pending # inj.spend /\ (overdrawn \/ raced))
        /\ UNCHANGED <<owed, raced>>
     \/ /\ ~Finite(pending - inj.spend)
        /\ pending' = 0
        /\ owed' = owed - pending + credit
        /\ credit' = 0
        /\ overdrawn' = FALSE
        /\ UNCHANGED raced
  /\ inj' = [inj EXCEPT !.committed = TRUE]
  /\ update' = "zoom"
  /\ UNCHANGED <<shared, wheel, recent, yawLocked, threads, visits,
                 frameUsable, gate, chan, native>>

(* The game moves on to the next site. The static analysis the hooks rest  *)
(* on says each site is passed once, and the turn only when selected;      *)
(* MaxVisits > 1 drops that assumption.                                    *)
SiteDone ==
  \/ MaxVisits > 1
  \/ visits = 1
  \/ update = "turn" /\ visits = 0 /\ \A c \in Cameras : ~chan[c].sel

NextSite ==
  /\ update \in {"gate", "turn", "zoom"}
  /\ SiteDone
  /\ update' = CASE update = "gate" -> "turn" [] update = "turn" -> "zoom"
                    [] OTHER -> "end"
  /\ visits' = 0
  /\ UNCHANGED <<shared, buffer, threads, frameUsable, gate, inj, chan, native>>

(* Variant: only a verified injection is taken back. *)
LeaveIfCommitted ==
  /\ update = "end"
  /\ update' = "idle"
  /\ chan' = IF inj.committed THEN [chan EXCEPT ![inj.camera] = inj.prev] ELSE chan
  /\ gate' = NoGate
  /\ inj' = NoInjection
  /\ frameUsable' = FALSE
  /\ owed' = owed + credit
  /\ credit' = 0
  /\ raced' = FALSE
  /\ UNCHANGED <<shared, wheel, recent, pending, yawLocked, overdrawn, threads, visits,
                 native>>

(* NativeInjectionRestoreScope, then GameCameraUpdateScope, are destroyed. *)
(* What was turned and not debited stays banked: it is owed again.         *)
Leave ==
  /\ update = "end"
  /\ update' = "idle"
  /\ chan' = IF inj.active THEN [chan EXCEPT ![inj.camera] = inj.prev] ELSE chan
  /\ gate' = NoGate
  /\ inj' = NoInjection
  /\ frameUsable' = FALSE
  /\ owed' = owed + credit
  /\ credit' = 0
  /\ raced' = FALSE
  /\ UNCHANGED <<shared, wheel, recent, pending, yawLocked, overdrawn, threads, visits,
                 native>>

(* The pitch getter's early exit outside RPG mode: ResetPitchState on the  *)
(* camera thread.                                                          *)
ResetOutsideRpg ==
  /\ hooksEnabled /\ ~rpg
  /\ update \in {"idle", "gate", "turn", "zoom"}
  /\ ForgetAll
  /\ UNCHANGED <<shared, recent, yawLocked, threads, frame, chan, native>>

(* The game's own input writes the channel: between updates, or anywhere   *)
(* once the static analysis is not taken on trust.                         *)
NativeWrite(c, v) ==
  /\ update \in {"idle", "entered"} \/ MaxVisits > 1
  /\ native' = [native EXCEPT ![c] = v]
  /\ chan' = [chan EXCEPT ![c] = v]
  /\ UNCHANGED <<shared, buffer, threads, frame>>

-----------------------------------------------------------------------------
Init ==
  /\ hooksEnabled = TRUE
  /\ rpg = TRUE
  /\ nativeRotation \in BOOLEAN
  /\ monitorActive \in BOOLEAN
  /\ gesture = FALSE
  /\ wheel = 0 /\ pending = 0 /\ recent = FALSE /\ yawLocked = FALSE
  /\ pc = [t \in Threads |-> "idle"]
  /\ sample = [t \in Threads |-> 0]
  /\ seen = [t \in Threads |-> 0]
  /\ update = "idle" /\ visits = 0 /\ frameUsable = FALSE
  /\ gate = NoGate
  /\ inj = NoInjection
  /\ native \in [Cameras -> NativeValues]
  /\ chan = native
  /\ owed = 0 /\ credit = 0 /\ raced = FALSE /\ overdrawn = FALSE

Feeding(t) == (\E a \in Samples : StartSample(t, a)) \/ Accumulate(t) \/ Stamp(t)

(* Variant: `pending` first, and then the accumulator that feeds it. *)
DiscardingBackwards(t) ==
  \/ /\ pc[t] = "dropWheel" /\ ~yawLocked
     /\ ForgetPending
     /\ Goto(t, "dropTime")
     /\ UNCHANGED <<shared, recent, yawLocked, sample, seen, frame, chan, native>>
  \/ DropTime(t)
  \/ /\ pc[t] = "dropPending"
     /\ ForgetWheel
     /\ Goto(t, CASE t = "main" -> "publish" [] t = "input" -> "idle"
                     [] OTHER -> "done")
     /\ UNCHANGED <<shared, recent, yawLocked, sample, seen, frame, chan, native>>

Discarding(t) == DropWheel(t) \/ DropTime(t) \/ DropPending(t)

CameraStep ==
  \/ (\E usable \in BOOLEAN : Acquire(usable))
  \/ (\E c \in Cameras : PreGate(c) \/ PreYaw(c) \/ AfterZoom(c))
  \/ Take \/ Decide \/ Commit \/ NextSite \/ Leave

ThreadStep ==
  \/ \E t \in Threads : Feeding(t) \/ Discarding(t)
  \/ BeginGesture \/ EndGesture \/ PublishEnd \/ MonitorInstalled
  \/ ToggleMode \/ RemoveHooks \/ AwaitUpdate
  \/ GoQuiet \/ ResetOutsideRpg

Next ==
  \/ ThreadStep \/ Enter \/ CameraStep
  \/ \E c \in Cameras, v \in NativeValues : NativeWrite(c, v)

Spec == Init /\ [][Next]_vars

(* The game renders on: frames keep coming and finish, some of them have a *)
(* positive length, time passes, and no thread stops inside a handler.     *)
Fairness ==
  /\ WF_vars(Enter) /\ WF_vars(CameraStep)
  /\ SF_vars(Acquire(TRUE))
  /\ WF_vars(GoQuiet)
  /\ \A t \in Threads : WF_vars(Accumulate(t) \/ Stamp(t) \/ Discarding(t))
  /\ WF_vars(PublishEnd)

FairSpec == Spec /\ Fairness

-----------------------------------------------------------------------------
Labels == {"idle", "cas", "stamp", "await", "dropWheel", "dropTime",
           "dropPending", "publish", "done"}
Stages == {"idle", "entered", "gate", "take", "decide", "turn", "zoom",
           "commit", "end"}
Travel == -TravelMax .. TravelMax
ChannelValues == NativeValues \cup {Empty} \cup {Injected(s) : s \in Travel}

Gates == [hits : Nat, camera : Cameras \cup {NoCamera}, snap : ChannelValues,
          preYawHits : Nat, afterZoom : BOOLEAN]
Injections == [active : BOOLEAN, camera : Cameras \cup {NoCamera},
               prev : ChannelValues, spend : Travel, turned : Int,
               conditional : BOOLEAN, committed : BOOLEAN]

SwitchesOK == /\ hooksEnabled \in BOOLEAN /\ rpg \in BOOLEAN /\ gesture \in BOOLEAN
              /\ nativeRotation \in BOOLEAN /\ monitorActive \in BOOLEAN
              /\ recent \in BOOLEAN /\ yawLocked \in BOOLEAN
              /\ raced \in BOOLEAN /\ overdrawn \in BOOLEAN
              /\ frameUsable \in BOOLEAN
BufferOK == /\ wheel \in Travel /\ pending \in Travel
            /\ owed \in Int /\ credit \in Int
ThreadsOK == /\ pc \in [Threads -> Labels]
             /\ sample \in [Threads -> Int] /\ seen \in [Threads -> Travel]
FrameOK ==
  /\ update \in Stages /\ visits \in 0 .. MaxVisits
  /\ gate \in Gates /\ inj \in Injections
ChannelsOK == /\ chan \in [Cameras -> ChannelValues]
              /\ native \in [Cameras -> NativeValues]

(* Every variable holds a value of its kind, and neither accumulator ever  *)
(* leaves the finite range.                                                *)
TypeOK == SwitchesOK /\ BufferOK /\ ThreadsOK /\ FrameOK /\ ChannelsOK

(* No sample is lost or counted twice between the feeders, the drain and   *)
(* the discards, however they interleave: what the two accumulators hold   *)
(* is what is still owed, plus what the game has turned but the update has *)
(* not debited yet (AccumulateWheelTravel's compare-exchange loop against  *)
(* the exchange in TryInjectNativeRotation).                               *)
LedgerBalance == wheel + pending = owed + credit

(* No travel is turned twice: an update that turned the camera ends with   *)
(* exactly that travel debited - provided the game passes each site the    *)
(* way the detours assume, and neither a discard of `pending` nor a mode   *)
(* change nor the removal of the hooks overtook the injection.             *)
Routed == MaxVisits = 1 /\ \A c, d \in Cameras : c = d
Switching == "input" \in Threads /\ pc["input"] \in {"dropWheel", "dropPending"}
Undisturbed == ~raced /\ rpg /\ hooksEnabled /\ ~Switching

NothingTurnedTwice ==
  Routed /\ update = "end" /\ Undisturbed => credit = 0

(* A debit is only made for a rotation the game performed in that same     *)
(* update, exactly once and for exactly the amount debited, whatever the   *)
(* detour sites see (BG3PreYawApply and BG3AfterZoomApply's verification). *)
DebitOnlyWhatTurned ==
  [][update = "commit" /\ update' = "zoom" => inj.turned = inj.spend]_vars

(* A debit takes a share of what is banked and leaves the rest with its    *)
(* sign: unless `pending` was discarded under the injection, Commit's      *)
(* subtraction never turns the backlog around.  This is the measure the    *)
(* drain goes down by.                                                     *)
DebitNeverOvershoots ==
  [][update = "commit" /\ update' = "zoom" /\ ~raced
       => \/ 0 <= pending' /\ pending' < pending
          \/ pending < pending' /\ pending' <= 0]_vars

(* Between updates no camera carries a rate of the mod's, and a channel    *)
(* the game did not write during the update is back at the game's value    *)
(* (NativeInjectionRestoreScope), even when the hooks went away meanwhile. *)
ChannelReturned ==
  update \in {"idle", "entered"} =>
    \A c \in Cameras : /\ chan[c].by # "mod"
                       /\ MaxVisits = 1 => chan[c] = native[c]

(* The lock-free accumulator keeps what TravelBank promises although the   *)
(* drain's exchange, and the stores of the three that discard, land        *)
(* anywhere in AccumulateWheelTravel's loop.                               *)
WheelBank == INSTANCE TravelBank WITH bank <- wheel, Amounts <- Samples
WheelIsBank == WheelBank!Spec

(* Once the player is done swiping, what was banked is turned or dropped:  *)
(* the exponential drain keeps no residue alive (the "finishing" rule of   *)
(* TryInjectNativeRotation), whatever races the last gesture left behind.  *)
PlayerDone ==
  <>[][~(EndGesture \/ \E t \in Threads, a \in Samples : StartSample(t, a))]_vars
StaysInRpg == <>[](rpg /\ hooksEnabled /\ nativeRotation)
BacklogDrains == PlayerDone /\ StaysInRpg => <>[](wheel = 0 /\ pending = 0)

(* A session whose scroll monitor was installed before the first swipe. *)
MonitoredInit == Init /\ monitorActive
MonitoredSpec == MonitoredInit /\ [][Next]_vars

(* "so the camera stops the instant the fingers lift instead of coasting   *)
(* on a backlog": with the scroll monitor as the only feeder, no update    *)
(* starts a new injection while no gesture is in progress.                 *)
CameraStopsOnLift ==
  [][update = "decide" /\ inj'.active => gesture]_vars

(* It holds but for one cause: what turns the camera after the lift is the *)
(* debit of an injection whose travel EndGesture discarded before it was   *)
(* committed, never a sample that was banked late.                         *)
CameraStopsUnlessOverdrawn ==
  [][update = "decide" /\ inj'.active /\ ~overdrawn => gesture]_vars
=============================================================================
