--------------------------- MODULE PitchTransport ---------------------------
(***************************************************************************)
(* How vertical input becomes camera pitch.                                *)
(*                                                                         *)
(* Three sources meet in GetCameraPitchDegreesHook on the camera thread:   *)
(* the trackpad's travel (`travel`, gPitchTravel) and the stick deflection *)
(* (`stick`, gRightStickY), both written by CameraInputEventHook on the    *)
(* game's input thread, and the mouse's middle-drag travel (`mouse`,       *)
(* gMousePitchTravel), written on the main thread.  The main thread also   *)
(* runs the trackpad's gesture lifecycle, which decides whether the input  *)
(* thread may use a pointer event, and clears what a finished swipe left.  *)
(* A camera-mode change on the input thread resets the pitch.              *)
(*                                                                         *)
(* One unit of travel, of stick deflection times frame length and of pitch *)
(* are the same integer unit: the sensitivities are left out.              *)
(***************************************************************************)
EXTENDS Integers

CONSTANTS
  Devices,       \* sources of vertical events: "pointer", "gamepad"
  Samples,       \* values of a vertical event after the deadzone
  DragSamples,   \* middle-drag deltas
  VanillaPitches,\* pitches the game itself may return
  PitchMin, PitchMax,
  TravelMax      \* largest finite accumulator value

ASSUME PitchConstants ==
  /\ Devices \subseteq {"pointer", "gamepad"}
  /\ Samples \subseteq Int /\ DragSamples \subseteq Int \ {0}
  /\ VanillaPitches \subseteq Int /\ VanillaPitches # {}
  /\ PitchMin \in Int /\ PitchMax \in Int /\ PitchMin <= PitchMax
  /\ TravelMax \in Nat

VARIABLES
  rpg,           \* gRpgCameraModeActive
  monitorActive, \* RawTrackpadMonitorActive(), fixed here
  axisLock,      \* gRawAxisLock, the main thread's own
  gestureActive, \* gRawGestureActive as published
  axisPublished, \* gRawAxisLockPublished
  overtaken,     \* the last discard had an event past the gesture check beside it
  wheelIsPointer,\* gWheelRotateDevice = kPointerDevice
  travel,        \* gPitchTravel
  mouse,         \* gMousePitchTravel
  stick,         \* gRightStickY
  mainPc, drag, dragSeen,   \* main thread; MouseMiddleDragged's locals
  inputPc, event, total,    \* input thread; CameraInputEventHook's locals
  cameraPc, taken,          \* camera thread; what the getter has drained
  inside,        \* gInsideGameCameraUpdate
  integrated,    \* gPitchIntegratedThisUpdate
  timed,         \* gGameDeltaSeconds > 0
  initialized,   \* gPitchInitialized
  pitch,         \* gCurrentPitch
  turns          \* how often this update has moved the pitch

gestures == <<axisLock, gestureActive, axisPublished, overtaken>>
banks == <<travel, mouse, stick, wheelIsPointer>>
main == <<mainPc, drag, dragSeen>>
input == <<inputPc, event, total>>
getter == <<cameraPc, taken>>
frame == <<inside, integrated, timed, turns>>
target == <<initialized, pitch>>
vars == <<rpg, monitorActive, gestures, banks, main, input, getter, frame, target>>

Axes == {"undecided", "horizontal", "vertical"}
NoEvent == [dev |-> "none", value |-> 0, partial |-> FALSE, zoom |-> FALSE]

Abs(x) == IF x < 0 THEN -x ELSE x
(* Variant: std::isfinite is not asked. *)
FiniteAlways(x) == x = x
Finite(x) == Abs(x) <= TravelMax
Clamp(x) == IF x < PitchMin THEN PitchMin ELSE IF x > PitchMax THEN PitchMax ELSE x

-----------------------------------------------------------------------------
(* Main thread: RawTrackpadScroll and RawTrackpadEndGesture.               *)
MainAt(label) == mainPc = label
Publish(label, axis) == mainPc' = label /\ axisLock' = axis

GestureBegan ==
  /\ MainAt("idle") /\ monitorActive
  /\ Publish("publishOn", "undecided")
  /\ UNCHANGED <<rpg, monitorActive, gestureActive, axisPublished, overtaken, banks,
                 drag, dragSeen, input, getter, frame, target>>

(* A sample of an undecided gesture may settle the axis; the cumulative    *)
(* travel it is settled by is left out.                                    *)
AxisDecided(axis) ==
  /\ MainAt("idle") /\ monitorActive
  /\ axisLock = "undecided" /\ axis # "undecided"
  /\ Publish("publishOn", axis)
  /\ UNCHANGED <<rpg, monitorActive, gestureActive, axisPublished, overtaken, banks,
                 drag, dragSeen, input, getter, frame, target>>

GestureEnded ==
  /\ MainAt("idle") /\ monitorActive
  /\ mainPc' = "dropTravel"
  /\ UNCHANGED <<rpg, monitorActive, gestures, banks, drag, dragSeen, input,
                 getter, frame, target>>

(* An event that CameraInputEventHook has let pass as part of the gesture. *)
PastCheck == inputPc \in {"axis", "use", "store", "deflect"}

DropTravel ==
  /\ MainAt("dropTravel")
  /\ travel' = 0 /\ overtaken' = PastCheck
  /\ mainPc' = "dropStick"
  /\ UNCHANGED <<rpg, monitorActive, axisLock, gestureActive, axisPublished, mouse,
                 stick, wheelIsPointer, drag, dragSeen, input, getter, frame, target>>

DropStick ==
  /\ MainAt("dropStick")
  /\ stick' = IF wheelIsPointer THEN 0 ELSE stick
  /\ Publish("publishOff", "undecided")
  /\ UNCHANGED <<rpg, monitorActive, gestureActive, axisPublished, overtaken, travel,
                 mouse, wheelIsPointer, drag, dragSeen, input, getter, frame, target>>

(* PublishRawGesture stores the flag, then the axis.  Once the next gesture *)
(* is published it is no longer asked what the last one's end left.        *)
PublishFlag ==
  /\ mainPc \in {"publishOn", "publishOff"}
  /\ gestureActive' = MainAt("publishOn")
  /\ overtaken' = (overtaken /\ MainAt("publishOff"))
  /\ mainPc' = "publishAxis"
  /\ UNCHANGED <<rpg, monitorActive, axisLock, axisPublished, banks, drag, dragSeen,
                 input, getter, frame, target>>

PublishAxis ==
  /\ MainAt("publishAxis")
  /\ axisPublished' = axisLock
  /\ mainPc' = "idle"
  /\ UNCHANGED <<rpg, monitorActive, axisLock, gestureActive, overtaken, banks, drag,
                 dragSeen, input, getter, frame, target>>

(* MouseMiddleDragged's compare-exchange loop, and MouseMiddleUp.          *)
DragStarted(a) ==
  /\ MainAt("idle")
  /\ mainPc' = "cas" /\ drag' = a /\ dragSeen' = mouse
  /\ UNCHANGED <<rpg, monitorActive, gestures, banks, input, getter, frame, target>>

(* Variant: load, then store. *)
DragByStore ==
  /\ MainAt("cas")
  /\ mouse' = IF Finite(dragSeen + drag) THEN dragSeen + drag ELSE 0
  /\ mainPc' = "idle" /\ drag' = 0 /\ dragSeen' = 0
  /\ UNCHANGED <<rpg, monitorActive, gestures, travel, stick, wheelIsPointer,
                 input, getter, frame, target>>

DragBanked ==
  /\ MainAt("cas")
  /\ \/ /\ mouse = dragSeen \/ ~Finite(dragSeen + drag)
        /\ mouse' = IF Finite(dragSeen + drag) THEN dragSeen + drag ELSE 0
        /\ mainPc' = "idle" /\ drag' = 0 /\ dragSeen' = 0
     \/ /\ mouse # dragSeen /\ Finite(dragSeen + drag)
        /\ dragSeen' = mouse
        /\ UNCHANGED <<mouse, mainPc, drag>>
  /\ UNCHANGED <<rpg, monitorActive, gestures, travel, stick, wheelIsPointer,
                 input, getter, frame, target>>

ButtonUp ==
  /\ MainAt("idle")
  /\ mouse' = 0
  /\ UNCHANGED <<rpg, monitorActive, gestures, travel, stick, wheelIsPointer,
                 main, input, getter, frame, target>>

-----------------------------------------------------------------------------
(* Input thread: CameraInputEventHook for the vertical actions 104/105.    *)
(* `zoom` says that a zoom chord was held when the event came in, `partial`*)
(* that its magnitude was not a full key press.                            *)
InputIdle == inputPc = "idle"

VerticalEvent(e) ==
  /\ InputIdle
  /\ \/ /\ ~rpg
        /\ stick' = 0
        /\ UNCHANGED <<inputPc, event>>
     \/ /\ rpg
        /\ event' = e
        /\ inputPc' = IF e.dev = "pointer" /\ monitorActive THEN "gesture" ELSE "use"
        /\ UNCHANGED stick
  /\ UNCHANGED <<rpg, monitorActive, gestures, travel, mouse, wheelIsPointer,
                 total, main, getter, frame, target>>

(* Without a gesture the game gets its event back, neutralized during the  *)
(* inertia tail; neither touches the mod's own state.                      *)
CheckGesture ==
  /\ inputPc = "gesture"
  /\ IF gestureActive THEN inputPc' = "axis" /\ UNCHANGED event
                      ELSE inputPc' = "idle" /\ event' = NoEvent
  /\ overtaken' = (overtaken \/ (gestureActive /\ mainPc \in {"dropStick", "publishOff"}))
  /\ UNCHANGED <<rpg, monitorActive, axisLock, gestureActive, axisPublished, banks,
                 total, main, getter, frame, target>>

CheckAxis ==
  /\ inputPc = "axis"
  /\ IF axisPublished = "vertical" THEN inputPc' = "use" /\ UNCHANGED event
                                   ELSE inputPc' = "idle" /\ event' = NoEvent
  /\ UNCHANGED <<rpg, monitorActive, gestures, banks, total, main, getter,
                 frame, target>>

Zoomed ==
  /\ inputPc = "use" /\ event.zoom
  /\ stick' = 0
  /\ inputPc' = "idle" /\ event' = NoEvent
  /\ UNCHANGED <<rpg, monitorActive, gestures, travel, mouse, wheelIsPointer,
                 total, main, getter, frame, target>>

(* The first partial magnitude identifies the pointer as a wheel; a wheel  *)
(* device's sample is banked before it is stored as a deflection.          *)
LoadTravel ==
  /\ inputPc = "use" /\ ~event.zoom
  /\ wheelIsPointer' = (wheelIsPointer \/ (event.dev = "pointer" /\ event.partial))
  /\ IF event.dev = "pointer" /\ wheelIsPointer' /\ event.value # 0
     THEN total' = travel + event.value /\ inputPc' = "store"
     ELSE UNCHANGED total /\ inputPc' = "deflect"
  /\ UNCHANGED <<rpg, monitorActive, gestures, travel, mouse, stick, event, main,
                 getter, frame, target>>

StoreTravel ==
  /\ inputPc = "store"
  /\ travel' = IF Finite(total) THEN total ELSE 0
  /\ total' = 0
  /\ inputPc' = "deflect"
  /\ UNCHANGED <<rpg, monitorActive, gestures, mouse, stick, wheelIsPointer,
                 event, main, getter, frame, target>>

StoreDeflection ==
  /\ inputPc = "deflect"
  /\ stick' = event.value
  /\ inputPc' = "idle" /\ event' = NoEvent
  /\ UNCHANGED <<rpg, monitorActive, gestures, travel, mouse, wheelIsPointer,
                 total, main, getter, frame, target>>

(* ToggleTrackedCameraMode, on the same thread. *)
ToggleMode ==
  /\ InputIdle
  /\ rpg' = ~rpg
  /\ inputPc' = "clearStick"
  /\ UNCHANGED <<monitorActive, gestures, banks, event, total, main, getter,
                 frame, target>>

(* Variant: the deflection survives the mode change. *)
KeepStick ==
  /\ inputPc = "clearStick"
  /\ inputPc' = "reset"
  /\ UNCHANGED <<rpg, monitorActive, gestures, banks, event, total, main,
                 getter, frame, target>>

ClearStick ==
  /\ inputPc = "clearStick"
  /\ stick' = 0
  /\ inputPc' = "reset"
  /\ UNCHANGED <<rpg, monitorActive, gestures, travel, mouse, wheelIsPointer,
                 event, total, main, getter, frame, target>>

GetterHoldsLock == cameraPc \in {"drainMouse", "integrate"}

ResetPitchState ==
  /\ inputPc = "reset"
  /\ ~GetterHoldsLock
  /\ initialized' = FALSE
  /\ inputPc' = "idle"
  /\ UNCHANGED <<rpg, monitorActive, gestures, banks, event, total, main,
                 getter, frame, pitch>>

-----------------------------------------------------------------------------
(* Camera thread: the update's scope and the pitch getter, which the game  *)
(* calls any number of times in an update, and outside it.                 *)
Outside == cameraPc = "out"

BeginUpdate(t) ==
  /\ Outside /\ ~inside /\ rpg
  /\ inside' = TRUE /\ integrated' = FALSE /\ timed' = t /\ turns' = 0
  /\ UNCHANGED <<rpg, monitorActive, gestures, banks, main, input, getter, target>>

EndUpdate ==
  /\ Outside /\ inside
  /\ inside' = FALSE /\ integrated' = FALSE /\ timed' = FALSE /\ turns' = 0
  /\ UNCHANGED <<rpg, monitorActive, gestures, banks, main, input, getter, target>>

GetterCalled ==
  /\ Outside
  /\ IF rpg THEN cameraPc' = "locked" /\ UNCHANGED stick
            ELSE cameraPc' = "reset" /\ stick' = 0
  /\ UNCHANGED <<rpg, monitorActive, gestures, travel, mouse, wheelIsPointer,
                 main, input, taken, frame, target>>

GetterResets ==
  /\ cameraPc = "reset"
  /\ initialized' = FALSE
  /\ cameraPc' = "out"
  /\ UNCHANGED <<rpg, monitorActive, gestures, banks, main, input, taken, frame,
                 pitch>>

GetterAdopts(vanilla) ==
  /\ cameraPc = "locked" /\ ~initialized
  /\ initialized' = TRUE /\ pitch' = vanilla
  /\ cameraPc' = "out"
  /\ UNCHANGED <<rpg, monitorActive, gestures, banks, main, input, taken, frame>>

DrainTravel ==
  /\ cameraPc = "locked" /\ initialized
  /\ taken' = travel /\ travel' = 0
  /\ cameraPc' = "drainMouse"
  /\ UNCHANGED <<rpg, monitorActive, gestures, mouse, stick, wheelIsPointer,
                 main, input, frame, target>>

DrainMouse ==
  /\ cameraPc = "drainMouse"
  /\ taken' = taken + mouse /\ mouse' = 0
  /\ cameraPc' = "integrate"
  /\ UNCHANGED <<rpg, monitorActive, gestures, travel, stick, wheelIsPointer,
                 main, input, frame, target>>

Turn(amount) ==
  /\ pitch' = Clamp(pitch + amount)
  /\ integrated' = TRUE
  /\ turns' = turns + 1

(* Variant: the stick's share is integrated without asking whether this    *)
(* update was served already.                                              *)
IntegrateEveryCall ==
  /\ cameraPc = "integrate"
  /\ IF inside /\ timed /\ (taken # 0 \/ stick # 0)
     THEN Turn(IF taken # 0 THEN taken ELSE stick)
     ELSE UNCHANGED <<pitch, integrated, turns>>
  /\ taken' = 0 /\ cameraPc' = "out"
  /\ UNCHANGED <<rpg, monitorActive, gestures, banks, main, input, inside,
                 timed, initialized>>

Integrate ==
  /\ cameraPc = "integrate"
  /\ \/ taken # 0 /\ inside /\ ~integrated /\ Turn(taken)
     \/ /\ taken = 0 /\ stick # 0 /\ inside /\ ~integrated /\ timed
        /\ Turn(stick)
     \/ /\ \/ ~inside \/ integrated
           \/ taken = 0 /\ (stick = 0 \/ ~timed)
        /\ UNCHANGED <<pitch, integrated, turns>>
  /\ taken' = 0 /\ cameraPc' = "out"
  /\ UNCHANGED <<rpg, monitorActive, gestures, banks, main, input, inside,
                 timed, initialized>>

-----------------------------------------------------------------------------
Events == [dev : Devices, value : Samples, partial : BOOLEAN, zoom : BOOLEAN]

Init ==
  /\ rpg = TRUE
  /\ monitorActive \in BOOLEAN
  /\ axisLock = "undecided" /\ gestureActive = FALSE /\ axisPublished = "undecided"
  /\ overtaken = FALSE
  /\ travel = 0 /\ mouse = 0 /\ stick = 0 /\ wheelIsPointer = FALSE
  /\ mainPc = "idle" /\ drag = 0 /\ dragSeen = 0
  /\ inputPc = "idle" /\ event = NoEvent /\ total = 0
  /\ cameraPc = "out" /\ taken = 0
  /\ inside = FALSE /\ integrated = FALSE /\ timed = FALSE /\ turns = 0
  /\ initialized = FALSE /\ pitch = 0

MainStep ==
  \/ GestureBegan \/ GestureEnded \/ (\E axis \in Axes : AxisDecided(axis))
  \/ DropTravel \/ DropStick \/ PublishFlag \/ PublishAxis
  \/ (\E a \in DragSamples : DragStarted(a)) \/ DragBanked \/ ButtonUp

InputStep ==
  \/ (\E e \in Events : VerticalEvent(e))
  \/ CheckGesture \/ CheckAxis \/ Zoomed
  \/ LoadTravel \/ StoreTravel \/ StoreDeflection
  \/ ToggleMode \/ ClearStick \/ ResetPitchState

CameraStep ==
  \/ (\E t \in BOOLEAN : BeginUpdate(t)) \/ EndUpdate
  \/ GetterCalled \/ GetterResets \/ (\E v \in VanillaPitches : GetterAdopts(v))
  \/ DrainTravel \/ DrainMouse \/ Integrate

Next == MainStep \/ InputStep \/ CameraStep

Spec == Init /\ [][Next]_vars

-----------------------------------------------------------------------------
MainLabels == {"idle", "publishOn", "publishOff", "publishAxis", "dropTravel",
               "dropStick", "cas"}
InputLabels == {"idle", "gesture", "axis", "use", "store", "deflect",
                "clearStick", "reset"}
CameraLabels == {"out", "reset", "locked", "drainMouse", "integrate"}
Travel == -TravelMax .. TravelMax

SwitchesOK == /\ rpg \in BOOLEAN /\ monitorActive \in BOOLEAN
              /\ gestureActive \in BOOLEAN /\ overtaken \in BOOLEAN
              /\ wheelIsPointer \in BOOLEAN
              /\ inside \in BOOLEAN /\ integrated \in BOOLEAN
              /\ timed \in BOOLEAN /\ initialized \in BOOLEAN
ThreadsOK == /\ axisLock \in Axes /\ axisPublished \in Axes
             /\ mainPc \in MainLabels /\ inputPc \in InputLabels
             /\ cameraPc \in CameraLabels
             /\ event \in Events \cup {NoEvent}
AmountsOK == /\ travel \in Travel /\ mouse \in Travel
             /\ stick \in Samples \cup {0}
             /\ drag \in DragSamples \cup {0} /\ dragSeen \in Travel
             /\ total \in Int /\ taken \in Int /\ pitch \in Int /\ turns \in Nat

(* Every variable holds a value of its kind, and no accumulator leaves the *)
(* finite range.                                                           *)
TypeOK == SwitchesOK /\ ThreadsOK /\ AmountsOK

(* The mouse's accumulator keeps what TravelBank promises although the     *)
(* getter's exchange lands anywhere in MouseMiddleDragged's loop.          *)
MouseBank == INSTANCE TravelBank WITH bank <- mouse, Amounts <- DragSamples
MouseIsBank == MouseBank!Spec

(* "The vertical feeder still uses load+store because it has only ever had *)
(* one writer": that is enough only if gPitchTravel keeps the same promise *)
(* against the getter's exchange and RawTrackpadEndGesture's store.        *)
TrackpadBank == INSTANCE TravelBank WITH bank <- travel, Amounts <- Samples
TrackpadIsBank == TrackpadBank!Spec

(* However often the game asks for the pitch in one update, and whichever  *)
(* source answers, the pitch is moved at most once, and never outside one. *)
OneTurnPerUpdate == turns <= 1 /\ (~inside => turns = 0)

(* No deflection is held across the time outside RPG mode: once the mode   *)
(* change has been worked off, the stick reads zero until RPG is back, so  *)
(* nothing stored in the last RPG session turns the camera in the next.    *)
SilentOutsideRpg == ~rpg /\ InputIdle => stick = 0

(* "The camera stops the instant the fingers lift": with the trackpad      *)
(* identified and no other device in use, no travel and no deflection are  *)
(* left once the end of the gesture is published and no event is being     *)
(* handled - otherwise the getter integrates the deflection every frame.   *)
PitchStopsOnLift ==
  /\ Devices = {"pointer"} /\ monitorActive /\ wheelIsPointer
  /\ ~gestureActive /\ MainAt("idle") /\ InputIdle
  => travel = 0 /\ stick = 0

(* It holds but for one cause: an event that had passed the gesture check  *)
(* when the discard came by is stored after it.  Neither a lost exchange   *)
(* with the getter, nor a mode change, nor the order of PublishRawGesture's *)
(* two stores leaves anything behind.                                      *)
PitchStopsUnlessOvertaken == ~overtaken => PitchStopsOnLift
=============================================================================
