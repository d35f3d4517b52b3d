----------------------------- MODULE ModeToggle -----------------------------
(***************************************************************************)
(* One button, two meanings.  A short click of L3 toggles RPG and          *)
(* point-and-click mode; L3 held with the right stick zooms, and then its  *)
(* release must not toggle.  The mod tells them apart by deferring: the    *)
(* press (0x140) is swallowed and remembered in gDeferredToggle, a zoomed  *)
(* stick sample marks it, the low-level release (0xc0) is filtered out of  *)
(* the game's batch when marked, and a mode change that does come through  *)
(* (0xac) is followed by the mod's own tracked mode.                       *)
(*                                                                         *)
(* The game's side is what src/ relies on: the pad's L3 field, the stick   *)
(* callback that samples it, and the events in the order they are raised.  *)
(***************************************************************************)
EXTENDS Naturals, Sequences

CONSTANTS
  Disturbances, \* what may happen besides the orderly course of a click
  QueueMax      \* events raised and not yet handled

ASSUME ToggleConstants ==
  /\ Disturbances \subseteq {"unsampled", "late", "unplugged", "oversize"}
  /\ QueueMax \in Nat \ {0}

VARIABLES
  held,       \* the pad's L3 field, IsL3Pressed
  fresh,      \* the last OnStickChanged is at most 0.25 s old
  l3Sampled,  \* gMfiL3Pressed
  modifier,   \* gPointerZoomModifierHeld
  pending,    \* gDeferredToggle.pending
  used,       \* gDeferredToggle.usedForZoom
  tracked,    \* gRpgCameraModeActive
  gameMode,   \* the game's own mode, TRUE for RPG
  queue,      \* events raised by the game, in order
  zoomed,     \* history: this hold of L3 has zoomed the camera
  disturbed   \* history: the disturbances so far

pad == <<held, fresh, l3Sampled, modifier>>
deferred == <<pending, used>>
modes == <<tracked, gameMode>>
vars == <<pad, deferred, modes, queue, zoomed, disturbed>>

Raise(e) == Len(queue) < QueueMax /\ queue' = Append(queue, e)
Raised(e) == \E i \in DOMAIN queue : queue[i] = e
PressOnItsWay == Raised("press") \/ Raised("repeat")

-----------------------------------------------------------------------------
(* The controller and the pointer, as the game reports them.               *)
PressL3 ==
  /\ ~held /\ fresh
  /\ held' = TRUE
  /\ Raise("press")
  /\ UNCHANGED <<fresh, l3Sampled, modifier, deferred, modes, zoomed, disturbed>>

(* Some controller stacks repeat the press while the button is held. *)
RepeatL3 ==
  /\ held
  /\ Raise("repeat")
  /\ UNCHANGED <<pad, deferred, modes, zoomed, disturbed>>

ReleaseL3 ==
  /\ held /\ ~PressOnItsWay
  /\ held' = FALSE
  /\ Raise("release")
  /\ UNCHANGED <<fresh, l3Sampled, modifier, deferred, modes, zoomed, disturbed>>

(* What can come between: a press no stick sample went before, a release   *)
(* while the press is still on its way, a pad that goes away and never     *)
(* reports one.                                                            *)
Disturb(d) == d \in Disturbances /\ disturbed' = disturbed \cup {d}

PressUnsampled ==
  /\ Disturb("unsampled") /\ ~held /\ ~fresh
  /\ held' = TRUE
  /\ Raise("press")
  /\ UNCHANGED <<fresh, l3Sampled, modifier, deferred, modes, zoomed>>

ReleaseEarly ==
  /\ Disturb("late") /\ held /\ PressOnItsWay
  /\ held' = FALSE
  /\ Raise("release")
  /\ UNCHANGED <<fresh, l3Sampled, modifier, deferred, modes, zoomed>>

Unplugged ==
  /\ Disturb("unplugged") /\ held
  /\ held' = FALSE
  /\ UNCHANGED <<fresh, l3Sampled, modifier, deferred, modes, queue, zoomed>>

(* OnStickChangedHook *)
StickSampled ==
  /\ fresh' = TRUE
  /\ l3Sampled' = held
  /\ UNCHANGED <<held, modifier, deferred, modes, queue, zoomed, disturbed>>

SampleAges ==
  /\ fresh /\ ~PressOnItsWay
  /\ fresh' = FALSE
  /\ UNCHANGED <<held, l3Sampled, modifier, deferred, modes, queue, zoomed, disturbed>>

(* A vertical action past the deadzone, 104 or 105. *)
StickMoved ==
  /\ Raise("vertical")
  /\ UNCHANGED <<pad, deferred, modes, zoomed, disturbed>>

(* InputEventHook for the configured PointerZoomModifierEvent: the event   *)
(* itself is passed on, only its state is kept.                            *)
ModifierEvent ==
  /\ modifier' = ~modifier
  /\ UNCHANGED <<held, fresh, l3Sampled, deferred, modes, queue, zoomed, disturbed>>

-----------------------------------------------------------------------------
(* The hooks, each handling the event at the head of the queue.            *)
Handle(e) == queue # <<>> /\ Head(queue) = e

(* Variant: a repeated press starts over. *)
CaptureAgain ==
  /\ Handle("press") \/ Handle("repeat")
  /\ queue' = Tail(queue)
  /\ zoomed' = (zoomed /\ Handle("repeat"))
  /\ IF fresh /\ held
     THEN pending' = TRUE /\ used' = FALSE
     ELSE UNCHANGED deferred
  /\ UNCHANGED <<pad, modes, disturbed>>

(* InputEventHook, 0x140. *)
CaptureChord ==
  /\ Handle("press") \/ Handle("repeat")
  /\ queue' = Tail(queue)
  /\ zoomed' = (zoomed /\ Handle("repeat"))
  /\ IF fresh /\ held /\ ~pending
     THEN pending' = TRUE /\ used' = FALSE
     ELSE UNCHANGED deferred
  /\ UNCHANGED <<pad, modes, disturbed>>

(* CameraInputEventHook and MarkDeferredToggleUsedForZoom. Outside RPG     *)
(* mode the action goes to the game before a chord is looked for.          *)
ZoomChord == tracked /\ (l3Sampled \/ modifier)

Vertical ==
  /\ Handle("vertical")
  /\ queue' = Tail(queue)
  /\ IF ZoomChord
     THEN used' = (used \/ pending) /\ zoomed' = TRUE
     ELSE UNCHANGED <<used, zoomed>>
  /\ UNCHANGED <<pad, pending, modes, disturbed>>

(* FireInputEventsHook: the release of a marked press is taken out of the  *)
(* batch; any other reaches the game, which changes mode and reports it    *)
(* before it raises anything else.  A batch beyond                         *)
(* kMaximumFilteredFireEvents is passed on without being looked into.      *)
Suppressed == pending /\ used

(* Variants: the release is taken whenever a press is pending; only the    *)
(* mark is forgotten; only the press is forgotten.                         *)
FilterAnyPending ==
  /\ Handle("release") /\ pending
  /\ queue' = Tail(queue)
  /\ pending' = FALSE /\ used' = FALSE
  /\ UNCHANGED <<pad, modes, zoomed, disturbed>>
ForgetMark ==
  /\ Handle("release") /\ Suppressed
  /\ queue' = Tail(queue)
  /\ used' = FALSE
  /\ UNCHANGED <<pad, pending, modes, zoomed, disturbed>>
ForgetPress ==
  /\ Handle("release") /\ Suppressed
  /\ queue' = Tail(queue)
  /\ pending' = FALSE
  /\ UNCHANGED <<pad, used, modes, zoomed, disturbed>>

FilterRelease ==
  /\ Handle("release") /\ Suppressed
  /\ queue' = Tail(queue)
  /\ pending' = FALSE /\ used' = FALSE
  /\ UNCHANGED <<pad, modes, zoomed, disturbed>>

GameToggles ==
  /\ gameMode' = ~gameMode
  /\ queue' = <<"changed">> \o Tail(queue)
  /\ UNCHANGED <<pad, deferred, tracked, zoomed>>

PassRelease ==
  /\ Handle("release") /\ ~Suppressed
  /\ GameToggles
  /\ UNCHANGED disturbed

PassOversize ==
  /\ Handle("release") /\ Suppressed /\ Disturb("oversize")
  /\ GameToggles

(* InputEventHook, 0xac: passed on without a pending press, swallowed      *)
(* after a zoom, and otherwise followed by ToggleTrackedCameraMode.        *)
(* Variant: the press is forgotten and the tracked mode left alone. *)
LeaveTracked ==
  /\ Handle("changed")
  /\ queue' = Tail(queue)
  /\ pending' = FALSE /\ used' = FALSE
  /\ UNCHANGED <<pad, modes, zoomed, disturbed>>

ModeChanged ==
  /\ Handle("changed")
  /\ queue' = Tail(queue)
  /\ pending' = FALSE /\ used' = FALSE
  /\ tracked' = IF pending /\ ~used THEN ~tracked ELSE tracked
  /\ UNCHANGED <<pad, gameMode, zoomed, disturbed>>

-----------------------------------------------------------------------------
Init ==
  /\ held = FALSE /\ fresh = FALSE /\ l3Sampled = FALSE /\ modifier = FALSE
  /\ pending = FALSE /\ used = FALSE
  /\ tracked = TRUE /\ gameMode = TRUE
  /\ queue = <<>> /\ zoomed = FALSE /\ disturbed = {}

Controller ==
  \/ PressL3 \/ RepeatL3 \/ ReleaseL3
  \/ PressUnsampled \/ ReleaseEarly \/ Unplugged
  \/ StickSampled \/ SampleAges \/ StickMoved \/ ModifierEvent

Hooks ==
  \/ CaptureChord \/ Vertical
  \/ FilterRelease \/ PassRelease \/ PassOversize \/ ModeChanged

Next == Controller \/ Hooks

Spec == Init /\ [][Next]_vars

-----------------------------------------------------------------------------
EventNames == {"press", "repeat", "release", "vertical", "changed"}

(* Every variable holds a value of its kind, and usedForZoom says nothing  *)
(* but about a press that is pending.                                      *)
TypeOK ==
  /\ held \in BOOLEAN /\ fresh \in BOOLEAN /\ l3Sampled \in BOOLEAN
  /\ modifier \in BOOLEAN /\ pending \in BOOLEAN
  /\ used \in BOOLEAN /\ (used => pending)
  /\ tracked \in BOOLEAN /\ gameMode \in BOOLEAN
  /\ zoomed \in BOOLEAN /\ disturbed \subseteq Disturbances
  /\ queue \in Seq(EventNames)

(* Which disturbance costs which promise.  What decides about a mode       *)
(* change survives a pad that goes away in the middle of a hold; what      *)
(* decides about a click survives everything else.                         *)
Sampled == disturbed \subseteq {"unplugged"}
Plugged == "unplugged" \notin disturbed

(* "L3 + right stick zoom that does not trigger a mode switch when you     *)
(* release L3": the game's mode does not change at the end of a hold that  *)
(* zoomed the camera.                                                      *)
ZoomNeverToggles == [][gameMode' # gameMode /\ zoomed => ~Sampled']_vars

(* "A short L3 click still toggles": no release is taken from the game     *)
(* unless the hold it ends zoomed the camera - a mark never outlives its   *)
(* own hold.                                                               *)
ClickStillToggles ==
  [][Handle("release") /\ queue' = Tail(queue) => zoomed \/ ~Plugged]_vars

(* The mod's tracked mode is the game's, except while the report of a      *)
(* change is on its way.                                                   *)
TrackedFollowsGame == Sampled => (tracked = gameMode <=> ~Raised("changed"))

(* A deferred press belongs to a button that is still down, or whose       *)
(* release or mode change is still on its way.                             *)
DeferredIsLive ==
  Plugged /\ pending => held \/ Raised("release") \/ Raised("changed")

(* "If it arrives, BG3 really changed mode and our tracked state must      *)
(* follow it": handling 0xac for a pending press leaves the tracked mode   *)
(* what the game's is, also when the press was used for a zoom.            *)
ChangeIsFollowed ==
  [][Handle("changed") /\ queue' = Tail(queue) /\ pending /\ tracked # gameMode
       => tracked' = gameMode']_vars
=============================================================================
