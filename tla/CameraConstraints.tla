-------------------------- MODULE CameraConstraints --------------------------
(***************************************************************************)
(* How far the camera may be from the character.  At the end of every      *)
(* update in RPG mode the mod shortens the arm, the game's current zoom,   *)
(* twice: to stay in front of whatever its sweep towards the camera hits,  *)
(* and to end above the floor.  The floor limit is found by bisection and  *)
(* remembered: it tightens at once and is given up slowly, after           *)
(* ClearFrames clear updates, so that stairs do not make the zoom jump.    *)
(* The memory, gFloorConstraint, is cleared from the input thread when the *)
(* camera mode changes, word by word and without a lock.                   *)
(*                                                                         *)
(* Distances are integers.  0 stands for an arm that is not positive.      *)
(***************************************************************************)
EXTENDS Integers

CONSTANTS
  Cameras,      \* the game's camera objects
  ArmMax,       \* bound: the longest arm the game may hold
  SaneMax,      \* kMaximumSaneZoom
  Shortest,     \* kMinimumCollisionZoom
  Margin,       \* collisionSafetyMargin
  FallbackStep, \* kCollisionFallbackStep
  Probes,       \* kFloorSearchProbes
  Tolerance,    \* kFloorSearchTolerance
  Resolved,     \* the interval that k probes narrow down to the tolerance
  ClearFrames,  \* kFloorClearFramesBeforeRelease
  Releases,     \* how far a limit may be released in one update
  Obstacles,    \* distances of the first obstacle on the arm; ArmMax + 1: none
  Floors,       \* sets of arm lengths that end above the floor
  Protections,  \* what ObstacleCollision and FloorProtection may switch on
  Readings,     \* which queries of the game an update may find in order
  NoCamera

Queries == {"obstacles", "distance", "floor"}

ASSUME ConstraintConstants ==
  /\ ArmMax \in Nat /\ SaneMax \in Nat /\ Shortest \in Nat \ {0}
  /\ Shortest <= SaneMax /\ SaneMax <= ArmMax
  /\ Margin \in Nat /\ FallbackStep \in Nat
  /\ Probes \in Nat /\ Tolerance \in Nat \ {0} /\ ClearFrames \in Nat
  /\ Releases \subseteq Nat
  /\ Obstacles \subseteq 0 .. ArmMax + 1
  /\ Floors \subseteq SUBSET (Shortest .. ArmMax)
  /\ Readings \subseteq SUBSET Queries
  /\ NoCamera \notin Cameras
  /\ Resolved \in [0 .. Probes -> Nat]
  /\ Resolved[0] = Tolerance
  /\ \A k \in 1 .. Probes : Resolved[k] = 2 * Resolved[k - 1]

VARIABLES
  current,   \* the zoom fields of the camera, the arm as it is
  desired,   \* the zoom the player asked for
  obstacle,  \* where a sweep along the arm would hit
  clear,     \* arm lengths that end above the floor
  protections, \* which of the two limits the configuration asks for
  readable,  \* what this update can query of the game
  camera,    \* the camera object of this update
  release,   \* gGameDeltaSeconds * kFloorReleaseSpeedPerSecond
  rpg,       \* gRpgCameraModeActive
  pc,        \* where the camera thread is
  applied,   \* gAfterZoomAppliedThisUpdate
  clamped,   \* gCollisionClampActive
  floor,     \* gFloorConstraint
  resetting, \* words of it the input thread has yet to clear
  accepted,  \* ApplyFloorClearanceLimit: accepted, then finalZoom
  rejected,  \*   rejected
  probes,    \*   steps of the bisection
  kept,      \*   limitedZoom as the thread has just computed it
  steady,    \* history: no change of scene or request since the last sweep
  unblocked, \* history: updates in a row that probed clear, up to the bound
  before,    \* history: the limit as the update found it
  raced      \* history: the limit was cleared under an update's hands

world == <<desired, obstacle, clear, protections>>
frame == <<readable, camera, release, before>>
search == <<accepted, rejected, probes>>
vars == <<current, world, frame, rpg, pc, applied, clamped, floor, resetting,
          search, kept, steady, unblocked, raced>>

Lesser(a, b) == IF a < b THEN a ELSE b
Greater(a, b) == IF a > b THEN a ELSE b
Clamp(a, low, high) == IF a < low THEN low ELSE Lesser(a, high)

NoLimit == [camera |-> NoCamera, active |-> FALSE, limited |-> 0, clear |-> 0]
Sane(zoom) == 0 < zoom /\ zoom <= SaneMax

-----------------------------------------------------------------------------
(* The game: the player zooms, the scene and the camera move, the update   *)
(* lets the arm glide towards the desired one.                             *)
Change ==
  /\ pc = "idle"
  /\ steady' = FALSE
  /\ UNCHANGED <<current, protections, frame, rpg, pc, applied, clamped, floor, resetting,
                 search, kept, unblocked, raced>>

PlayerZooms ==
  /\ desired' \in Shortest .. ArmMax
  /\ UNCHANGED <<obstacle, clear>>
  /\ Change

SceneMoves ==
  /\ obstacle' \in Obstacles /\ clear' \in Floors
  /\ UNCHANGED desired
  /\ Change

Gliding == Lesser(current, desired) .. Greater(current, desired)

BeginUpdate ==
  /\ pc = "idle"
  /\ pc' = "update" /\ applied' = FALSE
  /\ current' \in Gliding
  /\ camera' \in Cameras /\ release' \in Releases
  /\ readable' \in Readings
  /\ before' = floor.limited
  /\ raced' = (raced /\ current' = 0)
  /\ UNCHANGED <<world, rpg, clamped, floor, resetting, search, kept, steady,
                 unblocked>>

EndUpdate ==
  /\ pc = "update"
  /\ pc' = "idle"
  /\ readable' = {} /\ camera' = NoCamera /\ release' = 0 /\ before' = 0
  /\ accepted' = 0 /\ rejected' = 0 /\ probes' = 0 /\ kept' = 0
  /\ UNCHANGED <<current, world, rpg, applied, clamped, floor, resetting, steady,
                 unblocked, raced>>

-----------------------------------------------------------------------------
(* The input thread: ToggleTrackedCameraMode.                              *)
Toggle ==
  /\ resetting = {}
  /\ rpg' = ~rpg /\ clamped' = FALSE /\ steady' = FALSE
  /\ resetting' = {"camera", "limit", "frames"}
  /\ UNCHANGED <<current, world, frame, pc, applied, floor, search, kept,
                 unblocked, raced>>

(* ResetFloorConstraint, not atomic: active and limitedZoom share a word.  *)
ClearWords ==
  /\ \E words \in (SUBSET resetting) \ {{}} :
       /\ floor' =
            [camera  |-> IF "camera" \in words THEN NoCamera ELSE floor.camera,
             active  |-> floor.active /\ "limit" \notin words,
             limited |-> IF "limit" \in words THEN 0 ELSE floor.limited,
             clear   |-> IF "frames" \in words THEN 0 ELSE floor.clear]
       /\ resetting' = resetting \ words
       /\ raced' = (raced \/ (pc = "write" /\ "limit" \in words))
  /\ UNCHANGED <<current, world, frame, rpg, pc, applied, clamped, search, kept,
                 steady, unblocked>>

-----------------------------------------------------------------------------
(* Variant: every pass constrains the arm again. *)
AfterEveryZoom ==
  /\ pc = "update" /\ rpg
  /\ applied' = TRUE /\ pc' = "collide"
  /\ UNCHANGED <<current, world, frame, rpg, clamped, floor, resetting, search,
                 kept, steady, unblocked, raced>>

(* BG3AfterZoomApply.  The game may pass the site again in the same        *)
(* update; the mark lets only the first pass through.                      *)
AfterZoom ==
  /\ pc = "update" /\ rpg /\ ~applied
  /\ applied' = TRUE /\ pc' = "collide"
  /\ UNCHANGED <<current, world, frame, rpg, clamped, floor, resetting, search,
                 kept, steady, unblocked, raced>>

Usable(protection) ==
  /\ protection \in protections /\ protection \in readable
  /\ Sane(current) /\ Sane(desired)

(* ApplyCameraCollisionLimit *)

(* Variant: only as far as the camera is now. *)
SweepCurrent == current

Sweep == Greater(current, desired)

Hit == obstacle <= Sweep

SafeZoom ==
  Clamp(IF "distance" \in readable THEN obstacle - Margin
                                   ELSE current - FallbackStep,
        Shortest, Sweep)

Collide ==
  /\ pc = "collide" /\ pc' = "floor"
  /\ \/ /\ ~Usable("obstacles")
        /\ UNCHANGED <<current, clamped, steady>>
     \/ /\ Usable("obstacles")
        /\ steady' = TRUE /\ clamped' = Hit
        /\ current' = IF Hit THEN Lesser(current, SafeZoom) ELSE current
  /\ UNCHANGED <<world, frame, rpg, applied, floor, resetting, search, kept,
                 unblocked, raced>>

-----------------------------------------------------------------------------
(* ApplyFloorClearanceLimit: measure, adjust the memory, write.            *)
Remembered ==
  IF floor.camera = camera THEN floor ELSE [NoLimit EXCEPT !.camera = camera]

FloorOff ==
  /\ pc = "floor" /\ "floor" \notin protections
  /\ pc' = "update"
  /\ UNCHANGED <<current, world, frame, rpg, applied, clamped, floor, resetting,
                 search, kept, steady, unblocked, raced>>

Probed == Clamp(current, Shortest, SaneMax)

Measure ==
  /\ pc = "floor" /\ "floor" \in protections
  /\ floor' = Remembered
  /\ \/ /\ ~Usable("floor")
        /\ pc' = "update"
        /\ UNCHANGED <<search, unblocked>>
     \/ /\ Usable("floor") /\ Probed \in clear
        /\ pc' = "unblocked"
        /\ unblocked' = Lesser(unblocked + 1, ClearFrames + 1)
        /\ UNCHANGED search
     \/ /\ Usable("floor") /\ Probed \notin clear
        /\ unblocked' = 0
        /\ accepted' = Shortest /\ rejected' = Probed /\ probes' = 0
        /\ pc' = IF Shortest \in clear THEN "search" ELSE "blocked"
  /\ UNCHANGED <<current, world, frame, rpg, applied, clamped, resetting, kept,
                 steady, raced>>

(* Variant: until the interval is empty. *)
NarrowingOn == rejected > accepted

Narrowing == probes < Probes /\ rejected - accepted > Tolerance
Midpoint == accepted + (rejected - accepted) \div 2

(* Variant: the interval only shrinks from above. *)
BisectDown ==
  /\ pc = "search" /\ Narrowing
  /\ probes' = probes + 1
  /\ rejected' = Midpoint
  /\ UNCHANGED <<current, world, frame, rpg, pc, applied, clamped, floor,
                 resetting, accepted, kept, steady, unblocked, raced>>

Bisect ==
  /\ pc = "search" /\ Narrowing
  /\ probes' = probes + 1
  /\ \/ Midpoint \in clear /\ accepted' = Midpoint /\ UNCHANGED rejected
     \/ Midpoint \notin clear /\ rejected' = Midpoint /\ UNCHANGED accepted
  /\ UNCHANGED <<current, world, frame, rpg, pc, applied, clamped, floor,
                 resetting, kept, steady, unblocked, raced>>

Found ==
  /\ pc = "search" /\ ~Narrowing
  /\ pc' = "blocked"
  /\ UNCHANGED <<current, world, frame, rpg, applied, clamped, floor, resetting,
                 search, kept, steady, unblocked, raced>>

MeasuredLimit == Lesser(current, accepted)

(* Variant: a limit is released whatever is measured. *)
Untightened ==
  IF floor.active THEN floor.limited + release ELSE MeasuredLimit

(* Moving into geometry reacts at once, a longer measurement is released   *)
(* towards over time.                                                      *)
Tightened ==
  IF floor.active /\ floor.limited <= MeasuredLimit
  THEN Lesser(MeasuredLimit, floor.limited + release)
  ELSE MeasuredLimit

(* Variant: clear frames are counted, but not in a row. *)
LimitAndCount ==
  /\ pc = "blocked" /\ pc' = "write"
  /\ floor' = [floor EXCEPT !.active = TRUE, !.limited = Tightened]
  /\ kept' = Tightened
  /\ UNCHANGED <<current, world, frame, rpg, applied, clamped, resetting, search,
                 steady, unblocked, raced>>

Limit ==
  /\ pc = "blocked" /\ pc' = "write"
  /\ floor' = [floor EXCEPT !.active = TRUE, !.limited = Tightened, !.clear = 0]
  /\ kept' = Tightened
  /\ UNCHANGED <<current, world, frame, rpg, applied, clamped, resetting, search,
                 steady, unblocked, raced>>

(* The count matters only up to its bound. *)
Counted == Lesser(floor.clear + 1, ClearFrames + 1)
Loosened == Lesser(desired, floor.limited + release)

Hold ==
  /\ pc = "unblocked"
  /\ \/ /\ ~floor.active
        /\ pc' = "update"
        /\ UNCHANGED <<floor, kept>>
     \/ /\ floor.active /\ Counted <= ClearFrames
        /\ floor' = [floor EXCEPT !.clear = Counted]
        /\ kept' = floor.limited /\ pc' = "write"
     \/ /\ floor.active /\ Counted > ClearFrames /\ Loosened < desired
        /\ floor' = [floor EXCEPT !.clear = Counted, !.limited = Loosened]
        /\ kept' = Loosened /\ pc' = "write"
     \/ /\ floor.active /\ Counted > ClearFrames /\ Loosened >= desired
        /\ floor' = NoLimit
        /\ pc' = "update"
        /\ UNCHANGED kept
  /\ UNCHANGED <<current, world, frame, rpg, applied, clamped, resetting, search,
                 steady, unblocked, raced>>

(* ResetFloorConstraint comes between the look at `active` and the limit:  *)
(* it is stored as computed from the old one, or from nothing.             *)
ClearedMeanwhile(limit, frames) ==
  /\ "limit" \in resetting /\ resetting' = resetting \ {"limit"}
  /\ floor' = [floor EXCEPT !.active = FALSE, !.limited = limit, !.clear = frames]
  /\ kept' = limit /\ raced' = TRUE
  /\ pc' = "write"
  /\ UNCHANGED <<current, world, frame, rpg, applied, clamped, search, steady,
                 unblocked>>

LimitCleared ==
  /\ pc = "blocked"
  /\ \/ ClearedMeanwhile(Tightened, 0)
     \/ floor.active /\ ClearedMeanwhile(Lesser(MeasuredLimit, release), 0)

HoldCleared ==
  /\ pc = "unblocked" /\ floor.active /\ Counted > ClearFrames
  /\ \E limit \in {Loosened, Lesser(desired, release)} :
       limit < desired /\ ClearedMeanwhile(limit, Counted)

(* The limit is read again from the memory, or still at hand.              *)
Write ==
  /\ pc = "write" /\ pc' = "update"
  /\ \E limit \in {kept, floor.limited} : current' = Lesser(current, limit)
  /\ UNCHANGED <<world, frame, rpg, applied, clamped, floor, resetting, search,
                 kept, steady, unblocked, raced>>

-----------------------------------------------------------------------------
Init ==
  /\ current \in Shortest .. ArmMax /\ desired = current
  /\ obstacle \in Obstacles /\ clear \in Floors /\ protections \in Protections
  /\ readable = {} /\ camera = NoCamera /\ release = 0 /\ before = 0
  /\ rpg \in BOOLEAN
  /\ pc = "idle" /\ applied = FALSE /\ clamped = FALSE
  /\ floor = NoLimit /\ resetting = {}
  /\ accepted = 0 /\ rejected = 0 /\ probes = 0 /\ kept = 0
  /\ steady = FALSE /\ unblocked = 0 /\ raced = FALSE

Constrain ==
  \/ AfterZoom \/ Collide \/ FloorOff \/ Measure \/ Bisect \/ Found
  \/ Limit \/ Hold \/ LimitCleared \/ HoldCleared \/ Write

Next ==
  \/ PlayerZooms \/ SceneMoves \/ BeginUpdate \/ EndUpdate
  \/ Toggle \/ ClearWords
  \/ Constrain

Spec == Init /\ [][Next]_vars

-----------------------------------------------------------------------------
Arms == 0 .. ArmMax

(* Types: arms and limits stay within the bounds, the memory's camera is   *)
(* one of the game's.  gFloorConstraint, ApplyFloorClearanceLimit.         *)
TypeOK ==
  /\ current \in Arms /\ desired \in Shortest .. ArmMax
  /\ obstacle \in Obstacles /\ clear \in Floors /\ protections \in Protections
  /\ readable \subseteq Queries /\ camera \in Cameras \cup {NoCamera}
  /\ release \in Releases \cup {0} /\ before \in Arms
  /\ rpg \in BOOLEAN /\ applied \in BOOLEAN /\ clamped \in BOOLEAN
  /\ steady \in BOOLEAN /\ raced \in BOOLEAN
  /\ pc \in {"idle", "update", "collide", "floor", "search", "blocked",
             "unblocked", "write"}
  /\ floor \in [camera : Cameras \cup {NoCamera}, active : BOOLEAN,
                limited : Arms, clear : 0 .. ClearFrames + 1]
  /\ resetting \subseteq {"camera", "limit", "frames"}
  /\ accepted \in Arms /\ rejected \in Arms /\ probes \in 0 .. Probes
  /\ kept \in Arms
  /\ unblocked \in 0 .. ClearFrames + 1

Constrained == pc = "update" /\ applied /\ Sane(current) /\ Sane(desired)
Asked(queries) == queries \subseteq readable
DownClosed(arms) == \A a \in arms : Shortest .. a \subseteq arms

BeforeWall ==
  ("obstacles" \in protections /\ Asked({"obstacles", "distance"})) =>
    /\ current <= Greater(Shortest, obstacle)
    /\ desired >= obstacle => current <= Greater(Shortest, obstacle - Margin)

AboveFloor ==
  ("floor" \in protections /\ Asked({"floor"}) /\ DownClosed(clear)) =>
    current \in clear \/ current <= Shortest

(* When an update is through with the arm, the camera is not behind a      *)
(* wall and keeps the safety margin from one that stands in the way of     *)
(* the requested arm; and it is above the floor, wherever the floor is     *)
(* such that a shorter arm is no worse: unless not even the shortest arm   *)
(* would do.  Whatever limit is remembered, and whoever clears it.         *)
(* BG3AfterZoomApply: "moving into geometry must react immediately".       *)
ArmIsSafe == Constrained => BeforeWall /\ AboveFloor

(* The arm is never closed to nothing, except by an update whose limit a   *)
(* mode change cleared before it was written.                              *)
(* "Keep a small non-zero arm to avoid a degenerate camera transform."     *)
ArmStaysOpen == current = 0 => raced

(* What does not hold.  ArmNeverCloses: ResetFloorConstraint runs on the   *)
(* input thread, without a lock.  MarginIsKept ("clearance kept from a     *)
(* wall"): the sweep ends with the arm, a wall just behind it is not seen. *)
(* LongArmsAreSafe: nothing is asked for an arm beyond kMaximumSaneZoom,   *)
(* which MaximumZoomDistance admits.                                       *)
ArmNeverCloses == current > 0

MarginIsKept ==
  Constrained /\ "obstacles" \in protections /\ Asked({"obstacles", "distance"})
    => current <= Greater(Shortest, obstacle - Margin)

LongArmsAreSafe ==
  pc = "update" /\ applied /\ "obstacles" \in protections
    /\ Asked({"obstacles", "distance"})
  => current <= Greater(Shortest, obstacle)

(* The collision limit does not oscillate: while neither the scene nor the *)
(* request changes, a sweep that found nothing is not followed by one that *)
(* hits, although the game lengthens the arm in between.                   *)
SweepSettles == [][pc = "collide" /\ steady /\ ~clamped => ~clamped']_vars

EarnedBy(limited) ==
  /\ pc = "blocked" \/ unblocked > ClearFrames
  /\ limited <= before + release

(* A remembered floor limit is lengthened by at most one update's release, *)
(* and that, or giving it up, takes a measurement in this update or more   *)
(* than ClearFrames clear updates in a row.                                *)
ReleaseIsEarned ==
  [][/\ floor.active /\ floor'.limited > floor.limited => EarnedBy(floor'.limited)
     /\ pc = "unblocked" /\ floor.active /\ ~floor'.active /\ resetting' = resetting
          => unblocked > ClearFrames]_vars

(* The bisection's budget suffices: over a floor that only blocks longer   *)
(* arms, and for arms up to what the probes resolve, the arm found is      *)
(* within the tolerance of the longest clear one.                          *)
(* "14 probes resolve a 20-unit arm to better than 0.002 world units."     *)
SearchResolves ==
  pc = "blocked" /\ accepted \in clear /\ DownClosed(clear)
    /\ Probed - Shortest <= Resolved[Probes]
  => \A a \in clear : a <= Probed => a - accepted < Tolerance
=============================================================================
