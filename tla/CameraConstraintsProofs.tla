------------------------ MODULE CameraConstraintsProofs ------------------------
(***************************************************************************)
(* The two limits, for every arm, scene, margin, number of probes and of   *)
(* clear frames, and every interleaving with the input thread.             *)
(***************************************************************************)
EXTENDS CameraConstraints, TLAPS

(* An arm that ends above the floor, or that cannot be shortened. *)
Above(arm) == arm \in clear \/ arm <= Shortest

Measured == {"search", "blocked", "unblocked", "write"}
Swept == {"floor"} \cup Measured

(* Only an update that could measure anything gets as far as the memory.   *)
MeasuredSane == pc \in Measured => Sane(current) /\ Sane(desired)

(* The interval of the bisection: clear below, blocked above. *)
Bracket ==
  pc \in {"search", "blocked"} =>
    /\ Shortest <= accepted /\ accepted <= rejected /\ rejected <= SaneMax
    /\ accepted \in clear \/ accepted = Shortest
    /\ accepted \in clear => accepted < rejected /\ rejected \notin clear
    /\ pc = "search" => accepted \in clear

(* Each probe halves it. *)
Halved ==
  pc \in {"search", "blocked"} /\ accepted \in clear
    /\ Probed - Shortest <= Resolved[Probes] =>
      /\ pc = "search" => rejected - accepted <= Resolved[Probes - probes]
      /\ pc = "blocked" => rejected - accepted <= Tolerance

(* A remembered limit is an arm, and what is about to be written is that   *)
(* limit, unless it was cleared under the update's hands.                  *)
LimitOpen ==
  /\ floor.active => floor.limited > 0
  /\ pc = "write" =>
       /\ floor.limited \in {kept, 0}
       /\ raced \/ (kept > 0 /\ floor.limited = kept)

WallInv ==
  (pc \in Swept \/ (pc = "update" /\ applied)) /\ Sane(current) /\ Sane(desired)
    => BeforeWall

FloorInv ==
  /\ Constrained => AboveFloor
  /\ DownClosed(clear) =>
       /\ pc = "unblocked" => Above(current)
       /\ pc = "write" => Above(Lesser(current, kept))

(* After a sweep that found nothing, the arm can only reach what is free.  *)
FreeInv == steady /\ ~clamped => current < obstacle /\ desired < obstacle

(* Up to its limit the thread finds what the update began with, and the    *)
(* frames it counts were clear ones.                                       *)
EarnInv ==
  /\ pc \in {"collide", "floor", "search", "blocked", "unblocked"}
       \/ (pc = "update" /\ ~applied) => floor.limited <= before
  /\ pc \in Swept \cup {"collide"} => applied
  /\ pc = "unblocked" => Counted <= unblocked
  /\ pc \notin {"unblocked", "search", "blocked"} => floor.clear <= unblocked

IInv ==
  /\ TypeOK /\ MeasuredSane /\ Bracket /\ Halved /\ LimitOpen /\ ArmStaysOpen
  /\ WallInv /\ FloorInv /\ FreeInv /\ EarnInv

-----------------------------------------------------------------------------
(* The lengths are integers within the bounds. *)
LEMMA Lengths ==
  ASSUME TypeOK
  PROVE  /\ ArmMax \in Int /\ SaneMax \in Int /\ Shortest \in Int /\ 0 < Shortest
         /\ Shortest <= SaneMax /\ SaneMax <= ArmMax
         /\ Margin \in Int /\ 0 <= Margin /\ FallbackStep \in Int /\ 0 <= FallbackStep
         /\ ClearFrames \in Int /\ 0 <= ClearFrames /\ Probes \in Int /\ 0 <= Probes
         /\ Tolerance \in Int /\ 0 < Tolerance
         /\ current \in Int /\ 0 <= current /\ current <= ArmMax
         /\ desired \in Int /\ Shortest <= desired /\ desired <= ArmMax
         /\ obstacle \in Int
         /\ release \in Int /\ 0 <= release
         /\ before \in Int /\ 0 <= before
         /\ floor.limited \in Int /\ 0 <= floor.limited /\ floor.limited <= ArmMax
         /\ floor.clear \in Int /\ 0 <= floor.clear /\ floor.clear <= ClearFrames + 1
         /\ floor.active \in BOOLEAN
         /\ accepted \in Int /\ rejected \in Int /\ probes \in Int /\ 0 <= probes
         /\ probes <= Probes
         /\ kept \in Int /\ 0 <= kept /\ kept <= ArmMax
         /\ unblocked \in Int /\ 0 <= unblocked /\ unblocked <= ClearFrames + 1
         /\ \A a \in clear : a \in Int /\ Shortest <= a /\ a <= ArmMax
  BY ConstraintConstants DEF TypeOK, Arms

(* The memory has its four parts. *)
LEMMA FloorParts ==
  ASSUME TypeOK
  PROVE  /\ floor = [camera |-> floor.camera, active |-> floor.active,
                     limited |-> floor.limited, clear |-> floor.clear]
         /\ floor.camera \in Cameras \cup {NoCamera}
  BY DEF TypeOK

(* Below an arm above a monotone floor, arms are above the floor. *)
LEMMA ShorterAbove ==
  ASSUME TypeOK, DownClosed(clear), NEW a \in Int, Above(a), NEW b \in Int, b <= a
  PROVE  Above(b)
  BY Lengths DEF Above, DownClosed

-----------------------------------------------------------------------------
(* A mode change and the clearing of the memory take nothing away from an  *)
(* update but the limit.                                                   *)
LEMMA ClearKeeps == ASSUME IInv, ClearWords PROVE IInv'
<1>1. /\ current' = current /\ UNCHANGED world /\ UNCHANGED frame /\ rpg' = rpg
      /\ pc' = pc /\ applied' = applied /\ clamped' = clamped /\ UNCHANGED search
      /\ kept' = kept /\ steady' = steady /\ unblocked' = unblocked
  BY DEF ClearWords
<1>2. PICK words \in (SUBSET resetting) \ {{}} :
        /\ floor' =
             [camera  |-> IF "camera" \in words THEN NoCamera ELSE floor.camera,
              active  |-> floor.active /\ "limit" \notin words,
              limited |-> IF "limit" \in words THEN 0 ELSE floor.limited,
              clear   |-> IF "frames" \in words THEN 0 ELSE floor.clear]
        /\ resetting' = resetting \ words
        /\ raced' = (raced \/ (pc = "write" /\ "limit" \in words))
  BY DEF ClearWords
<1>3. TypeOK
  BY DEF IInv
<1>4. TypeOK'
  <2>1. floor' \in [camera : Cameras \cup {NoCamera}, active : BOOLEAN,
                    limited : Arms, clear : 0 .. ClearFrames + 1]
    BY <1>2, <1>3, Lengths, FloorParts DEF Arms
  <2>2. resetting' \subseteq {"camera", "limit", "frames"} /\ raced' \in BOOLEAN
    BY <1>2, <1>3 DEF TypeOK
  <2> QED BY <1>1, <1>3, <2>1, <2>2 DEF TypeOK, world, frame, search, Arms
<1>5. MeasuredSane' /\ Bracket' /\ Halved'
  BY <1>1 DEF IInv, MeasuredSane, Bracket, Halved, Sane, Probed, world, search
<1>6. LimitOpen' /\ ArmStaysOpen'
  BY <1>1, <1>2, <1>3, Lengths DEF IInv, LimitOpen, ArmStaysOpen
<1>7. WallInv' /\ FloorInv' /\ FreeInv'
  BY <1>1 DEF IInv, WallInv, FloorInv, FreeInv, BeforeWall, Constrained, AboveFloor,
              Above, Asked, Sane, world, frame
<1>8. EarnInv'
  BY <1>1, <1>2, <1>3, Lengths DEF IInv, EarnInv, Counted, Lesser, Swept, Measured, frame
<1> QED BY <1>4, <1>5, <1>6, <1>7, <1>8 DEF IInv

(* The mode changes. *)
LEMMA ToggleKeeps == ASSUME IInv, Toggle PROVE IInv'
<1>1. /\ current' = current /\ UNCHANGED world /\ UNCHANGED frame
      /\ pc' = pc /\ applied' = applied /\ floor' = floor /\ UNCHANGED search
      /\ kept' = kept /\ unblocked' = unblocked /\ raced' = raced
      /\ rpg' = ~rpg /\ clamped' = FALSE /\ steady' = FALSE
      /\ resetting' = {"camera", "limit", "frames"}
  BY DEF Toggle
<1>2. TypeOK'
  BY <1>1 DEF IInv, TypeOK, world, frame, search, Arms
<1>3. MeasuredSane' /\ Bracket' /\ Halved' /\ LimitOpen' /\ ArmStaysOpen'
  BY <1>1 DEF IInv, MeasuredSane, Bracket, Halved, LimitOpen, ArmStaysOpen, Sane,
              Probed, world, search
<1>4. WallInv' /\ FloorInv' /\ FreeInv' /\ EarnInv'
  BY <1>1 DEF IInv, WallInv, FloorInv, FreeInv, EarnInv, BeforeWall, Constrained,
              AboveFloor, Above, Asked, Sane, Counted, world, frame
<1> QED BY <1>2, <1>3, <1>4 DEF IInv

(* The player and the scene move while the thread is elsewhere. *)
LEMMA ChangeKeeps == ASSUME IInv, PlayerZooms \/ SceneMoves PROVE IInv'
<1>1. /\ pc = "idle" /\ pc' = "idle" /\ steady' = FALSE
      /\ current' = current /\ protections' = protections /\ UNCHANGED frame
      /\ rpg' = rpg /\ applied' = applied /\ clamped' = clamped /\ floor' = floor
      /\ resetting' = resetting /\ UNCHANGED search /\ kept' = kept
      /\ unblocked' = unblocked /\ raced' = raced
  BY DEF PlayerZooms, SceneMoves, Change
<1>2. desired' \in Shortest .. ArmMax /\ obstacle' \in Obstacles /\ clear' \in Floors
  BY DEF PlayerZooms, SceneMoves, IInv, TypeOK
<1>3. TypeOK'
  BY <1>1, <1>2 DEF IInv, TypeOK, frame, search, Arms
<1>4. MeasuredSane' /\ Bracket' /\ Halved' /\ LimitOpen' /\ ArmStaysOpen'
  BY <1>1 DEF IInv, MeasuredSane, Measured, Bracket, Halved, LimitOpen, ArmStaysOpen
<1>5. WallInv' /\ FloorInv' /\ FreeInv' /\ EarnInv'
  BY <1>1 DEF IInv, WallInv, FloorInv, FreeInv, EarnInv, Constrained, Swept, Measured,
              Counted, frame
<1> QED BY <1>3, <1>4, <1>5 DEF IInv

(* The arm glides; the limit is as the update finds it. *)
LEMMA BeginKeeps == ASSUME IInv, BeginUpdate PROVE IInv'
<1>1. /\ pc = "idle" /\ pc' = "update" /\ applied' = FALSE /\ before' = floor.limited
      /\ current' \in Gliding /\ camera' \in Cameras /\ release' \in Releases
      /\ readable' \in Readings /\ raced' = (raced /\ current' = 0)
      /\ UNCHANGED world /\ rpg' = rpg /\ clamped' = clamped /\ floor' = floor
      /\ resetting' = resetting /\ UNCHANGED search /\ kept' = kept
      /\ steady' = steady /\ unblocked' = unblocked
  BY DEF BeginUpdate
<1>2. TypeOK
  BY DEF IInv
<1>3. /\ current' \in Int /\ 0 <= current' /\ current' <= ArmMax
      /\ current' = 0 => current = 0
      /\ current' <= current \/ current' <= desired
  BY <1>1, <1>2, Lengths DEF Gliding, Lesser, Greater
<1>4. TypeOK'
  <2>1. release' \in Releases \cup {0} /\ before' \in Arms /\ current' \in Arms
    BY <1>1, <1>2, <1>3, Lengths DEF Arms
  <2>2. readable' \subseteq Queries
    BY <1>1, ConstraintConstants
  <2>3. raced' \in BOOLEAN
    BY <1>1
  <2> QED BY <1>1, <1>2, <2>1, <2>2, <2>3 DEF TypeOK, world, search, Arms
<1>5. MeasuredSane' /\ Bracket' /\ Halved' /\ LimitOpen'
  BY <1>1 DEF IInv, MeasuredSane, Measured, Bracket, Halved, LimitOpen
<1>6. ArmStaysOpen'
  BY <1>1, <1>3 DEF IInv, ArmStaysOpen
<1>7. WallInv' /\ FloorInv'
  BY <1>1 DEF WallInv, FloorInv, Constrained, Swept, Measured
<1>8. FreeInv'
  BY <1>1, <1>2, <1>3, Lengths DEF IInv, FreeInv, world
<1>9. EarnInv'
  BY <1>1, <1>2, Lengths DEF IInv, EarnInv, Swept, Measured
<1> QED BY <1>4, <1>5, <1>6, <1>7, <1>8, <1>9 DEF IInv

(* The update ends. *)
LEMMA EndKeeps == ASSUME IInv, EndUpdate PROVE IInv'
<1>1. /\ pc = "update" /\ pc' = "idle" /\ current' = current /\ UNCHANGED world
      /\ readable' = {} /\ camera' = NoCamera /\ release' = 0 /\ before' = 0
      /\ accepted' = 0 /\ rejected' = 0 /\ probes' = 0 /\ kept' = 0
      /\ rpg' = rpg /\ applied' = applied /\ clamped' = clamped /\ floor' = floor
      /\ resetting' = resetting /\ steady' = steady /\ unblocked' = unblocked
      /\ raced' = raced
  BY DEF EndUpdate
<1>2. TypeOK'
  <2>1. 0 \in Arms /\ 0 \in 0 .. Probes
    BY ConstraintConstants DEF Arms
  <2> QED BY <1>1, <2>1 DEF IInv, TypeOK, world, Arms
<1>3. MeasuredSane' /\ Bracket' /\ Halved' /\ LimitOpen' /\ ArmStaysOpen'
  BY <1>1 DEF IInv, MeasuredSane, Measured, Bracket, Halved, LimitOpen, ArmStaysOpen
<1>4. WallInv' /\ FloorInv' /\ FreeInv' /\ EarnInv'
  BY <1>1 DEF IInv, WallInv, FloorInv, FreeInv, EarnInv, Constrained, Swept, Measured,
              Counted, world
<1> QED BY <1>2, <1>3, <1>4 DEF IInv

(* The site is passed for the first time. *)
LEMMA AfterZoomKeeps == ASSUME IInv, AfterZoom PROVE IInv'
<1>1. /\ pc = "update" /\ ~applied /\ applied' = TRUE /\ pc' = "collide"
      /\ current' = current /\ UNCHANGED world /\ UNCHANGED frame /\ rpg' = rpg
      /\ clamped' = clamped /\ floor' = floor /\ resetting' = resetting
      /\ UNCHANGED search /\ kept' = kept /\ steady' = steady
      /\ unblocked' = unblocked /\ raced' = raced
  BY DEF AfterZoom
<1>2. TypeOK'
  BY <1>1 DEF IInv, TypeOK, world, frame, search, Arms
<1>3. MeasuredSane' /\ Bracket' /\ Halved' /\ LimitOpen' /\ ArmStaysOpen'
  BY <1>1 DEF IInv, MeasuredSane, Measured, Bracket, Halved, LimitOpen, ArmStaysOpen
<1>4. WallInv' /\ FloorInv' /\ FreeInv' /\ EarnInv'
  BY <1>1 DEF IInv, WallInv, FloorInv, FreeInv, EarnInv, Constrained, Swept, Measured,
              Counted, world, frame
<1> QED BY <1>2, <1>3, <1>4 DEF IInv

(* What the sweep leaves of the arm. *)
LEMMA SweepShortens ==
  ASSUME TypeOK, Sane(current), Sane(desired)
  PROVE  /\ Sweep \in Int /\ current <= Sweep /\ desired <= Sweep
         /\ SafeZoom \in Int /\ Shortest <= SafeZoom /\ SafeZoom <= Sweep
         /\ "distance" \in readable => SafeZoom <= Greater(Shortest, obstacle - Margin)
  BY Lengths DEF Sweep, SafeZoom, Clamp, Lesser, Greater

(* The collision limit. *)
LEMMA CollideKeeps == ASSUME IInv, Collide PROVE IInv'
<1>1. /\ pc = "collide" /\ pc' = "floor" /\ UNCHANGED world /\ UNCHANGED frame
      /\ rpg' = rpg /\ applied' = applied /\ floor' = floor /\ resetting' = resetting
      /\ UNCHANGED search /\ kept' = kept /\ unblocked' = unblocked /\ raced' = raced
  BY DEF Collide
<1>2. \/ ~Usable("obstacles") /\ current' = current /\ clamped' = clamped /\ steady' = steady
      \/ /\ Usable("obstacles") /\ steady' = TRUE /\ clamped' = Hit
         /\ current' = IF Hit THEN Lesser(current, SafeZoom) ELSE current
  BY DEF Collide
<1>3. TypeOK
  BY DEF IInv
<1>4. Usable("obstacles") =>
        /\ current' \in Int /\ 0 < current' /\ current' <= current
        /\ Hit \in BOOLEAN
        /\ Hit => current' <= SafeZoom
        /\ ~Hit => current' = current /\ current < obstacle /\ desired < obstacle
  BY <1>2, <1>3, Lengths, SweepShortens DEF Usable, Sane, Hit, Lesser
<1>5. TypeOK'
  <2>1. current' \in Arms
    BY <1>2, <1>3, <1>4, Lengths DEF Arms
  <2>2. steady' \in BOOLEAN
    BY <1>2, <1>3 DEF TypeOK
  <2>3. clamped' \in BOOLEAN
    <3>1. CASE Usable("obstacles")
      <4>1. clamped' = Hit
        BY <1>2, <3>1
      <4> QED BY <1>4, <3>1, <4>1, Zenon
    <3>2. CASE ~Usable("obstacles")
      BY <1>2, <1>3, <3>2 DEF TypeOK
    <3> QED BY <3>1, <3>2
  <2> QED BY <1>1, <1>3, <2>1, <2>2, <2>3 DEF TypeOK, world, frame, search, Arms
<1>6. MeasuredSane' /\ Bracket' /\ Halved' /\ LimitOpen'
  BY <1>1 DEF IInv, MeasuredSane, Measured, Bracket, Halved, LimitOpen
<1>7. ArmStaysOpen'
  BY <1>1, <1>2, <1>4 DEF IInv, ArmStaysOpen
<1>8. WallInv'
  <2> SUFFICES ASSUME Sane(current'), "obstacles" \in protections,
                      Asked({"obstacles", "distance"}), Sane(desired)
               PROVE  /\ current' <= Greater(Shortest, obstacle)
                      /\ desired >= obstacle =>
                           current' <= Greater(Shortest, obstacle - Margin)
    BY <1>1 DEF WallInv, BeforeWall, Asked, Sane, world, frame
  <2>1. Usable("obstacles")
    BY <1>2 DEF Usable, Asked
  <2>2. CASE Hit
    <3>1. current' <= Greater(Shortest, obstacle - Margin)
      <4>1. SafeZoom \in Int /\ SafeZoom <= Greater(Shortest, obstacle - Margin)
        BY <1>3, <2>1, SweepShortens DEF Usable, Asked
      <4> QED BY <1>3, <1>4, <2>1, <2>2, <4>1, Lengths DEF Greater
    <3> QED BY <1>3, <1>4, <2>1, <3>1, Lengths DEF Greater
  <2>3. CASE ~Hit
    BY <1>3, <1>4, <2>1, <2>3, Lengths DEF Greater
  <2> QED BY <2>2, <2>3
<1>9. FloorInv' /\ EarnInv'
  BY <1>1 DEF IInv, FloorInv, EarnInv, Constrained, Counted, Swept, Measured, frame
<1>10. FreeInv'
  <2>1. CASE Usable("obstacles")
    <3>1. clamped' \/ ~Hit
      <4>1. clamped' = Hit
        BY <1>2, <2>1
      <4> QED BY <4>1, Zenon
    <3> QED BY <1>1, <1>4, <2>1, <3>1 DEF FreeInv, world
  <2>2. CASE ~Usable("obstacles")
    BY <1>1, <1>2, <2>2 DEF IInv, FreeInv, world
  <2> QED BY <2>1, <2>2
<1> QED BY <1>5, <1>6, <1>7, <1>8, <1>9, <1>10 DEF IInv

(* The floor limit is off, or its queries are not in order. *)
LEMMA FloorOffKeeps == ASSUME IInv, FloorOff PROVE IInv'
<1>1. /\ pc = "floor" /\ "floor" \notin protections /\ pc' = "update"
      /\ current' = current /\ UNCHANGED world /\ UNCHANGED frame /\ rpg' = rpg
      /\ applied' = applied /\ clamped' = clamped /\ floor' = floor
      /\ resetting' = resetting /\ UNCHANGED search /\ kept' = kept
      /\ steady' = steady /\ unblocked' = unblocked /\ raced' = raced
  BY DEF FloorOff
<1>2. TypeOK'
  BY <1>1 DEF IInv, TypeOK, world, frame, search, Arms
<1>3. MeasuredSane' /\ Bracket' /\ Halved' /\ LimitOpen' /\ ArmStaysOpen'
  BY <1>1 DEF IInv, MeasuredSane, Measured, Bracket, Halved, LimitOpen, ArmStaysOpen
<1>4. WallInv' /\ FloorInv' /\ FreeInv' /\ EarnInv'
  BY <1>1 DEF IInv, WallInv, FloorInv, FreeInv, EarnInv, Constrained, Swept, Measured,
              Counted, AboveFloor, BeforeWall, Sane, Asked, world, frame
<1> QED BY <1>2, <1>3, <1>4 DEF IInv

(* The arm that is probed. *)
LEMMA ProbedArm ==
  ASSUME TypeOK, Sane(current)
  PROVE  /\ Probed \in Int /\ Shortest <= Probed /\ Probed <= SaneMax
         /\ Probed \in clear => Above(current)
  BY Lengths DEF Probed, Clamp, Lesser, Sane, Above

(* What is remembered of another camera is nothing. *)
LEMMA RememberedParts ==
  ASSUME TypeOK
  PROVE  /\ Remembered \in [camera : Cameras \cup {NoCamera}, active : BOOLEAN,
                            limited : Arms, clear : 0 .. ClearFrames + 1]
         /\ Remembered.active => floor.active /\ Remembered.limited = floor.limited
         /\ Remembered.limited <= floor.limited /\ Remembered.clear <= floor.clear
<1>1. CASE floor.camera = camera
  BY <1>1, Lengths DEF TypeOK, Remembered
<1>2. CASE floor.camera # camera
  <2>1. Remembered = [camera |-> camera, active |-> FALSE, limited |-> 0, clear |-> 0]
    BY <1>2 DEF Remembered, NoLimit
  <2> QED BY <2>1, Lengths DEF TypeOK, Arms
<1> QED BY <1>1, <1>2

(* The arm is probed. *)
LEMMA MeasureKeeps == ASSUME IInv, Measure PROVE IInv'
<1>1. /\ pc = "floor" /\ "floor" \in protections /\ floor' = Remembered
      /\ current' = current /\ UNCHANGED world /\ UNCHANGED frame /\ rpg' = rpg
      /\ applied' = applied /\ clamped' = clamped /\ resetting' = resetting
      /\ kept' = kept /\ steady' = steady /\ raced' = raced
  BY DEF Measure
<1>2. \/ ~Usable("floor") /\ pc' = "update" /\ UNCHANGED search /\ unblocked' = unblocked
      \/ /\ Usable("floor") /\ Probed \in clear /\ pc' = "unblocked"
         /\ unblocked' = Lesser(unblocked + 1, ClearFrames + 1) /\ UNCHANGED search
      \/ /\ Usable("floor") /\ Probed \notin clear /\ unblocked' = 0
         /\ accepted' = Shortest /\ rejected' = Probed /\ probes' = 0
         /\ pc' = IF Shortest \in clear THEN "search" ELSE "blocked"
  BY DEF Measure
<1>3. TypeOK
  BY DEF IInv
<1>4. /\ floor'.active => floor.active /\ floor'.limited = floor.limited
      /\ floor'.limited <= floor.limited /\ floor'.clear <= floor.clear
      /\ floor'.limited \in Int /\ floor'.clear \in Int
  BY <1>1, <1>3, RememberedParts DEF Arms
<1>5. Usable("floor") => /\ Sane(current) /\ Sane(desired)
                         /\ Probed \in Int /\ Shortest <= Probed /\ Probed <= SaneMax
                         /\ Probed \in clear => Above(current)
  BY <1>3, ProbedArm DEF Usable
<1>6. TypeOK'
  <2>1. /\ accepted' \in Arms /\ rejected' \in Arms /\ probes' \in 0 .. Probes
        /\ unblocked' \in 0 .. ClearFrames + 1
    BY <1>2, <1>3, <1>5, Lengths DEF TypeOK, Arms, Lesser, search
  <2>2. pc' \in {"search", "blocked", "unblocked", "update"}
    BY <1>2
  <2>3. floor' \in [camera : Cameras \cup {NoCamera}, active : BOOLEAN,
                    limited : Arms, clear : 0 .. ClearFrames + 1]
    BY <1>1, <1>3, RememberedParts
  <2> QED BY <1>1, <1>3, <2>1, <2>2, <2>3 DEF TypeOK, world, frame, Arms
<1>7. MeasuredSane'
  BY <1>1, <1>2, <1>5 DEF MeasuredSane, Measured, Sane, world
<1>8. Bracket'
  <2>1. pc' \in {"search", "blocked"} =>
          /\ accepted' = Shortest /\ rejected' = Probed /\ Probed \notin clear
          /\ Shortest <= Probed /\ Probed <= SaneMax /\ Probed \in Int
          /\ pc' = "search" => Shortest \in clear
    BY <1>2, <1>5
  <2> QED BY <1>1, <1>3, <2>1, Lengths DEF Bracket, world
<1>9. Halved'
  <2>1. Probed' = Probed
    BY <1>1 DEF Probed
  <2>2. pc' \in {"search", "blocked"} =>
          /\ accepted' = Shortest /\ rejected' = Probed /\ probes' = 0
          /\ pc' = "blocked" => Shortest \notin clear
    BY <1>2
  <2>3. Probes - 0 = Probes
    BY <1>3, Lengths
  <2> QED BY <1>1, <2>1, <2>2, <2>3 DEF Halved, world
<1>10. LimitOpen' /\ ArmStaysOpen'
  BY <1>1, <1>2, <1>4 DEF IInv, LimitOpen, ArmStaysOpen
<1>11. WallInv'
  <2>1. BeforeWall' <=> BeforeWall
    BY <1>1 DEF BeforeWall, Asked, world, frame
  <2> QED BY <1>1, <2>1 DEF IInv, WallInv, Swept, Sane, world
<1>12. FloorInv'
  <2>1. Constrained' => AboveFloor'
    BY <1>1, <1>2 DEF Constrained, AboveFloor, Usable, Asked, Sane, world, frame
  <2>2. pc' = "unblocked" => Above(current)
    BY <1>2, <1>5
  <2>3. pc' # "write" /\ Above(current)' = Above(current)
    BY <1>1, <1>2 DEF Above, world
  <2> QED BY <1>1, <2>1, <2>2, <2>3 DEF FloorInv
<1>13. FreeInv'
  BY <1>1 DEF IInv, FreeInv, world
<1>14. EarnInv'
  <2>1. floor'.limited <= before'
    BY <1>1, <1>3, <1>4, Lengths DEF IInv, EarnInv, frame
  <2>2. floor.clear <= unblocked
    BY <1>1 DEF IInv, EarnInv
  <2>3. pc' = "unblocked" => Counted' <= unblocked'
    BY <1>2, <1>3, <1>4, <2>2, Lengths DEF Counted, Lesser
  <2>4. pc' \notin {"unblocked", "search", "blocked"} => floor'.clear <= unblocked'
    BY <1>2, <1>3, <1>4, <2>2, Lengths
  <2>5. applied'
    BY <1>1 DEF IInv, EarnInv, Swept
  <2> QED BY <2>1, <2>3, <2>4, <2>5 DEF EarnInv
<1> QED BY <1>6, <1>7, <1>8, <1>9, <1>10, <1>11, <1>12, <1>13, <1>14 DEF IInv

(* Half of an interval that is no longer than twice a length. *)
LEMMA Halving ==
  ASSUME NEW a \in Int, NEW r \in Int, a < r
  PROVE  LET m == a + (r - a) \div 2 IN
           /\ m \in Int /\ a <= m /\ m < r
           /\ \A half \in Int : r - a <= 2 * half => m - a <= half /\ r - m <= half
  OBVIOUS

(* A probe. *)
LEMMA BisectKeeps == ASSUME IInv, Bisect PROVE IInv'
<1>1. /\ pc = "search" /\ pc' = pc /\ probes < Probes /\ probes' = probes + 1
      /\ rejected - accepted > Tolerance
      /\ current' = current /\ UNCHANGED world /\ UNCHANGED frame /\ rpg' = rpg
      /\ applied' = applied /\ clamped' = clamped /\ floor' = floor
      /\ resetting' = resetting /\ kept' = kept /\ steady' = steady
      /\ unblocked' = unblocked /\ raced' = raced
      /\ \/ Midpoint \in clear /\ accepted' = Midpoint /\ rejected' = rejected
         \/ Midpoint \notin clear /\ rejected' = Midpoint /\ accepted' = accepted
  BY DEF Bisect, Narrowing
<1>2. TypeOK
  BY DEF IInv
<1>3. /\ Shortest <= accepted /\ accepted < rejected /\ rejected <= SaneMax
      /\ accepted \in clear /\ rejected \notin clear
  BY <1>1 DEF IInv, Bracket
<1>4. /\ Midpoint \in Int /\ accepted <= Midpoint /\ Midpoint < rejected
      /\ \A half \in Int : rejected - accepted <= 2 * half =>
           Midpoint - accepted <= half /\ rejected - Midpoint <= half
  BY <1>2, <1>3, Lengths, Halving DEF Midpoint
<1>5. TypeOK'
  <2>1. accepted' \in Arms /\ rejected' \in Arms /\ probes' \in 0 .. Probes
    BY <1>1, <1>2, <1>3, <1>4, Lengths DEF Arms
  <2> QED BY <1>1, <1>2, <2>1 DEF TypeOK, world, frame, Arms
<1>6. Bracket'
  <2>1. accepted' < rejected'
    <3>1. Midpoint \notin clear => accepted < Midpoint
      BY <1>2, <1>3, <1>4, Lengths
    <3> QED BY <1>1, <1>4, <3>1
  <2> QED BY <1>1, <1>2, <1>3, <1>4, <2>1, Lengths DEF Bracket, world
<1>7. Halved'
  <2> SUFFICES ASSUME Probed - Shortest <= Resolved[Probes]
               PROVE  rejected' - accepted' <= Resolved[Probes - probes']
    <3>1. Probed' = Probed /\ pc' = "search"
      BY <1>1 DEF Probed
    <3> QED BY <3>1 DEF Halved
  <2>1. rejected - accepted <= Resolved[Probes - probes]
    BY <1>1, <1>3 DEF IInv, Halved
  <2>2. /\ Resolved[Probes - probes] = 2 * Resolved[Probes - probes']
        /\ Resolved[Probes - probes'] \in Int
    <3>1. /\ Probes - probes \in 1 .. Probes /\ (Probes - probes) - 1 = Probes - probes'
          /\ Probes - probes' \in 0 .. Probes
      BY <1>1, <1>2, Lengths
    <3> QED BY <3>1, ConstraintConstants
  <2> QED BY <1>1, <1>4, <2>1, <2>2
<1>8. MeasuredSane' /\ LimitOpen' /\ ArmStaysOpen'
  BY <1>1 DEF IInv, MeasuredSane, Measured, LimitOpen, ArmStaysOpen, Sane, world
<1>9. WallInv' /\ FloorInv' /\ FreeInv' /\ EarnInv'
  BY <1>1 DEF IInv, WallInv, FloorInv, FreeInv, EarnInv, BeforeWall, Constrained,
              Asked, Sane, Swept, Measured, world, frame
<1> QED BY <1>5, <1>6, <1>7, <1>8, <1>9 DEF IInv

(* The interval is narrow enough, or the probes are used up. *)
LEMMA FoundKeeps == ASSUME IInv, Found PROVE IInv'
<1>1. /\ pc = "search" /\ pc' = "blocked" /\ ~Narrowing
      /\ current' = current /\ UNCHANGED world /\ UNCHANGED frame /\ rpg' = rpg
      /\ applied' = applied /\ clamped' = clamped /\ floor' = floor
      /\ resetting' = resetting /\ UNCHANGED search /\ kept' = kept
      /\ steady' = steady /\ unblocked' = unblocked /\ raced' = raced
  BY DEF Found
<1>2. TypeOK
  BY DEF IInv
<1>3. TypeOK'
  BY <1>1 DEF IInv, TypeOK, world, frame, search, Arms
<1>4. MeasuredSane' /\ Bracket' /\ LimitOpen' /\ ArmStaysOpen'
  BY <1>1 DEF IInv, MeasuredSane, Measured, Bracket, LimitOpen, ArmStaysOpen, Sane,
              world, search
<1>5. Halved'
  <2> SUFFICES ASSUME Probed - Shortest <= Resolved[Probes], accepted \in clear
               PROVE  rejected - accepted <= Tolerance
    <3>1. Probed' = Probed /\ pc' = "blocked" /\ accepted' = accepted
          /\ rejected' = rejected /\ clear' = clear
      BY <1>1 DEF Probed, world, search
    <3> QED BY <3>1 DEF Halved
  <2>1. rejected - accepted <= Resolved[Probes - probes]
    BY <1>1 DEF IInv, Halved
  <2>2. CASE probes < Probes
    BY <1>1, <1>2, <2>2, Lengths DEF Narrowing
  <2>3. CASE ~(probes < Probes)
    <3>1. Probes - probes = 0
      BY <1>2, <2>3, Lengths
    <3> QED BY <2>1, <3>1, ConstraintConstants
  <2> QED BY <2>2, <2>3
<1>6. WallInv' /\ FloorInv' /\ FreeInv' /\ EarnInv'
  BY <1>1 DEF IInv, WallInv, FloorInv, FreeInv, EarnInv, BeforeWall, Constrained,
              Asked, Sane, Swept, Measured, world, frame
<1> QED BY <1>3, <1>4, <1>5, <1>6 DEF IInv

(* The limit that is remembered and written: open, no longer than measured,*)
(* and longer than before by no more than the release.                     *)
LEMMA TightenedArm ==
  ASSUME TypeOK, Sane(current), Shortest <= accepted,
         floor.active => floor.limited > 0
  PROVE  /\ Tightened \in Int /\ 0 < Tightened /\ Tightened <= current
         /\ Tightened <= accepted
         /\ floor.active /\ Tightened > floor.limited =>
              Tightened <= floor.limited + release
         /\ MeasuredLimit \in Int /\ 0 < MeasuredLimit
         /\ MeasuredLimit <= current /\ MeasuredLimit <= accepted
  BY Lengths DEF Tightened, MeasuredLimit, Lesser, Sane

(* A measured limit is remembered. *)
LEMMA LimitKeeps == ASSUME IInv, Limit PROVE IInv'
<1>1. /\ pc = "blocked" /\ pc' = "write" /\ kept' = Tightened
      /\ current' = current /\ UNCHANGED world /\ UNCHANGED frame /\ rpg' = rpg
      /\ applied' = applied /\ clamped' = clamped /\ resetting' = resetting
      /\ UNCHANGED search /\ steady' = steady /\ unblocked' = unblocked
      /\ raced' = raced
  BY DEF Limit
<1>2. TypeOK
  BY DEF IInv
<1>3. floor' = [camera |-> floor.camera, active |-> TRUE, limited |-> Tightened, clear |-> 0]
  BY <1>2, FloorParts DEF Limit
<1>4. /\ Sane(current) /\ Sane(desired) /\ Shortest <= accepted
      /\ accepted \in clear \/ accepted = Shortest
      /\ floor.active => floor.limited > 0
  BY <1>1 DEF IInv, MeasuredSane, Measured, Bracket, LimitOpen
<1>5. /\ Tightened \in Int /\ 0 < Tightened /\ Tightened <= current
      /\ Tightened <= accepted
  BY <1>2, <1>4, TightenedArm
<1>6. TypeOK'
  <2>1. Tightened \in Arms
    BY <1>2, <1>5, Lengths DEF Arms
  <2>2. 0 \in 0 .. ClearFrames + 1
    BY <1>2, Lengths
  <2>3. floor' \in [camera : Cameras \cup {NoCamera}, active : BOOLEAN,
                    limited : Arms, clear : 0 .. ClearFrames + 1]
    BY <1>2, <1>3, <2>1, <2>2, FloorParts
  <2> QED BY <1>1, <1>2, <2>1, <2>3 DEF TypeOK, world, frame, search, Arms
<1>7. MeasuredSane' /\ Bracket' /\ Halved'
  BY <1>1, <1>4 DEF MeasuredSane, Measured, Bracket, Halved, Sane, world
<1>8. LimitOpen' /\ ArmStaysOpen'
  BY <1>1, <1>3, <1>5 DEF IInv, LimitOpen, ArmStaysOpen
<1>9. WallInv' /\ FreeInv'
  BY <1>1 DEF IInv, WallInv, FreeInv, BeforeWall, Asked, Sane, Swept, Measured, world, frame
<1>10. FloorInv'
  <2>1. DownClosed(clear) => Above(Lesser(current, Tightened))
    <3>1. Lesser(current, Tightened) \in Int /\ Lesser(current, Tightened) <= accepted
      BY <1>2, <1>5, Lengths DEF Lesser
    <3>2. Above(accepted) /\ accepted \in Int
      BY <1>2, <1>4, Lengths DEF Above
    <3> QED BY <1>2, <3>1, <3>2, ShorterAbove
  <2>2. DownClosed(clear)' <=> DownClosed(clear)
    BY <1>1 DEF DownClosed, world
  <2>3. Above(Lesser(current, kept))' <=> Above(Lesser(current, Tightened))
    BY <1>1 DEF Above, world
  <2> QED BY <1>1, <2>1, <2>2, <2>3 DEF FloorInv, Constrained
<1>11. EarnInv'
  BY <1>1, <1>2, <1>3, Lengths DEF IInv, EarnInv, Swept, Measured
<1> QED BY <1>6, <1>7, <1>8, <1>9, <1>10, <1>11 DEF IInv

(* After a clear probe the limit is as it was, lengthened, or given up. *)
LEMMA HoldOutcomes ==
  ASSUME TypeOK, Hold
  PROVE  \/ pc' = "update" /\ kept' = kept /\ floor' = floor /\ ~floor.active
         \/ /\ floor.active /\ pc' = "write"
            /\ \/ kept' = floor.limited
               \/ kept' = Loosened /\ Counted > ClearFrames
            /\ floor' = [camera |-> floor.camera, active |-> TRUE,
                         limited |-> kept', clear |-> Counted]
         \/ /\ pc' = "update" /\ kept' = kept /\ floor' = NoLimit
            /\ Counted > ClearFrames
<1>1. CASE ~floor.active
  BY <1>1 DEF Hold
<1>2. CASE floor.active
  <2>1. PICK o, m, k : floor = [camera |-> o, active |-> TRUE, limited |-> m, clear |-> k]
    BY <1>2, FloorParts
  <2>2. o = floor.camera /\ m = floor.limited
    BY <2>1
  <2>3. floor' = [floor EXCEPT !.clear = Counted] =>
          floor' = [camera |-> o, active |-> TRUE, limited |-> m, clear |-> Counted]
    BY <2>1
  <2>4. floor' = [floor EXCEPT !.clear = Counted, !.limited = Loosened] =>
          floor' = [camera |-> o, active |-> TRUE, limited |-> Loosened, clear |-> Counted]
    BY <2>1
  <2> QED BY <1>2, <2>2, <2>3, <2>4 DEF Hold
<1> QED BY <1>1, <1>2

(* What a clear probe leaves behind. *)
LEMMA HoldKeeps == ASSUME IInv, Hold PROVE IInv'
<1>1. /\ pc = "unblocked"
      /\ current' = current /\ UNCHANGED world /\ UNCHANGED frame /\ rpg' = rpg
      /\ applied' = applied /\ clamped' = clamped /\ resetting' = resetting
      /\ UNCHANGED search /\ steady' = steady /\ unblocked' = unblocked
      /\ raced' = raced
  BY DEF Hold
<1>2. TypeOK
  BY DEF IInv
<1>3. /\ Sane(current) /\ Sane(desired) /\ Counted <= unblocked
      /\ floor.active => floor.limited > 0
      /\ DownClosed(clear) => Above(current)
  BY <1>1 DEF IInv, MeasuredSane, Measured, EarnInv, LimitOpen, FloorInv
<1>4. Counted \in Int /\ 0 <= Counted /\ Counted <= ClearFrames + 1 /\ floor.clear <= Counted
  BY <1>2, Lengths DEF Counted, Lesser
<1>5. Loosened \in Int /\ (floor.active => 0 < Loosened) /\ Loosened <= desired
  BY <1>2, <1>3, Lengths DEF Loosened, Lesser, Sane
<1>6. \/ pc' = "update" /\ kept' = kept /\ floor' \in {floor, NoLimit}
      \/ /\ floor.active /\ pc' = "write" /\ kept' \in {floor.limited, Loosened}
         /\ floor' = [camera |-> floor.camera, active |-> TRUE,
                      limited |-> kept', clear |-> Counted]
  BY <1>2, HoldOutcomes
<1>7. /\ pc' \in {"update", "write"} /\ kept' \in Arms
      /\ floor' \in [camera : Cameras \cup {NoCamera}, active : BOOLEAN,
                     limited : Arms, clear : 0 .. ClearFrames + 1]
  <2> DEFINE Memories == [camera : Cameras \cup {NoCamera}, active : BOOLEAN,
                          limited : Arms, clear : 0 .. ClearFrames + 1]
  <2>1. floor \in Memories /\ kept \in Arms
    BY <1>2 DEF TypeOK
  <2>2. CASE pc' = "update" /\ kept' = kept /\ floor' \in {floor, NoLimit}
    <3>1. NoLimit \in Memories
      BY <1>2, Lengths DEF NoLimit, Arms
    <3> QED BY <2>1, <2>2, <3>1
  <2>3. CASE /\ floor.active /\ pc' = "write" /\ kept' \in {floor.limited, Loosened}
             /\ floor' = [camera |-> floor.camera, active |-> TRUE,
                          limited |-> kept', clear |-> Counted]
    <3>1. kept' \in Arms
      BY <1>2, <1>5, <2>3, Lengths DEF Arms
    <3>2. Counted \in 0 .. ClearFrames + 1
      BY <1>2, <1>4, Lengths
    <3> QED BY <2>1, <2>3, <3>1, <3>2
  <2> QED BY <1>6, <2>2, <2>3
<1>8. TypeOK'
  BY <1>1, <1>2, <1>7 DEF TypeOK, world, frame, search, Arms
<1>9. MeasuredSane' /\ Bracket' /\ Halved'
  BY <1>1, <1>3, <1>7 DEF MeasuredSane, Bracket, Halved, Sane, world
<1>10. LimitOpen' /\ ArmStaysOpen'
  BY <1>1, <1>3, <1>5, <1>6 DEF IInv, LimitOpen, ArmStaysOpen, NoLimit
<1>11. WallInv' /\ FreeInv'
  BY <1>1 DEF IInv, WallInv, FreeInv, BeforeWall, Asked, Sane, Swept, Measured, world, frame
<1>12. FloorInv'
  <2>1. Lesser(current, kept') \in Int /\ Lesser(current, kept') <= current
    BY <1>2, <1>7, Lengths DEF Lesser, Arms
  <2>2. DownClosed(clear) => Above(Lesser(current, kept'))
    BY <1>2, <1>3, <2>1, Lengths, ShorterAbove
  <2>3. DownClosed(clear)' <=> DownClosed(clear)
    BY <1>1 DEF DownClosed, world
  <2>4. Above(Lesser(current, kept))' <=> Above(Lesser(current, kept'))
    BY <1>1 DEF Above, world
  <2>5. AboveFloor'
    BY <1>1, <1>3, <2>3 DEF AboveFloor, Above, Asked, world
  <2> QED BY <1>7, <2>2, <2>3, <2>4, <2>5 DEF FloorInv
<1>13. EarnInv'
  <2>1. applied' /\ pc' \notin {"unblocked", "search", "blocked", "collide", "floor"}
    BY <1>1, <1>7 DEF IInv, EarnInv, Swept, Measured
  <2>2. floor'.clear <= unblocked'
    <3>1. floor'.clear \in {floor.clear, Counted, 0}
      BY <1>6 DEF NoLimit
    <3> QED BY <1>1, <1>2, <1>3, <1>4, <3>1, Lengths
  <2> QED BY <2>1, <2>2 DEF EarnInv
<1> QED BY <1>8, <1>9, <1>10, <1>11, <1>12, <1>13 DEF IInv

(* A limit whose memory is cleared under the update's hands: all the same  *)
(* an arm above the floor, but it may be of no length.                     *)
LEMMA ClearedMeanwhileKeeps ==
  ASSUME IInv, pc \in {"blocked", "unblocked"},
         NEW limit \in Arms, NEW frames \in 0 .. ClearFrames + 1, frames <= unblocked,
         DownClosed(clear) => Above(Lesser(current, limit)),
         ClearedMeanwhile(limit, frames)
  PROVE  IInv'
<1>1. /\ pc' = "write" /\ kept' = limit /\ raced' = TRUE
      /\ resetting' = resetting \ {"limit"}
      /\ current' = current /\ UNCHANGED world /\ UNCHANGED frame /\ rpg' = rpg
      /\ applied' = applied /\ clamped' = clamped /\ UNCHANGED search
      /\ steady' = steady /\ unblocked' = unblocked
  BY DEF ClearedMeanwhile
<1>2. TypeOK
  BY DEF IInv
<1>3. floor' = [camera |-> floor.camera, active |-> FALSE, limited |-> limit,
                clear |-> frames]
  BY <1>2, FloorParts DEF ClearedMeanwhile
<1>4. TypeOK'
  <2>1. floor' \in [camera : Cameras \cup {NoCamera}, active : BOOLEAN,
                    limited : Arms, clear : 0 .. ClearFrames + 1]
    BY <1>2, <1>3, FloorParts
  <2>2. resetting' \subseteq {"camera", "limit", "frames"}
    BY <1>1, <1>2 DEF TypeOK
  <2> QED BY <1>1, <1>2, <2>1, <2>2 DEF TypeOK, world, frame, search, Arms
<1>5. MeasuredSane' /\ Bracket' /\ Halved'
  BY <1>1 DEF IInv, MeasuredSane, Measured, Bracket, Halved, Sane, world
<1>6. LimitOpen' /\ ArmStaysOpen'
  BY <1>1, <1>3 DEF LimitOpen, ArmStaysOpen
<1>7. WallInv' /\ FreeInv'
  BY <1>1 DEF IInv, WallInv, FreeInv, BeforeWall, Asked, Sane, Swept, Measured, world, frame
<1>8. FloorInv'
  <2>1. DownClosed(clear)' <=> DownClosed(clear)
    BY <1>1 DEF DownClosed, world
  <2>2. Above(Lesser(current, kept))' <=> Above(Lesser(current, limit))
    BY <1>1 DEF Above, world
  <2> QED BY <1>1, <2>1, <2>2 DEF FloorInv, Constrained
<1>9. EarnInv'
  BY <1>1, <1>3 DEF IInv, EarnInv, Swept, Measured
<1> QED BY <1>4, <1>5, <1>6, <1>7, <1>8, <1>9 DEF IInv

(* A measured limit, cleared meanwhile. *)
LEMMA LimitClearedKeeps == ASSUME IInv, LimitCleared PROVE IInv'
<1>1. TypeOK /\ pc = "blocked"
  BY DEF IInv, LimitCleared
<1>2. /\ Sane(current) /\ Shortest <= accepted
      /\ accepted \in clear \/ accepted = Shortest
      /\ floor.active => floor.limited > 0
  BY <1>1 DEF IInv, MeasuredSane, Measured, Bracket, LimitOpen
<1>3. PICK limit \in {Tightened, Lesser(MeasuredLimit, release)} : ClearedMeanwhile(limit, 0)
  BY DEF LimitCleared
<1>4. limit \in Int /\ 0 <= limit /\ limit <= current /\ limit <= accepted
  BY <1>1, <1>2, <1>3, TightenedArm, Lengths DEF Lesser
<1>5. limit \in Arms /\ 0 \in 0 .. ClearFrames + 1 /\ 0 <= unblocked
  BY <1>1, <1>4, Lengths DEF Arms
<1>6. DownClosed(clear) => Above(Lesser(current, limit))
  <2>1. Lesser(current, limit) \in Int /\ Lesser(current, limit) <= accepted
    BY <1>1, <1>4, Lengths DEF Lesser
  <2>2. Above(accepted) /\ accepted \in Int
    BY <1>1, <1>2, Lengths DEF Above
  <2> QED BY <1>1, <2>1, <2>2, ShorterAbove
<1> QED BY <1>1, <1>3, <1>5, <1>6, ClearedMeanwhileKeeps

(* A limit that is being released, cleared meanwhile. *)
LEMMA HoldClearedKeeps == ASSUME IInv, HoldCleared PROVE IInv'
<1>1. TypeOK /\ pc = "unblocked"
  BY DEF IInv, HoldCleared
<1>2. DownClosed(clear) => Above(current)
  BY <1>1 DEF IInv, FloorInv
<1>3. PICK limit \in {Loosened, Lesser(desired, release)} :
        limit < desired /\ ClearedMeanwhile(limit, Counted)
  BY DEF HoldCleared
<1>4. limit \in Int /\ 0 <= limit
  BY <1>1, <1>3, Lengths DEF Loosened, Lesser
<1>5. limit \in Arms
  BY <1>1, <1>3, <1>4, Lengths DEF Arms
<1>6. Counted \in 0 .. ClearFrames + 1 /\ Counted <= unblocked
  BY <1>1, Lengths DEF IInv, EarnInv, Counted, Lesser
<1>7. Lesser(current, limit) \in Int /\ Lesser(current, limit) <= current
  BY <1>1, <1>4, Lengths DEF Lesser
<1>8. DownClosed(clear) => Above(Lesser(current, limit))
  BY <1>1, <1>2, <1>7, Lengths, ShorterAbove
<1> QED BY <1>1, <1>3, <1>5, <1>6, <1>8, ClearedMeanwhileKeeps

(* The limit is written. *)
LEMMA WriteKeeps == ASSUME IInv, Write PROVE IInv'
<1>1. /\ pc = "write" /\ pc' = "update" /\ UNCHANGED world /\ UNCHANGED frame
      /\ rpg' = rpg /\ applied' = applied /\ clamped' = clamped /\ floor' = floor
      /\ resetting' = resetting /\ UNCHANGED search /\ kept' = kept
      /\ steady' = steady /\ unblocked' = unblocked /\ raced' = raced
  BY DEF Write
<1>2. PICK limit \in {kept, floor.limited} : current' = Lesser(current, limit)
  BY DEF Write
<1>3. TypeOK
  BY DEF IInv
<1>4. /\ Sane(current) /\ Sane(desired)
      /\ floor.limited \in {kept, 0}
      /\ raced \/ (kept > 0 /\ floor.limited = kept)
      /\ DownClosed(clear) => Above(Lesser(current, kept))
      /\ applied
  BY <1>1 DEF IInv, MeasuredSane, Measured, LimitOpen, FloorInv, EarnInv, Swept
<1>5. /\ current' \in Int /\ 0 <= current' /\ current' <= current
      /\ Lesser(current, kept) \in Int /\ current' <= Lesser(current, kept)
      /\ current' = 0 => raced
  BY <1>2, <1>3, <1>4, Lengths DEF Lesser, Sane
<1>6. TypeOK'
  <2>1. current' \in Arms
    BY <1>3, <1>5, Lengths DEF Arms
  <2> QED BY <1>1, <1>3, <2>1 DEF TypeOK, world, frame, search, Arms
<1>7. MeasuredSane' /\ Bracket' /\ Halved' /\ LimitOpen' /\ ArmStaysOpen'
  BY <1>1, <1>5 DEF IInv, MeasuredSane, Measured, Bracket, Halved, LimitOpen, ArmStaysOpen
<1>8. WallInv'
  <2>1. BeforeWall
    BY <1>1, <1>4 DEF IInv, WallInv, Swept, Measured
  <2>2. BeforeWall'
    <3>1. obstacle \in Int /\ Margin \in Int /\ Shortest \in Int /\ current \in Int
          /\ desired \in Int
      BY <1>3, Lengths
    <3>2. Greater(Shortest, obstacle) \in Int /\ Greater(Shortest, obstacle - Margin) \in Int
      BY <3>1 DEF Greater
    <3> QED BY <1>1, <1>5, <2>1, <3>1, <3>2 DEF BeforeWall, Asked, world, frame
  <2> QED BY <2>2 DEF WallInv
<1>9. FloorInv'
  <2>1. DownClosed(clear) => Above(current')
    BY <1>3, <1>4, <1>5, ShorterAbove
  <2>2. AboveFloor'
    BY <1>1, <2>1 DEF AboveFloor, Above, Asked, DownClosed, world
  <2> QED BY <1>1, <2>2 DEF FloorInv
<1>10. FreeInv'
  BY <1>1, <1>3, <1>5, Lengths DEF IInv, FreeInv, world
<1>11. EarnInv'
  BY <1>1, <1>4 DEF IInv, EarnInv, Swept, Measured
<1> QED BY <1>6, <1>7, <1>8, <1>9, <1>10, <1>11 DEF IInv

-----------------------------------------------------------------------------
(* The invariant holds in the beginning. *)
LEMMA InitHolds == Init => IInv
<1> SUFFICES ASSUME Init PROVE IInv
  OBVIOUS
<1>1. /\ pc = "idle" /\ floor = NoLimit /\ steady = FALSE /\ unblocked = 0
      /\ current \in Shortest .. ArmMax
  BY DEF Init
<1>2. TypeOK
  <2>1. /\ 0 \in Arms /\ 0 \in 0 .. Probes /\ 0 \in 0 .. ClearFrames + 1
        /\ current \in Arms /\ desired \in Shortest .. ArmMax
    BY ConstraintConstants DEF Init, Arms
  <2>2. floor \in [camera : Cameras \cup {NoCamera}, active : BOOLEAN,
                   limited : Arms, clear : 0 .. ClearFrames + 1]
    BY <1>1, <2>1 DEF NoLimit
  <2> QED BY <2>1, <2>2 DEF Init, TypeOK
<1>3. MeasuredSane /\ Bracket /\ Halved /\ LimitOpen
  BY <1>1 DEF MeasuredSane, Measured, Bracket, Halved, LimitOpen, NoLimit
<1>4. ArmStaysOpen
  BY <1>1, <1>2, Lengths DEF ArmStaysOpen
<1>5. WallInv /\ FloorInv /\ FreeInv /\ EarnInv
  BY <1>1 DEF WallInv, FloorInv, FreeInv, EarnInv, Constrained, Swept, Measured, NoLimit
<1> QED BY <1>2, <1>3, <1>4, <1>5 DEF IInv

(* Every step keeps it. *)
LEMMA StepKeeps == IInv /\ [Next]_vars => IInv'
<1>1. CASE UNCHANGED vars
  <2>1. /\ current' = current /\ UNCHANGED world /\ UNCHANGED frame /\ rpg' = rpg
        /\ pc' = pc /\ applied' = applied /\ clamped' = clamped /\ floor' = floor
        /\ resetting' = resetting /\ UNCHANGED search /\ kept' = kept
        /\ steady' = steady /\ unblocked' = unblocked /\ raced' = raced
    BY <1>1 DEF vars
  <2>2. TypeOK' <=> TypeOK
    BY <2>1 DEF TypeOK, world, frame, search, Arms
  <2>3. /\ MeasuredSane' <=> MeasuredSane
        /\ Bracket' <=> Bracket
        /\ Halved' <=> Halved
        /\ LimitOpen' <=> LimitOpen
        /\ ArmStaysOpen' <=> ArmStaysOpen
    BY <2>1 DEF MeasuredSane, Bracket, Halved, LimitOpen, ArmStaysOpen, Sane, Probed,
                world, search
  <2>4. /\ WallInv' <=> WallInv
        /\ FloorInv' <=> FloorInv
        /\ FreeInv' <=> FreeInv
        /\ EarnInv' <=> EarnInv
    BY <2>1 DEF WallInv, FloorInv, FreeInv, EarnInv, Constrained, AboveFloor, BeforeWall,
                Above, Asked, Sane, Counted, world, frame
  <2> QED BY <2>2, <2>3, <2>4 DEF IInv
<1> QED BY <1>1, ClearKeeps, ToggleKeeps, ChangeKeeps, BeginKeeps, EndKeeps,
           AfterZoomKeeps, CollideKeeps, FloorOffKeeps, MeasureKeeps, BisectKeeps,
           FoundKeeps, LimitKeeps, HoldKeeps, LimitClearedKeeps, HoldClearedKeeps,
           WriteKeeps DEF Next, Constrain

(* The invariant holds throughout. *)
THEOREM Invariant == Spec => []IInv
  BY InitHolds, StepKeeps, PTL DEF Spec

-----------------------------------------------------------------------------
(* TypeOK: whatever the sweep, the probes and the mode changes do.         *)
THEOREM TypeCorrect == Spec => []TypeOK
<1>1. IInv => TypeOK
  BY DEF IInv
<1> QED BY <1>1, Invariant, PTL

(* ArmIsSafe: an update that is through with the arm leaves it in front of *)
(* the wall and above the floor, for every margin, budget and scene.       *)
THEOREM ConstrainedArmSafe == Spec => []ArmIsSafe
<1>1. IInv => ArmIsSafe
  BY DEF IInv, ArmIsSafe, WallInv, FloorInv, Constrained
<1> QED BY <1>1, Invariant, PTL

(* ArmStaysOpen: only a limit cleared under an update's hands closes it.   *)
THEOREM ArmOpen == Spec => []ArmStaysOpen
<1>1. IInv => ArmStaysOpen
  BY DEF IInv
<1> QED BY <1>1, Invariant, PTL

(* SearchResolves: as many probes as double the tolerance to the arm do.   *)
THEOREM ProbesSuffice == Spec => []SearchResolves
<1>1. IInv => SearchResolves
  <2> SUFFICES ASSUME IInv, pc = "blocked", accepted \in clear, DownClosed(clear),
                      Probed - Shortest <= Resolved[Probes],
                      NEW a \in clear, a <= Probed
               PROVE  a - accepted < Tolerance
    BY DEF SearchResolves
  <2>1. /\ rejected - accepted <= Tolerance
        /\ accepted <= rejected /\ Shortest <= accepted /\ rejected \notin clear
    BY DEF IInv, Halved, Bracket
  <2>2. a < rejected
    BY <2>1, Lengths DEF IInv, DownClosed
  <2> QED BY <2>1, <2>2, Lengths DEF IInv
<1> QED BY <1>1, Invariant, PTL

(* SweepSettles: the limit does not oscillate on a still scene.            *)
THEOREM NoOscillation == Spec => SweepSettles
<1>1. IInv /\ [Next]_vars => [pc = "collide" /\ steady /\ ~clamped => ~clamped']_vars
  <2> SUFFICES ASSUME IInv, Next, pc = "collide", steady, ~clamped PROVE ~clamped'
    BY DEF vars
  <2>1. CASE Collide
    <3>1. ~Hit
      BY Lengths DEF IInv, FreeInv, Hit, Sweep, Greater
    <3> QED BY <2>1, <3>1, Zenon DEF Collide
  <2>2. CASE ~Collide
    <3>1. Toggle \/ ClearWords
      BY <2>2 DEF Next, Constrain, PlayerZooms, SceneMoves, Change, BeginUpdate, EndUpdate,
                  AfterZoom, FloorOff, Measure, Bisect, Found, Limit, Hold,
                  LimitCleared, HoldCleared, ClearedMeanwhile, Write
    <3> QED BY <3>1 DEF Toggle, ClearWords
  <2> QED BY <2>1, <2>2
<1> QED BY <1>1, Invariant, PTL DEF Spec, SweepSettles

(* ReleaseIsEarned: the floor limit is given up slowly and only when       *)
(* enough clear updates in a row have asked for it.                        *)
THEOREM ReleaseEarned == Spec => ReleaseIsEarned
<1> DEFINE Longer == floor.active /\ floor'.limited > floor.limited
           GivenUp == pc = "unblocked" /\ floor.active /\ ~floor'.active
                        /\ resetting' = resetting
<1>1. ASSUME IInv, Next
      PROVE  /\ Longer => EarnedBy(floor'.limited)
             /\ GivenUp => unblocked > ClearFrames
  <2>1. TypeOK
    BY <1>1 DEF IInv
  <2>2. CASE Limit
    <3>1. floor'.limited = Tightened /\ pc = "blocked"
      BY <2>1, <2>2, FloorParts DEF Limit
    <3>2. /\ floor.limited <= before /\ Sane(current) /\ Shortest <= accepted
          /\ floor.active => floor.limited > 0
      BY <1>1, <3>1 DEF IInv, EarnInv, MeasuredSane, Measured, Bracket, LimitOpen
    <3>3. /\ Tightened \in Int
          /\ Longer => Tightened <= floor.limited + release
      BY <2>1, <3>1, <3>2, TightenedArm
    <3> QED BY <2>1, <3>1, <3>2, <3>3, Lengths DEF EarnedBy
  <2>3. CASE Hold
    <3>1. pc = "unblocked" /\ floor.limited <= before /\ Counted <= unblocked
      BY <1>1, <2>3 DEF Hold, IInv, EarnInv
    <3>2. \/ ~floor.active
          \/ floor'.active /\ floor'.limited = floor.limited
          \/ floor'.active /\ Counted > ClearFrames /\ floor'.limited = Loosened
          \/ Counted > ClearFrames /\ floor'.limited = 0
      BY <2>1, <2>3, HoldOutcomes DEF NoLimit
    <3>3. Loosened \in Int /\ Loosened <= floor.limited + release /\ Counted \in Int
      BY <2>1, Lengths DEF Loosened, Counted, Lesser
    <3> QED BY <2>1, <3>1, <3>2, <3>3, Lengths DEF EarnedBy
  <2>4. CASE Measure
    <3>1. floor' = Remembered /\ pc = "floor"
      BY <2>4 DEF Measure
    <3> QED BY <2>1, <3>1, RememberedParts, Lengths DEF Arms
  <2>5. CASE ClearWords
    <3>1. floor'.limited \in {0, floor.limited}
      BY <2>5 DEF ClearWords
    <3>2. resetting' # resetting
      <4>1. PICK words \in (SUBSET resetting) \ {{}} : resetting' = resetting \ words
        BY <2>5 DEF ClearWords
      <4>2. \E w : w \in words /\ w \in resetting
        BY <4>1
      <4> QED BY <4>1, <4>2
    <3> QED BY <2>1, <3>1, <3>2, Lengths
  <2>6. CASE LimitCleared
    <3>1. /\ pc = "blocked" /\ "limit" \in resetting /\ resetting' = resetting \ {"limit"}
          /\ floor'.limited \in {Tightened, Lesser(MeasuredLimit, release)}
      BY <2>1, <2>6, FloorParts DEF LimitCleared, ClearedMeanwhile
    <3>2. /\ floor.limited <= before /\ Sane(current) /\ Shortest <= accepted
          /\ floor.active => floor.limited > 0
      BY <1>1, <3>1 DEF IInv, EarnInv, MeasuredSane, Measured, Bracket, LimitOpen
    <3>3. /\ Tightened \in Int /\ MeasuredLimit \in Int
          /\ floor.active /\ Tightened > floor.limited => Tightened <= floor.limited + release
      BY <2>1, <3>2, TightenedArm
    <3> QED BY <2>1, <3>1, <3>2, <3>3, Lengths DEF EarnedBy, Lesser
  <2>7. CASE HoldCleared
    <3>1. /\ pc = "unblocked" /\ Counted > ClearFrames
          /\ "limit" \in resetting /\ resetting' = resetting \ {"limit"}
          /\ floor'.limited \in {Loosened, Lesser(desired, release)}
      BY <2>1, <2>7, FloorParts DEF HoldCleared, ClearedMeanwhile
    <3>2. floor.limited <= before /\ Counted <= unblocked
      BY <1>1, <3>1 DEF IInv, EarnInv
    <3>3. Counted \in Int
      BY <2>1, Lengths DEF Counted, Lesser
    <3> QED BY <2>1, <3>1, <3>2, <3>3, Lengths DEF EarnedBy, Loosened, Lesser
  <2>8. CASE ~(Limit \/ Hold \/ Measure \/ ClearWords \/ LimitCleared \/ HoldCleared)
    <3>1. floor' = floor
      BY <1>1, <2>8 DEF Next, Constrain, PlayerZooms, SceneMoves, Change, BeginUpdate,
                        EndUpdate, Toggle, AfterZoom, Collide, FloorOff, Bisect, Found, Write
    <3> QED BY <2>1, <3>1, Lengths
  <2> QED BY <2>2, <2>3, <2>4, <2>5, <2>6, <2>7, <2>8
<1>2. IInv /\ [Next]_vars =>
        [/\ Longer => EarnedBy(floor'.limited)
         /\ GivenUp => unblocked > ClearFrames]_vars
  BY <1>1
<1> QED BY <1>2, Invariant, PTL DEF Spec, ReleaseIsEarned
=============================================================================
