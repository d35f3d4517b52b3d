---------------------------- MODULE CameraConfig ----------------------------
(***************************************************************************)
(* LoadCameraConfig: a file of Key=Value lines becomes gConfig.            *)
(*                                                                         *)
(* The lines go into a candidate one by one.  A rejected line leaves what  *)
(* was there.  At the end pairs that contradict each other revert to their *)
(* defaults, the keys of older versions stand in for the canonical ones    *)
(* the file did not set, and the candidate becomes the configuration.      *)
(*                                                                         *)
(* Numbers are in hundredths.  A truth value is 100 or 0, like the texts 1 *)
(* and 0 it can be written as; a text without any reading is Garbage.      *)
(***************************************************************************)
EXTENDS Integers, Sequences

CONSTANTS
  Files,   \* what the configuration file may hold: sequences of lines
  Garbage  \* a value that is neither a number nor a truth value

VARIABLES
  wasd,      \* BG3_CAMERA_WITH_WASD, the flavor of the build
  file,      \* the lines of the file
  loading,   \* where LoadCameraConfig is
  line,      \* the next line
  candidate, \* candidate
  saw,       \* saw...: canonical keys the file has set
  config     \* gConfig

configVars == <<wasd, file, loading, line, candidate, saw, config>>

-----------------------------------------------------------------------------
(* CameraConfig.hpp: the members and their defaults. *)
Defaults ==
  [configVersion |-> 100,
   pitchMinimumDegrees |-> -4500, pitchMaximumDegrees |-> 8500,
   horizontalSensitivity |-> 200, pointerRotateSensitivity |-> 300,
   verticalSensitivity |-> 100,
   gamepadHorizontalSensitivity |-> 200, gamepadVerticalSensitivity |-> 100,
   trackpadHorizontalSensitivity |-> 100, trackpadVerticalSensitivity |-> 100,
   mouseHorizontalSensitivity |-> 100, mouseVerticalSensitivity |-> 100,
   pointerRotationNative |-> 100, pointerRotationHoldsHeading |-> 100,
   pointerRotateSmoothingMilliseconds |-> 3000,
   pointerRotationFollowHoldSeconds |-> 360000,
   zoomSensitivity |-> 60, zoomResponseCurve |-> 200, zoomMinimumResponse |-> 12,
   zoomForceActive |-> 100,
   pointerZoomModifierEvent |-> 0, pointerZoomModifierToggle |-> 0,
   pointerZoomHoldButton |-> 0,
   zoomDeviceId |-> -100, zoomDeviceSensitivity |-> 25, stickDeadzone |-> 15,
   minimumZoomDistance |-> 50, maximumZoomDistance |-> 0,
   keyboardMovement |-> 100, verboseLogging |-> 0,
   obstacleCollision |-> 100, floorProtection |-> 100,
   collisionSafetyMargin |-> 20, floorSafetyOffset |-> 100]

Settings == DOMAIN Defaults

(* The bounds AssignFloat is called with. *)
Ranges ==
  [pitchMinimumDegrees |-> <<-8900, 8800>>, pitchMaximumDegrees |-> <<-8800, 8900>>,
   horizontalSensitivity |-> <<10, 400>>, pointerRotateSensitivity |-> <<10, 800>>,
   verticalSensitivity |-> <<10, 300>>,
   gamepadHorizontalSensitivity |-> <<10, 400>>,
   gamepadVerticalSensitivity |-> <<10, 300>>,
   trackpadHorizontalSensitivity |-> <<10, 800>>,
   trackpadVerticalSensitivity |-> <<10, 300>>,
   mouseHorizontalSensitivity |-> <<10, 800>>,
   mouseVerticalSensitivity |-> <<10, 300>>,
   pointerRotateSmoothingMilliseconds |-> <<0, 25000>>,
   pointerRotationFollowHoldSeconds |-> <<0, 360000>>,
   zoomSensitivity |-> <<5, 300>>, zoomResponseCurve |-> <<100, 400>>,
   zoomMinimumResponse |-> <<0, 50>>, zoomDeviceSensitivity |-> <<1, 100>>,
   stickDeadzone |-> <<0, 80>>, collisionSafetyMargin |-> <<0, 200>>,
   floorSafetyOffset |-> <<0, 300>>]

(* The keys read by ParseBool. *)
Switches ==
  {"pointerRotationNative", "pointerRotationHoldsHeading", "zoomForceActive",
   "pointerZoomModifierToggle", "keyboardMovement", "verboseLogging",
   "obstacleCollision", "floorProtection"}

(* The whole numbers, and the largest value each may have. *)
Wholes == [configVersion |-> 1000000, pointerZoomModifierEvent |-> 65535,
           pointerZoomHoldButton |-> 3]

(* These are stored by ParseInt before they are compared with their bound. *)
StoredFirst == {"pointerZoomModifierEvent", "pointerZoomHoldButton"}

Canonical ==
  {"gamepadHorizontalSensitivity", "gamepadVerticalSensitivity",
   "trackpadHorizontalSensitivity", "trackpadVerticalSensitivity"}

(* Lines that set nothing: blank, comment or section, no separator, and a  *)
(* key this build does not know.                                           *)
Idle == {"blank", "noSeparator", "unknownKey"}

Lines == [key : Settings \cup Idle, text : Int \cup {Garbage}]

ASSUME ConfigConstants ==
  /\ Files \subseteq Seq(Lines) /\ <<>> \in Files
  /\ Garbage \notin Int

-----------------------------------------------------------------------------
(* ParseFloat, ParseInt and ParseDeviceId; hundredths of a whole number.   *)
Number(text, low, high) == text # Garbage /\ low <= text /\ text <= high
Whole(text, low, high) ==
  text # Garbage /\ text % 100 = 0 /\ low * 100 <= text /\ text <= high * 100

Valid(l) ==
  \/ l.key \in DOMAIN Ranges /\ Number(l.text, Ranges[l.key][1], Ranges[l.key][2])
  \/ l.key \in Switches /\ l.text \in {0, 100}
  \/ l.key \in DOMAIN Wholes /\ Whole(l.text, 0, Wholes[l.key])
  \/ l.key = "zoomDeviceId" /\ Whole(l.text, -1, 65535)
  \/ l.key = "minimumZoomDistance" /\ (l.text = 0 \/ Number(l.text, 5, 5000))
  \/ l.key = "maximumZoomDistance" /\ (l.text = 0 \/ Number(l.text, 100, 50000))

(* Variant: stored as it stands, and checked afterwards. *)
StoredUnread(l) == l.key \in Settings

Stored(l) ==
  Valid(l) \/ (l.key \in StoredFirst /\ Whole(l.text, 0, 1000000))

(* keyboardMovement is forced off by the Camera Only flavor. *)
Flavored(c) == IF wasd THEN c ELSE [c EXCEPT !.keyboardMovement = 0]

Revert(c, keys) ==
  [k \in Settings |-> IF k \in keys THEN Defaults[k] ELSE c[k]]

(* Variant: an equal pair passes. *)
EqualZoomPair(c) ==
  IF c.maximumZoomDistance # 0 /\ c.minimumZoomDistance # 0
       /\ c.maximumZoomDistance < c.minimumZoomDistance
  THEN Revert(c, {"minimumZoomDistance", "maximumZoomDistance"}) ELSE c

CheckedZoomPair(c) ==
  IF c.maximumZoomDistance # 0 /\ c.minimumZoomDistance # 0
       /\ c.maximumZoomDistance <= c.minimumZoomDistance
  THEN Revert(c, {"minimumZoomDistance", "maximumZoomDistance"}) ELSE c

CheckedPitchPair(c) ==
  IF c.pitchMinimumDegrees >= c.pitchMaximumDegrees
  THEN Revert(c, {"pitchMinimumDegrees", "pitchMaximumDegrees"}) ELSE c

(* kTrackpadYawBaseCalibration; quotients are rounded down. *)
Legacy(c, key) ==
  CASE key = "gamepadHorizontalSensitivity" -> c.horizontalSensitivity
    [] key = "trackpadHorizontalSensitivity" -> c.pointerRotateSensitivity \div 3
    [] OTHER -> c.verticalSensitivity

(* Variant: a legacy key wins as soon as it is not at its default. *)
FoldedIfChanged(c) ==
  [k \in Settings |->
     IF k \in Canonical /\ Legacy(c, k) # Legacy(Defaults, k)
     THEN Legacy(c, k) ELSE c[k]]

Folded(c) ==
  [k \in Settings |-> IF k \in Canonical \ saw THEN Legacy(c, k) ELSE c[k]]

-----------------------------------------------------------------------------
(* No path, or a file that cannot be opened: "using safe defaults". *)
SafeDefaults ==
  /\ loading = "start"
  /\ loading' = "defaults" /\ config' = Flavored(Defaults)
  /\ UNCHANGED <<wasd, file, line, candidate, saw>>

OpenFile ==
  /\ loading = "start"
  /\ loading' = "reading" /\ config' = Flavored(Defaults)
  /\ UNCHANGED <<wasd, file, line, candidate, saw>>

ReadLine ==
  /\ loading = "reading" /\ line <= Len(file)
  /\ line' = line + 1
  /\ LET l == file[line] IN
       /\ candidate' =
            IF l.key \in Settings
            THEN LET read == IF Stored(l) THEN [candidate EXCEPT ![l.key] = l.text]
                                          ELSE candidate
                 IN  IF l.key = "keyboardMovement" THEN Flavored(read) ELSE read
            ELSE candidate
       /\ saw' = IF l.key \in Canonical /\ Valid(l) THEN saw \cup {l.key} ELSE saw
  /\ UNCHANGED <<wasd, file, loading, config>>

FinishConfig ==
  /\ loading = "reading" /\ line > Len(file)
  /\ loading' = "loaded"
  /\ config' = Flavored(Folded(CheckedPitchPair(CheckedZoomPair(candidate))))
  /\ UNCHANGED <<wasd, file, line, candidate, saw>>

LoadCameraConfig == SafeDefaults \/ OpenFile \/ ReadLine \/ FinishConfig
Loaded == loading \in {"defaults", "loaded"}

InitConfig ==
  /\ wasd \in BOOLEAN /\ file \in Files
  /\ loading = "start" /\ line = 1 /\ candidate = Defaults /\ saw = {}
  /\ config = Defaults

-----------------------------------------------------------------------------
Configs == [Settings -> Int]

ConfigTypeOK ==
  /\ wasd \in BOOLEAN /\ file \in Files
  /\ loading \in {"start", "defaults", "reading", "loaded", "over"}
  /\ line \in 1 .. Len(file) + 1
  /\ candidate \in Configs /\ config \in Configs
  /\ saw \subseteq Canonical

(* What the first n lines say of a key: the last of them that is valid.    *)
Written(key, n) == {i \in 1 .. n : file[i].key = key /\ Valid(file[i])}

Last(S) == CHOOSE i \in S : \A j \in S : j <= i
Said(key, n) ==
  IF Written(key, n) = {} THEN Defaults[key] ELSE file[Last(Written(key, n))].text

WholeFile == [key \in Settings |-> Said(key, Len(file))]

(* The setting a file is meant to give.  Pairs stand or fall together.     *)
Intended(key) ==
  CASE key = "keyboardMovement" /\ ~wasd -> 0
    [] key \in Canonical /\ Written(key, Len(file)) = {} -> Legacy(WholeFile, key)
    [] key \in {"minimumZoomDistance", "maximumZoomDistance"} -> CheckedZoomPair(WholeFile)[key]
    [] key \in {"pitchMinimumDegrees", "pitchMaximumDegrees"} -> CheckedPitchPair(WholeFile)[key]
    [] OTHER -> WholeFile[key]

(* No line of the key is stored and yet reported as ignored. *)
Clean(key) ==
  \A i \in 1 .. Len(file) : file[i].key = key /\ Stored(file[i]) => Valid(file[i])

(* However the lines are ordered and repeated: the configuration is what   *)
(* the last valid line of each key says, a canonical key counts for more   *)
(* than its older alias wherever it stands, a contradictory pair reverts   *)
(* as a pair, and a Camera Only build never moves the character.  An       *)
(* unreadable file gives the defaults.  LoadCameraConfig, "a canonical key *)
(* always wins over its legacy alias, whatever the line order".            *)
LoadedAsWritten ==
  /\ loading = "defaults" => config = Flavored(Defaults)
  /\ loading = "loaded" =>
       \A key \in Settings : Clean(key) => config[key] = Intended(key)

(* What does not hold: "Invalid values never become active" for the two    *)
(* keys that are stored first.                                             *)
RejectedNeverActive ==
  Loaded => \A key \in StoredFirst : Valid([key |-> key, text |-> config[key]])
=============================================================================
