------------------------------ MODULE Startup ------------------------------
(***************************************************************************)
(* Initialize and what hangs on it: the configuration, the search for the  *)
(* patterns, the installation or the refusal, and the zoom bounds that the *)
(* active mod writes into the game's camera definitions.                   *)
(*                                                                         *)
(* CameraConfig and PatternScan do the first two.  Installing is one step  *)
(* here (HookInstaller has its parts), and so is activating (Lifecycle).   *)
(***************************************************************************)
EXTENDS CameraConfig, PatternScan

CONSTANTS
  GuardOffset, \* where in the guard the branch is
  CbzW8,       \* the encodings of CBZ W8
  Definitions, \* pairs of arm bounds: camera definition and input device
  Authored     \* bounds the game may author

VARIABLES
  phase,    \* how far the mod is
  patched,  \* addresses whose code was replaced
  usable,   \* gZoomBoundsUsable
  captured, \* gAuthoredZoomBounds, if gZoomBoundsCaptured
  bounds,   \* minimum and maximum arm of each definition, in hundredths
  authored  \* history: the bounds as the game last wrote them

boundsVars == <<usable, captured, bounds, authored>>
vars == <<configVars, scanVars, phase, patched, boundsVars>>

ZoomBounds == [min : Int, max : Int]

ASSUME StartupConstants ==
  /\ Authored \subseteq ZoomBounds
  /\ GuardOffset \in Nat /\ GuardOffset + 3 < Len(GuardPattern.bytes)

-----------------------------------------------------------------------------
LoadConfig ==
  /\ phase = "loading" /\ LoadCameraConfig
  /\ UNCHANGED <<scanVars, phase, patched, boundsVars>>

(* LoadCameraConfig returns, and its locals are gone. *)
LocateText ==
  /\ phase = "loading" /\ Loaded
  /\ \E images \in ImageLists : Locate(images)
  /\ phase' = "scanning"
  /\ file' = <<>> /\ line' = 1 /\ candidate' = Defaults /\ saw' = {}
  /\ loading' = "over"
  /\ UNCHANGED <<wasd, config, patched, boundsVars>>

Scan ==
  /\ phase = "scanning"
  /\ LET required == RequiredPatterns(wasd) IN
       FindAll(required) \/ Conclude(required) \/ Verify(required)
  /\ UNCHANGED <<configVars, phase, patched, boundsVars>>

(* "Pattern verification failed; no memory was modified". *)
Refuse ==
  /\ phase = "scanning" /\ scan \in {"noText", "mismatch"}
  /\ phase' = "aborted"
  /\ UNCHANGED <<configVars, scanVars, patched, boundsVars>>

-----------------------------------------------------------------------------
Hooked == {address[n] : n \in {m \in Names \ {GuardPattern.name} : address[m] # 0}}

KeyboardMovementRequested == wasd /\ config.keyboardMovement # 0
GuardBranch == address[GuardPattern.name] + GuardOffset
IsCbzW8(o) == SubSeq(text, o, o + 3) \in CbzW8

(* Variant: what is at the guard is not looked at. *)
InstallUnseen ==
  /\ phase = "scanning" /\ scan = "verified"
  /\ patched' = Hooked \cup IF KeyboardMovementRequested THEN {GuardBranch} ELSE {}
  /\ phase' = "dormant"
  /\ UNCHANGED <<configVars, scanVars, boundsVars>>

(* InstallCameraHooks.  The branch is a wildcard of its pattern, so it is  *)
(* looked at before it is replaced.                                        *)
Install ==
  /\ phase = "scanning" /\ scan = "verified"
  /\ KeyboardMovementRequested => IsCbzW8(GuardBranch)
  /\ patched' = Hooked \cup IF KeyboardMovementRequested THEN {GuardBranch} ELSE {}
  /\ phase' = "dormant"
  /\ UNCHANGED <<configVars, scanVars, boundsVars>>

NotABranch ==
  /\ phase = "scanning" /\ scan = "verified"
  /\ KeyboardMovementRequested /\ ~IsCbzW8(GuardBranch)
  /\ phase' = "aborted"
  /\ UNCHANGED <<configVars, scanVars, patched, boundsVars>>

-----------------------------------------------------------------------------
(* ZoomBoundsLookAuthored: kMinimum- and kMaximumPlausibleZoomBound.       *)
LookAuthored(b) == 5 <= b.min /\ b.max <= 50000 /\ b.min < b.max

MaximumAsked == config.maximumZoomDistance
MinimumAsked == config.minimumZoomDistance
Larger(a, b) == IF a < b THEN b ELSE a

(* ApplyZoomBounds; 0 keeps the game's limit. *)
Applied(b) ==
  [min |-> IF MinimumAsked # 0 THEN MinimumAsked ELSE b.min,
   max |-> IF MaximumAsked # 0 THEN Larger(MaximumAsked, MinimumAsked) ELSE b.max]

AppliedToAll == [d \in Definitions |-> Applied(bounds[d])]

(* ActivateCameraHooks: the bounds are captured if they look authored.     *)
Activate ==
  /\ phase = "dormant"
  /\ phase' = "active"
  /\ usable' = \A d \in Definitions : LookAuthored(bounds[d])
  /\ IF usable' THEN captured' = bounds /\ bounds' = AppliedToAll
                ELSE UNCHANGED <<captured, bounds>>
  /\ UNCHANGED <<configVars, scanVars, patched, authored>>

(* UpdateGameCameraBehaviorHook, on whatever the definitions hold by then. *)
Update ==
  /\ phase = "active" /\ usable
  /\ MinimumAsked # 0 \/ MaximumAsked # 0
  /\ bounds' = AppliedToAll
  /\ UNCHANGED <<configVars, scanVars, phase, patched, usable, captured, authored>>

(* The game authors a definition, at the start or on a zone change. *)
GameAuthors ==
  /\ phase \in {"dormant", "active"}
  /\ \E d \in Definitions, b \in Authored :
       /\ bounds' = [bounds EXCEPT ![d] = b]
       /\ authored' = [authored EXCEPT ![d] = b]
  /\ UNCHANGED <<configVars, scanVars, phase, patched, usable, captured>>

(* RemoveCameraHooks. *)
Remove ==
  /\ phase \in {"dormant", "active"}
  /\ phase' = "removed" /\ patched' = {} /\ captured' = <<>>
  /\ bounds' = IF captured = <<>> THEN bounds ELSE captured
  /\ UNCHANGED <<configVars, scanVars, usable, authored>>

-----------------------------------------------------------------------------
Init ==
  /\ InitConfig /\ InitScan
  /\ phase = "loading" /\ patched = {} /\ usable = FALSE /\ captured = <<>>
  /\ \E b \in Authored : bounds = [d \in Definitions |-> b]
  /\ authored = bounds

Next ==
  \/ LoadConfig \/ LocateText \/ Scan \/ Refuse \/ Install \/ NotABranch
  \/ Activate \/ Update \/ GameAuthors \/ Remove

Spec == Init /\ [][Next]_vars

-----------------------------------------------------------------------------
(* Types, CameraConfig's and PatternScan's included. *)
TypeOK ==
  /\ ConfigTypeOK /\ ScanTypeOK
  /\ phase \in {"loading", "scanning", "aborted", "dormant", "active", "removed"}
  /\ patched \subseteq Nat
  /\ usable \in BOOLEAN
  /\ captured = <<>> \/ captured \in [Definitions -> ZoomBounds]
  /\ bounds \in [Definitions -> ZoomBounds] /\ authored \in [Definitions -> Authored]

Unique(p) == \E o \in Offsets(p) : OnlyPlace(p, o)

(* Code is only replaced where it was identified: at the one place where a *)
(* pattern of this build occurs, every other required pattern being there  *)
(* just once too, and at the guard only if movement is configured, the     *)
(* build has it, and a CBZ W8 is there.  "A game update fails closed       *)
(* rather than patching an uncertain branch."                              *)
PatchedAsLocated ==
  patched # {} =>
    LET required == RequiredPatterns(wasd)
        guards == {o + GuardOffset : o \in Occurrences(GuardPattern)}
    IN  /\ \A k \in DOMAIN required : Unique(required[k])
        /\ \A a \in patched :
             \/ \E k \in DOMAIN CameraPatterns : OnlyPlace(CameraPatterns[k], a)
             \/ /\ wasd /\ config.keyboardMovement # 0
                /\ guards = {a} /\ IsCbzW8(a)

Ordered(b) == b.min < b.max
Ours(d) == bounds[d] # authored[d] /\ phase = "active"

(* A limit configured alone is compared with nothing of the game's. *)
WithinGames(b) ==
  /\ MaximumAsked = 0 => MinimumAsked < b.max
  /\ MinimumAsked = 0 => b.min < MaximumAsked

(* The bounds the mod leaves behind are a range, over whatever the game    *)
(* has authored by then, when both limits are configured, and when the one *)
(* that is configured alone lies within the game's range.                  *)
(* CameraConfig: "the maximum must exceed the minimum"; ApplyZoomBounds.   *)
BoundsStayARange ==
  \A d \in Definitions : Ours(d) /\ WithinGames(authored[d]) => Ordered(bounds[d])

(* What does not hold: a lone minimum may lie above the game's maximum. *)
AlwaysARange ==
  \A d \in Definitions : Ours(d) /\ Ordered(authored[d]) => Ordered(bounds[d])
=============================================================================
