----------------------- MODULE PitchTransportProofs -----------------------
(***************************************************************************)
(* Safety of the vertical transport for any devices, samples and ranges,   *)
(* and that the mouse's accumulator is a TravelBank.                       *)
(***************************************************************************)
EXTENDS PitchTransport, TLAPS

(* An event is only worked on in RPG mode, and a mode change away from it  *)
(* has cleared the deflection before anything else is handled.             *)
StickSilent ==
  /\ inputPc \in {"gesture", "axis", "use", "store", "deflect"} => rpg
  /\ ~rpg /\ inputPc \in {"idle", "reset"} => stick = 0

(* A turn is always on record in gPitchIntegratedThisUpdate.               *)
TurnRecorded == turns <= 1 /\ (~integrated => turns = 0) /\ (~inside => turns = 0)

(* What the compare-exchange loop is about to add is a drag sample.        *)
DragPending == mainPc = "cas" => drag \in DragSamples

IInv == TypeOK /\ StickSilent /\ TurnRecorded /\ DragPending

-----------------------------------------------------------------------------
(* A result that passed isfinite lies in the accumulators' range. *)
LEMMA FiniteRange == \A x \in Int : Finite(x) <=> x \in Travel
  BY PitchConstants DEF Finite, Abs, Travel

(* Travel is a set of integers with zero in it.                            *)
LEMMA TravelNumbers == 0 \in Travel /\ Travel \subseteq Int
  BY PitchConstants DEF Travel

(* The event being handled always carries an integer.                      *)
LEMMA EventValue ==
  ASSUME ThreadsOK
  PROVE  event.value \in Samples \cup {0} /\ event.value \in Int
<1>1. CASE event \in Events
  <2>1. event.value \in Samples
    BY <1>1 DEF Events
  <2> QED BY <2>1, PitchConstants
<1>2. CASE event = NoEvent
  BY <1>2 DEF NoEvent
<1> QED BY <1>1, <1>2 DEF ThreadsOK

(* A just started session satisfies the inductive invariant.               *)
LEMMA InitIInv == Init => IInv
<1> SUFFICES ASSUME Init PROVE IInv
  OBVIOUS
<1>1. SwitchesOK
  BY DEF Init, SwitchesOK
<1>2. ThreadsOK
  BY DEF Init, ThreadsOK, Axes, MainLabels, InputLabels, CameraLabels
<1>3. AmountsOK
  BY PitchConstants DEF Init, AmountsOK, Travel
<1>4. StickSilent /\ TurnRecorded /\ DragPending
  BY DEF Init, StickSilent, TurnRecorded, DragPending
<1> QED BY <1>1, <1>2, <1>3, <1>4 DEF IInv, TypeOK

(* The main thread. *)
LEMMA MainKeeps == IInv /\ MainStep => IInv'
<1> SUFFICES ASSUME IInv PROVE MainStep => IInv'
  OBVIOUS
<1> USE DEF IInv, TypeOK, SwitchesOK, ThreadsOK, AmountsOK, StickSilent, TurnRecorded,
           DragPending, gestures, banks, main, input, getter, frame, target, MainAt,
           InputIdle, Outside, Axes, MainLabels, InputLabels, CameraLabels
<1>1. ASSUME GestureBegan PROVE IInv'
  BY <1>1, PitchConstants, FiniteRange DEF GestureBegan, Publish
<1>2. ASSUME NEW axis \in Axes, AxisDecided(axis) PROVE IInv'
  BY <1>2, PitchConstants, FiniteRange DEF AxisDecided, Publish
<1>3. ASSUME GestureEnded PROVE IInv'
  BY <1>3, PitchConstants, FiniteRange DEF GestureEnded
<1>4. ASSUME DropTravel PROVE IInv'
  <2>1. SwitchesOK'
    BY <1>4 DEF DropTravel, PastCheck
  <2>2. ThreadsOK'
    BY <1>4 DEF DropTravel
  <2>3. AmountsOK'
    BY <1>4, PitchConstants, TravelNumbers, FiniteRange DEF DropTravel
  <2>4. StickSilent' /\ TurnRecorded' /\ DragPending'
    BY <1>4 DEF DropTravel
  <2> QED BY <2>1, <2>2, <2>3, <2>4
<1>5. ASSUME DropStick PROVE IInv'
  BY <1>5, PitchConstants, FiniteRange DEF DropStick, Publish
<1>6. ASSUME PublishFlag PROVE IInv'
  BY <1>6, PitchConstants, FiniteRange DEF PublishFlag
<1>7. ASSUME PublishAxis PROVE IInv'
  BY <1>7, PitchConstants, FiniteRange DEF PublishAxis
<1>8. ASSUME NEW a \in DragSamples, DragStarted(a) PROVE IInv'
  BY <1>8, PitchConstants, FiniteRange DEF DragStarted
<1>9. ASSUME DragBanked PROVE IInv'
  <2>1. SwitchesOK'
    BY <1>9 DEF DragBanked
  <2>2. ThreadsOK'
    BY <1>9 DEF DragBanked
  <2>3. AmountsOK'
    BY <1>9, PitchConstants, TravelNumbers, FiniteRange DEF DragBanked
  <2>4. StickSilent' /\ TurnRecorded' /\ DragPending'
    BY <1>9 DEF DragBanked
  <2> QED BY <2>1, <2>2, <2>3, <2>4
<1>10. ASSUME ButtonUp PROVE IInv'
  <2>1. SwitchesOK'
    BY <1>10 DEF ButtonUp
  <2>2. ThreadsOK'
    BY <1>10 DEF ButtonUp
  <2>3. AmountsOK'
    BY <1>10, PitchConstants, TravelNumbers, FiniteRange DEF ButtonUp
  <2>4. StickSilent' /\ TurnRecorded' /\ DragPending'
    BY <1>10 DEF ButtonUp
  <2> QED BY <2>1, <2>2, <2>3, <2>4
<1> QED BY <1>1, <1>2, <1>3, <1>4, <1>5, <1>6, <1>7, <1>8, <1>9, <1>10 DEF MainStep

(* The input thread. *)
LEMMA InputKeeps == IInv /\ InputStep => IInv'
<1> SUFFICES ASSUME IInv PROVE InputStep => IInv'
  OBVIOUS
<1> USE DEF IInv, TypeOK, SwitchesOK, ThreadsOK, AmountsOK, StickSilent, TurnRecorded,
           DragPending, gestures, banks, main, input, getter, frame, target, MainAt,
           InputIdle, Outside, Axes, MainLabels, InputLabels, CameraLabels
<1>1. ASSUME NEW e \in Events, VerticalEvent(e) PROVE IInv'
  BY <1>1, PitchConstants, FiniteRange DEF VerticalEvent
<1>2. ASSUME CheckGesture PROVE IInv'
  BY <1>2, PitchConstants, FiniteRange DEF CheckGesture
<1>3. ASSUME CheckAxis PROVE IInv'
  BY <1>3, PitchConstants, FiniteRange DEF CheckAxis
<1>4. ASSUME Zoomed PROVE IInv'
  BY <1>4, PitchConstants, FiniteRange DEF Zoomed
<1>5. ASSUME LoadTravel PROVE IInv'
  <2>1. SwitchesOK'
    BY <1>5 DEF LoadTravel
  <2>2. ThreadsOK'
    BY <1>5 DEF LoadTravel
  <2>3. AmountsOK'
    BY <1>5, PitchConstants, TravelNumbers, FiniteRange, EventValue DEF LoadTravel
  <2>4. StickSilent' /\ TurnRecorded' /\ DragPending'
    BY <1>5 DEF LoadTravel
  <2> QED BY <2>1, <2>2, <2>3, <2>4
<1>6. ASSUME StoreTravel PROVE IInv'
  <2>1. SwitchesOK'
    BY <1>6 DEF StoreTravel
  <2>2. ThreadsOK'
    BY <1>6 DEF StoreTravel
  <2>3. AmountsOK'
    BY <1>6, PitchConstants, TravelNumbers, FiniteRange DEF StoreTravel
  <2>4. StickSilent' /\ TurnRecorded' /\ DragPending'
    BY <1>6 DEF StoreTravel
  <2> QED BY <2>1, <2>2, <2>3, <2>4
<1>7. ASSUME StoreDeflection PROVE IInv'
  <2>1. SwitchesOK'
    BY <1>7 DEF StoreDeflection
  <2>2. ThreadsOK'
    BY <1>7 DEF StoreDeflection
  <2>3. AmountsOK'
    BY <1>7, PitchConstants, TravelNumbers, FiniteRange, EventValue DEF StoreDeflection
  <2>4. StickSilent' /\ TurnRecorded' /\ DragPending'
    BY <1>7 DEF StoreDeflection
  <2> QED BY <2>1, <2>2, <2>3, <2>4
<1>8. ASSUME ToggleMode PROVE IInv'
  BY <1>8, PitchConstants, FiniteRange DEF ToggleMode
<1>9. ASSUME ClearStick PROVE IInv'
  BY <1>9, PitchConstants, FiniteRange DEF ClearStick
<1>10. ASSUME ResetPitchState PROVE IInv'
  <2>1. SwitchesOK'
    BY <1>10 DEF ResetPitchState
  <2>2. ThreadsOK'
    BY <1>10 DEF ResetPitchState
  <2>3. AmountsOK'
    BY <1>10, PitchConstants, TravelNumbers, FiniteRange DEF ResetPitchState
  <2>4. StickSilent' /\ TurnRecorded' /\ DragPending'
    BY <1>10 DEF ResetPitchState
  <2> QED BY <2>1, <2>2, <2>3, <2>4
<1> QED BY <1>1, <1>2, <1>3, <1>4, <1>5, <1>6, <1>7, <1>8, <1>9, <1>10 DEF InputStep

(* The camera thread. *)
LEMMA CameraKeeps == IInv /\ CameraStep => IInv'
<1> SUFFICES ASSUME IInv PROVE CameraStep => IInv'
  OBVIOUS
<1> USE DEF IInv, TypeOK, SwitchesOK, ThreadsOK, AmountsOK, StickSilent, TurnRecorded,
           DragPending, gestures, banks, main, input, getter, frame, target, MainAt,
           InputIdle, Outside, Axes, MainLabels, InputLabels, CameraLabels
<1>1. ASSUME NEW t \in BOOLEAN, BeginUpdate(t) PROVE IInv'
  <2>1. SwitchesOK'
    BY <1>1 DEF BeginUpdate
  <2>2. ThreadsOK'
    BY <1>1 DEF BeginUpdate
  <2>3. AmountsOK'
    BY <1>1, PitchConstants, TravelNumbers, FiniteRange DEF BeginUpdate
  <2>4. StickSilent' /\ TurnRecorded' /\ DragPending'
    BY <1>1 DEF BeginUpdate
  <2> QED BY <2>1, <2>2, <2>3, <2>4
<1>2. ASSUME EndUpdate PROVE IInv'
  <2>1. SwitchesOK'
    BY <1>2 DEF EndUpdate
  <2>2. ThreadsOK'
    BY <1>2 DEF EndUpdate
  <2>3. AmountsOK'
    BY <1>2, PitchConstants, TravelNumbers, FiniteRange DEF EndUpdate
  <2>4. StickSilent' /\ TurnRecorded' /\ DragPending'
    BY <1>2 DEF EndUpdate
  <2> QED BY <2>1, <2>2, <2>3, <2>4
<1>3. ASSUME GetterCalled PROVE IInv'
  BY <1>3, PitchConstants, FiniteRange DEF GetterCalled
<1>4. ASSUME GetterResets PROVE IInv'
  <2>1. SwitchesOK'
    BY <1>4 DEF GetterResets
  <2>2. ThreadsOK'
    BY <1>4 DEF GetterResets
  <2>3. AmountsOK'
    BY <1>4, PitchConstants, TravelNumbers, FiniteRange DEF GetterResets
  <2>4. StickSilent' /\ TurnRecorded' /\ DragPending'
    BY <1>4 DEF GetterResets
  <2> QED BY <2>1, <2>2, <2>3, <2>4
<1>5. ASSUME NEW v \in VanillaPitches, GetterAdopts(v) PROVE IInv'
  BY <1>5, PitchConstants, FiniteRange DEF GetterAdopts
<1>6. ASSUME DrainTravel PROVE IInv'
  <2>1. SwitchesOK'
    BY <1>6 DEF DrainTravel
  <2>2. ThreadsOK'
    BY <1>6 DEF DrainTravel
  <2>3. AmountsOK'
    BY <1>6, PitchConstants, TravelNumbers, FiniteRange DEF DrainTravel
  <2>4. StickSilent' /\ TurnRecorded' /\ DragPending'
    BY <1>6 DEF DrainTravel
  <2> QED BY <2>1, <2>2, <2>3, <2>4
<1>7. ASSUME DrainMouse PROVE IInv'
  <2>1. SwitchesOK'
    BY <1>7 DEF DrainMouse
  <2>2. ThreadsOK'
    BY <1>7 DEF DrainMouse
  <2>3. AmountsOK'
    BY <1>7, PitchConstants, TravelNumbers, FiniteRange DEF DrainMouse
  <2>4. StickSilent' /\ TurnRecorded' /\ DragPending'
    BY <1>7 DEF DrainMouse
  <2> QED BY <2>1, <2>2, <2>3, <2>4
<1>8. ASSUME Integrate PROVE IInv'
  <2>1. SwitchesOK'
    BY <1>8 DEF Integrate, Turn, Clamp
  <2>2. ThreadsOK'
    BY <1>8 DEF Integrate, Turn, Clamp
  <2>3. AmountsOK'
    BY <1>8, PitchConstants, TravelNumbers, FiniteRange DEF Integrate, Turn, Clamp
  <2>4. StickSilent' /\ TurnRecorded' /\ DragPending'
    BY <1>8 DEF Integrate, Turn, Clamp
  <2> QED BY <2>1, <2>2, <2>3, <2>4
<1> QED BY <1>1, <1>2, <1>3, <1>4, <1>5, <1>6, <1>7, <1>8 DEF CameraStep

(* Every step of the three threads keeps the inductive invariant.          *)
LEMMA StepKeeps == IInv /\ [Next]_vars => IInv'
<1> SUFFICES ASSUME IInv, [Next]_vars PROVE IInv'
  OBVIOUS
<1>1. CASE UNCHANGED vars
  BY <1>1 DEF vars, gestures, banks, main, input, getter, frame, target, IInv,
     TypeOK, SwitchesOK, ThreadsOK, AmountsOK, StickSilent, TurnRecorded, DragPending
<1> QED BY <1>1, MainKeeps, InputKeeps, CameraKeeps DEF Next

(* Every reachable state satisfies it. *)
THEOREM InductiveInvariant == Spec => []IInv
<1>1. Init => IInv
  BY InitIInv
<1>2. IInv /\ [Next]_vars => IInv'
  BY StepKeeps
<1> QED BY <1>1, <1>2, PTL DEF Spec

-----------------------------------------------------------------------------
(* No accumulator ever leaves the finite range.                            *)
THEOREM TypeCorrect == Spec => []TypeOK
<1>1. IInv => TypeOK
  BY DEF IInv
<1> QED BY <1>1, InductiveInvariant, PTL

(* An update moves the pitch at most once, however often it is asked for.  *)
THEOREM TurnsOnce == Spec => []OneTurnPerUpdate
<1>1. IInv => OneTurnPerUpdate
  BY DEF IInv, TurnRecorded, OneTurnPerUpdate
<1> QED BY <1>1, InductiveInvariant, PTL

(* No deflection is held across the time outside RPG mode.                 *)
THEOREM StickIsSilent == Spec => []SilentOutsideRpg
<1>1. IInv => SilentOutsideRpg
  BY DEF IInv, StickSilent, SilentOutsideRpg, InputIdle
<1> QED BY <1>1, InductiveInvariant, PTL

-----------------------------------------------------------------------------
(* Each thread's steps add one drag, empty the accumulator or leave it.    *)
LEMMA MouseStep == IInv /\ [Next]_vars => [MouseBank!Next]_mouse
<1> SUFFICES ASSUME IInv, [Next]_vars PROVE MouseBank!Next \/ UNCHANGED mouse
  OBVIOUS
<1> USE DEF gestures, banks, main, input, getter, frame, target
<1>1. CASE UNCHANGED vars
  BY <1>1 DEF vars
<1>2. CASE MainStep
  <2>1. ASSUME DragBanked PROVE MouseBank!Next \/ UNCHANGED mouse
    BY <2>1 DEF DragBanked, MainAt, IInv, DragPending, MouseBank!Next, MouseBank!Add,
       MouseBank!Empty
  <2>2. ASSUME ButtonUp PROVE MouseBank!Next
    BY <2>2 DEF ButtonUp, MouseBank!Next, MouseBank!Empty
  <2> QED BY <1>2, <2>1, <2>2 DEF MainStep, GestureBegan, AxisDecided, GestureEnded,
             DropTravel, DropStick, PublishFlag, PublishAxis, DragStarted
<1>3. CASE InputStep
  BY <1>3 DEF InputStep, VerticalEvent, CheckGesture, CheckAxis, Zoomed, LoadTravel,
     StoreTravel, StoreDeflection, ToggleMode, ClearStick, ResetPitchState
<1>4. CASE CameraStep
  <2>1. ASSUME DrainMouse PROVE MouseBank!Next
    BY <2>1 DEF DrainMouse, MouseBank!Next, MouseBank!Empty
  <2> QED BY <1>4, <2>1 DEF CameraStep, BeginUpdate, EndUpdate, GetterCalled,
             GetterResets, GetterAdopts, DrainTravel, Integrate
<1> QED BY <1>1, <1>2, <1>3, <1>4 DEF Next

(* Refinement: for every interleaving of MouseMiddleDragged's loop with    *)
(* the getter's exchange, the accumulator gains a sample as a whole or is  *)
(* emptied as a whole.                                                     *)
THEOREM MouseImplementsBank == Spec => MouseIsBank
<1>1. Init => MouseBank!Init
  BY DEF Init, MouseBank!Init
<1>2. IInv /\ [Next]_vars => [MouseBank!Next]_mouse
  BY MouseStep
<1> QED BY <1>1, <1>2, InductiveInvariant, PTL DEF Spec, MouseIsBank, MouseBank!Spec
-----------------------------------------------------------------------------
(* With the trackpad as the only device, what the end of a gesture discards *)
(* stays discarded until the next one begins, unless the discard overtook  *)
(* an event.                                                               *)
Quiet == ~gestureActive \/ mainPc \in {"dropStick", "publishOff"}
StaysDiscarded ==
  Devices = {"pointer"} /\ monitorActive /\ Quiet /\ ~overtaken
    => /\ ~PastCheck
       /\ travel = 0
       /\ MainAt("dropStick") \/ ~wheelIsPointer \/ stick = 0

(* The main thread keeps it: the discard itself marks what it overtakes.   *)
LEMMA MainDiscards == StaysDiscarded /\ MainStep => StaysDiscarded'
<1> SUFFICES ASSUME StaysDiscarded, MainStep PROVE StaysDiscarded'
  OBVIOUS
<1> USE DEF StaysDiscarded, Quiet, PastCheck, MainAt, Publish, gestures, banks, main,
           input, getter, frame, target
<1>1. CASE GestureBegan \/ GestureEnded \/ \E axis \in Axes : AxisDecided(axis)
  BY <1>1 DEF GestureBegan, GestureEnded, AxisDecided
<1>2. CASE DropTravel
  BY <1>2 DEF DropTravel
<1>3. CASE DropStick
  BY <1>3 DEF DropStick
<1>4. CASE PublishFlag \/ PublishAxis
  BY <1>4 DEF PublishFlag, PublishAxis
<1>5. CASE (\E a \in DragSamples : DragStarted(a)) \/ DragBanked \/ ButtonUp
  BY <1>5 DEF DragStarted, DragBanked, ButtonUp
<1> QED
  BY <1>1, <1>2, <1>3, <1>4, <1>5 DEF MainStep

(* The input thread keeps it: an event passes the check only during a      *)
(* gesture, and only then anything is stored.                              *)
LEMMA InputDiscards ==
  IInv /\ StaysDiscarded /\ InputStep => StaysDiscarded'
<1> SUFFICES ASSUME IInv, StaysDiscarded, InputStep PROVE StaysDiscarded'
  OBVIOUS
<1> USE DEF StaysDiscarded, Quiet, PastCheck, MainAt, gestures, banks, main, input,
           getter, frame, target
<1>1. ASSUME NEW e \in Events, VerticalEvent(e) PROVE StaysDiscarded'
  BY <1>1 DEF VerticalEvent, InputIdle, Events
<1>2. CASE CheckGesture
  BY <1>2 DEF CheckGesture, IInv, TypeOK, SwitchesOK
<1>3. CASE CheckAxis \/ Zoomed
  BY <1>3 DEF CheckAxis, Zoomed
<1>4. CASE LoadTravel \/ StoreTravel \/ StoreDeflection
  BY <1>4 DEF LoadTravel, StoreTravel, StoreDeflection
<1>5. CASE ToggleMode \/ ClearStick \/ ResetPitchState
  BY <1>5 DEF ToggleMode, ClearStick, ResetPitchState, InputIdle
<1> QED
  BY <1>1, <1>2, <1>3, <1>4, <1>5 DEF InputStep

(* The getter only ever empties.                                           *)
LEMMA CameraDiscards == StaysDiscarded /\ CameraStep => StaysDiscarded'
<1> SUFFICES ASSUME StaysDiscarded, CameraStep PROVE StaysDiscarded'
  OBVIOUS
<1> USE DEF StaysDiscarded, Quiet, PastCheck, MainAt, gestures, banks, main, input,
           frame, target
<1>1. CASE (\E t \in BOOLEAN : BeginUpdate(t)) \/ EndUpdate
  BY <1>1 DEF BeginUpdate, EndUpdate
<1>2. CASE GetterCalled
  BY <1>2 DEF GetterCalled
<1>3. CASE GetterResets \/ \E v \in VanillaPitches : GetterAdopts(v)
  BY <1>3 DEF GetterResets, GetterAdopts
<1>4. CASE DrainTravel
  BY <1>4 DEF DrainTravel
<1>5. CASE DrainMouse \/ Integrate
  BY <1>5 DEF DrainMouse, Integrate
<1> QED
  BY <1>1, <1>2, <1>3, <1>4, <1>5 DEF CameraStep

(* "The camera stops the instant the fingers lift", vertically, for every  *)
(* sample and range, up to one cause: an event the discard overtook.       *)
THEOREM PitchStops == Spec => []PitchStopsUnlessOvertaken
<1>1. Init => StaysDiscarded
  BY DEF Init, StaysDiscarded, PastCheck
<1>2. IInv /\ StaysDiscarded /\ [Next]_vars => StaysDiscarded'
  <2>1. StaysDiscarded /\ UNCHANGED vars => StaysDiscarded'
    BY DEF StaysDiscarded, Quiet, PastCheck, MainAt, vars, gestures, banks, main, input
  <2> QED
    BY <2>1, MainDiscards, InputDiscards, CameraDiscards DEF Next
<1>3. StaysDiscarded => PitchStopsUnlessOvertaken
  BY DEF StaysDiscarded, Quiet, PitchStopsUnlessOvertaken, PitchStopsOnLift, MainAt
<1> QED
  BY <1>1, <1>2, <1>3, InductiveInvariant, PTL DEF Spec
=============================================================================
