----------------------------- MODULE TravelBank -----------------------------
(***************************************************************************)
(* What a travel accumulator promises the camera: it gains a sample at a   *)
(* time, as a whole, and is emptied as a whole.  A unit that was taken     *)
(* never comes back and a sample that was added never goes missing on its  *)
(* own.  gWheelRotateTravel, gMousePitchTravel and gPitchTravel are each   *)
(* meant to be one.                                                        *)
(***************************************************************************)
EXTENDS Integers

CONSTANT Amounts      \* the travel one sample can carry

VARIABLE bank

Init == bank = 0
Add(a) == bank' = bank + a
Empty == bank' = 0

Next == Empty \/ \E a \in Amounts : Add(a)

Spec == Init /\ [][Next]_bank
=============================================================================
