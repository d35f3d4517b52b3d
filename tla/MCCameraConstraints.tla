------------------------- MODULE MCCameraConstraints -------------------------
EXTENDS CameraConstraints, TLC

CONSTANTS c1, c2

CameraObjects == {c1, c2}
EitherCamera == Permutations(CameraObjects)

(* What k probes resolve doubles with each. *)
Doubling == [k \in 0 .. Probes |-> Tolerance * 2 ^ k]

(* Nothing blocked, all arms from 3 on, and a stair that leaves only an    *)
(* arm of 3 clear; nothing in the way, or a wall.                          *)
Rooms == {1 .. ArmMax, 1 .. 2, {3}}
Walls == {4, ArmMax + 1}

(* All in order, no usable hit distance, nothing.                          *)
Answers == {Queries, {"obstacles", "floor"}, {}}
=============================================================================
