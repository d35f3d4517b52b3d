--------------------------- MODULE MCHookInstaller ---------------------------
EXTENDS HookInstaller

(* InstallCameraHooks with keyboard movement requested. *)
CameraHooks == <<"entry", "entry", "entry", "entry", "entry",
                 "mid", "mid", "mid", "tail", "word">>

(* They are taken out backwards, but for the two input hooks. *)
Backwards == <<2, 1, 3, 4, 5, 6, 7, 8, 9, 10>>

(* A layout in which neighbours in the plan and sites far apart share a    *)
(* page, one patch straddles two, and some have a page of their own.       *)
Layout == <<{1}, {1}, {2}, {3}, {4}, {4}, {4, 5}, {5}, {6}, {1}>>
=============================================================================
