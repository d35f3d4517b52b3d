-------------------------- MODULE PlayersBindings --------------------------
(***************************************************************************)
(* What a launch promises the player.  The mod borrows the actions its     *)
(* flavor binds and gives back the others it still has, in one step: the   *)
(* player's binding is set aside when an action is borrowed and is back in *)
(* force when it is returned, unless the player has bound the action       *)
(* himself in the meantime.  There are no files, no plan and no game here. *)
(***************************************************************************)
CONSTANTS
  Actions,   \* what the game's input profile binds
  Borrowed,  \* the sets of actions a flavor binds
  Rebindings \* what the player can bind an action to, nothing included

VARIABLES
  inForce,  \* the bindings the game goes by
  setAside, \* the player's bindings of the borrowed actions
  orderly   \* has every launch so far been an orderly one

Borrow(a) ==
  /\ inForce'[a] = "mod"
  /\ setAside'[a] = IF setAside[a] = "unmanaged" THEN inForce[a] ELSE setAside[a]

GiveBack(a) ==
  /\ inForce'[a] = IF setAside[a] # "unmanaged" /\ inForce[a] = "mod"
                   THEN setAside[a] ELSE inForce[a]
  /\ setAside'[a] = "unmanaged"

Launch(A) ==
  /\ DOMAIN inForce' = Actions /\ DOMAIN setAside' = Actions
  /\ \A a \in Actions : IF a \in A THEN Borrow(a) ELSE GiveBack(a)

Rebind(a, v) ==
  /\ inForce' = [inForce EXCEPT ![a] = v]
  /\ UNCHANGED setAside

Init ==
  /\ inForce \in [Actions -> Rebindings]
  /\ setAside = [a \in Actions |-> "unmanaged"]
  /\ orderly = TRUE

(* Once a launch was not orderly, nothing is promised any more. *)
Next ==
  \/ orderly' = FALSE
  \/ /\ UNCHANGED orderly
     /\ \/ \E A \in Borrowed : Launch(A)
        \/ \E a \in Actions, v \in Rebindings : Rebind(a, v)

vars == <<inForce, setAside, orderly>>
Spec == Init /\ [][Next]_vars

(* What the player has himself bound an action to, were the mod gone.      *)
Own(a) == IF inForce[a] = "mod" THEN setAside[a] ELSE inForce[a]

(* A player's binding changes only when he changes it, or when a launch    *)
(* borrows again an action that he had bound while it was borrowed.        *)
OwnBindingsKept ==
  [][orderly' => \A a \in Actions :
       Own(a)' # Own(a) =>
         \/ \E v \in Rebindings : Rebind(a, v)
         \/ setAside[a] # "unmanaged" /\ inForce[a] # "mod" /\ inForce'[a] = "mod"]_vars
=============================================================================
