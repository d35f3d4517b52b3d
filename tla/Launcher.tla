------------------------------ MODULE Launcher ------------------------------
(***************************************************************************)
(* What the launcher leaves on disk.                                       *)
(*                                                                         *)
(* Before it starts the game, a launch merges its flavor's bindings into   *)
(* the player's input profile and takes back those of the other flavor,    *)
(* by a state file that says, per action, what was there before; it sets   *)
(* the game's NoLauncher preference and puts it back after the verdict.    *)
(* The game reads the profile when it starts and writes it when it exits.  *)
(*                                                                         *)
(* Every write can fail, both reads can, and the launcher can end          *)
(* anywhere.  Everything is abstracted to who wrote a binding: the mod,    *)
(* the player, or nobody.                                                  *)
(***************************************************************************)
EXTENDS Naturals

CONSTANTS
  Shared, WasdOnly, \* actions both flavors bind, and those only one does
  Choices,          \* bindings a player can choose
  Disturbances,     \* what may happen besides an orderly launch
  Launches          \* bound: how often a launcher is opened

ASSUME LauncherConstants ==
  /\ Shared # {} /\ Shared \cap WasdOnly = {}
  /\ Choices \cap {"mod", "absent", "unmanaged"} = {}
  /\ Disturbances \subseteq {"crash", "unsaved", "overlap", "unsynchronized",
                             "unreadProfile", "unreadRecord"}
  /\ Launches \in Nat

VARIABLES
  launcher,   \* where main is
  flavor,     \* the flavor the launcher was built for
  opened,     \* launchers opened so far
  profile,    \* inputconfig_p1.json: who bound each action
  state,      \* the state file: previous binding of every managed action
  backup,     \* the snapshot beside the profile
  toWrite, toSave, \* the plan of this launch
  memory,     \* the bindings a running game holds
  preference, \* NoLauncher as stored: "yes", or any other value
  snapshot,   \* PreferenceSnapshot, "absent" once it is released
  chosen,     \* history: NoLauncher as the player left it
  disturbed   \* history: what a disturbance so far may have spoilt

files == <<profile, state, backup>>
plan == <<toWrite, toSave>>
stored == <<preference, snapshot, chosen>>
vars == <<launcher, flavor, opened, files, plan, memory, stored, disturbed>>

Actions == Shared \cup WasdOnly
Flavors == {"camera-only", "camera-wasd"}
Values == Choices \cup {"mod", "absent"}
Profiles == [Actions -> Values]
States == [flavor : Flavors \cup {"none"},
           previous : [Actions -> Values \cup {"unmanaged"}]]
NoState == [flavor |-> "none", previous |-> [a \in Actions |-> "unmanaged"]]

Preferences == {"absent", "yes"}

Games == {"injected", "vanilla"}
NoProfile == [a \in Actions |-> "unmanaged"]
Running(g) == memory[g] # NoProfile

(* The bindings read from an unreadable profile. *)
NoBindings == [a \in Actions |-> "absent"]

(* What can be spoilt: the record of the mod's bindings, the player's own  *)
(* ones in the profile, the preference.                                    *)
Things == {"record", "profile", "preference"}
Spared(what) == disturbed \cap what = {}
Disturb(d, what) == d \in Disturbances /\ disturbed' = disturbed \cup what

-----------------------------------------------------------------------------
(* ComputeBindingPlan.                                                     *)
Desired(f) == IF f = "camera-wasd" THEN Actions ELSE Shared
Managed(s, a) == s.previous[a] # "unmanaged"

(* Variant: whatever this flavor does not bind is put back. *)
MergedBlindly(p, s, f) ==
  [a \in Actions |-> IF a \in Desired(f) THEN "mod"
                     ELSE IF p[a] = "mod" THEN s.previous[a] ELSE p[a]]

Merged(p, s, f) ==
  [a \in Actions |->
     IF a \in Desired(f) THEN "mod"
     ELSE IF Managed(s, a) /\ p[a] = "mod" THEN s.previous[a] ELSE p[a]]

(* Variant: what was there before is read from the profile every time. *)
RecordedAnew(p, s, f) ==
  [flavor |-> f,
   previous |-> [a \in Actions |-> IF a \in Desired(f) THEN p[a] ELSE "unmanaged"]]

Recorded(p, s, f) ==
  [flavor |-> f,
   previous |-> [a \in Actions |->
     IF a \notin Desired(f) THEN "unmanaged"
     ELSE IF Managed(s, a) THEN s.previous[a] ELSE p[a]]]

NothingToDo(p, s, f) == Merged(p, s, f) = p /\ Recorded(p, s, f) = s

-----------------------------------------------------------------------------
(* main, until the bindings are applied.                                   *)
At(label) == launcher = label
NoPlan == toWrite' = NoProfile /\ toSave' = NoState
Applied == launcher' = "prefer" /\ NoPlan

Open(f) ==
  /\ At("closed") /\ opened < Launches
  /\ \A g \in Games : ~Running(g)
  /\ launcher' = "checked" /\ flavor' = f /\ opened' = opened + 1
  /\ UNCHANGED <<files, plan, memory, stored, disturbed>>

(* No game, no Steam, no configuration, a missing library. *)
Refuse ==
  /\ At("checked")
  /\ launcher' = "closed"
  /\ UNCHANGED <<flavor, opened, files, plan, memory, stored, disturbed>>

(* ApplyInputBindings.  A profile that is missing, or is read and is no    *)
(* JSON, is left alone.                                                    *)
SkipBindings ==
  /\ At("checked")
  /\ launcher' = "prefer"
  /\ UNCHANGED <<flavor, opened, files, plan, memory, stored, disturbed>>

PlanFrom(p, s) ==
  \/ NothingToDo(p, s, flavor) /\ Applied
  \/ /\ ~NothingToDo(p, s, flavor)
     /\ toWrite' = Merged(p, s, flavor)
     /\ toSave' = Recorded(p, s, flavor)
     /\ launcher' = IF toWrite' # p THEN "backup" ELSE "save"

(* A profile that exists and cannot be read is taken as an empty one, and  *)
(* a state file that cannot be read or parsed as none.                     *)
PlanBindings ==
  /\ At("checked")
  /\ \E p \in {profile, NoBindings}, s \in {state, NoState} :
       /\ p = profile \/ "unreadProfile" \in Disturbances
       /\ s = state \/ "unreadRecord" \in Disturbances
       /\ PlanFrom(p, s)
       /\ disturbed' = disturbed \cup (IF p = profile THEN {} ELSE {"profile"})
                                 \cup (IF s = state THEN {} ELSE {"record"})
  /\ UNCHANGED <<flavor, opened, files, memory, stored>>

(* Variant: every launch takes its own snapshot. *)
BackUpAgain ==
  /\ At("backup")
  /\ backup' = profile /\ launcher' = "write"
  /\ UNCHANGED <<flavor, opened, profile, state, plan, memory, stored, disturbed>>

BackUp ==
  /\ At("backup")
  /\ \/ /\ launcher' = "write"
        /\ backup' = IF backup = NoProfile THEN profile ELSE backup
        /\ UNCHANGED plan
     \/ backup = NoProfile /\ Applied /\ UNCHANGED backup
  /\ UNCHANGED <<flavor, opened, profile, state, memory, stored, disturbed>>

(* Variant: the state file is written whether or not the profile was. *)
SaveAnyway ==
  /\ At("write")
  /\ \/ profile' = toWrite
     \/ UNCHANGED profile
  /\ launcher' = "save"
  /\ UNCHANGED <<flavor, opened, state, backup, plan, memory, stored, disturbed>>

WriteProfile ==
  /\ At("write")
  /\ \/ profile' = toWrite /\ launcher' = "save" /\ UNCHANGED plan
     \/ Applied /\ UNCHANGED profile
  /\ UNCHANGED <<flavor, opened, state, backup, memory, stored, disturbed>>

(* WriteBindingState *)
SaveState ==
  /\ At("save")
  /\ state' = toSave /\ Applied
  /\ UNCHANGED <<flavor, opened, profile, backup, memory, stored, disturbed>>

StateNotSaved ==
  /\ At("save") /\ Disturb("unsaved", {"record"})
  /\ Applied
  /\ UNCHANGED <<flavor, opened, files, memory, stored>>

-----------------------------------------------------------------------------
(* main, from EnableTemporaryNoLauncher on.                                *)
Enable ==
  /\ At("prefer")
  /\ snapshot' = preference /\ preference' = "yes"
  /\ launcher' = "spawn"
  /\ UNCHANGED <<flavor, opened, files, plan, memory, chosen, disturbed>>

EnableFails ==
  /\ At("prefer")
  /\ snapshot' = preference
  /\ launcher' = "restore"
  /\ UNCHANGED <<flavor, opened, files, plan, memory, preference, chosen, disturbed>>

(* LaunchGame and WaitForModStatus: the game reads the profile.            *)
Spawn ==
  /\ At("spawn")
  /\ memory' = [memory EXCEPT !["injected"] = profile]
  /\ launcher' = "wait"
  /\ UNCHANGED <<flavor, opened, files, plan, stored, disturbed>>

(* Variant: the launcher closes right away. *)
SpawnFailsClosed ==
  /\ At("spawn")
  /\ launcher' = "closed"
  /\ UNCHANGED <<flavor, opened, files, plan, memory, stored, disturbed>>

SpawnFails ==
  /\ At("spawn")
  /\ launcher' = "restore"
  /\ UNCHANGED <<flavor, opened, files, plan, memory, stored, disturbed>>

(* "active", an abort, the game's exit or the deadline. *)
WaitForModStatus ==
  /\ At("wait")
  /\ launcher' = "restore"
  /\ UNCHANGED <<flavor, opened, files, plan, memory, stored, disturbed>>

Closed == launcher' = "closed" /\ snapshot' = "absent"

RestoreNoLauncher ==
  /\ At("restore")
  /\ preference' = snapshot /\ Closed
  /\ UNCHANGED <<flavor, opened, files, plan, memory, chosen, disturbed>>

NotSynchronized ==
  /\ At("restore") /\ Disturb("unsynchronized", {"preference"})
  /\ Closed
  /\ UNCHANGED <<flavor, opened, files, plan, memory, preference, chosen>>

(* Between the two files, or while the preference is not the player's.     *)
Spoilt == IF At("save") THEN {"record"}
          ELSE IF launcher \in {"spawn", "wait", "restore"} THEN {"preference"} ELSE {}

Crash ==
  /\ ~At("closed") /\ Disturb("crash", Spoilt)
  /\ Closed /\ NoPlan
  /\ UNCHANGED <<flavor, opened, files, memory, preference, chosen>>

-----------------------------------------------------------------------------
(* The game and the player: started from Steam as well, edited in play,    *)
(* the profile rewritten on exit.                                          *)
StartedFromSteam ==
  /\ At("closed") /\ ~Running("vanilla") /\ ~Running("injected")
  /\ memory' = [memory EXCEPT !["vanilla"] = profile]
  /\ UNCHANGED <<launcher, flavor, opened, files, plan, stored, disturbed>>

(* Between the launcher's check for a running game and its own start. *)
StartedMeanwhile ==
  /\ ~At("closed") /\ ~Running("vanilla") /\ ~Running("injected")
  /\ Disturb("overlap", {"record"})
  /\ memory' = [memory EXCEPT !["vanilla"] = profile]
  /\ UNCHANGED <<launcher, flavor, opened, files, plan, stored>>

Rebindings == Choices \cup {"absent"}

Rebound(g, a, v) ==
  /\ Running(g) /\ memory[g][a] # v
  /\ memory' = [memory EXCEPT ![g][a] = v]
  /\ UNCHANGED <<launcher, flavor, opened, files, plan, stored, disturbed>>

GameExits(g) ==
  /\ Running(g)
  /\ profile' = memory[g]
  /\ memory' = [memory EXCEPT ![g] = NoProfile]
  /\ UNCHANGED <<launcher, flavor, opened, state, backup, plan, stored, disturbed>>

-----------------------------------------------------------------------------
Init ==
  /\ launcher = "closed" /\ flavor \in Flavors /\ opened = 0
  /\ profile \in [Actions -> Choices \cup {"absent"}]
  /\ state = NoState /\ backup = NoProfile
  /\ toWrite = NoProfile /\ toSave = NoState
  /\ memory = [g \in Games |-> NoProfile]
  /\ chosen \in Preferences
  /\ preference = chosen /\ snapshot = "absent"
  /\ disturbed = {}

Bindings ==
  \/ SkipBindings \/ PlanBindings \/ BackUp \/ WriteProfile
  \/ SaveState \/ StateNotSaved

Starting ==
  \/ (\E f \in Flavors : Open(f)) \/ Refuse
  \/ Enable \/ EnableFails \/ Spawn \/ SpawnFails \/ WaitForModStatus
  \/ RestoreNoLauncher \/ NotSynchronized \/ Crash

Playing ==
  \/ StartedFromSteam \/ StartedMeanwhile
  \/ \E g \in Games :
       GameExits(g) \/ \E a \in Actions, v \in Rebindings : Rebound(g, a, v)

Next == Bindings \/ Starting \/ Playing

Spec == Init /\ [][Next]_vars

-----------------------------------------------------------------------------
(* Every variable holds a value of its kind.                               *)
TypeOK ==
  /\ launcher \in {"closed", "checked", "backup", "write", "save", "prefer",
                   "spawn", "wait", "restore"}
  /\ flavor \in Flavors /\ opened \in 0 .. Launches
  /\ profile \in Profiles /\ state \in States
  /\ backup \in Profiles \cup {NoProfile}
  /\ toWrite \in Profiles \cup {NoProfile} /\ toSave \in States
  /\ memory \in [Games -> Profiles \cup {NoProfile}]
  /\ preference \in Preferences /\ snapshot \in Preferences
  /\ chosen \in Preferences
  /\ disturbed \subseteq Things

(* "Persist the restore state only after the profile write succeeds, so    *)
(* the two files never disagree about what the mod has done": a binding of *)
(* the mod's in the profile, or in a running game that will write it there,*)
(* is on record, so that the other flavor can take it back.                *)
OnRecord(p) == \A a \in Actions : p[a] = "mod" => Managed(state, a)
FilesAgree == At("closed") => OnRecord(profile)
BindingsOnRecord ==
  Spared({"record"}) /\ ~At("save") =>
    OnRecord(profile) /\ \A g \in Games : OnRecord(memory[g])

(* "What was there before" is never the mod's own binding, in however many *)
(* launches of whichever flavors: restoring it takes the binding back.     *)
PreviousIsPlayers ==
  Spared({"record"}) => \A a \in Actions : state.previous[a] # "mod"

(* "The exact profile from before the mod's first run": the snapshot holds *)
(* no binding of the mod's, whatever failed, crashed or overlapped.        *)
BackupIsUntouched == \A a \in Actions : backup[a] # "mod"

(* "Idempotent: ComputeBindingPlan(plan.profileToWrite, plan.stateToWrite, *)
(* flavor) reports nothing to do": the next launch of the same flavor      *)
(* finds nothing to write in what an orderly one has left.                 *)
LaunchIsIdempotent ==
  [][At("save") /\ state' = toSave /\ Spared({"record"})'
       => NothingToDo(profile, state', flavor)]_vars

(* "Restored when the launcher exits", whichever way the launch ended.     *)
PreferenceHandedBack ==
  Spared({"preference"}) /\ At("closed") => preference = chosen

(* "An unreadable one is the player's file to keep rather than ours to     *)
(* overwrite": the launcher overwrites a profile only with what it merged  *)
(* into it.  Refuted: a file that cannot be read is taken as an empty one. *)
UnreadableIsKept ==
  [][At("write") /\ launcher' = "save" /\ Spared({"record"})
       => profile' = Merged(profile, state, flavor)]_vars

(* The bindings the game goes by, and what is on record beside them.       *)
InForce == IF Running("injected") THEN memory["injected"]
           ELSE IF Running("vanilla") THEN memory["vanilla"] ELSE profile
OnFile == IF At("save") THEN toSave ELSE state

(* "The two files never disagree about what the mod has done": with its    *)
(* plan, its two writes, their failures and a game that holds the profile  *)
(* while it runs, an orderly launch is one step that borrows its flavor's  *)
(* actions and gives back the other's, or it is no step at all.            *)
Promised == INSTANCE PlayersBindings WITH
  Borrowed <- {Desired(f) : f \in Flavors},
  inForce <- InForce, setAside <- OnFile.previous,
  orderly <- Spared({"record", "profile"})
LaunchIsOneStep == Promised!Spec

(* However many orderly launches of whichever flavors, failed writes and   *)
(* games in between: the mod never loses a binding that is the player's.   *)
PlayersBindingsKept == Promised!OwnBindingsKept
=============================================================================
