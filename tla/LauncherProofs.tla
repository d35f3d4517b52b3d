--------------------------- MODULE LauncherProofs ---------------------------
(***************************************************************************)
(* What a launch leaves on disk, for any actions, bindings and number of   *)
(* launches.                                                               *)
(***************************************************************************)
EXTENDS Launcher, TLAPS

(* No binding of the mod's is anywhere before there is a backup.           *)
FirstWrite ==
  /\ launcher \in {"backup", "write"} => toWrite \in Profiles
  /\ launcher = "write" => backup \in Profiles
  /\ backup \notin Profiles =>
       \A a \in Actions : /\ profile[a] # "mod"
                          /\ \A g \in Games : memory[g][a] # "mod"
  /\ BackupIsUntouched

(* What is about to be recorded is the player's, and all of the mod's.     *)
Covers(s, p) ==
  \A a \in Actions : s.previous[a] # "mod" /\ (p[a] = "mod" => Managed(s, a))

(* While a launch is at work no game runs, and its plan agrees with itself.*)
AtWork == {"checked", "backup", "write", "save", "prefer", "spawn"}
PlanCurrent ==
  /\ launcher \in AtWork => \A g \in Games : ~Running(g)
  /\ launcher \in {"backup", "write"} =>
       NothingToDo(toWrite, toSave, flavor) /\ Covers(toSave, toWrite)
  /\ launcher = "save" =>
       NothingToDo(profile, toSave, flavor) /\ Covers(toSave, profile)

RecordsKept ==
  /\ \A a \in Actions : state.previous[a] # "mod"
  /\ launcher # "save" => OnRecord(profile)
  /\ \A g \in Games : OnRecord(memory[g])

(* Once it was read, the plan is still that of the files as they are.      *)
PlanOfFiles ==
  launcher \in {"backup", "write"} =>
    toWrite = Merged(profile, state, flavor) /\ toSave = Recorded(profile, state, flavor)

PreferenceKept ==
  /\ launcher \in {"closed", "checked", "backup", "write", "save", "prefer"} =>
       preference = chosen
  /\ launcher \in {"spawn", "wait", "restore"} => snapshot = chosen

(* Each holds while what it is about is spared. *)
RecordSide == Spared({"record"}) => PlanCurrent /\ RecordsKept
ProfileSide == Spared({"record", "profile"}) => PlanOfFiles
PreferenceSide == Spared({"preference"}) => PreferenceKept

IInv == TypeOK /\ FirstWrite /\ RecordSide /\ ProfileSide /\ PreferenceSide

-----------------------------------------------------------------------------
(* The plan of a launch is a profile and a state.                          *)
LEMMA PlanTypes ==
  ASSUME NEW p \in Profiles, NEW s \in States, NEW f \in Flavors
  PROVE  Merged(p, s, f) \in Profiles /\ Recorded(p, s, f) \in States
<1>1. Merged(p, s, f) \in Profiles
  BY DEF Merged, Profiles, States, Values, Managed
<1>2. Recorded(p, s, f) \in States
  BY DEF Recorded, Profiles, States, Values, Managed
<1> QED BY <1>1, <1>2

(* "Idempotent": planned again on its own outcome, it has nothing to do.   *)
LEMMA PlanIsIdempotent ==
  ASSUME NEW p \in Profiles, NEW s \in States, NEW f \in Flavors
  PROVE  NothingToDo(Merged(p, s, f), Recorded(p, s, f), f)
<1> DEFINE q == Merged(p, s, f)
           r == Recorded(p, s, f)
<1>1. \A a \in Actions :
        /\ q[a] = IF a \in Desired(f) THEN "mod"
                  ELSE IF Managed(s, a) /\ p[a] = "mod" THEN s.previous[a] ELSE p[a]
        /\ r.previous[a] = IF a \notin Desired(f) THEN "unmanaged"
                           ELSE IF Managed(s, a) THEN s.previous[a] ELSE p[a]
        /\ p[a] # "unmanaged"
  BY LauncherConstants DEF Merged, Recorded, Profiles, Values
<1>2. q \in Profiles /\ r \in States /\ r.flavor = f
  BY PlanTypes DEF Recorded
<1> HIDE DEF q, r
<1>3. Merged(q, r, f) = q
  <2>1. \A a \in Actions : ~Managed(r, a) \/ a \in Desired(f)
    BY <1>1 DEF Managed
  <2> QED BY <1>1, <1>2, <2>1 DEF Merged, Profiles
<1>4. Recorded(q, r, f) = r
  <2>1. \A a \in Actions : a \in Desired(f) => Managed(r, a)
    BY <1>1 DEF Managed
  <2>2. r.previous = [a \in Actions |-> r.previous[a]]
    BY <1>2 DEF States
  <2>3. \A a \in Actions : a \notin Desired(f) => r.previous[a] = "unmanaged"
    BY <1>1
  <2>4. Recorded(q, r, f).previous = r.previous
    BY <2>1, <2>2, <2>3 DEF Recorded
  <2>5. Recorded(q, r, f) = [flavor |-> f, previous |-> r.previous]
    BY <2>4 DEF Recorded
  <2> QED BY <1>2, <2>5 DEF States
<1> QED BY <1>3, <1>4 DEF NothingToDo, q, r

(* Planned from files that agree, it makes files that agree.               *)
LEMMA PlanKeepsRecord ==
  ASSUME NEW p \in Profiles, NEW s \in States, NEW f \in Flavors,
         Covers(s, p)
  PROVE  Covers(Recorded(p, s, f), Merged(p, s, f))
<1> SUFFICES ASSUME NEW a \in Actions
             PROVE  /\ Recorded(p, s, f).previous[a] # "mod"
                    /\ Merged(p, s, f)[a] = "mod" => Managed(Recorded(p, s, f), a)
  BY DEF Covers
<1>1. /\ Recorded(p, s, f).previous[a] =
           IF a \notin Desired(f) THEN "unmanaged"
           ELSE IF Managed(s, a) THEN s.previous[a] ELSE p[a]
      /\ Merged(p, s, f)[a] =
           IF a \in Desired(f) THEN "mod"
           ELSE IF Managed(s, a) /\ p[a] = "mod" THEN s.previous[a] ELSE p[a]
      /\ p[a] # "unmanaged"
  BY LauncherConstants DEF Merged, Recorded, Profiles, Values
<1> QED BY <1>1 DEF Managed, Covers

(* A read that fails leaves nothing of the mod's in the plan's sources.    *)
LEMMA FailedReads ==
  ASSUME NEW p \in Profiles, NEW s \in States, Covers(s, p)
  PROVE  /\ NoBindings \in Profiles /\ Covers(s, NoBindings)
         /\ \A f \in Flavors : Merged(NoBindings, s, f) # NoBindings
<1>1. NoBindings \in Profiles /\ Covers(s, NoBindings)
  BY DEF NoBindings, Profiles, Values, Covers
<1>2. ASSUME NEW f \in Flavors PROVE Merged(NoBindings, s, f) # NoBindings
  <2>1. PICK a \in Shared : TRUE
    BY LauncherConstants
  <2>2. a \in Actions /\ a \in Desired(f)
    BY DEF Actions, Desired
  <2>3. Merged(NoBindings, s, f)[a] = "mod" /\ NoBindings[a] = "absent"
    BY <2>2 DEF Merged, NoBindings
  <2> QED BY <2>3
<1> QED BY <1>1, <1>2

(* What the constants have to do with each other. *)
LEMMA Constants ==
  /\ Profiles = [Actions -> Values] /\ Choices \cup {"absent"} \subseteq Values \ {"mod"}
  /\ NoState \in States /\ Games = {"injected", "vanilla"}
  /\ Launches \in Nat /\ (NoProfile \notin Profiles \/ Actions = {})
  /\ "yes" \in Preferences /\ "absent" \in Preferences
  BY LauncherConstants DEF Profiles, Values, NoState, States, Games, Preferences,
     NoProfile

(* Nothing of the mod's is on disk before its first launch. *)
LEMMA InitIInv == Init => IInv
<1> SUFFICES ASSUME Init PROVE IInv
  OBVIOUS
<1>1. NoProfile \notin Profiles \/ Actions = {}
  BY LauncherConstants DEF NoProfile, Profiles, Values
<1>2. profile \in Profiles /\ (\A a \in Actions : profile[a] # "mod")
  BY LauncherConstants DEF Init, Profiles, Values
<1>3. NoState \in States /\ \A a \in Actions : NoState.previous[a] = "unmanaged"
  BY DEF NoState, States
<1>4. TypeOK
  <2>1. memory \in [Games -> Profiles \cup {NoProfile}]
    BY DEF Init
  <2> QED BY <1>2, <2>1, Constants DEF Init, TypeOK
<1>5. FirstWrite
  BY <1>2 DEF Init, FirstWrite, BackupIsUntouched, NoProfile, Games
<1>6. RecordSide /\ ProfileSide /\ PreferenceSide
  BY <1>2, <1>3 DEF Init, RecordSide, ProfileSide, PreferenceSide, PlanCurrent, AtWork,
     PlanOfFiles, RecordsKept, OnRecord, NoProfile, PreferenceKept, Games
<1> QED BY <1>4, <1>5, <1>6 DEF IInv

-----------------------------------------------------------------------------
(* What is spoilt stays spoilt.                                            *)
LEMMA SpoiltForGood == Next => disturbed \subseteq disturbed'
  BY DEF Next, Bindings, Starting, Playing, SkipBindings, PlanBindings, BackUp, WriteProfile,
     SaveState, StateNotSaved, Open, Refuse, Enable, EnableFails, Spawn, SpawnFails,
     WaitForModStatus, RestoreNoLauncher, NotSynchronized, Crash, StartedFromSteam,
     StartedMeanwhile, GameExits, Rebound, Disturb

(* The plan made from what was read, be it the files or nothing.           *)
LEMMA PlanMade ==
  ASSUME IInv, NEW p \in {profile, NoBindings}, NEW s \in {state, NoState}, PlanFrom(p, s)
  PROVE  /\ p \in Profiles /\ s \in States
         /\ toWrite' \in Profiles \cup {NoProfile} /\ toSave' \in States
         /\ launcher' \in {"backup", "save", "prefer"}
         /\ launcher' = "backup" => toWrite' \in Profiles
  BY PlanTypes, Constants DEF IInv, TypeOK, PlanFrom, Applied, NoPlan, NoBindings, Profiles, Values

LEMMA TypeKept == IInv /\ Next => TypeOK'
<1> SUFFICES ASSUME IInv, Next PROVE TypeOK'
  OBVIOUS
<1> USE Constants DEF IInv, TypeOK, At, files, plan, stored, Things
<1>1. CASE PlanBindings
  <2>1. PICK p \in {profile, NoBindings}, s \in {state, NoState} : PlanFrom(p, s)
    BY <1>1 DEF PlanBindings
  <2> QED BY <1>1, <2>1, PlanMade DEF PlanBindings
<1>2. CASE SkipBindings \/ BackUp \/ WriteProfile \/ SaveState \/ StateNotSaved
  BY <1>2 DEF SkipBindings, BackUp, WriteProfile, SaveState, StateNotSaved, Applied,
     NoPlan, Disturb, FirstWrite
<1>3. CASE Starting
  <2>1. ASSUME NEW f \in Flavors, Open(f) PROVE TypeOK'
    BY <2>1 DEF Open
  <2>2. CASE \/ Refuse \/ Enable \/ EnableFails \/ Spawn \/ SpawnFails
             \/ WaitForModStatus \/ RestoreNoLauncher
    BY <2>2 DEF Refuse, Enable, EnableFails, Spawn, SpawnFails, WaitForModStatus,
       RestoreNoLauncher, Closed
  <2>3. CASE NotSynchronized \/ Crash
    BY <2>3 DEF NotSynchronized, Crash, Closed, NoPlan, Disturb, Spoilt
  <2> QED BY <1>3, <2>1, <2>2, <2>3 DEF Starting
<1>4. CASE Playing
  <2>1. CASE StartedFromSteam \/ StartedMeanwhile
    BY <2>1 DEF StartedFromSteam, StartedMeanwhile, Disturb
  <2>2. ASSUME NEW g \in Games, GameExits(g) PROVE TypeOK'
    BY <2>2 DEF GameExits, Running
  <2>3. ASSUME NEW g \in Games, NEW a \in Actions, NEW v \in Rebindings, Rebound(g, a, v)
        PROVE  TypeOK'
    BY <2>3 DEF Rebound, Rebindings, Running
  <2> QED BY <1>4, <2>1, <2>2, <2>3 DEF Playing
<1> QED BY <1>1, <1>2, <1>3, <1>4 DEF Next, Bindings

(* The preference is the player's, or in the snapshot; only a crash in     *)
(* between, or a restore that is not synchronized, spoils it.              *)
LEMMA PreferenceStays == IInv /\ Next => PreferenceSide'
<1> SUFFICES ASSUME IInv, Next, Spared({"preference"})' PROVE PreferenceKept'
  BY DEF PreferenceSide
<1> USE DEF At, files, plan, stored
<1>1. PreferenceKept
  BY SpoiltForGood DEF IInv, PreferenceSide, Spared
<1>2. CASE Bindings
  BY <1>1, <1>2 DEF Bindings, SkipBindings, PlanBindings, PlanFrom, BackUp, WriteProfile,
     SaveState, StateNotSaved, Applied, NoPlan, PreferenceKept
<1>3. CASE Starting /\ ~NotSynchronized /\ ~Crash
  BY <1>1, <1>3 DEF Starting, Open, Refuse, Enable, EnableFails, Spawn, SpawnFails,
     WaitForModStatus, RestoreNoLauncher, Closed, PreferenceKept
<1>4. CASE NotSynchronized
  BY <1>4 DEF NotSynchronized, Disturb, Spared
<1>5. CASE Crash
  <2>1. launcher \notin {"spawn", "wait", "restore"}
    BY <1>5 DEF Crash, Disturb, Spared, Spoilt
  <2> QED BY <1>1, <1>5, <2>1 DEF Crash, Closed, PreferenceKept, IInv, TypeOK
<1>6. CASE Playing
  BY <1>1, <1>6 DEF Playing, StartedFromSteam, StartedMeanwhile, GameExits, Rebound,
     PreferenceKept
<1> QED BY <1>2, <1>3, <1>4, <1>5, <1>6 DEF Next

(* Steps that leave all files alone and no plan behind.                    *)
LEMMA FilesUntouched ==
  ASSUME IInv, UNCHANGED <<files, memory>>, disturbed \subseteq disturbed',
         launcher' \notin {"backup", "write", "save"},
         launcher = "save" => ~Spared({"record"})',
         launcher' \in AtWork => launcher \in AtWork \/ \A g \in Games : ~Running(g)
  PROVE  FirstWrite' /\ RecordSide' /\ ProfileSide'
<1> USE DEF IInv, files
<1>1. FirstWrite' /\ ProfileSide'
  BY DEF FirstWrite, BackupIsUntouched, ProfileSide, PlanOfFiles
<1>2. ASSUME Spared({"record"})' PROVE PlanCurrent' /\ RecordsKept'
  <2>1. PlanCurrent /\ RecordsKept /\ launcher # "save"
    BY <1>2 DEF RecordSide, Spared
  <2> QED BY <2>1 DEF PlanCurrent, AtWork, Running, RecordsKept, OnRecord
<1> QED BY <1>1, <1>2 DEF RecordSide

-----------------------------------------------------------------------------
(* ApplyInputBindings. *)
LEMMA BindingsKeep ==
  ASSUME IInv, Bindings
  PROVE  FirstWrite' /\ RecordSide' /\ ProfileSide'
<1> USE DEF IInv, At, files, plan, stored
<1>1. disturbed \subseteq disturbed'
  BY SpoiltForGood DEF Next
<1>2. CASE SkipBindings \/ StateNotSaved
  BY <1>1, <1>2, FilesUntouched DEF SkipBindings, StateNotSaved, Applied, Disturb, Spared, AtWork
<1>3. CASE PlanBindings
  <2>1. PICK p \in {profile, NoBindings}, s \in {state, NoState} :
          /\ PlanFrom(p, s)
          /\ disturbed' = disturbed \cup (IF p = profile THEN {} ELSE {"profile"})
                                    \cup (IF s = state THEN {} ELSE {"record"})
    BY <1>3 DEF PlanBindings
  <2>2. /\ p \in Profiles /\ s \in States /\ flavor \in Flavors
        /\ launcher' \in {"backup", "save", "prefer"}
        /\ launcher' = "backup" => toWrite' \in Profiles
    BY <2>1, PlanMade DEF TypeOK
  <2>3. FirstWrite'
    BY <1>3, <2>2 DEF PlanBindings, FirstWrite, BackupIsUntouched
  <2>4. ASSUME Spared({"record"})' PROVE PlanCurrent' /\ RecordsKept'
    <3>1. PlanCurrent /\ RecordsKept /\ s = state
      BY <1>1, <2>1, <2>4 DEF RecordSide, Spared
    <3>2. Covers(state, profile) /\ \A g \in Games : ~Running(g)
      BY <1>3, <3>1 DEF PlanBindings, PlanCurrent, AtWork, RecordsKept,
          OnRecord, Covers
    <3>3. Covers(state, p) /\ (p # profile => Merged(p, state, flavor) # p)
      BY <2>2, <3>2, FailedReads DEF TypeOK
    <3>4. RecordsKept'
      BY <1>3, <2>2, <3>1, <3>2 DEF PlanBindings, RecordsKept, OnRecord, Covers
    <3>5. CASE Applied
      BY <1>3, <3>2, <3>4, <3>5 DEF PlanBindings, Applied, PlanCurrent, AtWork, Running
    <3>6. CASE ~Applied
      <4>1. /\ toWrite' = Merged(p, state, flavor) /\ toSave' = Recorded(p, state, flavor)
            /\ launcher' = IF toWrite' # p THEN "backup" ELSE "save"
        BY <2>1, <3>1, <3>6 DEF PlanFrom
      <4>2. NothingToDo(toWrite', toSave', flavor) /\ Covers(toSave', toWrite')
        BY <2>2, <3>1, <3>3, <4>1, PlanIsIdempotent, PlanKeepsRecord
      <4>3. launcher' = "save" => toWrite' = profile
        BY <3>3, <4>1
      <4>4. UNCHANGED <<profile, memory, flavor>>
        BY <1>3 DEF PlanBindings
      <4> HIDE DEF Flavors
      <4>5. PlanCurrent'
        BY <2>2, <3>2, <4>2, <4>3, <4>4 DEF PlanCurrent, Running
      <4> QED BY <3>4, <4>5
    <3> QED BY <3>5, <3>6
  <2>5. ASSUME Spared({"record", "profile"})' PROVE PlanOfFiles'
    <3>1. p = profile /\ s = state
      BY <2>1, <2>5 DEF Spared
    <3> QED BY <1>3, <2>1, <3>1 DEF PlanBindings, PlanFrom, Applied, PlanOfFiles
  <2> QED BY <2>3, <2>4, <2>5 DEF RecordSide, ProfileSide
<1>4. CASE BackUp
  <2>1. FirstWrite'
    BY <1>4, Constants DEF BackUp, Applied, NoPlan, TypeOK, FirstWrite, BackupIsUntouched
  <2>2. ASSUME Spared({"record"})' PROVE PlanCurrent' /\ RecordsKept'
    <3>1. PlanCurrent /\ RecordsKept
      BY <1>1, <2>2 DEF RecordSide, Spared
    <3> QED BY <1>4, <3>1 DEF BackUp, Applied, PlanCurrent, AtWork, Running, RecordsKept,
             OnRecord
  <2>3. ProfileSide'
    BY <1>4 DEF BackUp, Applied, ProfileSide, PlanOfFiles, Spared
  <2> QED BY <2>1, <2>2, <2>3 DEF RecordSide
<1>5. CASE WriteProfile
  <2>1. FirstWrite'
    BY <1>5, Constants DEF WriteProfile, Applied, NoPlan, TypeOK, FirstWrite, BackupIsUntouched
  <2>2. ASSUME Spared({"record"})' PROVE PlanCurrent' /\ RecordsKept'
    <3>1. PlanCurrent /\ RecordsKept
      BY <1>1, <2>2 DEF RecordSide, Spared
    <3>2. PlanCurrent'
      BY <1>5, <3>1 DEF WriteProfile, Applied, PlanCurrent, AtWork, Running
    <3>3. RecordsKept'
      BY <1>5, <3>1 DEF WriteProfile, Applied, RecordsKept, OnRecord
    <3> QED BY <3>2, <3>3
  <2>3. ProfileSide'
    BY <1>5 DEF WriteProfile, Applied, ProfileSide, PlanOfFiles
  <2> QED BY <2>1, <2>2, <2>3 DEF RecordSide
<1>6. CASE SaveState
  <2>1. FirstWrite' /\ ProfileSide'
    BY <1>6 DEF SaveState, Applied, FirstWrite, BackupIsUntouched, ProfileSide, PlanOfFiles
  <2>2. ASSUME Spared({"record"})' PROVE PlanCurrent' /\ RecordsKept'
    <3>1. PlanCurrent /\ RecordsKept
      BY <1>1, <2>2 DEF RecordSide, Spared
    <3>2. \A g \in Games, a \in Actions : memory[g][a] # "mod"
      BY <1>6, <3>1 DEF SaveState, PlanCurrent, AtWork, Running, NoProfile
    <3>3. PlanCurrent'
      BY <1>6, <3>1 DEF SaveState, Applied, PlanCurrent, AtWork, Running
    <3>4. RecordsKept'
      BY <1>6, <3>1, <3>2 DEF SaveState, Applied, PlanCurrent, RecordsKept,
          OnRecord, Managed, Covers
    <3> QED BY <3>3, <3>4
  <2> QED BY <2>1, <2>2 DEF RecordSide
<1> QED BY <1>2, <1>3, <1>4, <1>5, <1>6 DEF Bindings

(* The rest of main: only the start of the game touches the bindings.      *)
LEMMA StartingKeeps ==
  ASSUME IInv, Starting
  PROVE  FirstWrite' /\ RecordSide' /\ ProfileSide'
<1> USE DEF IInv, At, files, plan, stored
<1>1. disturbed \subseteq disturbed'
  BY SpoiltForGood DEF Next
<1>2. CASE Spawn
  <2>1. FirstWrite' /\ ProfileSide'
    BY <1>2 DEF Spawn, TypeOK, FirstWrite, BackupIsUntouched, ProfileSide, PlanOfFiles
  <2>2. ASSUME Spared({"record"})' PROVE PlanCurrent' /\ RecordsKept'
    <3>1. PlanCurrent /\ RecordsKept
      BY <1>1, <2>2 DEF RecordSide, Spared
    <3>2. PlanCurrent'
      BY <1>2 DEF Spawn, PlanCurrent, AtWork
    <3>3. RecordsKept'
      BY <1>2, <3>1 DEF Spawn, TypeOK, RecordsKept, OnRecord
    <3> QED BY <3>2, <3>3
  <2> QED BY <2>1, <2>2 DEF RecordSide
<1>3. ASSUME NEW f \in Flavors, Open(f)
      PROVE  FirstWrite' /\ RecordSide' /\ ProfileSide'
  BY <1>1, <1>3, FilesUntouched DEF Open
<1>4. CASE Crash
  BY <1>1, <1>4, FilesUntouched DEF Crash, Closed, Disturb, Spoilt, Spared, AtWork
<1>5. CASE \/ Refuse \/ Enable \/ EnableFails \/ SpawnFails
           \/ WaitForModStatus \/ RestoreNoLauncher \/ NotSynchronized
  BY <1>1, <1>5, FilesUntouched DEF Refuse, Enable, EnableFails, SpawnFails,
     WaitForModStatus, RestoreNoLauncher, NotSynchronized, Closed, AtWork
<1> QED BY <1>2, <1>3, <1>4, <1>5 DEF Starting

(* The game and the player. *)
LEMMA PlayingKeeps ==
  ASSUME IInv, Playing
  PROVE  FirstWrite' /\ RecordSide' /\ ProfileSide'
<1> USE DEF IInv, At, files, plan, stored
<1>1. disturbed \subseteq disturbed'
  BY SpoiltForGood DEF Next
<1>2. Spared({"record"})' => PlanCurrent /\ RecordsKept
  BY <1>1 DEF RecordSide, Spared
<1>3. Spared({"record", "profile"})' =>
        PlanOfFiles /\ PlanCurrent
  BY <1>1 DEF RecordSide, ProfileSide, Spared
<1>4. CASE StartedFromSteam
  <2>1. FirstWrite' /\ ProfileSide'
    BY <1>3, <1>4 DEF StartedFromSteam, TypeOK, FirstWrite, BackupIsUntouched, ProfileSide,
       PlanOfFiles
  <2>2. RecordSide'
    BY <1>2, <1>4 DEF StartedFromSteam, TypeOK, RecordSide, PlanCurrent, AtWork, RecordsKept,
        OnRecord
  <2> QED BY <2>1, <2>2
<1>5. CASE StartedMeanwhile
  BY <1>5 DEF StartedMeanwhile, Disturb, Spared, TypeOK, FirstWrite, BackupIsUntouched,
     RecordSide, ProfileSide
<1>6. ASSUME NEW g \in Games, GameExits(g)
      PROVE  FirstWrite' /\ RecordSide' /\ ProfileSide'
  <2>1. FirstWrite'
    BY <1>6, Constants DEF GameExits, TypeOK, FirstWrite, BackupIsUntouched, Running
  <2>2. PlanCurrent => launcher \notin AtWork
    BY <1>6 DEF GameExits, PlanCurrent
  <2>3. ProfileSide'
    BY <1>3, <1>6, <2>2 DEF GameExits, ProfileSide, PlanOfFiles, AtWork
  <2>4. ASSUME Spared({"record"})' PROVE PlanCurrent' /\ RecordsKept'
    <3>1. PlanCurrent' /\ launcher # "save"
      BY <1>2, <1>6, <2>2, <2>4 DEF GameExits, PlanCurrent, AtWork
    <3>2. \A a \in Actions : NoProfile[a] # "mod"
      BY DEF NoProfile
    <3>3. RecordsKept'
      BY <1>2, <1>6, <2>4, <3>1, <3>2 DEF GameExits, TypeOK, RecordsKept,
          OnRecord
    <3> QED BY <3>1, <3>3
  <2> QED BY <2>1, <2>3, <2>4 DEF RecordSide
<1>7. ASSUME NEW g \in Games, NEW a \in Actions, NEW v \in Rebindings, Rebound(g, a, v)
      PROVE  FirstWrite' /\ RecordSide' /\ ProfileSide'
  <2>1. /\ \A h \in Games, b \in Actions :
             memory'[h][b] = IF h = g /\ b = a THEN v ELSE memory[h][b]
        /\ v # "mod"
    BY <1>7, Constants DEF Rebound, TypeOK, Running, Rebindings, NoProfile
  <2>2. FirstWrite' /\ ProfileSide'
    BY <1>3, <1>7, <2>1 DEF Rebound, FirstWrite, BackupIsUntouched, ProfileSide, PlanOfFiles
  <2>3. ASSUME Spared({"record"})' PROVE PlanCurrent' /\ RecordsKept'
    <3>1. PlanCurrent'
      BY <1>2, <1>7, <2>3 DEF Rebound, PlanCurrent, AtWork
    <3>2. RecordsKept'
      BY <1>2, <1>7, <2>1, <2>3 DEF Rebound, RecordsKept, OnRecord
    <3> QED BY <3>1, <3>2
  <2> QED BY <2>2, <2>3 DEF RecordSide
<1> QED BY <1>4, <1>5, <1>6, <1>7 DEF Playing

-----------------------------------------------------------------------------
(* Every step, a stutter included. *)
LEMMA StepKeeps == IInv /\ [Next]_vars => IInv'
<1> SUFFICES ASSUME IInv, [Next]_vars PROVE IInv'
  OBVIOUS
<1>1. CASE UNCHANGED vars
  <2> USE <1>1 DEF vars, files, plan, stored, IInv
  <2>1. TypeOK'
    BY DEF TypeOK
  <2>2. FirstWrite'
    BY DEF FirstWrite, BackupIsUntouched
  <2>3. RecordSide'
    BY DEF RecordSide, Spared, PlanCurrent, AtWork, Running, RecordsKept,
        OnRecord
  <2>4. ProfileSide' /\ PreferenceSide'
    BY DEF ProfileSide, PlanOfFiles, PreferenceSide, PreferenceKept, Spared
  <2> QED BY <2>1, <2>2, <2>3, <2>4
<1>2. CASE Next
  <2>1. TypeOK' /\ PreferenceSide'
    BY <1>2, TypeKept, PreferenceStays
  <2>2. FirstWrite' /\ RecordSide' /\ ProfileSide'
    BY <1>2, BindingsKeep, StartingKeeps, PlayingKeeps DEF Next
  <2> QED BY <2>1, <2>2 DEF IInv
<1> QED BY <1>1, <1>2

(* The invariant behind the theorems of this module.                       *)
THEOREM InductiveInvariant == Spec => []IInv
  BY InitIInv, StepKeeps, PTL DEF Spec

(* TypeOK, for any actions, bindings and number of launches.               *)
THEOREM TypeCorrect == Spec => []TypeOK
<1>1. IInv => TypeOK
  BY DEF IInv
<1> QED BY <1>1, InductiveInvariant, PTL

(* The snapshot beside the profile is the player's own, whatever write     *)
(* failed and wherever a launcher ended.                                   *)
THEOREM BackupKept == Spec => []BackupIsUntouched
<1>1. IInv => BackupIsUntouched
  BY DEF IInv, FirstWrite
<1> QED BY <1>1, InductiveInvariant, PTL

(* As long as the record is spared, every binding of the mod's is on it, *)
(* in the profile and in the game that will write it.                      *)
THEOREM OnTheRecord == Spec => []BindingsOnRecord
<1>1. IInv => BindingsOnRecord
  BY DEF IInv, RecordSide, RecordsKept, BindingsOnRecord, At
<1> QED BY <1>1, InductiveInvariant, PTL

(* As long as the record is spared, what a flavor restores is the player's.*)
THEOREM PreviousKept == Spec => []PreviousIsPlayers
<1>1. IInv => PreviousIsPlayers
  BY DEF IInv, RecordSide, RecordsKept, PreviousIsPlayers
<1> QED BY <1>1, InductiveInvariant, PTL

(* The game's NoLauncher preference is back when the launcher is closed.   *)
THEOREM PreferenceBack == Spec => []PreferenceHandedBack
<1>1. IInv => PreferenceHandedBack
  BY DEF IInv, PreferenceSide, PreferenceKept, PreferenceHandedBack, At
<1> QED BY <1>1, InductiveInvariant, PTL

(* A second launch of the same flavor finds nothing to write.              *)
THEOREM Idempotent == Spec => LaunchIsIdempotent
<1>1. IInv /\ IInv' /\ [Next]_vars =>
        [At("save") /\ state' = toSave /\ Spared({"record"})'
           => NothingToDo(profile, state', flavor)]_vars
  <2> SUFFICES ASSUME IInv, Next, At("save"), state' = toSave, Spared({"record"})'
               PROVE  NothingToDo(profile, state', flavor)
    BY DEF vars
  <2>1. Spared({"record"})
    BY SpoiltForGood DEF Spared
  <2> QED BY <2>1 DEF IInv, RecordSide, PlanCurrent, At
<1> QED BY <1>1, InductiveInvariant, PTL DEF Spec, LaunchIsIdempotent

-----------------------------------------------------------------------------
(* One game runs at a time, as long as none is started behind a launch.    *)
OneGame == Spared({"record"}) => ~(Running("injected") /\ Running("vanilla"))

(* A game is started only when none runs. *)
LEMMA OneGameKept == IInv /\ OneGame /\ [Next]_vars => OneGame'
<1> SUFFICES ASSUME IInv, OneGame, [Next]_vars, Spared({"record"})' PROVE OneGame'
  BY DEF OneGame
<1> USE DEF files, plan, stored
<1>1. CASE UNCHANGED vars
  BY <1>1 DEF vars, OneGame, Running, Spared
<1>2. CASE Next
  <2>1. Spared({"record"}) /\ memory \in [Games -> Profiles \cup {NoProfile}]
    BY <1>2, SpoiltForGood DEF IInv, TypeOK, Spared
  <2>2. CASE Spawn
    <3>1. ~Running("vanilla")
      BY <2>1, <2>2 DEF Spawn, At, IInv, RecordSide, PlanCurrent, AtWork, Games
    <3> QED BY <2>1, <2>2, <3>1 DEF Spawn, OneGame, Running, Games
  <2>3. CASE StartedFromSteam
    BY <2>1, <2>3 DEF StartedFromSteam, OneGame, Running, Games
  <2>4. CASE StartedMeanwhile
    BY <2>4 DEF StartedMeanwhile, Disturb, Spared
  <2>5. ASSUME NEW g \in Games, GameExits(g) PROVE OneGame'
    BY <2>1, <2>5 DEF GameExits, OneGame, Running, Games
  <2>6. ASSUME NEW g \in Games, NEW a \in Actions, NEW v \in Rebindings, Rebound(g, a, v)
        PROVE  OneGame'
    BY <2>1, <2>6 DEF Rebound, OneGame, Running, Games
  <2>7. CASE UNCHANGED memory
    BY <2>1, <2>7 DEF OneGame, Running
  <2> QED BY <1>2, <2>2, <2>3, <2>4, <2>5, <2>6, <2>7 DEF Next, Bindings, Starting,
          Playing, SkipBindings, PlanBindings, BackUp, WriteProfile, SaveState,
          StateNotSaved, Open, Refuse, Enable, EnableFails, SpawnFails,
          WaitForModStatus, RestoreNoLauncher, NotSynchronized, Crash
<1> QED BY <1>1, <1>2

(* No game runs at the start. *)
LEMMA OneGameAtATime == Spec => []OneGame
<1>1. Init => OneGame
  BY DEF Init, OneGame, Running, Games
<1> QED BY <1>1, OneGameKept, InductiveInvariant, PTL DEF Spec

-----------------------------------------------------------------------------
(* Neither the record nor the player's own bindings were spoilt so far.    *)
Orderly == Spared({"record", "profile"})

LEMMA OrderlyIs ==
  ASSUME IInv, Orderly
  PROVE  PlanCurrent /\ RecordsKept /\ PlanOfFiles /\ Spared({"record"})
  BY DEF Orderly, Spared, IInv, RecordSide, ProfileSide

(* The launches of PlayersBindings are those of the two flavors.           *)
LEMMA LaunchOf ==
  ASSUME NEW f \in Flavors, Promised!Launch(Desired(f)), UNCHANGED disturbed
  PROVE  Promised!Next
  BY DEF Promised!Next, Spared

(* What a flavor merges and records is what it borrows and gives back.     *)
LEMMA MergeIsLaunch ==
  ASSUME NEW f \in Flavors, InForce \in Profiles, OnFile \in States,
         InForce' = Merged(InForce, OnFile, f), OnFile' = Recorded(InForce, OnFile, f)
  PROVE  Promised!Launch(Desired(f))
<1> DEFINE p == InForce
           s == OnFile
<1>1. Merged(p, s, f) \in Profiles /\ Recorded(p, s, f) \in States
  BY PlanTypes
<1>2. DOMAIN InForce' = Actions /\ DOMAIN OnFile'.previous = Actions
  BY <1>1 DEF Profiles, States
<1>3. ASSUME NEW a \in Actions
      PROVE  /\ InForce'[a] = IF a \in Desired(f) THEN "mod"
                              ELSE IF Managed(s, a) /\ p[a] = "mod" THEN s.previous[a]
                              ELSE p[a]
             /\ OnFile'.previous[a] = IF a \notin Desired(f) THEN "unmanaged"
                                      ELSE IF Managed(s, a) THEN s.previous[a] ELSE p[a]
  BY DEF Merged, Recorded
<1> HIDE DEF p, s
<1>4. \A a \in Actions : IF a \in Desired(f) THEN Promised!Borrow(a) ELSE Promised!GiveBack(a)
  BY <1>3 DEF Promised!Borrow, Promised!GiveBack, Managed, p, s
<1> QED BY <1>2, <1>4 DEF Promised!Launch

(* Where no game runs, the profile is what the game will go by.            *)
LEMMA ProfileInForce ==
  ASSUME \A g \in Games : ~Running(g)
  PROVE  InForce = profile
  BY DEF InForce, Games

(* Steps that touch neither the bindings nor their record.                 *)
LEMMA HandsOff ==
  ASSUME UNCHANGED <<profile, memory, state>>, ~At("save"), ~At("save")'
  PROVE  UNCHANGED <<InForce, OnFile>>
  BY DEF InForce, OnFile, Running, At

(* ApplyInputBindings: both writes are carried out, or neither.            *)
LEMMA BindingsPromised ==
  ASSUME IInv, Bindings, Orderly, Orderly'
  PROVE  Promised!Next \/ UNCHANGED <<InForce, OnFile>>
<1> USE DEF files, plan, stored, At
<1>1. /\ launcher \in AtWork => InForce = profile
      /\ flavor \in Flavors /\ profile \in Profiles /\ state \in States
  BY ProfileInForce, OrderlyIs DEF IInv, TypeOK, PlanCurrent
<1>2. CASE SkipBindings
  BY <1>2, HandsOff DEF SkipBindings
<1>3. CASE PlanBindings
  <2>1. InForce = profile /\ OnFile = state /\ InForce' = profile
    BY <1>1, <1>3 DEF PlanBindings, AtWork, OnFile, InForce, Running
  <2>2. CASE launcher' = "save"
    <3>1. PlanFrom(profile, state) /\ UNCHANGED disturbed
      BY <1>3 DEF PlanBindings, Orderly, Spared
    <3>2. OnFile' = Recorded(profile, state, flavor) /\ Merged(profile, state, flavor) = profile
      BY <2>2, <3>1 DEF PlanFrom, Applied, OnFile
    <3> QED BY <1>1, <2>1, <3>1, <3>2, MergeIsLaunch, LaunchOf
  <2>3. CASE launcher' # "save"
    BY <1>3, <2>3, HandsOff DEF PlanBindings
  <2> QED BY <2>2, <2>3
<1>4. CASE BackUp
  BY <1>4, HandsOff DEF BackUp, Applied
<1>5. CASE WriteProfile
  <2>1. CASE launcher' = "save"
    <3>1. /\ InForce = profile /\ OnFile = state /\ InForce' = profile'
          /\ profile' = Merged(profile, state, flavor)
          /\ OnFile' = Recorded(profile, state, flavor)
      BY <1>1, <1>5, <2>1, OrderlyIs DEF WriteProfile, Applied, AtWork, OnFile, InForce, Running,
         PlanCurrent, PlanOfFiles, Games
    <3>2. UNCHANGED disturbed
      BY <1>5 DEF WriteProfile
    <3> QED BY <1>1, <3>1, <3>2, MergeIsLaunch, LaunchOf
  <2>2. CASE launcher' # "save"
    BY <1>5, <2>2, HandsOff DEF WriteProfile, Applied
  <2> QED BY <2>1, <2>2
<1>6. CASE SaveState
  BY <1>6 DEF SaveState, Applied, OnFile, InForce, Running
<1>7. CASE StateNotSaved
  BY <1>7 DEF StateNotSaved, Disturb, Orderly, Spared
<1> QED BY <1>2, <1>3, <1>4, <1>5, <1>6, <1>7 DEF Bindings

(* The rest of main: the game is given the profile, nothing else.          *)
LEMMA StartingPromised ==
  ASSUME IInv, Starting, Orderly, Orderly'
  PROVE  UNCHANGED <<InForce, OnFile>>
<1> USE DEF files, plan, stored, At
<1>1. CASE Spawn
  <2>1. /\ \A g \in Games : ~Running(g)
        /\ memory \in [Games -> Profiles \cup {NoProfile}]
    BY <1>1, OrderlyIs DEF Spawn, IInv, PlanCurrent, AtWork, TypeOK
  <2>2. InForce' = profile
    BY <1>1, <2>1 DEF Spawn, InForce, Running, Games
  <2> QED BY <1>1, <2>1, <2>2, ProfileInForce DEF Spawn, OnFile
<1>2. CASE ~Spawn
  BY <1>2, HandsOff DEF Starting, Open, Refuse, Enable, EnableFails, SpawnFails,
     WaitForModStatus, RestoreNoLauncher, NotSynchronized, Crash, Closed, Disturb,
     Spoilt, Orderly, Spared
<1> QED BY <1>1, <1>2

(* The game holds the profile while it runs, and the player changes that.  *)
LEMMA PlayingPromised ==
  ASSUME IInv, OneGame, Playing, Orderly, Orderly'
  PROVE  Promised!Next \/ UNCHANGED <<InForce, OnFile>>
<1> USE DEF files, plan, stored, At
<1>1. /\ memory \in [Games -> Profiles \cup {NoProfile}]
      /\ launcher = "save" => \A g \in Games : ~Running(g)
      /\ ~(Running("injected") /\ Running("vanilla"))
  BY OrderlyIs DEF IInv, TypeOK, PlanCurrent, AtWork, OneGame
<1>2. CASE StartedFromSteam
  BY <1>1, <1>2 DEF StartedFromSteam, InForce, OnFile, Running, Games
<1>3. CASE StartedMeanwhile
  BY <1>3 DEF StartedMeanwhile, Disturb, Orderly, Spared
<1>4. ASSUME NEW g \in Games, GameExits(g)
      PROVE  UNCHANGED <<InForce, OnFile>>
  <2>1. InForce = memory[g] /\ InForce' = memory[g]
    BY <1>1, <1>4 DEF GameExits, InForce, Running, Games
  <2> QED BY <1>4, <2>1 DEF GameExits, OnFile
<1>5. ASSUME NEW g \in Games, NEW a \in Actions, NEW v \in Rebindings, Rebound(g, a, v)
      PROVE  Promised!Next
  <2>1. InForce = memory[g] /\ memory[g] \in Profiles
    BY <1>1, <1>5 DEF Rebound, InForce, Running, Games
  <2>2. memory'[g] = [memory[g] EXCEPT ![a] = v] /\ memory'[g] # NoProfile
    BY <1>1, <1>5, <2>1, Constants DEF Rebound, Rebindings, NoProfile
  <2>3. InForce' = [InForce EXCEPT ![a] = v]
    BY <1>1, <1>5, <2>1, <2>2 DEF Rebound, InForce, Running, Games
  <2>4. UNCHANGED OnFile /\ UNCHANGED disturbed
    BY <1>5 DEF Rebound, OnFile
  <2> QED BY <2>3, <2>4 DEF Promised!Next, Promised!Rebind, Spared
<1> QED BY <1>2, <1>3, <1>4, <1>5 DEF Playing

(* Refinement: whatever fails and whatever the game does meanwhile, an     *)
(* orderly launch merges and records in one step, or not at all.           *)
THEOREM LaunchImplementsPromise == Spec => LaunchIsOneStep
<1>1. Init => Promised!Init
  BY DEF Init, Promised!Init, InForce, OnFile, Running, At, NoState, Rebindings, Games, Spared
<1>2. IInv /\ IInv' /\ OneGame /\ [Next]_vars => [Promised!Next]_(Promised!vars)
  <2> SUFFICES ASSUME IInv, IInv', OneGame, [Next]_vars
               PROVE  Promised!Next \/ UNCHANGED Promised!vars
    OBVIOUS
  <2>1. CASE UNCHANGED vars
    BY <2>1 DEF vars, files, plan, stored, Promised!vars, InForce, OnFile, Running, At, Spared
  <2>2. CASE Next /\ ~Orderly'
    BY <2>2 DEF Promised!Next, Orderly
  <2>3. CASE Next /\ Orderly'
    <3>1. Orderly /\ Orderly' /\ Spared({"record", "profile"})' = Spared({"record", "profile"})
      BY <2>3, SpoiltForGood DEF Orderly, Spared
    <3>2. Promised!Next \/ UNCHANGED <<InForce, OnFile>>
      BY <2>3, <3>1, BindingsPromised, StartingPromised, PlayingPromised DEF Next
    <3> QED BY <3>1, <3>2 DEF Promised!vars
  <2> QED BY <2>1, <2>2, <2>3
<1> QED BY <1>1, <1>2, InductiveInvariant, OneGameAtATime, PTL
        DEF Spec, LaunchIsOneStep, Promised!Spec

(* An action that is in the mod's hand is on record.                       *)
LEMMA ForceOnRecord ==
  ASSUME IInv, Orderly, NEW a \in Actions
  PROVE  InForce[a] = "mod" => OnFile.previous[a] \notin {"unmanaged", "mod"}
  BY OrderlyIs
     DEF RecordsKept, PlanCurrent, Covers, AtWork, OnRecord, Managed, InForce,
         OnFile, At, Games

(* Orderly launches lose no binding of the player's, for any actions, *)
(* bindings and number of launches.                                        *)
THEOREM BindingsSurvive == Spec => PlayersBindingsKept
<1>1. IInv /\ [Promised!Next]_(Promised!vars) =>
        [Spared({"record", "profile"})' => \A a \in Actions :
           Promised!Own(a)' # Promised!Own(a) =>
             \/ \E v \in Rebindings : Promised!Rebind(a, v)
             \/ OnFile.previous[a] # "unmanaged" /\ InForce[a] # "mod"
                  /\ InForce'[a] = "mod"]_(Promised!vars)
  <2> SUFFICES ASSUME IInv, Promised!Next, Spared({"record", "profile"})', NEW a \in Actions,
                      Promised!Own(a)' # Promised!Own(a),
                      ~\E v \in Rebindings : Promised!Rebind(a, v)
               PROVE  /\ OnFile.previous[a] # "unmanaged" /\ InForce[a] # "mod"
                      /\ InForce'[a] = "mod"
    OBVIOUS
  <2>1. Orderly
    BY DEF Promised!Next, Orderly, Spared
  <2>2. CASE \E f \in Flavors : Promised!Launch(Desired(f))
    <3>1. PICK f \in Flavors : Promised!Launch(Desired(f))
      BY <2>2
    <3>2. IF a \in Desired(f) THEN Promised!Borrow(a) ELSE Promised!GiveBack(a)
      BY <3>1 DEF Promised!Launch
    <3> QED BY <2>1, <3>2, ForceOnRecord DEF Promised!Own, Promised!Borrow, Promised!GiveBack
  <2>3. ASSUME NEW b \in Actions, NEW v \in Rebindings, Promised!Rebind(b, v)
        PROVE  FALSE
    <3>1. b # a
      BY <2>3
    <3> QED BY <2>3, <3>1 DEF Promised!Rebind, Promised!Own
  <2> QED BY <2>2, <2>3 DEF Promised!Next
<1> QED BY <1>1, InductiveInvariant, LaunchImplementsPromise, PTL
        DEF LaunchIsOneStep, Promised!Spec, PlayersBindingsKept, Promised!OwnBindingsKept
=============================================================================
