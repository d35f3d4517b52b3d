---------------------------- MODULE StartupProofs ----------------------------
(***************************************************************************)
(* The configuration, the search and what rests on them, for every file,   *)
(* every program and every set of patterns.                                *)
(***************************************************************************)
EXTENDS Startup, TLAPS, WellFoundedInduction, FiniteSetTheorems

(* The keys the code names. *)
LEMMA NamedSettings ==
  /\ Canonical \subseteq Settings
  /\ StoredFirst \subseteq Settings
  /\ {"horizontalSensitivity", "verticalSensitivity", "pointerRotateSensitivity",
      "minimumZoomDistance", "maximumZoomDistance", "pitchMinimumDegrees",
      "pitchMaximumDegrees", "keyboardMovement"} \subseteq Settings
  BY DEF Settings, Defaults, Canonical, StoredFirst

(* The defaults are a configuration; the game's own maximum is kept. *)
LEMMA DefaultsTyped == Defaults \in Configs /\ Defaults.maximumZoomDistance = 0
  BY DEF Configs, Settings, Defaults

-----------------------------------------------------------------------------
(* The configuration.                                                      *)

(* While the file is read, the candidate is what its lines have said so    *)
(* far, and the canonical keys they have set are known.                    *)
CandidateIsSaid ==
  \A key \in Settings :
    Clean(key) /\ (key = "keyboardMovement" => wasd) =>
      candidate[key] = Said(key, line - 1)

SawWritten == saw = {key \in Canonical : Written(key, line - 1) # {}}

ConfigInv ==
  /\ ConfigTypeOK
  /\ loading \in {"start", "reading"} => CandidateIsSaid /\ SawWritten
  /\ loading = "start" => line = 1 /\ saw = {} /\ candidate = Defaults

(* A file is a sequence of lines. *)
LEMMA FileTyped ==
  ASSUME file \in Files
  PROVE  /\ Len(file) \in Nat
         /\ \A i \in 1 .. Len(file) : file[i] \in Lines
  BY ConfigConstants

(* What is stored is a number. *)
LEMMA StoredTyped == ASSUME NEW l \in Lines, Stored(l) PROVE l.text \in Int
  BY DEF Lines, Stored, Valid, Number, Whole

(* The operations on configurations yield configurations. *)
LEMMA OperationsTyped ==
  ASSUME NEW c \in Configs
  PROVE  /\ Flavored(c) \in Configs
         /\ CheckedZoomPair(c) \in Configs
         /\ CheckedPitchPair(c) \in Configs
         /\ Folded(c) \in Configs
<1>1. Flavored(c) \in Configs
  BY NamedSettings DEF Flavored, Configs
<1>2. \A keys : Revert(c, keys) \in Configs
  BY DefaultsTyped DEF Revert, Configs
<1>3. CheckedZoomPair(c) \in Configs /\ CheckedPitchPair(c) \in Configs
  BY <1>2 DEF CheckedZoomPair, CheckedPitchPair
<1>4. \A key \in Canonical : Legacy(c, key) \in Int
  BY NamedSettings DEF Legacy, Configs
<1>5. Folded(c) \in Configs
  BY <1>4 DEF Folded, Configs
<1> QED BY <1>1, <1>3, <1>5

(* Nothing is said before the first line. *)
LEMMA NothingSaid ==
  ASSUME NEW key PROVE Written(key, 0) = {} /\ Said(key, 0) = Defaults[key]
<1>1. Written(key, 0) = {}
  BY DEF Written
<1> QED BY <1>1 DEF Said

(* A valid line has the word for its key, any other leaves it as it was.   *)
LEMMA NextLineSays ==
  ASSUME file \in Files, NEW n \in Nat, n + 1 <= Len(file), NEW key
  PROVE  /\ file[n + 1].key = key /\ Valid(file[n + 1]) =>
              Written(key, n + 1) # {} /\ Said(key, n + 1) = file[n + 1].text
         /\ ~(file[n + 1].key = key /\ Valid(file[n + 1])) =>
              Written(key, n + 1) = Written(key, n) /\ Said(key, n + 1) = Said(key, n)
<1>1. Len(file) \in Nat
  BY FileTyped
<1>2. CASE file[n + 1].key = key /\ Valid(file[n + 1])
  <2>1. n + 1 \in Written(key, n + 1)
    BY <1>1, <1>2 DEF Written
  <2>2. \A j \in Written(key, n + 1) : j \in Int /\ j <= n + 1
    BY DEF Written
  <2>3. Last(Written(key, n + 1)) = n + 1
    BY <2>1, <2>2 DEF Last
  <2> QED BY <1>2, <2>1, <2>3 DEF Said
<1>3. CASE ~(file[n + 1].key = key /\ Valid(file[n + 1]))
  <2>1. Written(key, n + 1) = Written(key, n)
    <3>1. 1 .. n + 1 = 1 .. n \cup {n + 1}
      OBVIOUS
    <3> QED BY <1>3, <3>1 DEF Written
  <2> QED BY <1>3, <2>1 DEF Said
<1> QED BY <1>2, <1>3

(* Reading a line keeps the invariant. *)
LEMMA ReadLineKeeps == ASSUME ConfigInv, ReadLine PROVE ConfigInv'
<1> DEFINE l == file[line]
<1>1. /\ loading = "reading" /\ loading' = "reading"
      /\ line \in Nat \ {0} /\ line <= Len(file) /\ line' = line + 1
      /\ file' = file /\ file \in Files /\ wasd' = wasd /\ config' = config
      /\ l \in Lines /\ candidate \in Configs /\ saw \subseteq Canonical
      /\ Len(file) \in Nat
  BY FileTyped DEF ConfigInv, ConfigTypeOK, ReadLine
<1>2. \A key \in Settings :
        candidate'[key] = IF key = "keyboardMovement" /\ l.key = key /\ ~wasd THEN 0
                          ELSE IF l.key = key /\ Stored(l) THEN l.text
                          ELSE candidate[key]
  BY <1>1, NamedSettings DEF ReadLine, Flavored, Configs
<1>3. candidate' \in Configs
  <2> DEFINE read == IF Stored(l) THEN [candidate EXCEPT ![l.key] = l.text] ELSE candidate
  <2>1. l.key \in Settings => read \in Configs
    BY <1>1, StoredTyped DEF Configs
  <2>2. l.key \in Settings => Flavored(read) \in Configs
    BY <2>1, OperationsTyped
  <2>3. candidate' = IF l.key \in Settings
                     THEN IF l.key = "keyboardMovement" THEN Flavored(read) ELSE read
                     ELSE candidate
    BY DEF ReadLine
  <2> QED BY <1>1, <2>1, <2>2, <2>3
<1>4. saw' = IF l.key \in Canonical /\ Valid(l) THEN saw \cup {l.key} ELSE saw
  BY DEF ReadLine
<1>5. ConfigTypeOK'
  BY <1>1, <1>3, <1>4 DEF ConfigInv, ConfigTypeOK, ReadLine
<1>6. \A key : /\ Written(key, line - 1)' = Written(key, line' - 1)
               /\ Said(key, line - 1)' = Said(key, line' - 1)
               /\ Clean(key)' = Clean(key)
  BY <1>1 DEF Written, Said, Clean, Valid, Stored
<1>7. /\ line - 1 \in Nat /\ (line - 1) + 1 <= Len(file) /\ line' - 1 = (line - 1) + 1
      /\ (line - 1) + 1 = line
  BY <1>1
<1>8. \A key :
        /\ l.key = key /\ Valid(l) =>
             Written(key, line) # {} /\ Said(key, line) = l.text
        /\ ~(l.key = key /\ Valid(l)) =>
             Written(key, line) = Written(key, line - 1) /\ Said(key, line) = Said(key, line - 1)
  BY <1>1, <1>7, NextLineSays
<1>9. CandidateIsSaid'
  <2> SUFFICES ASSUME NEW key \in Settings, Clean(key),
                      key = "keyboardMovement" => wasd
               PROVE  candidate'[key] = Said(key, line)
    BY <1>1, <1>6, <1>7 DEF CandidateIsSaid
  <2>1. candidate[key] = Said(key, line - 1)
    BY <1>1 DEF ConfigInv, CandidateIsSaid
  <2>2. l.key = key /\ Stored(l) => Valid(l)
    BY <1>1 DEF Clean
  <2> QED BY <1>2, <1>8, <2>1, <2>2 DEF Stored
<1>10. SawWritten'
  <2>1. saw = {key \in Canonical : Written(key, line - 1) # {}}
    BY <1>1 DEF ConfigInv, SawWritten
  <2>2. saw' = {key \in Canonical : Written(key, line) # {}}
    BY <1>4, <1>8, <2>1
  <2> QED BY <1>1, <1>6, <1>7, <2>2 DEF SawWritten
<1> QED BY <1>1, <1>5, <1>9, <1>10 DEF ConfigInv

(* The pairs the file is checked for, and what they leave alone. *)
ZoomPair == {"minimumZoomDistance", "maximumZoomDistance"}
PitchPair == {"pitchMinimumDegrees", "pitchMaximumDegrees"}

LEMMA PairsCheckedApart ==
  ASSUME NEW c \in Configs, NEW key \in Settings
  PROVE  /\ CheckedPitchPair(CheckedZoomPair(c))[key] =
              IF key \in ZoomPair THEN CheckedZoomPair(c)[key]
              ELSE IF key \in PitchPair THEN CheckedPitchPair(c)[key] ELSE c[key]
<1>1. \A k \in Settings : k \notin ZoomPair => CheckedZoomPair(c)[k] = c[k]
  BY DEF CheckedZoomPair, Revert, ZoomPair
<1>2. CheckedZoomPair(c) \in Configs
  BY OperationsTyped
<1>3. \A d \in Configs, k \in Settings :
        CheckedPitchPair(d)[k] =
          IF k \in PitchPair /\ d.pitchMinimumDegrees >= d.pitchMaximumDegrees
          THEN Defaults[k] ELSE d[k]
  BY DEF CheckedPitchPair, Revert, PitchPair
<1>4. \A k \in PitchPair : k \notin ZoomPair /\ k \in Settings
  BY NamedSettings DEF PitchPair, ZoomPair
<1>5. /\ CheckedZoomPair(c).pitchMinimumDegrees = c.pitchMinimumDegrees
      /\ CheckedZoomPair(c).pitchMaximumDegrees = c.pitchMaximumDegrees
  BY <1>1, <1>4 DEF PitchPair
<1> QED BY <1>1, <1>2, <1>3, <1>4, <1>5

(* Two limits that are both asked for are a range. *)
RangeAsked ==
  MinimumAsked # 0 /\ MaximumAsked # 0 => MinimumAsked < MaximumAsked

(* Finishing gives what the file is meant to give. *)
LEMMA FinishKeeps ==
  ASSUME ConfigInv, FinishConfig
  PROVE  ConfigInv' /\ LoadedAsWritten' /\ RangeAsked'
<1> DEFINE n == Len(file)
           checked == CheckedPitchPair(CheckedZoomPair(candidate))
<1>1. /\ loading = "reading" /\ loading' = "loaded" /\ line > n /\ line \in 1 .. n + 1
      /\ n \in Nat /\ file' = file /\ wasd' = wasd /\ line' = line
      /\ candidate' = candidate /\ saw' = saw
      /\ file \in Files /\ candidate \in Configs /\ saw \subseteq Canonical
      /\ config' = Flavored(Folded(checked)) /\ wasd \in BOOLEAN
  BY FileTyped DEF ConfigInv, ConfigTypeOK, FinishConfig
<1>2. line - 1 = n
  BY <1>1
<1>3. checked \in Configs /\ Folded(checked) \in Configs /\ config' \in Configs
  BY <1>1, OperationsTyped
<1>4. ConfigInv'
  BY <1>1, <1>3 DEF ConfigInv, ConfigTypeOK
<1>5. /\ saw = {key \in Canonical : Written(key, n) # {}}
      /\ \A key \in Settings :
           Clean(key) /\ (key = "keyboardMovement" => wasd) =>
             candidate[key] = WholeFile[key]
  BY <1>1, <1>2 DEF ConfigInv, CandidateIsSaid, SawWritten, WholeFile
<1>6. \A key \in Settings : key \notin StoredFirst => Clean(key)
  BY DEF Clean, Stored
<1>7. WholeFile.maximumZoomDistance = candidate.maximumZoomDistance
      /\ WholeFile.minimumZoomDistance = candidate.minimumZoomDistance
      /\ WholeFile.pitchMinimumDegrees = candidate.pitchMinimumDegrees
      /\ WholeFile.pitchMaximumDegrees = candidate.pitchMaximumDegrees
      /\ \A key \in Canonical : Legacy(WholeFile, key) = Legacy(candidate, key)
  BY <1>5, <1>6, NamedSettings DEF StoredFirst, Legacy
<1>8. \A key \in Settings :
        /\ key \in ZoomPair => CheckedZoomPair(WholeFile)[key] = CheckedZoomPair(candidate)[key]
        /\ key \in PitchPair => CheckedPitchPair(WholeFile)[key] = CheckedPitchPair(candidate)[key]
  BY <1>7 DEF ZoomPair, PitchPair, CheckedZoomPair, CheckedPitchPair, Revert
<1>9. \A key \in Settings : checked[key] =
        IF key \in ZoomPair THEN CheckedZoomPair(WholeFile)[key]
        ELSE IF key \in PitchPair THEN CheckedPitchPair(WholeFile)[key]
        ELSE candidate[key]
  BY <1>1, <1>8, PairsCheckedApart
<1>10. \A key \in Canonical : Legacy(checked, key) = Legacy(candidate, key)
  BY <1>9, NamedSettings DEF Legacy, ZoomPair, PitchPair
<1>11. \A key \in Settings : Folded(checked)[key] =
         IF key \in Canonical /\ Written(key, n) = {} THEN Legacy(WholeFile, key)
         ELSE checked[key]
  BY <1>5, <1>7, <1>10 DEF Folded
<1>12. \A key \in Settings : config'[key] =
         IF key = "keyboardMovement" /\ ~wasd THEN 0 ELSE Folded(checked)[key]
  BY <1>1, <1>3 DEF Flavored, Configs
<1>13. \A key \in Settings : Clean(key) => config'[key] = Intended(key)
  <2> SUFFICES ASSUME NEW key \in Settings, Clean(key) PROVE config'[key] = Intended(key)
    OBVIOUS
  <2>1. key \in Canonical => key \notin ZoomPair \cup PitchPair /\ key # "keyboardMovement"
    BY DEF Canonical, ZoomPair, PitchPair
  <2>2. CASE key = "keyboardMovement" /\ ~wasd
    BY <1>12, <2>2 DEF Intended, Canonical
  <2>3. CASE ~(key = "keyboardMovement" /\ ~wasd) /\ key \in Canonical /\ Written(key, n) = {}
    BY <1>11, <1>12, <2>1, <2>3 DEF Intended, ZoomPair, PitchPair
  <2>4. CASE ~(key = "keyboardMovement" /\ ~wasd) /\ ~(key \in Canonical /\ Written(key, n) = {})
    <3>1. config'[key] = checked[key]
      BY <1>11, <1>12, <2>4
    <3>2. candidate[key] = WholeFile[key]
      BY <1>5, <2>4
    <3>3. key \notin ZoomPair \/ key \notin PitchPair
      BY DEF ZoomPair, PitchPair
    <3>4. key \in ZoomPair => Intended(key) = CheckedZoomPair(WholeFile)[key]
      BY <2>4 DEF Intended, ZoomPair, Canonical
    <3>5. key \in PitchPair => Intended(key) = CheckedPitchPair(WholeFile)[key]
      BY <2>4 DEF Intended, PitchPair, Canonical
    <3>6. key \notin ZoomPair /\ key \notin PitchPair => Intended(key) = WholeFile[key]
      BY <2>4 DEF Intended, ZoomPair, PitchPair
    <3> QED BY <1>9, <3>1, <3>2, <3>4, <3>5, <3>6
  <2> QED BY <2>2, <2>3, <2>4
<1>14. \A key \in Settings : Clean(key)' = Clean(key) /\ Intended(key)' = Intended(key)
  BY <1>1 DEF Clean, Stored, Valid, Intended, WholeFile, Said, Written
<1>15. LoadedAsWritten'
  BY <1>1, <1>13, <1>14 DEF LoadedAsWritten
<1>16. RangeAsked'
  <2>1. config'.minimumZoomDistance = CheckedZoomPair(candidate).minimumZoomDistance
        /\ config'.maximumZoomDistance = CheckedZoomPair(candidate).maximumZoomDistance
    BY <1>1, <1>9, <1>8, <1>11, <1>12, NamedSettings DEF ZoomPair, Canonical
  <2>2. \/ CheckedZoomPair(candidate).maximumZoomDistance = 0
        \/ CheckedZoomPair(candidate).minimumZoomDistance = 0
        \/ CheckedZoomPair(candidate).minimumZoomDistance
              < CheckedZoomPair(candidate).maximumZoomDistance
    BY <1>1, DefaultsTyped, NamedSettings DEF CheckedZoomPair, Revert, Configs
  <2> QED BY <2>1, <2>2 DEF RangeAsked, MinimumAsked, MaximumAsked
<1> QED BY <1>4, <1>15, <1>16

(* The rest of LoadCameraConfig. *)
LEMMA LoadKeeps ==
  ASSUME ConfigInv, LoadedAsWritten, RangeAsked, LoadCameraConfig
  PROVE  ConfigInv' /\ LoadedAsWritten' /\ RangeAsked'
<1>1. Flavored(Defaults) \in Configs
  BY DefaultsTyped, OperationsTyped
<1>2. Flavored(Defaults).maximumZoomDistance = 0
  BY DefaultsTyped, NamedSettings DEF Flavored, Configs
<1>3. CASE SafeDefaults \/ OpenFile
  <2>1. ConfigTypeOK'
    BY <1>1, <1>3 DEF ConfigInv, ConfigTypeOK, SafeDefaults, OpenFile
  <2>2. CandidateIsSaid' <=> CandidateIsSaid
    <3>1. file' = file /\ wasd' = wasd /\ line' = line /\ candidate' = candidate
      BY <1>3 DEF SafeDefaults, OpenFile
    <3>2. \A key \in Settings : Clean(key)' = Clean(key) /\ Said(key, line - 1)' = Said(key, line - 1)
      BY <3>1 DEF Clean, Stored, Valid, Said, Written
    <3> QED BY <3>1, <3>2 DEF CandidateIsSaid
  <2>3. SawWritten' <=> SawWritten
    BY <1>3 DEF SawWritten, Written, Valid, SafeDefaults, OpenFile
  <2>4. ConfigInv'
    BY <1>3, <2>1, <2>2, <2>3 DEF ConfigInv, SafeDefaults, OpenFile
  <2>5. LoadedAsWritten'
    BY <1>3 DEF LoadedAsWritten, SafeDefaults, OpenFile, Flavored
  <2>6. RangeAsked'
    BY <1>2, <1>3 DEF RangeAsked, MaximumAsked, SafeDefaults, OpenFile
  <2> QED BY <2>4, <2>5, <2>6
<1>4. CASE ReadLine
  <2>1. ConfigInv'
    BY <1>4, ReadLineKeeps
  <2>2. loading' = "reading" /\ config' = config
    BY <1>4 DEF ReadLine
  <2> QED BY <2>1, <2>2 DEF LoadedAsWritten, RangeAsked, MinimumAsked, MaximumAsked
<1>5. CASE FinishConfig
  BY <1>5, FinishKeeps
<1> QED BY <1>3, <1>4, <1>5 DEF LoadCameraConfig

-----------------------------------------------------------------------------
(* The search.                                                             *)

(* A set of natural numbers has a least one. *)
LEMMA LeastExists ==
  ASSUME NEW S \in SUBSET Nat, S # {}
  PROVE  Least(S) \in S /\ \A m \in S : Least(S) <= m
<1> DEFINE below == {pair \in Nat \X Nat : pair[1] < pair[2]}
<1>1. IsWellFoundedOn(below, Nat)
  BY NatLessThanWellFounded, Zenon DEF OpToRel
<1> HIDE DEF below
<1>2. PICK n \in S : \A m \in S : ~ (<<m, n>> \in below)
  BY <1>1, WFMin
<1>3. \A a, b \in Nat : a < b => <<a, b>> \in below
  BY DEF below
<1>4. ASSUME NEW m \in S PROVE n <= m
  <2>1. m \in Nat /\ n \in Nat
    OBVIOUS
  <2>2. ~ (m < n)
    BY <1>2, <1>3, <2>1
  <2> QED BY <2>1, <2>2
<1> QED BY <1>4 DEF Least

(* The patterns of a build are well formed, and those of both flavors in   *)
(* the order of all of them.                                               *)
LEMMA RequiredTyped ==
  ASSUME NEW b \in BOOLEAN, NEW required, required = RequiredPatterns(b)
  PROVE  /\ Len(required) \in Nat /\ Len(required) <= Len(AllPatterns)
         /\ Len(AllPatterns) = Len(CameraPatterns) + 1
         /\ Len(CameraPatterns) \in Nat /\ Len(CameraPatterns) <= Len(required)
         /\ b => Len(required) = Len(AllPatterns)
         /\ \A k \in 1 .. Len(required) :
              /\ k \in DOMAIN AllPatterns /\ required[k] = AllPatterns[k]
              /\ required[k] \in Pattern /\ required[k].name \in Names
              /\ required[k].bytes # <<>>
              /\ required[k].mask = <<>>
                 \/ Len(required[k].mask) = Len(required[k].bytes)
<1>1. /\ CameraPatterns \in Seq(Pattern) /\ GuardPattern \in Pattern
      /\ Append(CameraPatterns, GuardPattern) \in Seq(Pattern)
  BY PatternConstants
<1>2. \A k \in 1 .. Len(CameraPatterns) :
        Append(CameraPatterns, GuardPattern)[k] = CameraPatterns[k]
  BY <1>1
<1>3. /\ Len(Append(CameraPatterns, GuardPattern)) = Len(CameraPatterns) + 1
      /\ Len(CameraPatterns) \in Nat
  BY <1>1
<1>4. AllPatterns = Append(CameraPatterns, GuardPattern)
  BY DEF AllPatterns, RequiredPatterns
<1>5. DOMAIN AllPatterns = 1 .. Len(AllPatterns) /\ AllPatterns \in Seq(Pattern)
  BY <1>1, <1>4
<1>6. \A k \in 1 .. Len(required) :
        k \in DOMAIN AllPatterns /\ required[k] = AllPatterns[k]
  BY <1>1, <1>2, <1>3, <1>4, <1>5 DEF RequiredPatterns
<1>7. \A k \in DOMAIN AllPatterns :
        /\ AllPatterns[k] \in Pattern /\ AllPatterns[k].name \in Names
        /\ AllPatterns[k].bytes # <<>>
        /\ AllPatterns[k].mask = <<>>
           \/ Len(AllPatterns[k].mask) = Len(AllPatterns[k].bytes)
  BY <1>5, PatternConstants DEF Names
<1>8. /\ Len(required) \in Nat /\ Len(required) <= Len(AllPatterns)
      /\ Len(CameraPatterns) <= Len(required)
      /\ b => Len(required) = Len(AllPatterns)
  BY <1>3, <1>4 DEF RequiredPatterns
<1> QED BY <1>3, <1>4, <1>6, <1>7, <1>8

(* The anchor is one of the bytes that are compared anyway. *)
LEMMA AnchorHarmless ==
  ASSUME NEW p \in Pattern, NEW o, MatchesAt(p, o) PROVE Anchored(p, o)
<1> DEFINE needed == {i \in DOMAIN p.bytes : ~Ignored(p, i)}
<1>1. needed \in SUBSET Nat
  BY DEF Pattern
<1>2. needed # {} => Least(needed) \in needed
  BY <1>1, LeastExists
<1> QED BY <1>2 DEF Anchored, MatchesAt

(* The places of a sequence. *)
LEMMA SeqDomain == ASSUME NEW S, NEW s \in Seq(S) PROVE DOMAIN s \in SUBSET Nat
  OBVIOUS

(* What is found in the program's images is a sequence of bytes. *)
LEMMA TextTyped ==
  ASSUME NEW images \in ImageLists
  PROVE  FindMainExecutableText(images) \in Seq(Byte) \cup {NoText}
<1>1. images \in Seq(Image)
  BY PatternConstants
<1>2. ASSUME NEW commands \in Seq(Command)
      PROVE  FindTextSection(commands) \in Seq(Byte) \cup {NoText}
  <2> DEFINE holding == {c \in Reached(commands) : TextSections(commands[c]) # {}}
  <2>1. CASE holding = {}
    BY <2>1 DEF FindTextSection
  <2>2. CASE holding # {}
    <3> DEFINE command == commands[Least(holding)]
               section == Least(TextSections(command))
    <3>1. holding \in SUBSET Nat /\ \A c \in holding : commands[c] \in Command
      BY DEF Reached
    <3>2. command \in Command /\ TextSections(command) # {}
      BY <2>2, <3>1, LeastExists
    <3>3. command.sections \in Seq(Section)
      BY <3>2 DEF Command
    <3>4. DOMAIN command.sections \in SUBSET Nat
      BY <3>3, SeqDomain
    <3>5. section \in DOMAIN command.sections
      BY <3>2, <3>4, LeastExists DEF TextSections
    <3>6. command.sections[section] \in Section
      BY <3>3, <3>5
    <3>7. command.sections[section].bytes \in Seq(Byte)
      BY <3>6 DEF Section
    <3> QED BY <2>2, <3>7 DEF FindTextSection
  <2> QED BY <2>1, <2>2
<1> DEFINE executables == {i \in DOMAIN images : images[i].executable}
<1>3. CASE executables = {}
  BY <1>3 DEF FindMainExecutableText
<1>4. CASE executables # {}
  <2>1. executables \in SUBSET Nat /\ \A i \in executables : images[i] \in Image
    BY <1>1
  <2>2. images[Least(executables)] \in Image
    BY <1>4, <2>1, LeastExists
  <2>3. images[Least(executables)].commands \in Seq(Command)
    BY <2>2 DEF Image
  <2> QED BY <1>2, <1>4, <2>3 DEF FindMainExecutableText
<1> QED BY <1>3, <1>4

(* Until a text is searched nothing is found; the patterns gone through    *)
(* are where their addresses say, and were all unique if none was missed.  *)
Placed ==
  \A n \in Names : address[n] # 0 =>
    \E k \in 1 .. next - 1 :
      /\ k \in DOMAIN RequiredPatterns(wasd) /\ RequiredPatterns(wasd)[k].name = n
      /\ OnlyPlace(RequiredPatterns(wasd)[k], address[n])

UniqueSoFar ==
  unique => \A k \in 1 .. next - 1 : Unique(RequiredPatterns(wasd)[k])

ScanInv ==
  /\ ScanTypeOK /\ wasd \in BOOLEAN
  /\ next \in 1 .. Len(RequiredPatterns(wasd)) + 1
  /\ scan \in {"start", "noText"} =>
       text = <<>> /\ next = 1 /\ cursor = 1 /\ matches = {} /\ address = [n \in Names |-> 0]
  /\ FoundSoFar(RequiredPatterns(wasd))
  /\ Placed /\ UniqueSoFar
  /\ scan = "verified" =>
       next = Len(RequiredPatterns(wasd)) + 1 /\ AllFound(RequiredPatterns(wasd))

(* With the text, what occurs where stays. *)
LEMMA SameText ==
  ASSUME text' = text
  PROVE  \A p : /\ Offsets(p)' = Offsets(p) /\ Occurrences(p)' = Occurrences(p)
                /\ (\A o : OnlyPlace(p, o)' = OnlyPlace(p, o))
                /\ Unique(p)' = Unique(p)
  BY DEF Offsets, Occurrences, MatchesAt, Ignored, OnlyPlace, Unique

(* One more match, or one more offset tried. *)
LEMMA FindAllKeeps ==
  ASSUME ScanInv, FindAll(RequiredPatterns(wasd)), wasd' = wasd
  PROVE  ScanInv'
<1> DEFINE required == RequiredPatterns(wasd)
           p == required[next]
<1>1. /\ scan = "searching" /\ scan' = scan /\ text' = text /\ next' = next
      /\ unique' = unique /\ address' = address
      /\ next \in 1 .. Len(required) /\ Len(required) \in Nat
      /\ text \in Seq(Byte) /\ cursor \in 1 .. Len(text) + 1 /\ Len(text) \in Nat
      /\ p \in Pattern /\ Len(p.bytes) \in Nat /\ p.bytes # <<>>
      /\ matches = {o \in Occurrences(p) : o < cursor}
  <2>1. next \in 1 .. Len(required) /\ Len(required) \in Nat
    BY RequiredTyped DEF ScanInv, FindAll
  <2>2. p \in Pattern /\ p.bytes # <<>>
    BY <2>1, RequiredTyped DEF ScanInv
  <2> QED BY <2>1, <2>2 DEF ScanInv, ScanTypeOK, FindAll, FoundSoFar, Pattern
<1>2. Len(p.bytes) > 0 /\ Occurrences(p) \in SUBSET (1 .. Len(text))
  <2>1. p.bytes \in Seq(Byte)
    BY <1>1 DEF Pattern
  <2>2. Len(p.bytes) > 0
    BY <1>1, <2>1
  <2>3. \A o \in Offsets(p) : o \in 1 .. Len(text)
    BY <1>1, <2>2 DEF Offsets
  <2> QED BY <2>2, <2>3 DEF Occurrences
<1>3. cursor' \in 1 .. Len(text) + 1
      /\ matches' = {o \in Occurrences(p) : o < cursor'}
  <2>1. CASE Search(p)
    <3>1. Ahead(p) \in SUBSET Nat /\ Ahead(p) # {}
      BY <1>2, <2>1 DEF Ahead, Search
    <3>2. Least(Ahead(p)) \in Ahead(p) /\ \A o \in Ahead(p) : Least(Ahead(p)) <= o
      BY <3>1, LeastExists
    <3>3. /\ matches' = matches \cup {Least(Ahead(p))} /\ cursor' = Least(Ahead(p)) + 1
      BY <2>1 DEF Search
    <3>4. Least(Ahead(p)) \in Occurrences(p) /\ Least(Ahead(p)) >= cursor
      BY <3>2 DEF Ahead
    <3>5. ASSUME NEW o \in Occurrences(p)
          PROVE  o < cursor' <=> o < cursor \/ o = Least(Ahead(p))
      <4>1. o \in Nat /\ Least(Ahead(p)) \in Nat /\ cursor \in Nat
        BY <1>1, <1>2, <3>4
      <4>2. o >= cursor => Least(Ahead(p)) <= o
        BY <3>2 DEF Ahead
      <4> QED BY <3>3, <3>4, <4>1, <4>2
    <3>6. cursor' \in 1 .. Len(text) + 1
      BY <1>1, <1>2, <3>3, <3>4
    <3> QED BY <1>1, <3>3, <3>4, <3>5, <3>6
  <2>2. CASE Try(p)
    <3>1. cursor \in Offsets(p) /\ cursor' = cursor + 1
      BY <2>2 DEF Try
    <3>2. Anchored(p, cursor) /\ MatchesAt(p, cursor) <=> cursor \in Occurrences(p)
      BY <1>1, <3>1, AnchorHarmless DEF Occurrences
    <3>3. matches' = IF cursor \in Occurrences(p) THEN matches \cup {cursor} ELSE matches
      BY <2>2, <3>2 DEF Try
    <3>4. \A o \in Occurrences(p) : o < cursor' <=> o < cursor \/ o = cursor
      BY <1>1, <1>2, <3>1
    <3>5. cursor \in 1 .. Len(text)
      BY <1>1, <1>2, <3>1 DEF Offsets
    <3> QED BY <1>1, <3>1, <3>3, <3>4, <3>5
  <2> QED BY <2>1, <2>2 DEF FindAll
<1>4. ScanTypeOK'
  BY <1>1, <1>2, <1>3 DEF ScanInv, ScanTypeOK
<1>5. FoundSoFar(required)'
  BY <1>1, <1>3, SameText DEF FoundSoFar
<1>6. Placed'
  <2>1. RequiredPatterns(wasd)' = required /\ next' = next /\ address' = address
    BY <1>1
  <2>2. \A q, o : OnlyPlace(q, o)' = OnlyPlace(q, o)
    BY <1>1, SameText
  <2> QED BY <2>1, <2>2 DEF ScanInv, Placed
<1>7. UniqueSoFar'
  BY <1>1, SameText DEF ScanInv, UniqueSoFar
<1> QED BY <1>1, <1>4, <1>5, <1>6, <1>7 DEF ScanInv

(* A pattern is done with when all its occurrences have been found. *)
LEMMA ConcludeKeeps ==
  ASSUME ScanInv, Conclude(RequiredPatterns(wasd)), wasd' = wasd
  PROVE  ScanInv'
<1> DEFINE required == RequiredPatterns(wasd)
           p == required[next]
<1>1. /\ scan = "searching" /\ scan' = scan /\ text' = text /\ next' = next + 1
      /\ next \in 1 .. Len(required) /\ Len(required) \in Nat
      /\ Len(required) <= Len(AllPatterns) /\ Len(AllPatterns) \in Nat
      /\ cursor' = 1 /\ matches' = {} /\ Exhausted(p)
      /\ text \in Seq(Byte) /\ cursor \in 1 .. Len(text) + 1 /\ Len(text) \in Nat
      /\ p \in Pattern /\ p.name \in Names
      /\ matches = {o \in Occurrences(p) : o < cursor}
      /\ matches \subseteq 1 .. Len(text)
  <2>1. next \in 1 .. Len(required) /\ Len(required) \in Nat
        /\ Len(required) <= Len(AllPatterns) /\ Len(AllPatterns) \in Nat
    BY RequiredTyped DEF ScanInv, Conclude
  <2>2. p \in Pattern /\ p.name \in Names
    BY <2>1, RequiredTyped DEF ScanInv
  <2> QED BY <2>1, <2>2 DEF ScanInv, ScanTypeOK, Conclude, FoundSoFar
<1>2. matches = Occurrences(p)
  <2>1. \A o \in Occurrences(p) : o \in Int /\ o >= 1 /\ o \in Offsets(p)
    BY DEF Occurrences, Offsets
  <2>2. ASSUME NEW o \in Occurrences(p) PROVE o < cursor
    <3>1. CASE p.mask = <<>>
      <4>1. ~(o >= cursor)
        BY <1>1, <3>1 DEF Exhausted, Ahead
      <4>2. o \in Int /\ cursor \in Int
        BY <1>1, <2>1
      <4> QED BY <4>1, <4>2
    <3>2. CASE p.mask # <<>>
      <4>1. cursor \notin Offsets(p)
        BY <1>1, <3>2 DEF Exhausted
      <4>2. Len(p.bytes) \in Nat
        BY <1>1 DEF Pattern
      <4> QED BY <1>1, <2>1, <4>1, <4>2 DEF Offsets
    <3> QED BY <3>1, <3>2
  <2> QED BY <1>1, <2>2
<1>3. Cardinality(matches) = 1 => matches = {Least(matches)}
  <2>1. IsFiniteSet(matches)
    <3>1. IsFiniteSet(1 .. Len(text))
      BY <1>1, FS_Interval
    <3> QED BY <1>1, <3>1, FS_Subset
  <2>2. Cardinality(matches) = 1 => \E o : matches = {o}
    BY <2>1, FS_Singleton
  <2>3. \A o : matches = {o} => Least(matches) = o
    <3> SUFFICES ASSUME NEW o, matches = {o} PROVE Least(matches) = o
      OBVIOUS
    <3>1. matches \in SUBSET Nat /\ matches # {}
      BY <1>1
    <3>2. Least(matches) \in matches
      BY <3>1, LeastExists
    <3> QED BY <3>2
  <2> QED BY <2>2, <2>3
<1>4. Cardinality(matches) = 1 =>
        Least(matches) \in Offsets(p) /\ OnlyPlace(p, Least(matches))
        /\ Least(matches) \in 1 .. Len(text)
  <2> SUFFICES ASSUME Cardinality(matches) = 1
               PROVE  Least(matches) \in Offsets(p) /\ OnlyPlace(p, Least(matches))
                      /\ Least(matches) \in 1 .. Len(text)
    OBVIOUS
  <2>1. Occurrences(p) = {Least(matches)}
    BY <1>2, <1>3
  <2>2. Least(matches) \in matches
    BY <1>3
  <2> QED BY <1>1, <1>2, <2>1, <2>2 DEF OnlyPlace, Occurrences
<1>5. /\ address' = IF Cardinality(matches) = 1 /\ p.name \notin OnlyVerified
                    THEN [address EXCEPT ![p.name] = Least(matches)] ELSE address
      /\ unique' = (unique /\ Cardinality(matches) = 1)
  BY DEF Conclude, ScanInv, ScanTypeOK
<1>6. ScanTypeOK'
  <2>1. address' \in [Names -> 0 .. Len(text)]
    BY <1>1, <1>4, <1>5 DEF ScanInv, ScanTypeOK
  <2> QED BY <1>1, <1>5, <2>1 DEF ScanInv, ScanTypeOK
<1>7. FoundSoFar(required)'
  <2>1. \A q : \A o \in Occurrences(q)' : ~(o < 1)
    BY DEF Occurrences, Offsets
  <2> QED BY <1>1, <2>1 DEF FoundSoFar
<1>8. Placed'
  <2>1. \A q, o : OnlyPlace(q, o)' = OnlyPlace(q, o)
    BY <1>1, SameText
  <2> SUFFICES ASSUME NEW n \in Names, address'[n] # 0
               PROVE  \E k \in 1 .. next' - 1 :
                        /\ k \in DOMAIN required /\ required[k].name = n
                        /\ OnlyPlace(required[k], address'[n])
    BY <2>1 DEF Placed
  <2>2. next \in 1 .. next' - 1 /\ next \in DOMAIN required
    <3>1. required \in Seq(Pattern)
      BY PatternConstants DEF RequiredPatterns
    <3> QED BY <1>1, <3>1
  <2>3. CASE address'[n] = address[n]
    <3>1. PICK k \in 1 .. next - 1 :
            /\ k \in DOMAIN required /\ required[k].name = n
            /\ OnlyPlace(required[k], address[n])
      BY <2>3 DEF ScanInv, Placed
    <3>2. k \in 1 .. next' - 1
      BY <1>1
    <3> QED BY <2>3, <3>1, <3>2
  <2>4. CASE address'[n] # address[n]
    <3>1. Cardinality(matches) = 1 /\ n = p.name /\ address'[n] = Least(matches)
      BY <1>5, <2>4 DEF ScanInv, ScanTypeOK
    <3>2. OnlyPlace(required[next], address'[n]) /\ required[next].name = n
      BY <1>4, <3>1
    <3> QED BY <2>2, <3>2
  <2> QED BY <2>3, <2>4
<1>9. UniqueSoFar'
  <2>1. unique' => \A k \in 1 .. next : Unique(required[k])
    <3>1. Cardinality(matches) = 1 => Unique(required[next])
      BY <1>4 DEF Unique
    <3>2. unique => \A k \in 1 .. next - 1 : Unique(required[k])
      BY DEF ScanInv, UniqueSoFar
    <3>3. \A k \in 1 .. next : k = next \/ k \in 1 .. next - 1
      BY <1>1
    <3> QED BY <1>5, <3>1, <3>2, <3>3
  <2>2. \A q : Unique(q)' = Unique(q)
    BY <1>1, SameText
  <2>3. next' - 1 = next
    BY <1>1
  <2> QED BY <1>1, <2>1, <2>2, <2>3 DEF UniqueSoFar
<1>10. next' \in 1 .. Len(required) + 1
  BY <1>1
<1> QED BY <1>1, <1>6, <1>7, <1>8, <1>9, <1>10 DEF ScanInv

(* Nothing else touches what was found. *)
LEMMA ScanElsewhere ==
  ASSUME ScanInv, UNCHANGED <<scanVars, wasd>> PROVE ScanInv'
<1>1. /\ scan' = scan /\ text' = text /\ next' = next /\ cursor' = cursor
      /\ matches' = matches /\ unique' = unique /\ address' = address /\ wasd' = wasd
  BY DEF scanVars
<1>2. /\ \A p, o : OnlyPlace(p, o)' = OnlyPlace(p, o)
      /\ \A p : Occurrences(p)' = Occurrences(p) /\ Unique(p)' = Unique(p)
  BY <1>1, SameText
<1>3. Placed' /\ UniqueSoFar'
  BY <1>1, <1>2 DEF ScanInv, Placed, UniqueSoFar
<1>4. FoundSoFar(RequiredPatterns(wasd))'
  BY <1>1, <1>2 DEF ScanInv, FoundSoFar
<1> QED BY <1>1, <1>3, <1>4 DEF ScanInv, ScanTypeOK, AllFound

(* The verdict. *)
LEMMA VerifyKeeps ==
  ASSUME ScanInv, Verify(RequiredPatterns(wasd)), wasd' = wasd PROVE ScanInv'
<1>1. /\ scan = "searching" /\ text' = text /\ next' = next /\ cursor' = cursor
      /\ matches' = matches /\ unique' = unique /\ address' = address
      /\ scan' \in {"verified", "mismatch"}
      /\ scan' = "verified" => AllFound(RequiredPatterns(wasd))
      /\ next > Len(RequiredPatterns(wasd))
  BY DEF Verify
<1>2. \A p, o : OnlyPlace(p, o)' = OnlyPlace(p, o) /\ Unique(p)' = Unique(p)
  BY <1>1, SameText
<1>3. Placed' /\ UniqueSoFar'
  BY <1>1, <1>2 DEF ScanInv, Placed, UniqueSoFar
<1>4. FoundSoFar(RequiredPatterns(wasd))'
  BY <1>1 DEF FoundSoFar
<1>5. next = Len(RequiredPatterns(wasd)) + 1
  BY <1>1, RequiredTyped DEF ScanInv
<1> QED BY <1>1, <1>3, <1>4, <1>5 DEF ScanInv, ScanTypeOK, AllFound

(* The start: nothing of the text has been found yet. *)
LEMMA LocateKeeps ==
  ASSUME ScanInv, NEW images \in ImageLists, Locate(images), wasd' = wasd
  PROVE  ScanInv'
<1>1. /\ scan = "start" /\ next' = next /\ cursor' = cursor /\ matches' = matches
      /\ unique' = unique /\ address' = address
      /\ next = 1 /\ cursor = 1 /\ matches = {} /\ address = [n \in Names |-> 0]
      /\ text = <<>>
      /\ \/ scan' = "noText" /\ text' = text
         \/ scan' = "searching" /\ text' \in Seq(Byte)
  BY TextTyped DEF Locate, ScanInv
<1>2. ScanTypeOK'
  <2>1. text' \in Seq(Byte)
    BY <1>1 DEF ScanInv, ScanTypeOK
  <2>2. Len(text') \in Nat
    BY <2>1
  <2>3. address' \in [Names -> 0 .. Len(text')]
    BY <1>1, <2>2
  <2>4. cursor' \in 1 .. Len(text') + 1 /\ matches' \subseteq 1 .. Len(text')
    BY <1>1, <2>2
  <2> QED BY <1>1, <2>1, <2>3, <2>4 DEF ScanInv, ScanTypeOK
<1>3. Placed' /\ UniqueSoFar'
  BY <1>1 DEF Placed, UniqueSoFar
<1>4. FoundSoFar(RequiredPatterns(wasd))'
  <2>1. \A p : \A o \in Occurrences(p)' : ~(o < 1)
    BY DEF Occurrences, Offsets
  <2> QED BY <1>1, <2>1 DEF FoundSoFar
<1> QED BY <1>1, <1>2, <1>3, <1>4 DEF ScanInv

-----------------------------------------------------------------------------
(* The patches and the bounds.                                             *)

Patches == Hooked \cup IF KeyboardMovementRequested THEN {GuardBranch} ELSE {}

(* Code is replaced only after the search has found everything. *)
PatchInv ==
  /\ phase \in {"loading", "scanning", "aborted", "dormant", "active", "removed"}
  /\ patched # {} =>
       /\ phase \in {"dormant", "active"} /\ scan = "verified"
       /\ patched = Patches
       /\ KeyboardMovementRequested => IsCbzW8(GuardBranch)

(* A definition holds what the game has authored, or the limits over that. *)
BoundsInv ==
  /\ usable \in BOOLEAN
  /\ captured = <<>> \/ captured \in [Definitions -> ZoomBounds]
  /\ bounds \in [Definitions -> ZoomBounds] /\ authored \in [Definitions -> Authored]
  /\ phase = "dormant" => bounds = authored
  /\ phase \in {"loading", "scanning", "aborted"} => bounds = authored
  /\ phase = "active" =>
       \A d \in Definitions : bounds[d] \in {authored[d], Applied(authored[d])}

IInv ==
  /\ ConfigInv /\ LoadedAsWritten /\ RangeAsked
  /\ ScanInv /\ PatchInv /\ BoundsInv

(* A finished configuration stays what it is. *)
LEMMA ConfigElsewhere ==
  ASSUME ConfigInv, LoadedAsWritten, RangeAsked, UNCHANGED configVars
  PROVE  ConfigInv' /\ LoadedAsWritten' /\ RangeAsked'
<1>1. /\ wasd' = wasd /\ file' = file /\ loading' = loading /\ line' = line
      /\ candidate' = candidate /\ saw' = saw /\ config' = config
  BY DEF configVars
<1>2. \A key, n : /\ Written(key, n)' = Written(key, n) /\ Said(key, n)' = Said(key, n)
                  /\ Clean(key)' = Clean(key) /\ Intended(key)' = Intended(key)
  BY <1>1 DEF Clean, Stored, Valid, Intended, WholeFile, Said, Written
<1>3. ConfigInv'
  <2>1. CandidateIsSaid' <=> CandidateIsSaid
    BY <1>1, <1>2 DEF CandidateIsSaid
  <2>2. SawWritten' <=> SawWritten
    BY <1>1, <1>2 DEF SawWritten
  <2> QED BY <1>1, <2>1, <2>2 DEF ConfigInv, ConfigTypeOK
<1>4. LoadedAsWritten'
  <2>1. Flavored(Defaults)' = Flavored(Defaults)
    BY <1>1 DEF Flavored
  <2> QED BY <1>1, <1>2, <2>1 DEF LoadedAsWritten
<1> QED BY <1>1, <1>3, <1>4 DEF RangeAsked, MinimumAsked, MaximumAsked

(* When LoadCameraConfig returns, only gConfig is left of it. *)
LEMMA ReturnKeeps ==
  ASSUME ConfigInv, RangeAsked, LocateText
  PROVE  ConfigInv' /\ LoadedAsWritten' /\ RangeAsked'
<1>1. /\ wasd' = wasd /\ file' = <<>> /\ loading' = "over" /\ line' = 1
      /\ candidate' = Defaults /\ saw' = {} /\ config' = config
  BY DEF LocateText
<1>2. <<>> \in Files
  BY ConfigConstants
<1>3. ConfigInv'
  BY <1>1, <1>2, DefaultsTyped DEF ConfigInv, ConfigTypeOK
<1> QED BY <1>1, <1>3 DEF LoadedAsWritten, RangeAsked, MinimumAsked, MaximumAsked

(* The limits applied: a range of numbers, the same when applied again. *)
LEMMA AppliedTyped ==
  ASSUME config \in Configs, NEW b \in ZoomBounds
  PROVE  Applied(b) \in ZoomBounds /\ Applied(Applied(b)) = Applied(b)
<1>1. MinimumAsked \in Int /\ MaximumAsked \in Int
  BY NamedSettings DEF MinimumAsked, MaximumAsked, Configs
<1>2. Larger(MaximumAsked, MinimumAsked) \in Int
  BY <1>1 DEF Larger
<1>3. \A a \in ZoomBounds :
        /\ Applied(a) \in ZoomBounds
        /\ Applied(a).min = IF MinimumAsked # 0 THEN MinimumAsked ELSE a.min
        /\ Applied(a).max = IF MaximumAsked # 0 THEN Larger(MaximumAsked, MinimumAsked)
                                               ELSE a.max
  BY <1>1, <1>2 DEF Applied, ZoomBounds
<1>4. \A a, c \in ZoomBounds : a.min = c.min /\ a.max = c.max => a = c
  BY DEF ZoomBounds
<1>5. /\ Applied(Applied(b)).min = Applied(b).min
      /\ Applied(Applied(b)).max = Applied(b).max
  BY <1>3
<1> QED BY <1>3, <1>4, <1>5

(* The limits, the patches and the branch follow from what does not change.*)
LEMMA Consequences ==
  ASSUME config' = config, wasd' = wasd, text' = text, address' = address
  PROVE  /\ Patches' = Patches /\ KeyboardMovementRequested' = KeyboardMovementRequested
         /\ IsCbzW8(GuardBranch)' = IsCbzW8(GuardBranch)
         /\ \A b : Applied(b)' = Applied(b)
         /\ MinimumAsked' = MinimumAsked /\ MaximumAsked' = MaximumAsked
  BY DEF Patches, Hooked, KeyboardMovementRequested, GuardBranch, IsCbzW8, Applied,
         MinimumAsked, MaximumAsked

(* The game and the mod write the bounds. *)
LEMMA BoundsStep ==
  ASSUME IInv, UNCHANGED <<configVars, scanVars>>,
         Activate \/ Update \/ GameAuthors \/ Remove
  PROVE  BoundsInv'
<1>1. \A b : Applied(b)' = Applied(b)
  BY Consequences DEF configVars, scanVars
<1>2. /\ config \in Configs /\ bounds \in [Definitions -> ZoomBounds]
      /\ authored \in [Definitions -> Authored] /\ Authored \subseteq ZoomBounds
  <2>1. config \in Configs
    BY DEF IInv, ConfigInv, ConfigTypeOK
  <2> QED BY <2>1, StartupConstants DEF IInv, BoundsInv
<1>3. /\ \A d \in Definitions : Applied(bounds[d]) \in ZoomBounds
      /\ \A d \in Definitions : Applied(Applied(authored[d])) = Applied(authored[d])
  BY <1>2, AppliedTyped
<1>4. AppliedToAll \in [Definitions -> ZoomBounds]
      /\ \A d \in Definitions : AppliedToAll[d] = Applied(bounds[d])
  BY <1>3 DEF AppliedToAll
<1>5. CASE Activate
  <2>1. bounds = authored /\ phase' = "active" /\ authored' = authored
    BY <1>5 DEF Activate, IInv, BoundsInv
  <2>2. usable' \in BOOLEAN
    BY <1>5 DEF Activate
  <2>3. \/ captured' = bounds /\ bounds' = AppliedToAll
        \/ captured' = captured /\ bounds' = bounds
    BY <1>5 DEF Activate
  <2>4. \A d \in Definitions : bounds'[d] \in {authored[d], Applied(authored[d])}
    BY <1>4, <2>1, <2>3
  <2> QED BY <1>1, <1>2, <1>4, <2>1, <2>2, <2>3, <2>4 DEF IInv, BoundsInv
<1>6. CASE Update
  <2>1. /\ phase = "active" /\ phase' = phase /\ bounds' = AppliedToAll
        /\ usable' = usable /\ captured' = captured /\ authored' = authored
    BY <1>6 DEF Update
  <2>2. \A d \in Definitions : bounds'[d] = Applied(authored[d])
    BY <1>3, <1>4, <2>1 DEF IInv, BoundsInv
  <2> QED BY <1>1, <1>4, <2>1, <2>2 DEF IInv, BoundsInv
<1>7. CASE GameAuthors
  <2>1. PICK d \in Definitions, b \in Authored :
          /\ bounds' = [bounds EXCEPT ![d] = b] /\ authored' = [authored EXCEPT ![d] = b]
    BY <1>7 DEF GameAuthors
  <2>2. /\ phase \in {"dormant", "active"} /\ phase' = phase /\ usable' = usable
        /\ captured' = captured
    BY <1>7 DEF GameAuthors
  <2>3. bounds' \in [Definitions -> ZoomBounds] /\ authored' \in [Definitions -> Authored]
    BY <1>2, <2>1
  <2>4. \A e \in Definitions :
          \/ e = d /\ bounds'[e] = authored'[e]
          \/ bounds'[e] = bounds[e] /\ authored'[e] = authored[e]
    BY <1>2, <2>1
  <2>5. phase = "dormant" => bounds' = authored'
    BY <2>1 DEF IInv, BoundsInv
  <2>6. phase = "active" =>
          \A e \in Definitions : bounds'[e] \in {authored'[e], Applied(authored'[e])}
    BY <2>4 DEF IInv, BoundsInv
  <2> QED BY <1>1, <2>2, <2>3, <2>5, <2>6 DEF IInv, BoundsInv
<1>8. CASE Remove
  BY <1>8 DEF Remove, IInv, BoundsInv
<1> QED BY <1>5, <1>6, <1>7, <1>8

(* Only the steps above write the bounds, and only with an unread config.  *)
LEMMA BoundsElsewhere ==
  ASSUME IInv, UNCHANGED boundsVars, phase' \in {"loading", "scanning", "aborted", "dormant"},
         phase \in {"loading", "scanning"}
  PROVE  BoundsInv'
  BY DEF IInv, BoundsInv, boundsVars

(* The invariant holds throughout. *)
THEOREM Invariant == Spec => []IInv
<1>1. Init => IInv
  <2> SUFFICES ASSUME Init PROVE IInv
    OBVIOUS
  <2>1. /\ wasd \in BOOLEAN /\ file \in Files /\ loading = "start" /\ line = 1
        /\ candidate = Defaults /\ saw = {} /\ config = Defaults
    BY DEF Init, InitConfig
  <2>2. \A key \in Settings : Written(key, line - 1) = {}
                              /\ Said(key, line - 1) = Defaults[key]
    BY <2>1, NothingSaid
  <2>3. CandidateIsSaid /\ SawWritten
    BY <2>1, <2>2, NamedSettings DEF CandidateIsSaid, SawWritten
  <2>4. ConfigInv
    BY <2>1, <2>3, FileTyped, DefaultsTyped DEF ConfigInv, ConfigTypeOK
  <2>5. LoadedAsWritten /\ RangeAsked
    BY <2>1, DefaultsTyped DEF LoadedAsWritten, RangeAsked, MaximumAsked
  <2>6. ScanInv
    <3>1. /\ scan = "start" /\ text = <<>> /\ next = 1 /\ cursor = 1 /\ matches = {}
          /\ unique = TRUE /\ address = [n \in Names |-> 0]
      BY DEF Init, InitScan
    <3>2. ScanTypeOK
      <4>1. Len(AllPatterns) \in Nat
        BY RequiredTyped, <2>1
      <4>2. text \in Seq(Byte) /\ Len(text) = 0
        BY <3>1
      <4> QED BY <3>1, <4>1, <4>2 DEF ScanTypeOK
    <3>3. Placed /\ UniqueSoFar /\ FoundSoFar(RequiredPatterns(wasd))
      BY <3>1 DEF Placed, UniqueSoFar, FoundSoFar
    <3>4. next \in 1 .. Len(RequiredPatterns(wasd)) + 1
      BY <2>1, <3>1, RequiredTyped
    <3> QED BY <2>1, <3>1, <3>2, <3>3, <3>4 DEF ScanInv
  <2>7. PatchInv
    BY DEF Init, PatchInv
  <2>8. BoundsInv
    <3>1. PICK b \in Authored : bounds = [d \in Definitions |-> b]
      BY DEF Init
    <3>2. /\ authored = bounds /\ phase = "loading" /\ usable = FALSE /\ captured = <<>>
      BY DEF Init
    <3>3. b \in ZoomBounds
      BY StartupConstants
    <3>4. bounds \in [Definitions -> ZoomBounds] /\ authored \in [Definitions -> Authored]
      BY <3>1, <3>2, <3>3
    <3> QED BY <3>2, <3>4 DEF BoundsInv
  <2> QED BY <2>4, <2>5, <2>6, <2>7, <2>8 DEF IInv
<1>2. IInv /\ [Next]_vars => IInv'
  <2> SUFFICES ASSUME IInv, [Next]_vars PROVE IInv'
    OBVIOUS
  <2> USE DEF IInv
  <2>1. CASE LoadConfig
    <3>1. LoadCameraConfig /\ UNCHANGED <<scanVars, phase, patched, boundsVars>>
          /\ phase = "loading"
      BY <2>1 DEF LoadConfig
    <3>2. ConfigInv' /\ LoadedAsWritten' /\ RangeAsked'
      BY <3>1, LoadKeeps
    <3>3. wasd' = wasd
      BY <3>1 DEF LoadCameraConfig, SafeDefaults, OpenFile, ReadLine, FinishConfig
    <3>4. ScanInv'
      BY <3>1, <3>3, ScanElsewhere
    <3>5. PatchInv'
      BY <3>1 DEF PatchInv
    <3>6. BoundsInv'
      BY <3>1, BoundsElsewhere
    <3> QED BY <3>2, <3>4, <3>5, <3>6
  <2>2. CASE LocateText
    <3>1. /\ wasd' = wasd /\ phase = "loading" /\ phase' = "scanning"
          /\ patched' = patched /\ UNCHANGED boundsVars
          /\ \E images \in ImageLists : Locate(images)
      BY <2>2 DEF LocateText
    <3>2. ScanInv'
      BY <3>1, LocateKeeps
    <3>3. PatchInv'
      BY <3>1 DEF PatchInv
    <3>4. BoundsInv'
      BY <3>1, BoundsElsewhere
    <3> QED BY <2>2, <3>2, <3>3, <3>4, ReturnKeeps
  <2>3. CASE Scan
    <3>1. /\ UNCHANGED <<configVars, phase, patched, boundsVars>> /\ phase = "scanning"
          /\ wasd' = wasd
          /\ LET required == RequiredPatterns(wasd) IN
               FindAll(required) \/ Conclude(required) \/ Verify(required)
      BY <2>3 DEF Scan, configVars
    <3>2. ScanInv'
      BY <3>1, FindAllKeeps, ConcludeKeeps, VerifyKeeps
    <3>3. PatchInv'
      BY <3>1 DEF PatchInv
    <3>4. BoundsInv'
      BY <3>1, BoundsElsewhere
    <3> QED BY <3>1, <3>2, <3>3, <3>4, ConfigElsewhere
  <2>4. CASE Refuse \/ NotABranch \/ Install
    <3>1. /\ UNCHANGED <<configVars, scanVars, boundsVars>> /\ phase = "scanning"
          /\ phase' \in {"aborted", "dormant"} /\ wasd' = wasd
      BY <2>4 DEF Refuse, NotABranch, Install, configVars
    <3>2. ScanInv'
      BY <3>1, ScanElsewhere
    <3>3. PatchInv'
      <4>1. patched = {}
        BY <3>1 DEF PatchInv
      <4>2. patched' = {} \/ Install
        BY <2>4, <4>1 DEF Refuse, NotABranch
      <4>3. Install => /\ scan = "verified" /\ patched' = Patches /\ phase' = "dormant"
                       /\ KeyboardMovementRequested => IsCbzW8(GuardBranch)
        BY DEF Install, Patches
      <4>4. /\ scan' = scan /\ Patches' = Patches
            /\ KeyboardMovementRequested' = KeyboardMovementRequested
            /\ IsCbzW8(GuardBranch)' = IsCbzW8(GuardBranch)
        BY <3>1, Consequences DEF configVars, scanVars
      <4> QED BY <3>1, <4>2, <4>3, <4>4 DEF PatchInv
    <3>4. BoundsInv'
      BY <3>1, BoundsElsewhere
    <3> QED BY <3>1, <3>2, <3>3, <3>4, ConfigElsewhere
  <2>5. CASE Activate \/ Update \/ GameAuthors \/ Remove
    <3>1. /\ UNCHANGED <<configVars, scanVars>> /\ wasd' = wasd /\ scan' = scan
          /\ \/ patched' = {} /\ phase' = "removed"
             \/ patched' = patched /\ phase' \in {"dormant", "active"}
      BY <2>5 DEF Activate, Update, GameAuthors, Remove, configVars, scanVars
    <3>2. ScanInv'
      BY <3>1, ScanElsewhere
    <3>3. PatchInv'
      BY <3>1, Consequences DEF PatchInv, configVars, scanVars
    <3>4. BoundsInv'
      BY <2>5, <3>1, BoundsStep
    <3> QED BY <3>1, <3>2, <3>3, <3>4, ConfigElsewhere
  <2>6. CASE UNCHANGED vars
    <3>1. /\ UNCHANGED configVars /\ UNCHANGED <<scanVars, wasd>>
          /\ phase' = phase /\ patched' = patched /\ UNCHANGED boundsVars
          /\ scan' = scan
      BY <2>6 DEF vars, configVars, scanVars
    <3>2. ScanInv'
      BY <3>1, ScanElsewhere
    <3>3. PatchInv'
      BY <3>1, Consequences DEF PatchInv, configVars, scanVars
    <3>4. BoundsInv'
      BY <3>1, Consequences DEF BoundsInv, boundsVars, configVars, scanVars
    <3> QED BY <3>1, <3>2, <3>3, <3>4, ConfigElsewhere
  <2> QED BY <2>1, <2>2, <2>3, <2>4, <2>5, <2>6 DEF Next
<1> QED BY <1>1, <1>2, PTL DEF Spec

-----------------------------------------------------------------------------
(* What the invariant says of the properties.                              *)

(* The types. *)
LEMMA Typed == IInv => TypeOK
<1> SUFFICES ASSUME IInv PROVE TypeOK
  OBVIOUS
<1>1. ConfigTypeOK /\ ScanTypeOK
  BY DEF IInv, ConfigInv, ScanInv
<1>2. patched \subseteq Nat
  <2>1. address \in [Names -> 0 .. Len(text)] /\ GuardPattern.name \in Names
    <3>1. Len(AllPatterns) \in 1 .. Len(AllPatterns)
          /\ AllPatterns[Len(AllPatterns)] = GuardPattern
      BY PatternConstants DEF AllPatterns, RequiredPatterns
    <3> QED BY <1>1, <3>1, RequiredTyped DEF ScanTypeOK, Names, AllPatterns
  <2>2. \A n \in Names : address[n] \in Nat
    BY <2>1
  <2>3. Patches \subseteq Nat
    BY <2>1, <2>2, StartupConstants DEF Patches, Hooked, GuardBranch
  <2> QED BY <2>3 DEF IInv, PatchInv
<1> QED BY <1>1, <1>2 DEF IInv, PatchInv, BoundsInv, TypeOK

(* The last of all patterns is the guard's, and no other has its name. *)
LEMMA GuardIsLast ==
  /\ Len(AllPatterns) \in DOMAIN AllPatterns
  /\ AllPatterns[Len(AllPatterns)] = GuardPattern
  /\ \A k \in DOMAIN AllPatterns :
       AllPatterns[k].name = GuardPattern.name <=> k = Len(AllPatterns)
  /\ \A k \in DOMAIN AllPatterns :
       k # Len(AllPatterns) => k \in DOMAIN CameraPatterns /\ AllPatterns[k] = CameraPatterns[k]
<1>1. AllPatterns = Append(CameraPatterns, GuardPattern)
  BY DEF AllPatterns, RequiredPatterns
<1>2. CameraPatterns \in Seq(Pattern) /\ GuardPattern \in Pattern
  BY PatternConstants
<1>3. /\ Len(AllPatterns) = Len(CameraPatterns) + 1 /\ Len(CameraPatterns) \in Nat
      /\ DOMAIN AllPatterns = 1 .. Len(AllPatterns)
      /\ DOMAIN CameraPatterns = 1 .. Len(CameraPatterns)
      /\ AllPatterns[Len(AllPatterns)] = GuardPattern
      /\ \A k \in 1 .. Len(CameraPatterns) : AllPatterns[k] = CameraPatterns[k]
  BY <1>1, <1>2
<1>4. Len(AllPatterns) \in DOMAIN AllPatterns
  BY <1>3
<1>5. \A k \in DOMAIN AllPatterns : k # Len(AllPatterns) => k \in DOMAIN CameraPatterns
  BY <1>3
<1>6. \A k \in DOMAIN AllPatterns :
        AllPatterns[k].name = GuardPattern.name => k = Len(AllPatterns)
  BY <1>3, <1>4, PatternConstants
<1> QED BY <1>3, <1>4, <1>5, <1>6

(* A verified search has found every pattern of the build at one place,    *)
(* and every address is such a place.                                      *)
LEMMA LocatedOnce ==
  ASSUME IInv, patched # {}
  PROVE  PatchedAsLocated
<1> DEFINE required == RequiredPatterns(wasd)
           guards == {o + GuardOffset : o \in Occurrences(GuardPattern)}
<1>1. /\ scan = "verified" /\ patched = Patches /\ wasd \in BOOLEAN
      /\ KeyboardMovementRequested => IsCbzW8(GuardBranch)
      /\ next = Len(required) + 1 /\ AllFound(required)
      /\ Placed /\ UniqueSoFar
  BY DEF IInv, PatchInv, ScanInv
<1>2. /\ Len(required) \in Nat /\ DOMAIN required = 1 .. Len(required)
      /\ \A k \in DOMAIN required : k \in DOMAIN AllPatterns /\ required[k] = AllPatterns[k]
  <2>1. required \in Seq(Pattern)
    BY PatternConstants DEF RequiredPatterns
  <2>2. Len(required) \in Nat /\ DOMAIN required = 1 .. Len(required)
    BY <2>1
  <2> QED BY <1>1, <2>2, RequiredTyped
<1>3. \A k \in DOMAIN required : Unique(required[k])
  <2>1. unique /\ next - 1 = Len(required)
    BY <1>1, <1>2 DEF AllFound
  <2> QED BY <1>1, <1>2, <2>1 DEF UniqueSoFar
<1>4. ASSUME NEW n \in Names, address[n] # 0
      PROVE  \E k \in DOMAIN AllPatterns :
               AllPatterns[k].name = n /\ OnlyPlace(AllPatterns[k], address[n])
  BY <1>1, <1>2, <1>4 DEF Placed
<1>5. ASSUME NEW a \in Hooked
      PROVE  \E k \in DOMAIN CameraPatterns : OnlyPlace(CameraPatterns[k], a)
  <2>1. PICK n \in Names \ {GuardPattern.name} : address[n] # 0 /\ a = address[n]
    BY DEF Hooked
  <2>2. PICK k \in DOMAIN AllPatterns :
          AllPatterns[k].name = n /\ OnlyPlace(AllPatterns[k], a)
    BY <1>4, <2>1
  <2>3. k \in DOMAIN CameraPatterns /\ AllPatterns[k] = CameraPatterns[k]
    BY <2>1, <2>2, GuardIsLast
  <2> QED BY <2>2, <2>3
<1>6. KeyboardMovementRequested => guards = {GuardBranch}
  <2> SUFFICES ASSUME KeyboardMovementRequested PROVE guards = {GuardBranch}
    OBVIOUS
  <2>1. wasd /\ required = AllPatterns
    BY DEF KeyboardMovementRequested, AllPatterns, RequiredPatterns
  <2>2. address[GuardPattern.name] # 0 /\ GuardPattern.name \in Names
    BY <1>1, <2>1, GuardIsLast, PatternConstants DEF AllFound, Names
  <2>3. OnlyPlace(GuardPattern, address[GuardPattern.name])
    BY <1>4, <2>2, GuardIsLast
  <2> QED BY <2>3 DEF OnlyPlace, GuardBranch
<1>7. \A a \in patched :
        \/ \E k \in DOMAIN CameraPatterns : OnlyPlace(CameraPatterns[k], a)
        \/ wasd /\ config.keyboardMovement # 0 /\ guards = {a} /\ IsCbzW8(a)
  BY <1>1, <1>5, <1>6 DEF Patches, KeyboardMovementRequested
<1> QED BY <1>3, <1>7 DEF PatchedAsLocated

(* What the mod has written over the game's bounds is a range. *)
LEMMA RangeLeft == IInv => BoundsStayARange
<1> SUFFICES ASSUME IInv, NEW d \in Definitions, Ours(d), WithinGames(authored[d])
             PROVE  Ordered(bounds[d])
  BY DEF BoundsStayARange
<1>1. bounds[d] = Applied(authored[d]) /\ bounds[d] # authored[d]
  BY DEF Ours, IInv, BoundsInv
<1>2. authored[d] \in ZoomBounds
  BY StartupConstants DEF IInv, BoundsInv
<1>3. /\ authored[d] = [min |-> authored[d].min, max |-> authored[d].max]
      /\ authored[d].min \in Int /\ authored[d].max \in Int
  BY <1>2 DEF ZoomBounds
<1>4. MinimumAsked \in Int /\ MaximumAsked \in Int
  BY NamedSettings DEF MinimumAsked, MaximumAsked, IInv, ConfigInv, ConfigTypeOK, Configs
<1>5. MinimumAsked # 0 \/ MaximumAsked # 0
  BY <1>1, <1>3 DEF Applied
<1>6. /\ bounds[d].min = IF MinimumAsked # 0 THEN MinimumAsked ELSE authored[d].min
      /\ bounds[d].max = IF MaximumAsked # 0 THEN Larger(MaximumAsked, MinimumAsked)
                                             ELSE authored[d].max
  BY <1>1 DEF Applied
<1>7. /\ MinimumAsked # 0 /\ MaximumAsked # 0 => MinimumAsked < MaximumAsked
      /\ MaximumAsked = 0 => MinimumAsked < authored[d].max
      /\ MinimumAsked = 0 => authored[d].min < MaximumAsked
  BY DEF IInv, RangeAsked, WithinGames
<1>8. /\ Larger(MaximumAsked, MinimumAsked) \in Int
      /\ Larger(MaximumAsked, MinimumAsked) >= MaximumAsked
  BY <1>4 DEF Larger
<1> QED BY <1>3, <1>4, <1>5, <1>6, <1>7, <1>8 DEF Ordered

-----------------------------------------------------------------------------
(* TypeOK: the loader, the search and the bounds keep their types.         *)
THEOREM TypeCorrect == Spec => []TypeOK
  BY Invariant, Typed, PTL

(* LoadedAsWritten: whatever lines a file has, in whatever order, the last *)
(* valid line of a key counts, a canonical key before its legacy alias,    *)
(* and a pair reverts as one.                                              *)
THEOREM ConfigCorrect == Spec => []LoadedAsWritten
<1>1. IInv => LoadedAsWritten
  BY DEF IInv
<1> QED BY <1>1, Invariant, PTL

(* PatchedAsLocated: whatever program is scanned for whatever patterns,    *)
(* Initialize hands out only places that identify their pattern.           *)
THEOREM PatchesLocated == Spec => []PatchedAsLocated
<1>1. IInv => PatchedAsLocated
  BY LocatedOnce DEF PatchedAsLocated
<1> QED BY <1>1, Invariant, PTL

(* BoundsStayARange: the limits of ApplyZoomBounds make a range of every   *)
(* range the game authors around them.                                     *)
THEOREM RangeKept == Spec => []BoundsStayARange
  BY RangeLeft, Invariant, PTL

(* FoundSoFar: FindAll misses no occurrence, whether it goes on from match *)
(* to match or from offset to offset behind an anchor.                     *)
THEOREM NothingMissed == Spec => []FoundSoFar(RequiredPatterns(wasd))
<1>1. IInv => FoundSoFar(RequiredPatterns(wasd))
  BY DEF IInv, ScanInv
<1> QED BY <1>1, Invariant, PTL
=============================================================================
