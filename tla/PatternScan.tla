---------------------------- MODULE PatternScan ----------------------------
(***************************************************************************)
(* How the mod finds the code it patches: the __text section of the game's *)
(* executable, and in it every required pattern, which must occur exactly  *)
(* once.  A pattern with a mask is tried at every offset, one without by   *)
(* searching on from the last match.  Offsets count from 1; 0 is null.     *)
(***************************************************************************)
EXTENDS Integers, Sequences, FiniteSets

CONSTANTS
  ImageLists,     \* what dyld may report: sequences of images
  CameraPatterns, \* the patterns both flavors require
  GuardPattern,   \* kKeyboardMovementGuardPattern
  OnlyVerified,   \* names of patterns that only have to be there
  NoText

VARIABLES
  scan,    \* where Initialize is
  text,    \* executableText
  next,    \* the pattern looked for
  cursor,  \* FindAll: the next offset to try
  matches, \* FindAll: matches
  unique,  \* allPatternsUnique
  address  \* the addresses that go to InstallCameraHooks

scanVars == <<scan, text, next, cursor, matches, unique, address>>

(* MakeInstructionMask: wildcard instructions are numbered from 0. *)
InstructionMask(instructions, wildcards) ==
  [i \in 1 .. 4 * instructions |-> IF (i - 1) \div 4 \in wildcards THEN 0 ELSE 255]

RequiredPatterns(wasd) ==
  IF wasd THEN Append(CameraPatterns, GuardPattern) ELSE CameraPatterns

AllPatterns == RequiredPatterns(TRUE)
Names == {AllPatterns[k].name : k \in DOMAIN AllPatterns}

Byte == 0 .. 255
Pattern == [name : STRING, bytes : Seq(Byte), mask : Seq(Byte)]
Section == [name : STRING, bytes : Seq(Byte)]
Command == [sound : BOOLEAN, segment : STRING, sections : Seq(Section)]
Image == [executable : BOOLEAN, commands : Seq(Command)]

(* Every pattern has bytes and a mask over them or none, and its own name. *)
ASSUME PatternConstants ==
  /\ ImageLists \subseteq Seq(Image)
  /\ CameraPatterns \in Seq(Pattern) /\ GuardPattern \in Pattern
  /\ \A k \in DOMAIN AllPatterns :
       /\ AllPatterns[k].bytes # <<>>
       /\ AllPatterns[k].mask = <<>> \/ Len(AllPatterns[k].mask) = Len(AllPatterns[k].bytes)
  /\ \A j, k \in DOMAIN AllPatterns : AllPatterns[j].name = AllPatterns[k].name => j = k
  /\ GuardPattern.name \notin OnlyVerified
  /\ NoText \notin Seq(Byte)

-----------------------------------------------------------------------------
Least(S) == CHOOSE n \in S : \A m \in S : n <= m

(* FindTextSection stops at a load command that is too small.              *)
Reached(commands) == {c \in DOMAIN commands : \A d \in 1 .. c : commands[d].sound}

TextSections(command) ==
  {s \in DOMAIN command.sections :
     command.segment = "__TEXT" /\ command.sections[s].name = "__text"}

FindTextSection(commands) ==
  LET holding == {c \in Reached(commands) : TextSections(commands[c]) # {}}
      command == commands[Least(holding)]
  IN  IF holding = {} THEN NoText
      ELSE command.sections[Least(TextSections(command))].bytes

(* The first image that is an executable decides.                          *)
FindMainExecutableText(images) ==
  LET executables == {i \in DOMAIN images : images[i].executable}
  IN  IF executables = {} THEN NoText
      ELSE FindTextSection(images[Least(executables)].commands)

-----------------------------------------------------------------------------
Ignored(p, i) == p.mask # <<>> /\ p.mask[i] = 0
MatchesAt(p, o) ==
  \A i \in DOMAIN p.bytes : Ignored(p, i) \/ text[o + i - 1] = p.bytes[i]

Offsets(p) == 1 .. Len(text) - Len(p.bytes) + 1
Occurrences(p) == {o \in Offsets(p) : MatchesAt(p, o)}

(* The first byte the mask requires, if it requires any. *)
Anchored(p, o) ==
  LET required == {i \in DOMAIN p.bytes : ~Ignored(p, i)}
  IN  required # {} => text[o + Least(required) - 1] = p.bytes[Least(required)]

Ahead(p) == {o \in Occurrences(p) : o >= cursor}

(* Variant: the search goes on behind the match. *)
PastMatch(p) ==
  /\ p.mask = <<>> /\ Ahead(p) # {}
  /\ matches' = matches \cup {Least(Ahead(p))}
  /\ cursor' = Least(Ahead(p)) + Len(p.bytes)

Search(p) ==
  /\ p.mask = <<>> /\ Ahead(p) # {}
  /\ matches' = matches \cup {Least(Ahead(p))}
  /\ cursor' = Least(Ahead(p)) + 1

Try(p) ==
  /\ p.mask # <<>> /\ cursor \in Offsets(p)
  /\ matches' = IF Anchored(p, cursor) /\ MatchesAt(p, cursor)
                THEN matches \cup {cursor} ELSE matches
  /\ cursor' = cursor + 1

Exhausted(p) == IF p.mask = <<>> THEN Ahead(p) = {} ELSE cursor \notin Offsets(p)

(* FindMainExecutableText; images is what dyld reports.                    *)
Locate(images) ==
  /\ scan = "start"
  /\ LET found == FindMainExecutableText(images) IN
       IF found = NoText THEN scan' = "noText" /\ UNCHANGED text
                         ELSE scan' = "searching" /\ text' = found
  /\ UNCHANGED <<next, cursor, matches, unique, address>>

FindAll(required) ==
  /\ scan = "searching" /\ next <= Len(required)
  /\ Search(required[next]) \/ Try(required[next])
  /\ UNCHANGED <<scan, text, next, unique, address>>

(* The body of the loop over kRequiredPatterns. *)
Conclude(required) ==
  /\ scan = "searching" /\ next <= Len(required) /\ Exhausted(required[next])
  /\ LET name == required[next].name IN
       IF Cardinality(matches) = 1
       THEN /\ address' = IF name \in OnlyVerified THEN address
                          ELSE [address EXCEPT ![name] = Least(matches)]
            /\ UNCHANGED unique
       ELSE unique' = FALSE /\ UNCHANGED address
  /\ next' = next + 1 /\ cursor' = 1 /\ matches' = {}
  /\ UNCHANGED <<scan, text>>

(* Every pattern unique and every address that is needed there. *)
AllFound(required) ==
  /\ unique
  /\ \A k \in DOMAIN required :
       required[k].name \in OnlyVerified \/ address[required[k].name] # 0

Verify(required) ==
  /\ scan = "searching" /\ next > Len(required)
  /\ scan' = IF AllFound(required) THEN "verified" ELSE "mismatch"
  /\ UNCHANGED <<text, next, cursor, matches, unique, address>>

InitScan ==
  /\ scan = "start" /\ text = <<>>
  /\ next = 1 /\ cursor = 1 /\ matches = {}
  /\ unique = TRUE /\ address = [n \in Names |-> 0]

ScanTypeOK ==
  /\ scan \in {"start", "noText", "searching", "verified", "mismatch"}
  /\ text \in Seq(Byte)
  /\ next \in 1 .. Len(AllPatterns) + 1
  /\ cursor \in 1 .. Len(text) + 1
  /\ matches \subseteq 1 .. Len(text)
  /\ unique \in BOOLEAN
  /\ address \in [Names -> 0 .. Len(text)]

-----------------------------------------------------------------------------
(* Nothing is missed on the way: FindAll has found just the occurrences it *)
(* has passed, overlapping ones too.                                       *)
FoundSoFar(required) ==
  scan = "searching" /\ next <= Len(required) =>
    matches = {o \in Occurrences(required[next]) : o < cursor}

(* An address is the one place where its pattern occurs. *)
OnlyPlace(p, o) == Occurrences(p) = {o}
=============================================================================
