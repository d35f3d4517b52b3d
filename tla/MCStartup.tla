------------------------------ MODULE MCStartup ------------------------------
EXTENDS Startup

(* Both zoom limits, in and out of order, equal, and one that is rejected; *)
(* a legacy key and a canonical one it stands for; the pitch limits; the   *)
(* movement switch; lines that set nothing; a value stored and reported.   *)
Line(k, t) == [key |-> k, text |-> t]
SomeLines ==
  {Line("minimumZoomDistance", 100), Line("minimumZoomDistance", 0),
   Line("maximumZoomDistance", 100), Line("maximumZoomDistance", 60000),
   Line("verticalSensitivity", 50), Line("trackpadVerticalSensitivity", 100),
   Line("pitchMinimumDegrees", 8600), Line("pitchMaximumDegrees", 8900),
   Line("keyboardMovement", 0), Line("keyboardMovement", Garbage),
   Line("zoomDeviceId", -100), Line("pointerZoomHoldButton", 400),
   Line("unknownKey", 0)}
ShortFiles == UNION {[1 .. n -> SomeLines] : n \in 0 .. 3}

(* A pattern that overlaps itself, and two of two instructions with one of *)
(* them a wildcard; the guard's is the branch.                             *)
Update1 == [name |-> "update", bytes |-> <<9, 8, 9>>, mask |-> <<>>]
Polling == [name |-> "polling", bytes |-> <<0, 0, 0, 0, 5, 5, 5, 5>>,
            mask |-> InstructionMask(2, {0})]
TwoPatterns == <<Update1, Polling>>
Guard == [name |-> "guard", bytes |-> <<3, 3, 3, 3, 2, 0, 0, 0>>,
          mask |-> InstructionMask(2, {1})]

Cbz == <<2, 0, 0, 1>>
Tbz == <<4, 0, 0, 1>>
CbzEncodings == {Cbz}

Site == <<9, 8, 9, 7>>
Poll == <<1, 0, 0, 0, 5, 5, 5, 5>>
GuardWith(branch) == <<3, 3, 3, 3>> \o branch

(* This build; the guard's branch changed; no guard; the guard twice;      *)
(* overlapping sites; a second poll at an odd offset; no site; too short.  *)
Texts ==
  {Site \o Poll \o GuardWith(Cbz), Site \o Poll \o GuardWith(Tbz), Site \o Poll,
   Site \o GuardWith(Cbz) \o Poll \o GuardWith(Cbz),
   <<9, 8>> \o Site \o Poll \o GuardWith(Cbz),
   Site \o Poll \o <<5>> \o GuardWith(Cbz),
   Poll \o GuardWith(Cbz), <<9, 8>>}

TextSection(bytes) == [name |-> "__text", bytes |-> bytes]
Stubs == [name |-> "__stubs", bytes |-> Site]
Segment(name, sections) == [sound |-> TRUE, segment |-> name, sections |-> sections]
PageZero == Segment("__PAGEZERO", <<>>)
Damaged == [sound |-> FALSE, segment |-> "", sections |-> <<>>]
Program(commands) == [executable |-> TRUE, commands |-> commands]
Library(bytes) ==
  [executable |-> FALSE, commands |-> <<Segment("__TEXT", <<TextSection(bytes)>>)>>]

(* The game's code behind a library, another segment and another section;  *)
(* no executable, no text in it, and a load command that is cut off.       *)
SomeImages ==
  {<<Library(Site), Program(<<PageZero, Segment("__TEXT", <<Stubs, TextSection(t)>>)>>)>>
     : t \in Texts}
  \cup {<<Library(Site)>>, <<Program(<<PageZero>>), Library(Site)>>,
        <<Program(<<Damaged, Segment("__TEXT", <<TextSection(Site)>>)>>)>>}

(* Two ranges the game may author, and one that does not look authored.    *)
SomeRanges == {[min |-> 20, max |-> 900], [min |-> 150, max |-> 300],
               [min |-> 0, max |-> 300]}
=============================================================================
