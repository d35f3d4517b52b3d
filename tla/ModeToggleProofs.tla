--------------------------- MODULE ModeToggleProofs ---------------------------
(***************************************************************************)
(* What a click of L3 does, for every length of the queue and every order  *)
(* in which the events are raised and handled.  Each disturbance costs one *)
(* side of the promise, and the other is proved without it.                *)
(***************************************************************************)
EXTENDS ModeToggle, Integers, TLAPS

Presses == {"press", "repeat"}
Ending == Raised("release") \/ Raised("changed")

(* The side of the mode, as long as presses are sampled and come in time.  *)
(* A mode change is reported before anything else, and a hold is let go    *)
(* before the next press.                                                  *)
Order ==
  \A i, j \in DOMAIN queue :
    /\ queue[i] = "changed" => i = 1
    /\ queue[i] = "release" /\ queue[j] \in Presses => i < j
    /\ queue[i] = "release" /\ queue[j] = "release" => i = j

Button ==
  /\ Raised("press") => fresh
  /\ Ending /\ held => Raised("press")
  /\ ~(Raised("release") /\ Raised("changed"))

(* A press is deferred when it is handled, at least to the end of its hold.*)
Deferral == Ending \/ (held /\ ~Raised("press")) => pending

(* The two modes differ just while a change is on its way, which then is   *)
(* one of a press not used for zoom; a hold that zoomed is marked.         *)
Agreement ==
  /\ tracked # gameMode <=> Raised("changed")
  /\ Raised("changed") => ~used
  /\ pending /\ (Ending \/ ~Raised("press")) => (zoomed => used)

ModeSide == Order /\ Button /\ Deferral /\ Agreement

(* The side of the click, as long as every hold ends with a release.       *)
(* Between two presses there is one, however late it comes.                *)
Alternate ==
  \A i \in DOMAIN queue : queue[i] \in Presses =>
    /\ held \/ \E m \in DOMAIN queue : i < m /\ queue[m] = "release"
    /\ \A j \in DOMAIN queue : i < j /\ queue[j] = "press" =>
         \E m \in DOMAIN queue : i < m /\ m < j /\ queue[m] = "release"

(* The end of a pending press comes before the next press.                 *)
Alive ==
  pending =>
    /\ held \/ Ending
    /\ \A j \in DOMAIN queue : queue[j] = "press" =>
         \E m \in DOMAIN queue : m < j /\ queue[m] \in {"release", "changed"}

(* So that a mark is never that of an earlier hold. *)
Marked == used => zoomed

ClickSide == Alternate /\ Alive /\ Marked

IInv == TypeOK /\ (Sampled => ModeSide) /\ (Plugged => ClickSide)

-----------------------------------------------------------------------------
(* The queue as the steps leave it. *)
LEMMA Appended ==
  ASSUME TypeOK, NEW e \in EventNames, Raise(e)
  PROVE  /\ queue' \in Seq(EventNames) /\ Len(queue) \in Nat
         /\ DOMAIN queue = 1 .. Len(queue) /\ DOMAIN queue' = 1 .. Len(queue) + 1
         /\ \A i \in 1 .. Len(queue) : queue'[i] = queue[i]
         /\ queue'[Len(queue) + 1] = e
         /\ \A d : Raised(d)' <=> Raised(d) \/ d = e
<1>1. /\ queue \in Seq(EventNames) /\ queue' = Append(queue, e) /\ Len(queue) \in Nat
  BY DEF TypeOK, Raise
<1>2. /\ queue' \in Seq(EventNames)
      /\ DOMAIN queue = 1 .. Len(queue) /\ DOMAIN queue' = 1 .. Len(queue) + 1
      /\ \A i \in 1 .. Len(queue) : queue'[i] = queue[i]
      /\ queue'[Len(queue) + 1] = e
  BY <1>1
<1>3. \A d : Raised(d)' <=> Raised(d) \/ d = e
  <2>1. ASSUME NEW d, Raised(d) PROVE Raised(d)'
    BY <1>1, <1>2, <2>1 DEF Raised
  <2>2. Raised(e)'
    BY <1>1, <1>2 DEF Raised
  <2>3. ASSUME NEW d, Raised(d)', d # e PROVE Raised(d)
    <3>1. PICK i \in 1 .. Len(queue) + 1 : queue'[i] = d
      BY <1>2, <2>3 DEF Raised
    <3>2. i \in 1 .. Len(queue)
      BY <1>1, <1>2, <2>3, <3>1
    <3> QED BY <1>2, <3>1, <3>2 DEF Raised
  <2> QED BY <2>1, <2>2, <2>3
<1> QED BY <1>1, <1>2, <1>3

(* The event at the head is gone. *)
LEMMA Handled ==
  ASSUME TypeOK, NEW e, Handle(e), queue' = Tail(queue)
  PROVE  /\ queue' \in Seq(EventNames) /\ Len(queue) \in Nat /\ 1 \in DOMAIN queue
         /\ DOMAIN queue = 1 .. Len(queue) /\ DOMAIN queue' = 1 .. Len(queue) - 1
         /\ \A i \in 1 .. Len(queue) - 1 : queue'[i] = queue[i + 1]
         /\ queue[1] = e /\ Raised(e)
         /\ \A d : Raised(d)' => \E i \in 2 .. Len(queue) : queue[i] = d
         /\ \A d : Raised(d)' => Raised(d)
         /\ \A d : Raised(d) /\ d # e => Raised(d)'
<1>1. /\ queue \in Seq(EventNames) /\ queue # <<>> /\ Head(queue) = e
      /\ Len(queue) \in Nat /\ Len(queue) >= 1
  BY DEF TypeOK, Handle
<1>2. /\ queue' \in Seq(EventNames) /\ 1 \in DOMAIN queue
      /\ DOMAIN queue = 1 .. Len(queue) /\ DOMAIN queue' = 1 .. Len(queue) - 1
      /\ \A i \in 1 .. Len(queue) - 1 : queue'[i] = queue[i + 1]
      /\ queue[1] = e
  BY <1>1
<1>3. Raised(e)
  BY <1>2 DEF Raised
<1>4. ASSUME NEW d, Raised(d)' PROVE \E i \in 2 .. Len(queue) : queue[i] = d
  <2>1. PICK i \in 1 .. Len(queue) - 1 : queue'[i] = d
    BY <1>2, <1>4 DEF Raised
  <2>2. i + 1 \in 2 .. Len(queue) /\ queue[i + 1] = d
    BY <1>1, <1>2, <2>1
  <2> QED BY <2>2
<1>5. ASSUME NEW d, Raised(d)' PROVE Raised(d)
  <2>1. PICK i \in 2 .. Len(queue) : queue[i] = d
    BY <1>4, <1>5
  <2>2. i \in DOMAIN queue
    BY <1>1, <1>2
  <2> QED BY <2>1, <2>2 DEF Raised
<1>6. ASSUME NEW d, Raised(d), d # e PROVE Raised(d)'
  <2>1. PICK i \in 1 .. Len(queue) : queue[i] = d
    BY <1>2, <1>6 DEF Raised
  <2>2. i # 1
    BY <1>2, <1>6, <2>1
  <2>3. i - 1 \in 1 .. Len(queue) - 1 /\ (i - 1) + 1 = i
    BY <1>1, <2>2
  <2>4. queue'[i - 1] = d
    BY <1>2, <2>1, <2>3
  <2> QED BY <1>2, <2>3, <2>4 DEF Raised
<1> QED BY <1>1, <1>2, <1>3, <1>4, <1>5, <1>6

(* Taking the head is neither nothing, nor appending, nor replacing it. *)
LEMMA TailIsNew ==
  ASSUME NEW S, NEW q \in Seq(S), q # <<>>, NEW c \in S
  PROVE  Tail(q) # q /\ Tail(q) # Append(q, c) /\ Tail(q) # <<c>> \o Tail(q)
<1> DEFINE n == Len(q)
           m == Len(Tail(q))
<1>1. m = n - 1 /\ n \in Nat /\ Tail(q) \in Seq(S)
  OBVIOUS
<1>2. Len(Append(q, c)) = n + 1
  OBVIOUS
<1>3. <<c>> \in Seq(S) /\ Len(<<c>>) = 1
  OBVIOUS
<1>4. Len(<<c>> \o Tail(q)) = 1 + m
  BY <1>1, <1>3
<1>5. m # n /\ m # n + 1 /\ m # 1 + m
  <2> HIDE DEF m, n
  <2> QED BY <1>1
<1>6. Tail(q) # q
  BY <1>5
<1>7. Tail(q) # Append(q, c)
  BY <1>2, <1>5
<1>8. Tail(q) # <<c>> \o Tail(q)
  BY <1>4, <1>5
<1> QED BY <1>6, <1>7, <1>8

(* The game changes mode: its report takes the place of the release.       *)
LEMMA Reported ==
  ASSUME TypeOK, Handle("release"), queue' = <<"changed">> \o Tail(queue)
  PROVE  /\ queue' \in Seq(EventNames) /\ Len(queue) \in Nat /\ 1 \in DOMAIN queue
         /\ DOMAIN queue = 1 .. Len(queue) /\ DOMAIN queue' = DOMAIN queue
         /\ queue[1] = "release" /\ queue'[1] = "changed"
         /\ \A i \in DOMAIN queue : i # 1 => queue'[i] = queue[i] /\ 1 < i
         /\ Raised("release") /\ Raised("changed")'
         /\ Raised("press")' <=> Raised("press")
<1>1. /\ queue \in Seq(EventNames) /\ queue # <<>> /\ Len(queue) \in Nat
      /\ Len(queue) >= 1 /\ Tail(queue) \in Seq(EventNames)
      /\ DOMAIN queue = 1 .. Len(queue) /\ queue[1] = "release"
  BY DEF TypeOK, Handle
<1>2. <<"changed">> \in Seq(EventNames) /\ Len(<<"changed">>) = 1
  BY DEF EventNames
<1>3. /\ Len(Tail(queue)) = Len(queue) - 1
      /\ \A i \in 1 .. Len(queue) - 1 : Tail(queue)[i] = queue[i + 1]
  BY <1>1
<1>4. queue' \in Seq(EventNames) /\ Len(queue') = Len(queue)
  BY <1>1, <1>2, <1>3
<1>5. queue'[1] = "changed"
  BY <1>1, <1>2, <1>3
<1>6. ASSUME NEW i \in 1 .. Len(queue), i # 1
      PROVE  queue'[i] = queue[i] /\ 1 < i
  <2>1. queue'[i] = Tail(queue)[i - 1]
    BY <1>1, <1>2, <1>3, <1>6
  <2>2. i - 1 \in 1 .. Len(queue) - 1 /\ (i - 1) + 1 = i
    BY <1>1, <1>6
  <2> QED BY <1>3, <2>1, <2>2
<1>7. DOMAIN queue' = 1 .. Len(queue) /\ 1 \in 1 .. Len(queue)
  BY <1>1, <1>4
<1>8. Raised("release") /\ Raised("changed")'
  BY <1>1, <1>5, <1>7 DEF Raised
<1>9. Raised("press")' <=> Raised("press")
  BY <1>1, <1>5, <1>6, <1>7 DEF Raised
<1> QED BY <1>1, <1>4, <1>5, <1>6, <1>7, <1>8, <1>9

-----------------------------------------------------------------------------
(* The controller raises an event, and what this says of the button.       *)
Controls(e) ==
  /\ Raise(e)
  /\ e = "press" => ~held /\ held'
  /\ e = "repeat" => held /\ held'
  /\ e = "release" => held /\ ~held'
  /\ e = "vertical" => held' = held
  /\ UNCHANGED <<fresh, l3Sampled, modifier, deferred, modes, zoomed>>

(* Six of its actions are of this kind. *)
LEMMA Controlled ==
  ASSUME TypeOK,
         \/ PressL3 \/ RepeatL3 \/ ReleaseL3 \/ StickMoved
         \/ PressUnsampled \/ ReleaseEarly
  PROVE  /\ held' \in BOOLEAN /\ disturbed' \subseteq Disturbances
         /\ \E e \in Presses \cup {"release", "vertical"} :
              /\ Controls(e)
              /\ Sampled' =>
                   /\ e = "press" => fresh
                   /\ e = "release" => ~PressOnItsWay
<1> USE DEF Controls, Presses, pad
<1>1. CASE PressL3
  <2>1. Controls("press")
    BY <1>1 DEF PressL3
  <2> QED BY <1>1, <2>1 DEF PressL3, TypeOK
<1>2. CASE RepeatL3
  <2>1. Controls("repeat")
    BY <1>2 DEF RepeatL3
  <2> QED BY <1>2, <2>1 DEF RepeatL3, TypeOK
<1>3. CASE ReleaseL3
  <2>1. Controls("release")
    BY <1>3 DEF ReleaseL3
  <2> QED BY <1>3, <2>1 DEF ReleaseL3, TypeOK
<1>4. CASE StickMoved
  <2>1. Controls("vertical")
    BY <1>4 DEF StickMoved
  <2> QED BY <1>4, <2>1 DEF StickMoved, TypeOK
<1>5. CASE PressUnsampled
  <2>1. Controls("press") /\ ~Sampled'
    BY <1>5 DEF PressUnsampled, Disturb, Sampled
  <2> QED BY <1>5, <2>1 DEF PressUnsampled, Disturb, TypeOK
<1>6. CASE ReleaseEarly
  <2>1. Controls("release") /\ ~Sampled'
    BY <1>6 DEF ReleaseEarly, Disturb, Sampled
  <2> QED BY <1>6, <2>1 DEF ReleaseEarly, Disturb, TypeOK
<1> QED BY <1>1, <1>2, <1>3, <1>4, <1>5, <1>6

(* The other steps of the controller raise nothing. *)
LEMMA Uncontrolled ==
  ASSUME StickSampled \/ SampleAges \/ ModifierEvent \/ Unplugged
  PROVE  /\ UNCHANGED <<queue, deferred, modes, zoomed>>
         /\ held' = held \/ (held' = FALSE /\ ~Plugged')
         /\ fresh' = fresh \/ fresh' = TRUE \/ ~PressOnItsWay
  BY DEF StickSampled, SampleAges, ModifierEvent, Unplugged, Disturb, Plugged

(* A disturbance is not forgotten. *)
LEMMA Remembered == TypeOK /\ Next => (Sampled' => Sampled) /\ (Plugged' => Plugged)
  BY DEF Next, Controller, Hooks, PressL3, RepeatL3, ReleaseL3, PressUnsampled,
         ReleaseEarly, Unplugged, StickSampled, SampleAges, StickMoved, ModifierEvent,
         CaptureChord, Vertical, FilterRelease, PassRelease, PassOversize, GameToggles,
         ModeChanged, Disturb, Sampled, Plugged

-----------------------------------------------------------------------------
(* Every step keeps the types. *)
LEMMA TypeKeeps == TypeOK /\ Next => TypeOK'
<1> SUFFICES ASSUME TypeOK, Next PROVE TypeOK'
  OBVIOUS
<1> USE DEF pad, deferred, modes
<1>1. CASE \/ PressL3 \/ RepeatL3 \/ ReleaseL3 \/ StickMoved
           \/ PressUnsampled \/ ReleaseEarly
  <2>1. PICK e \in Presses \cup {"release", "vertical"} : Controls(e)
    BY <1>1, Controlled
  <2>2. queue' \in Seq(EventNames)
    BY <2>1, Appended DEF Controls, Presses, EventNames
  <2> QED BY <1>1, <2>1, <2>2, Controlled DEF TypeOK, Controls
<1>2. CASE StickSampled \/ SampleAges \/ ModifierEvent \/ Unplugged
  <2>1. modifier' \in BOOLEAN
    BY <1>2, Zenon DEF TypeOK, StickSampled, SampleAges, ModifierEvent, Unplugged
  <2>2. fresh' \in BOOLEAN /\ l3Sampled' \in BOOLEAN /\ held' \in BOOLEAN
    BY <1>2 DEF TypeOK, StickSampled, SampleAges, ModifierEvent, Unplugged
  <2>3. disturbed' \subseteq Disturbances
    BY <1>2 DEF TypeOK, StickSampled, SampleAges, ModifierEvent, Unplugged, Disturb
  <2>4. UNCHANGED <<queue, pending, used, tracked, gameMode, zoomed>>
    BY <1>2, Uncontrolled
  <2> QED BY <2>1, <2>2, <2>3, <2>4 DEF TypeOK
<1>3. CASE CaptureChord
  BY <1>3, Handled DEF TypeOK, CaptureChord
<1>4. CASE Vertical
  <2>1. queue' \in Seq(EventNames)
    BY <1>4, Handled DEF Vertical
  <2>2. used' \in BOOLEAN /\ zoomed' \in BOOLEAN /\ (used' => pending)
    <3>1. CASE ZoomChord
      BY <1>4, <3>1, Zenon DEF TypeOK, Vertical
    <3>2. CASE ~ZoomChord
      BY <1>4, <3>2 DEF TypeOK, Vertical
    <3> QED BY <3>1, <3>2
  <2> QED BY <1>4, <2>1, <2>2 DEF TypeOK, Vertical
<1>5. CASE FilterRelease
  BY <1>5, Handled DEF TypeOK, FilterRelease
<1>6. CASE PassRelease \/ PassOversize
  <2>1. queue' \in Seq(EventNames)
    BY <1>6, Reported DEF PassRelease, PassOversize, GameToggles
  <2>2. gameMode' \in BOOLEAN /\ disturbed' \subseteq Disturbances
    BY <1>6 DEF TypeOK, PassRelease, PassOversize, GameToggles, Disturb
  <2> QED BY <1>6, <2>1, <2>2 DEF TypeOK, PassRelease, PassOversize, GameToggles
<1>7. CASE ModeChanged
  BY <1>7, Handled DEF TypeOK, ModeChanged
<1> QED BY <1>1, <1>2, <1>3, <1>4, <1>5, <1>6, <1>7 DEF Next, Controller, Hooks

-----------------------------------------------------------------------------
(* The side of the mode.  The order survives the handling of the head,     *)
(* which says what is left.                                                *)
LEMMA OrderHandled ==
  ASSUME TypeOK, Order, NEW e, Handle(e), queue' = Tail(queue)
  PROVE  /\ Order'
         /\ ~Raised("changed")'
         /\ e = "release" => ~Raised(e)'
         /\ e \in Presses => ~Raised("release")
         /\ e # "changed" => ~Raised("changed")
<1>1. /\ Len(queue) \in Nat /\ 1 \in DOMAIN queue /\ queue[1] = e
      /\ DOMAIN queue = 1 .. Len(queue) /\ DOMAIN queue' = 1 .. Len(queue) - 1
      /\ \A i \in 1 .. Len(queue) - 1 : queue'[i] = queue[i + 1]
      /\ \A d : Raised(d)' => \E i \in 2 .. Len(queue) : queue[i] = d
  BY Handled
<1>2. Order'
  <2> SUFFICES ASSUME NEW i \in 1 .. Len(queue) - 1, NEW j \in 1 .. Len(queue) - 1
               PROVE  /\ queue'[i] = "changed" => i = 1
                      /\ queue'[i] = "release" /\ queue'[j] \in Presses => i < j
                      /\ queue'[i] = "release" /\ queue'[j] = "release" => i = j
    BY <1>1 DEF Order
  <2>1. i + 1 \in DOMAIN queue /\ j + 1 \in DOMAIN queue /\ i \in Int /\ j \in Int
    BY <1>1
  <2>2. queue'[i] = queue[i + 1] /\ queue'[j] = queue[j + 1]
    BY <1>1
  <2> QED BY <2>1, <2>2 DEF Order
<1>3. \A i \in 2 .. Len(queue) : i \in DOMAIN queue /\ i # 1 /\ i > 1
  BY <1>1
<1>4. ~Raised("changed")'
  BY <1>1, <1>3 DEF Order
<1>5. e = "release" => ~Raised(e)'
  BY <1>1, <1>3 DEF Order
<1>6. e \in Presses => ~Raised("release")
  <2> SUFFICES ASSUME e \in Presses, NEW i \in DOMAIN queue, queue[i] = "release"
               PROVE  FALSE
    BY DEF Raised
  <2>1. i < 1 /\ i \in 1 .. Len(queue)
    BY <1>1 DEF Order
  <2> QED BY <2>1
<1>7. e # "changed" => ~Raised("changed")
  BY <1>1 DEF Order, Raised
<1> QED BY <1>2, <1>4, <1>5, <1>6, <1>7

(* And appending, if the controller keeps to it. *)
LEMMA OrderAppended ==
  ASSUME TypeOK, Order, NEW e \in EventNames, Raise(e), e # "changed",
         e = "release" => ~PressOnItsWay /\ ~Raised("release")
  PROVE  Order'
<1>1. /\ Len(queue) \in Nat
      /\ DOMAIN queue = 1 .. Len(queue) /\ DOMAIN queue' = 1 .. Len(queue) + 1
      /\ \A i \in 1 .. Len(queue) : queue'[i] = queue[i]
      /\ queue'[Len(queue) + 1] = e
  BY Appended
<1> SUFFICES ASSUME NEW i \in 1 .. Len(queue) + 1, NEW j \in 1 .. Len(queue) + 1
             PROVE  /\ queue'[i] = "changed" => i = 1
                    /\ queue'[i] = "release" /\ queue'[j] \in Presses => i < j
                    /\ queue'[i] = "release" /\ queue'[j] = "release" => i = j
  BY <1>1 DEF Order
<1>2. /\ i \in Int /\ j \in Int
      /\ i = Len(queue) + 1 \/ (i \in DOMAIN queue /\ i < Len(queue) + 1)
      /\ j = Len(queue) + 1 \/ (j \in DOMAIN queue /\ j < Len(queue) + 1)
  BY <1>1
<1>3. CASE i \in DOMAIN queue /\ j \in DOMAIN queue
  BY <1>1, <1>3 DEF Order
<1>4. CASE i = Len(queue) + 1 /\ j = Len(queue) + 1
  BY <1>1, <1>4 DEF Presses
<1>5. CASE i = Len(queue) + 1 /\ j \in DOMAIN queue
  BY <1>1, <1>2, <1>5 DEF PressOnItsWay, Raised, Presses
<1>6. CASE i \in DOMAIN queue /\ j = Len(queue) + 1
  BY <1>1, <1>2, <1>6 DEF Order, PressOnItsWay, Raised
<1> QED BY <1>2, <1>3, <1>4, <1>5, <1>6

(* What the controller raises waits in order. *)
LEMMA ModeRaised ==
  ASSUME TypeOK, ModeSide, NEW e \in Presses \cup {"release", "vertical"}, Controls(e),
         e = "press" => fresh, e = "release" => ~PressOnItsWay
  PROVE  ModeSide'
<1>1. Order /\ Button /\ Deferral /\ Agreement /\ Raise(e) /\ e \in EventNames
  BY DEF ModeSide, Controls, Presses, EventNames
<1>2. \A d : Raised(d)' <=> Raised(d) \/ d = e
  BY <1>1, Appended
<1>3. e = "release" => ~Raised("release") /\ ~Raised("changed") /\ ~Raised("press") /\ held
  BY <1>1 DEF Button, Ending, PressOnItsWay, Controls
<1>4. Order'
  BY <1>1, <1>3, OrderAppended DEF Presses
<1>5. /\ Raised("press")' <=> Raised("press") \/ e = "press"
      /\ Raised("release")' <=> Raised("release") \/ e = "release"
      /\ Raised("changed")' <=> Raised("changed")
  BY <1>2 DEF Presses
<1>6. Button' /\ Deferral'
  BY <1>1, <1>3, <1>5 DEF Button, Deferral, Ending, Controls, Presses, deferred
<1>7. Agreement'
  <2>1. pending' = pending /\ used' = used /\ tracked' = tracked /\ gameMode' = gameMode
        /\ zoomed' = zoomed
    BY DEF Controls, deferred, modes
  <2>2. Ending' \/ ~Raised("press")' => Ending \/ ~Raised("press")
    BY <1>3, <1>5 DEF Ending
  <2> QED BY <1>1, <1>5, <2>1, <2>2 DEF Agreement
<1> QED BY <1>4, <1>6, <1>7 DEF ModeSide

(* Nor does the stick, the pointer or an absent pad disturb it. *)
LEMMA ModeUnraised ==
  ASSUME ModeSide, StickSampled \/ SampleAges \/ ModifierEvent \/ Unplugged
  PROVE  ModeSide'
<1>1. \A d : Raised(d)' <=> Raised(d)
  BY Uncontrolled DEF Raised
<1>2. held' => held
  BY Uncontrolled
<1>3. /\ queue' = queue /\ pending' = pending /\ used' = used /\ zoomed' = zoomed
      /\ tracked' = tracked /\ gameMode' = gameMode
  BY Uncontrolled DEF deferred, modes
<1>4. Raised("press") /\ fresh => fresh'
  BY Uncontrolled DEF PressOnItsWay
<1>5. Order /\ Button /\ Deferral /\ Agreement
  BY DEF ModeSide
<1>6. Order'
  BY <1>3, <1>5 DEF Order
<1>7. Button' /\ Deferral'
  BY <1>1, <1>2, <1>3, <1>4, <1>5 DEF Button, Deferral, Ending
<1>8. Agreement'
  BY <1>1, <1>3, <1>5 DEF Agreement, Ending
<1> QED BY <1>6, <1>7, <1>8 DEF ModeSide

(* A press is deferred if its button is still down, and only then. *)
LEMMA ModeCaptured == ASSUME TypeOK, ModeSide, CaptureChord PROVE ModeSide'
<1>1. PICK e \in Presses : Handle(e)
  BY DEF CaptureChord, Presses
<1>2. /\ queue' = Tail(queue) /\ held' = held /\ fresh' = fresh
      /\ tracked' = tracked /\ gameMode' = gameMode
      /\ zoomed' = (zoomed /\ Handle("repeat"))
      /\ IF fresh /\ held /\ ~pending THEN pending' = TRUE /\ used' = FALSE
                                      ELSE pending' = pending /\ used' = used
  BY DEF CaptureChord, deferred, pad, modes
<1>3. Order /\ Button /\ Deferral /\ Agreement
  BY DEF ModeSide
<1>4. /\ Order' /\ ~Raised("changed")' /\ ~Raised("release") /\ ~Raised("changed")
      /\ Raised(e) /\ \A d : Raised(d)' => Raised(d)
      /\ \A d : Raised(d) /\ d # e => Raised(d)'
  BY <1>1, <1>2, <1>3, OrderHandled, Handled DEF Presses
<1>5. ~Ending /\ ~Ending' /\ (Raised("press")' => Raised("press"))
  BY <1>4 DEF Ending
<1>6. Button'
  BY <1>2, <1>3, <1>4, <1>5 DEF Button, Ending
<1>7. CASE e = "press"
  <2>1. fresh /\ ~zoomed'
    <3>1. fresh
      BY <1>3, <1>4, <1>7 DEF Button
    <3>2. ~Handle("repeat")
      BY <1>1, <1>7 DEF Handle
    <3> QED BY <1>2, <3>1, <3>2, Zenon
  <2>2. held' => pending'
    BY <1>2, <2>1 DEF TypeOK
  <2> QED BY <1>2, <1>3, <1>4, <1>5, <1>6, <2>1, <2>2 DEF ModeSide, Deferral, Agreement
<1>8. CASE e = "repeat"
  <2>1. Raised("press")' <=> Raised("press")
    BY <1>4, <1>8
  <2>2. zoomed' = zoomed
    <3>1. Handle("repeat") /\ zoomed \in BOOLEAN
      BY <1>1, <1>8 DEF TypeOK
    <3> QED BY <1>2, <3>1, Zenon
  <2>3. ~Raised("press") => pending' = pending /\ used' = used
    BY <1>2, <1>3 DEF Deferral
  <2> QED BY <1>2, <1>3, <1>4, <1>5, <1>6, <2>1, <2>2, <2>3 DEF ModeSide, Deferral, Agreement
<1> QED BY <1>7, <1>8 DEF Presses

(* A vertical action marks the press that is pending. *)
LEMMA ModeZoomed == ASSUME TypeOK, ModeSide, Vertical PROVE ModeSide'
<1>1. /\ Handle("vertical") /\ queue' = Tail(queue) /\ held' = held /\ fresh' = fresh
      /\ pending' = pending /\ tracked' = tracked /\ gameMode' = gameMode
      /\ \/ used' = (used \/ pending) /\ zoomed' = TRUE
         \/ used' = used /\ zoomed' = zoomed
  BY DEF Vertical, pad, modes
<1>2. Order /\ Button /\ Deferral /\ Agreement
  BY DEF ModeSide
<1>3. Order' /\ ~Raised("changed")' /\ ~Raised("changed")
  BY <1>1, <1>2, OrderHandled
<1>4. \A d : d # "vertical" => (Raised(d)' <=> Raised(d))
  BY <1>1, Handled
<1>5. /\ Raised("press")' <=> Raised("press")
      /\ Raised("release")' <=> Raised("release")
  BY <1>4
<1>6. Button' /\ Deferral' /\ (Ending' <=> Ending)
  BY <1>1, <1>2, <1>3, <1>5 DEF Button, Deferral, Ending
<1>7. pending /\ (zoomed => used) => (zoomed' => used')
  BY <1>1, Zenon
<1>8. Agreement'
  BY <1>1, <1>2, <1>3, <1>5, <1>6, <1>7 DEF Agreement
<1> QED BY <1>3, <1>6, <1>8 DEF ModeSide

(* A release is taken from the game. *)
LEMMA ModeFiltered == ASSUME TypeOK, ModeSide, FilterRelease PROVE ModeSide'
<1>1. /\ Handle("release") /\ queue' = Tail(queue) /\ held' = held /\ fresh' = fresh
      /\ pending' = FALSE /\ used' = FALSE /\ tracked' = tracked /\ gameMode' = gameMode
      /\ zoomed' = zoomed
  BY DEF FilterRelease, pad, modes
<1>2. Order /\ Button /\ Deferral /\ Agreement
  BY DEF ModeSide
<1>3. Order' /\ ~Raised("changed")' /\ ~Raised("changed") /\ ~Raised("release")'
  BY <1>1, <1>2, OrderHandled
<1>4. Raised("release") /\ (Raised("press")' <=> Raised("press"))
  BY <1>1, Handled
<1> QED BY <1>1, <1>2, <1>3, <1>4 DEF ModeSide, Button, Deferral, Agreement, Ending

(* A change is followed. *)
LEMMA ModeFollowed == ASSUME TypeOK, ModeSide, ModeChanged PROVE ModeSide'
<1>1. /\ Handle("changed") /\ queue' = Tail(queue) /\ held' = held /\ fresh' = fresh
      /\ pending' = FALSE /\ used' = FALSE /\ gameMode' = gameMode
      /\ zoomed' = zoomed
      /\ tracked' = IF pending /\ ~used THEN ~tracked ELSE tracked
  BY DEF ModeChanged, pad
<1>2. Order /\ Button /\ Deferral /\ Agreement
  BY DEF ModeSide
<1>3. Order' /\ ~Raised("changed")'
  BY <1>1, <1>2, OrderHandled
<1>4. /\ Raised("changed")
      /\ Raised("press")' <=> Raised("press")
      /\ Raised("release")' <=> Raised("release")
  BY <1>1, Handled
<1>5. /\ held => Raised("press")'
      /\ ~Raised("release")' /\ pending /\ ~used /\ tracked # gameMode
  BY <1>2, <1>4 DEF Button, Deferral, Agreement, Ending
<1>6. tracked' = gameMode'
  BY <1>1, <1>5 DEF TypeOK
<1> QED BY <1>1, <1>2, <1>3, <1>4, <1>5, <1>6 DEF ModeSide, Button, Deferral, Agreement, Ending

(* The game changes mode, and reports it at once. *)
LEMMA ModePassed == ASSUME TypeOK, ModeSide, PassRelease PROVE ModeSide'
<1>1. /\ Handle("release") /\ ~(pending /\ used) /\ held' = held /\ fresh' = fresh
      /\ pending' = pending /\ used' = used
      /\ tracked' = tracked /\ gameMode' = ~gameMode
      /\ zoomed' = zoomed /\ queue' = <<"changed">> \o Tail(queue)
  BY DEF PassRelease, GameToggles, Suppressed, pad, deferred
<1>2. /\ DOMAIN queue' = DOMAIN queue /\ 1 \in DOMAIN queue
      /\ queue[1] = "release" /\ queue'[1] = "changed"
      /\ \A i \in DOMAIN queue : i # 1 => queue'[i] = queue[i] /\ 1 < i
      /\ Raised("release") /\ Raised("changed")'
      /\ Raised("press")' <=> Raised("press")
  BY <1>1, Reported
<1>3. Order /\ Button /\ Deferral /\ Agreement
  BY DEF ModeSide
<1>4. ~Raised("changed") /\ tracked = gameMode /\ pending /\ ~used
  BY <1>1, <1>2, <1>3 DEF Button, Deferral, Agreement, Ending
<1>5. \A i \in DOMAIN queue' : queue'[i] # "release" /\ (queue'[i] = "changed" => i = 1)
  BY <1>2, <1>3, <1>4 DEF Order, Raised
<1>6. Order' /\ ~Raised("release")'
  BY <1>5 DEF Order, Raised
<1>7. Button' /\ Deferral'
  BY <1>1, <1>2, <1>3, <1>4, <1>6 DEF Button, Deferral, Ending
<1>8. Agreement'
  BY <1>1, <1>2, <1>3, <1>4 DEF Agreement, TypeOK, Ending
<1> QED BY <1>6, <1>7, <1>8 DEF ModeSide

(* Every step keeps the side of the mode while presses are sampled.        *)
LEMMA ModeSideKeeps == ASSUME TypeOK, ModeSide, Next, Sampled' PROVE ModeSide'
<1>1. CASE \/ PressL3 \/ RepeatL3 \/ ReleaseL3 \/ StickMoved
           \/ PressUnsampled \/ ReleaseEarly
  BY <1>1, Controlled, ModeRaised
<1>2. ~PassOversize
  BY DEF PassOversize, Disturb, Sampled
<1> QED BY <1>1, <1>2, ModeUnraised, ModeCaptured, ModeZoomed, ModeFiltered, ModeFollowed,
           ModePassed DEF Next, Controller, Hooks

-----------------------------------------------------------------------------
(* The side of the click.  A press comes only after the last was let go.   *)
LEMMA ClickRaised ==
  ASSUME TypeOK, ClickSide, NEW e \in Presses \cup {"release", "vertical"}, Controls(e)
  PROVE  ClickSide'
<1>1. /\ Alternate /\ Alive /\ Marked /\ Raise(e) /\ e \in EventNames
      /\ pending' = pending /\ used' = used /\ zoomed' = zoomed
  BY DEF ClickSide, Controls, Presses, EventNames, deferred
<1>2. /\ Len(queue) \in Nat /\ DOMAIN queue = 1 .. Len(queue)
      /\ DOMAIN queue' = 1 .. Len(queue) + 1
      /\ \A i \in 1 .. Len(queue) : queue'[i] = queue[i]
      /\ queue'[Len(queue) + 1] = e
      /\ \A d : Raised(d)' <=> Raised(d) \/ d = e
  BY <1>1, Appended
<1> DEFINE new == Len(queue) + 1
<1>3. /\ new \in DOMAIN queue' /\ queue'[new] = e
      /\ \A i \in DOMAIN queue' : i = new \/ i \in DOMAIN queue
      /\ \A i \in DOMAIN queue : i \in DOMAIN queue' /\ queue'[i] = queue[i] /\ i < new
      /\ \A i, j \in DOMAIN queue' : i < j => i \in DOMAIN queue
  BY <1>2
<1> HIDE DEF new
<1>4. Alternate'
  <2> SUFFICES ASSUME NEW i \in DOMAIN queue', queue'[i] \in Presses
               PROVE  /\ held' \/ \E m \in DOMAIN queue' : i < m /\ queue'[m] = "release"
                      /\ \A j \in DOMAIN queue' : i < j /\ queue'[j] = "press" =>
                           \E m \in DOMAIN queue' : i < m /\ m < j /\ queue'[m] = "release"
    BY DEF Alternate
  <2>1. held' \/ \E m \in DOMAIN queue' : i < m /\ queue'[m] = "release"
    <3>1. CASE e = "release"
      <4>1. i \in DOMAIN queue
        BY <1>3, <3>1 DEF Presses
      <4> QED BY <1>3, <3>1, <4>1
    <3>2. CASE e = "vertical"
      <4>1. i \in DOMAIN queue /\ queue[i] \in Presses
        BY <1>3, <3>2 DEF Presses
      <4>2. held \/ \E m \in DOMAIN queue : i < m /\ queue[m] = "release"
        BY <1>1, <4>1 DEF Alternate
      <4> QED BY <1>3, <3>2, <4>2 DEF Controls
    <3> QED BY <3>1, <3>2 DEF Controls, Presses
  <2>2. ASSUME NEW j \in DOMAIN queue', i < j, queue'[j] = "press"
        PROVE  \E m \in DOMAIN queue' : i < m /\ m < j /\ queue'[m] = "release"
    <3>1. i \in DOMAIN queue /\ queue[i] \in Presses
      BY <1>3, <2>2
    <3>2. CASE j \in DOMAIN queue
      <4>1. PICK m \in DOMAIN queue : i < m /\ m < j /\ queue[m] = "release"
        BY <1>1, <1>3, <2>2, <3>1, <3>2 DEF Alternate
      <4> QED BY <1>3, <4>1
    <3>3. CASE j = new
      <4>1. ~held
        BY <1>3, <2>2, <3>3 DEF Controls
      <4>2. PICK m \in DOMAIN queue : i < m /\ queue[m] = "release"
        BY <1>1, <3>1, <4>1 DEF Alternate
      <4> QED BY <1>3, <3>3, <4>2
    <3> QED BY <1>3, <3>2, <3>3
  <2> QED BY <2>1, <2>2
<1>5. Alive'
  <2> SUFFICES ASSUME pending
               PROVE  /\ held' \/ Ending'
                      /\ \A j \in DOMAIN queue' : queue'[j] = "press" =>
                           \E m \in DOMAIN queue' :
                             m < j /\ queue'[m] \in {"release", "changed"}
    BY <1>1 DEF Alive
  <2>1. held' \/ Ending'
    BY <1>1, <1>2 DEF Alive, Ending, Controls, Presses
  <2>2. ASSUME NEW j \in DOMAIN queue', queue'[j] = "press"
        PROVE  \E m \in DOMAIN queue' : m < j /\ queue'[m] \in {"release", "changed"}
    <3>1. CASE j \in DOMAIN queue
      BY <1>1, <1>3, <2>2, <3>1 DEF Alive
    <3>2. CASE j = new
      <4>1. Ending
        BY <1>1, <1>3, <2>2, <3>2 DEF Alive, Controls
      <4> QED BY <1>3, <3>2, <4>1 DEF Ending, Raised
    <3> QED BY <1>3, <3>1, <3>2
  <2> QED BY <2>1, <2>2
<1> QED BY <1>1, <1>4, <1>5 DEF ClickSide, Marked

(* What is left when the head is handled alternates as before. *)
LEMMA AlternateHandled ==
  ASSUME TypeOK, Alternate, NEW e, Handle(e), queue' = Tail(queue), held' = held
  PROVE  /\ Alternate'
         /\ e \in Presses =>
              \A j \in DOMAIN queue' : queue'[j] = "press" =>
                \E m \in DOMAIN queue' : m < j /\ queue'[m] = "release"
         /\ Alive /\ pending /\ e \notin {"release", "changed"} =>
              /\ held' \/ Ending'
              /\ \A j \in DOMAIN queue' : queue'[j] = "press" =>
                   \E m \in DOMAIN queue' : m < j /\ queue'[m] \in {"release", "changed"}
<1>1. /\ Len(queue) \in Nat /\ 1 \in DOMAIN queue /\ queue[1] = e
      /\ DOMAIN queue = 1 .. Len(queue) /\ DOMAIN queue' = 1 .. Len(queue) - 1
      /\ \A i \in 1 .. Len(queue) - 1 : queue'[i] = queue[i + 1]
      /\ \A d : Raised(d) /\ d # e => Raised(d)'
  BY Handled
<1>2. \A i \in DOMAIN queue' : i + 1 \in DOMAIN queue /\ queue'[i] = queue[i + 1]
                               /\ i \in Int /\ 1 < i + 1
  BY <1>1
<1>3. \A m \in DOMAIN queue : 1 < m => \E k \in DOMAIN queue' : k + 1 = m /\ queue'[k] = queue[m]
  <2> SUFFICES ASSUME NEW m \in DOMAIN queue, 1 < m
               PROVE  m - 1 \in DOMAIN queue' /\ (m - 1) + 1 = m
    BY <1>2
  <2> QED BY <1>1
<1>4. Alternate'
  <2> SUFFICES ASSUME NEW i \in DOMAIN queue', queue'[i] \in Presses
               PROVE  /\ held' \/ \E m \in DOMAIN queue' : i < m /\ queue'[m] = "release"
                      /\ \A j \in DOMAIN queue' : i < j /\ queue'[j] = "press" =>
                           \E m \in DOMAIN queue' : i < m /\ m < j /\ queue'[m] = "release"
    BY DEF Alternate
  <2>1. i + 1 \in DOMAIN queue /\ queue[i + 1] \in Presses /\ i \in Int /\ 1 < i + 1
    BY <1>2
  <2>2. ASSUME ~held
        PROVE  \E m \in DOMAIN queue' : i < m /\ queue'[m] = "release"
    <3>1. PICK m \in DOMAIN queue : i + 1 < m /\ queue[m] = "release"
      BY <2>1, <2>2 DEF Alternate
    <3>2. 1 < m
      BY <1>1, <2>1, <3>1
    <3>3. PICK k \in DOMAIN queue' : k + 1 = m /\ queue'[k] = queue[m]
      BY <1>3, <3>2
    <3>4. i < k
      BY <1>2, <2>1, <3>1, <3>3
    <3> QED BY <3>1, <3>3, <3>4
  <2>3. ASSUME NEW j \in DOMAIN queue', i < j, queue'[j] = "press"
        PROVE  \E m \in DOMAIN queue' : i < m /\ m < j /\ queue'[m] = "release"
    <3>1. j + 1 \in DOMAIN queue /\ queue[j + 1] = "press" /\ i + 1 < j + 1 /\ j \in Int
      BY <1>2, <2>1, <2>3
    <3>2. PICK m \in DOMAIN queue : i + 1 < m /\ m < j + 1 /\ queue[m] = "release"
      BY <2>1, <3>1 DEF Alternate
    <3>3. 1 < m
      BY <1>1, <2>1, <3>2
    <3>4. PICK k \in DOMAIN queue' : k + 1 = m /\ queue'[k] = queue[m]
      BY <1>3, <3>3
    <3>5. i < k /\ k < j
      BY <1>2, <2>1, <3>1, <3>2, <3>4
    <3> QED BY <3>2, <3>4, <3>5
  <2> QED BY <2>2, <2>3
<1>5. ASSUME e \in Presses, NEW j \in DOMAIN queue', queue'[j] = "press"
      PROVE  \E m \in DOMAIN queue' : m < j /\ queue'[m] = "release"
  <2>1. j + 1 \in DOMAIN queue /\ queue[j + 1] = "press" /\ 1 < j + 1 /\ j \in Int
    BY <1>2, <1>5
  <2>2. PICK m \in DOMAIN queue : 1 < m /\ m < j + 1 /\ queue[m] = "release"
    BY <1>1, <1>5, <2>1 DEF Alternate
  <2>3. PICK k \in DOMAIN queue' : k + 1 = m /\ queue'[k] = queue[m]
    BY <1>3, <2>2
  <2>4. k < j
    BY <1>2, <2>1, <2>2, <2>3
  <2> QED BY <2>2, <2>3, <2>4
<1>6. ASSUME Alive, pending, e \notin {"release", "changed"}
      PROVE  /\ held' \/ Ending'
             /\ \A j \in DOMAIN queue' : queue'[j] = "press" =>
                  \E m \in DOMAIN queue' : m < j /\ queue'[m] \in {"release", "changed"}
  <2>1. held' \/ Ending'
    BY <1>1, <1>6 DEF Alive, Ending
  <2>2. ASSUME NEW j \in DOMAIN queue', queue'[j] = "press"
        PROVE  \E m \in DOMAIN queue' : m < j /\ queue'[m] \in {"release", "changed"}
    <3>1. j + 1 \in DOMAIN queue /\ queue[j + 1] = "press" /\ j \in Int
      BY <1>2, <2>2
    <3>2. PICK m \in DOMAIN queue : m < j + 1 /\ queue[m] \in {"release", "changed"}
      BY <1>6, <3>1 DEF Alive
    <3>3. 1 < m
      <4>1. m # 1
        BY <1>1, <1>6, <3>2
      <4> QED BY <1>1, <4>1
    <3>4. PICK k \in DOMAIN queue' : k + 1 = m /\ queue'[k] = queue[m]
      BY <1>3, <3>3
    <3>5. k < j
      BY <1>2, <3>1, <3>2, <3>4
    <3> QED BY <3>2, <3>4, <3>5
  <2> QED BY <2>1, <2>2
<1> QED BY <1>4, <1>5, <1>6

(* A press is handled when none is pending. *)
LEMMA ClickCaptured == ASSUME TypeOK, ClickSide, CaptureChord PROVE ClickSide'
<1>1. PICK e \in Presses : Handle(e)
  BY DEF CaptureChord, Presses
<1>2. /\ queue' = Tail(queue) /\ held' = held
      /\ zoomed' = (zoomed /\ Handle("repeat"))
      /\ \/ held /\ pending' = TRUE /\ used' = FALSE
         \/ pending' = pending /\ used' = used
  BY DEF CaptureChord, deferred, pad
<1>3. Alternate /\ Alive /\ Marked
  BY DEF ClickSide
<1>4. Alternate'
  BY <1>1, <1>2, <1>3, AlternateHandled
<1>5. Alive'
  <2>1. CASE held /\ pending' = TRUE /\ used' = FALSE
    <3>1. \A j \in DOMAIN queue' : queue'[j] = "press" =>
            \E m \in DOMAIN queue' : m < j /\ queue'[m] = "release"
      BY <1>1, <1>2, <1>3, AlternateHandled
    <3> QED BY <1>2, <2>1, <3>1 DEF Alive
  <2>2. CASE pending' = pending
    <3>1. e \notin {"release", "changed"}
      BY DEF Presses
    <3> QED BY <1>1, <1>2, <1>3, <2>2, <3>1, AlternateHandled DEF Alive
  <2> QED BY <1>2, <2>1, <2>2
<1>6. Marked'
  <2>1. CASE e = "press"
    <3>1. 1 \in DOMAIN queue /\ queue[1] = "press" /\ DOMAIN queue = 1 .. Len(queue)
          /\ Len(queue) \in Nat
      BY <1>1, <1>2, <2>1, Handled
    <3>2. ~pending
      <4> SUFFICES ASSUME pending PROVE FALSE
        OBVIOUS
      <4>1. PICK m \in DOMAIN queue : m < 1
        BY <1>3, <3>1 DEF Alive
      <4> QED BY <3>1, <4>1
    <3>3. ~used'
      BY <1>2, <3>2 DEF TypeOK
    <3> QED BY <3>3 DEF Marked
  <2>2. CASE e = "repeat"
    <3>1. Handle("repeat") /\ zoomed \in BOOLEAN
      BY <1>1, <2>2 DEF TypeOK
    <3>2. zoomed' = zoomed
      BY <1>2, <3>1, Zenon
    <3>3. used' => used
      BY <1>2
    <3> QED BY <1>3, <3>2, <3>3 DEF Marked
  <2> QED BY <2>1, <2>2 DEF Presses
<1> QED BY <1>4, <1>5, <1>6 DEF ClickSide

(* A mark is set together with the zoom it stands for. *)
LEMMA ClickZoomed == ASSUME TypeOK, ClickSide, Vertical PROVE ClickSide'
<1>1. /\ Handle("vertical") /\ queue' = Tail(queue) /\ held' = held
      /\ pending' = pending
      /\ \/ zoomed' = TRUE
         \/ used' = used /\ zoomed' = zoomed
  BY DEF Vertical, pad
<1>2. Alternate /\ Alive /\ Marked
  BY DEF ClickSide
<1>3. Alternate' /\ Alive'
  <2>1. "vertical" \notin {"release", "changed"}
    OBVIOUS
  <2> QED BY <1>1, <1>2, <2>1, AlternateHandled DEF Alive
<1>4. Marked'
  BY <1>1, <1>2 DEF Marked
<1> QED BY <1>3, <1>4 DEF ClickSide

(* The end of a hold is worked off. *)
LEMMA ClickEnded == ASSUME TypeOK, ClickSide, FilterRelease \/ ModeChanged PROVE ClickSide'
<1>1. PICK e : Handle(e)
  BY DEF FilterRelease, ModeChanged
<1>2. queue' = Tail(queue) /\ held' = held /\ pending' = FALSE /\ used' = FALSE
  BY DEF FilterRelease, ModeChanged, pad
<1>3. Alternate'
  BY <1>1, <1>2, AlternateHandled DEF ClickSide
<1> QED BY <1>2, <1>3 DEF ClickSide, Alive, Marked

(* The report of a change stands where the release stood. *)
LEMMA ClickPassed == ASSUME TypeOK, ClickSide, PassRelease \/ PassOversize PROVE ClickSide'
<1>1. /\ Handle("release") /\ queue' = <<"changed">> \o Tail(queue) /\ held' = held
      /\ pending' = pending /\ used' = used /\ zoomed' = zoomed
  BY DEF PassRelease, PassOversize, GameToggles, pad, deferred
<1>2. /\ DOMAIN queue' = DOMAIN queue /\ 1 \in DOMAIN queue
      /\ DOMAIN queue = 1 .. Len(queue) /\ Len(queue) \in Nat
      /\ queue[1] = "release" /\ queue'[1] = "changed"
      /\ \A i \in DOMAIN queue : i # 1 => queue'[i] = queue[i] /\ 1 < i
      /\ Raised("changed")'
  BY <1>1, Reported
<1>3. Alternate /\ Alive /\ Marked
  BY DEF ClickSide
<1>4. Alternate'
  <2> SUFFICES ASSUME NEW i \in DOMAIN queue', queue'[i] \in Presses
               PROVE  /\ held' \/ \E m \in DOMAIN queue' : i < m /\ queue'[m] = "release"
                      /\ \A j \in DOMAIN queue' : i < j /\ queue'[j] = "press" =>
                           \E m \in DOMAIN queue' : i < m /\ m < j /\ queue'[m] = "release"
    BY DEF Alternate
  <2>0. DOMAIN queue' = DOMAIN queue /\ i \in DOMAIN queue /\ held' = held
    BY <1>1, <1>2
  <2>1. i # 1
    BY <1>2 DEF Presses
  <2>2. queue'[i] = queue[i] /\ \A m \in DOMAIN queue : i < m => queue'[m] = queue[m]
    <3>1. \A m \in DOMAIN queue : i < m => m # 1
      BY <1>2, <2>0, <2>1
    <3> QED BY <1>2, <2>0, <2>1, <3>1
  <2> QED BY <1>3, <2>0, <2>2 DEF Alternate
<1>5. Alive'
  <2>1. \A j \in DOMAIN queue : queue'[j] = "press" => 1 < j
    BY <1>2
  <2> QED BY <1>2, <2>1 DEF Alive, Ending
<1> QED BY <1>1, <1>3, <1>4, <1>5 DEF ClickSide, Marked

(* Every step keeps the side of the click while the pad stays.             *)
LEMMA ClickSideKeeps == ASSUME TypeOK, ClickSide, Next, Plugged' PROVE ClickSide'
<1>1. CASE \/ PressL3 \/ RepeatL3 \/ ReleaseL3 \/ StickMoved
           \/ PressUnsampled \/ ReleaseEarly
  BY <1>1, Controlled, ClickRaised
<1>2. CASE StickSampled \/ SampleAges \/ ModifierEvent \/ Unplugged
  <2>1. UNCHANGED <<queue, pending, used, zoomed, held>>
    BY <1>2, Uncontrolled DEF deferred
  <2>2. \A d : Raised(d)' <=> Raised(d)
    BY <2>1 DEF Raised
  <2>3. Alternate'
    BY <2>1 DEF ClickSide, Alternate
  <2>4. Alive' /\ Marked'
    BY <2>1, <2>2 DEF ClickSide, Alive, Marked, Ending
  <2> QED BY <2>3, <2>4 DEF ClickSide
<1> QED BY <1>1, <1>2, ClickCaptured, ClickZoomed, ClickEnded, ClickPassed
        DEF Next, Controller, Hooks

-----------------------------------------------------------------------------
(* The invariant holds throughout. *)
THEOREM Invariant == Spec => []IInv
<1>1. Init => IInv
  <2> SUFFICES ASSUME Init PROVE IInv
    OBVIOUS
  <2>1. TypeOK
    <3>1. <<>> \in Seq(EventNames)
      OBVIOUS
    <3> QED BY <3>1 DEF Init, TypeOK
  <2>2. \A e : ~Raised(e)
    BY DEF Init, Raised
  <2>3. Order /\ Alternate
    BY DEF Init, Order, Alternate
  <2>4. Button /\ Deferral /\ Agreement /\ Alive /\ Marked
    BY <2>2, Zenon DEF Init, Button, Deferral, Agreement, Ending, Alive, Marked
  <2> QED BY <2>1, <2>3, <2>4 DEF IInv, ModeSide, ClickSide
<1>2. IInv /\ [Next]_vars => IInv'
  <2>1. CASE UNCHANGED vars
    BY <2>1 DEF IInv, TypeOK, ModeSide, Order, Button, Deferral, Agreement, Ending,
                ClickSide, Alternate, Alive, Marked, Sampled, Plugged,
                Raised, vars, pad, deferred, modes
  <2>2. CASE Next
    BY <2>2, TypeKeeps, Remembered, ModeSideKeeps, ClickSideKeeps DEF IInv
  <2> QED BY <2>1, <2>2
<1> QED BY <1>1, <1>2, PTL DEF Spec

(* TypeOK: and a mark is always that of a pending press.                   *)
THEOREM TypeCorrect == Spec => []TypeOK
<1>1. IInv => TypeOK
  BY DEF IInv
<1> QED BY <1>1, Invariant, PTL

(* TrackedFollowsGame: but for a change being reported, the mod and the    *)
(* game are in one mode, also after a pad went away.                       *)
THEOREM SameMode == Spec => []TrackedFollowsGame
<1>1. IInv => TrackedFollowsGame
  BY DEF IInv, ModeSide, TrackedFollowsGame, Agreement
<1> QED BY <1>1, Invariant, PTL

(* DeferredIsLive: gDeferredToggle never outlives its hold, however late   *)
(* or unsampled a press was handled.                                       *)
THEOREM DeferralLive == Spec => []DeferredIsLive
<1>1. IInv => DeferredIsLive
  BY DEF IInv, ClickSide, DeferredIsLive, Alive, Ending
<1> QED BY <1>1, Invariant, PTL

(* ZoomNeverToggles: the release of a hold that zoomed changes no mode.    *)
THEOREM ZoomHarmless == Spec => ZoomNeverToggles
<1>1. IInv /\ [Next]_vars => [gameMode' # gameMode /\ zoomed => ~Sampled']_vars
  <2> SUFFICES ASSUME IInv, Next, gameMode' # gameMode, zoomed, Sampled' PROVE FALSE
    BY DEF vars, modes
  <2>1. PassRelease \/ PassOversize
    BY DEF Next, Controller, Hooks, PressL3, RepeatL3, ReleaseL3, PressUnsampled,
           ReleaseEarly, Unplugged, StickSampled, SampleAges, StickMoved, ModifierEvent,
           CaptureChord, Vertical, FilterRelease, ModeChanged, modes
  <2>2. PassRelease
    BY <2>1 DEF PassOversize, Disturb, Sampled
  <2>3. TypeOK /\ Deferral /\ Agreement
    BY Remembered DEF IInv, ModeSide
  <2>4. Raised("release")
    BY <2>2, <2>3 DEF PassRelease, Handle, Raised, TypeOK
  <2> QED BY <2>2, <2>3, <2>4 DEF PassRelease, Suppressed, Deferral, Agreement, Ending
<1> QED BY <1>1, Invariant, PTL DEF Spec, ZoomNeverToggles

(* ClickStillToggles: a release is only taken from a hold that zoomed.     *)
THEOREM ClickToggles == Spec => ClickStillToggles
<1>1. IInv /\ [Next]_vars =>
        [Handle("release") /\ queue' = Tail(queue) => zoomed \/ ~Plugged]_vars
  <2> SUFFICES ASSUME IInv, Next, Handle("release"), queue' = Tail(queue), Plugged
               PROVE  zoomed
    BY DEF vars
  <2>1. TypeOK /\ Marked
    BY DEF IInv, ClickSide
  <2>2. /\ queue \in Seq(EventNames) /\ queue # <<>> /\ "changed" \in EventNames
    BY <2>1 DEF TypeOK, Handle, EventNames
  <2>3. queue' # queue /\ \A e \in EventNames : ~Raise(e)
    BY <2>2, TailIsNew DEF Raise
  <2>4. queue' # <<"changed">> \o Tail(queue)
    BY <2>2, TailIsNew
  <2>5. FilterRelease
    BY <2>3, <2>4 DEF EventNames, Next, Controller, Hooks, PressL3, RepeatL3, ReleaseL3,
           PressUnsampled, ReleaseEarly, Unplugged, StickSampled, SampleAges, StickMoved,
           ModifierEvent, CaptureChord, Vertical, PassRelease, PassOversize, GameToggles,
           ModeChanged, Handle
  <2> QED BY <2>1, <2>5 DEF FilterRelease, Suppressed, Marked
<1> QED BY <1>1, Invariant, PTL DEF Spec, ClickStillToggles
=============================================================================
