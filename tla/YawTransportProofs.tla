------------------------- MODULE YawTransportProofs -------------------------
(***************************************************************************)
(* Safety of the yaw transport for every set of cameras, every sample,     *)
(* every accumulator range and every routing of the game's update.         *)
(***************************************************************************)
EXTENDS YawTransport, TLAPS

-----------------------------------------------------------------------------
(* The inductive invariant.  Stage names the part of an update that has    *)
(* not reached the pre-gate site's injection yet.                          *)
BeforeTurn == {"idle", "entered", "gate", "take", "decide"}

(* A rate of the mod's sits in a channel only while the record that takes  *)
(* it back is alive, and that record holds a value of the game's.          *)
ChannelInv ==
  /\ \A c \in Cameras :
       chan[c].by = "mod" => inj.active /\ inj.camera = c
  /\ inj.active => /\ inj.camera \in Cameras
                   /\ inj.prev.by # "mod"
                   /\ gate.hits > 0
                   /\ update \notin {"idle", "entered", "take", "decide"}
  /\ update \in {"take", "decide"} => /\ gate.camera \in Cameras
                                      /\ gate.snap.by # "mod"
                                      /\ gate.hits > 0

(* With no native write during an update the channel of every camera the   *)
(* mod did not touch is the game's, and the saved value is the game's too. *)
NativeInv ==
  MaxVisits = 1 =>
    /\ \A c \in Cameras : chan[c] = native[c] \/ (inj.active /\ inj.camera = c)
    /\ inj.active => inj.prev = native[inj.camera]
    /\ update \in {"take", "decide"} => gate.snap = native[gate.camera]

(* The verification flag is a faithful record of what the game turned.     *)
VerifyInv ==
  /\ update \in BeforeTurn =>
       inj.turned = 0 /\ ~inj.conditional /\ gate.preYawHits = 0
  /\ inj.conditional => inj.active
  /\ hooksEnabled /\ gate.preYawHits = 0 => inj.turned = 0 /\ ~inj.conditional
  /\ hooksEnabled /\ inj.conditional => inj.turned = inj.spend
  /\ update = "commit" => inj.active /\ inj.turned = inj.spend

(* What the update still has to debit is exactly what it turned, unless    *)
(* the backlog it would be debited from was discarded under it.            *)
CreditInv ==
  /\ raced => inj.active
  /\ ~inj.active => inj.turned = 0 /\ ~inj.committed
  /\ inj.committed => /\ inj.turned = inj.spend
                      /\ update \in {"zoom", "end"} /\ gate.afterZoom
  /\ update = "commit" => gate.afterZoom
  /\ ~raced => credit = inj.turned - (IF inj.committed THEN inj.spend ELSE 0)

(* Along the route the detours assume, an injection reaches the commit     *)
(* unless the mode changes, the hooks go away or `pending` is discarded.   *)
RouteParts ==
  /\ gate.hits <= (IF update = "gate" THEN visits ELSE 1)
  /\ update = "turn" /\ visits = 0 => gate.preYawHits = 0
  /\ update \in BeforeTurn \cup {"turn"} => ~gate.afterZoom
  /\ update = "zoom" /\ visits = 0 => ~gate.afterZoom
  /\ update \in {"take", "decide", "commit"} => visits = 1
  /\ inj.active => chan[inj.camera] = Injected(inj.spend)
  /\ (update = "turn" /\ visits = 1) \/ (update = "zoom" /\ visits = 0)
     => (hooksEnabled /\ inj.active => inj.conditional)
  /\ (update = "zoom" /\ visits = 1) \/ update = "end"
     => ~(InFlight /\ Undisturbed)

RouteInv == Routed => RouteParts

IInv == TypeOK /\ ChannelInv /\ NativeInv /\ VerifyInv /\ CreditInv /\ RouteInv

-----------------------------------------------------------------------------
(* What the drain can put in a channel, and what it can read back there.   *)
LEMMA ChannelShapes ==
  /\ Empty \in ChannelValues /\ Empty.by # "mod"
  /\ \A s \in Travel : Injected(s) \in ChannelValues
  /\ \A v \in ChannelValues : v.travel \in Travel /\ v.sel \in BOOLEAN
  /\ \A v \in NativeValues : v \in ChannelValues /\ v.by # "mod"
<1>1. /\ Empty \in ChannelValues /\ Empty.by # "mod"
      /\ \A s \in Travel : Injected(s) \in ChannelValues
  BY DEF ChannelValues, Empty
<1>2. \A v \in NativeValues : v \in ChannelValues /\ v.by # "mod"
  BY ConstantsAssumption DEF ChannelValues
<1>3. ASSUME NEW v \in ChannelValues
      PROVE  v.travel \in Travel /\ v.sel \in BOOLEAN
  <2>1. 0 \in Travel
    BY ConstantsAssumption DEF Travel
  <2>2. CASE v \in NativeValues
    BY <2>1, <2>2, ConstantsAssumption
  <2>3. CASE v = Empty \/ \E s \in Travel : v = Injected(s)
    <3>1. v.travel \in Travel
      BY <2>1, <2>3 DEF Empty, Injected
    <3>2. v.sel \in BOOLEAN
      <4>1. v.sel = FALSE \/ v.sel = TRUE
        BY <2>3 DEF Empty, Injected
      <4> QED
        BY <4>1
    <3> QED
      BY <3>1, <3>2
  <2> QED
    BY <2>2, <2>3 DEF ChannelValues
<1> QED
  BY <1>1, <1>2, <1>3

(* A frame without gate or injection has the shape of a frame.             *)
LEMMA FrameShapes == NoGate \in Gates /\ NoInjection \in Injections
<1>1. NoGate \in Gates
  BY ChannelShapes DEF NoGate, Gates
<1>2. 0 \in Travel
  BY ConstantsAssumption DEF Travel
<1>3. NoInjection \in Injections
  BY ChannelShapes, <1>2 DEF NoInjection, Injections
<1> QED
  BY <1>1, <1>3

(* A finite sum stays in the accumulators' range.                          *)
LEMMA FiniteIsTravel ==
  /\ \A x \in Int : Finite(x) => x \in Travel
  /\ 0 \in Travel
  /\ Travel \subseteq Int
  BY ConstantsAssumption DEF Finite, Abs, Travel

(* A frame's share of the backlog has its sign and is never larger.        *)
LEMMA SpendsBounded ==
  ASSUME TypeOK, NEW s \in Spends
  PROVE  s \in Travel
  BY ConstantsAssumption DEF TypeOK, BufferOK, Spends, Travel, Clip, Abs

(* Every action keeps the types.                                           *)
LEMMA TypeStep == TypeOK /\ [Next]_vars => TypeOK'
<1> SUFFICES ASSUME TypeOK, [Next]_vars PROVE TypeOK'
  OBVIOUS
<1> USE FiniteIsTravel
<1>t. /\ SwitchesOK /\ BufferOK /\ ThreadsOK /\ FrameOK /\ ChannelsOK
  BY DEF TypeOK
<1>1. ASSUME NEW t \in Threads, NEW a \in Samples,
            StartSample(t, a)
     PROVE  TypeOK'
  <2>1. ThreadsOK'
    BY <1>1, <1>t, ConstantsAssumption DEF StartSample, Idle, Goto, ThreadsOK,
       BufferOK, Labels
  <2>2. SwitchesOK' /\ BufferOK' /\ FrameOK' /\ ChannelsOK'
    BY <1>1, <1>t DEF StartSample, SwitchesOK, BufferOK, FrameOK, ChannelsOK,
       shared, buffer, frame
  <2> QED
    BY <2>1, <2>2 DEF TypeOK
<1>2. ASSUME NEW t \in Threads,
            Accumulate(t)
     PROVE  TypeOK'
  <2>1. ThreadsOK'
    BY <1>2, <1>t DEF Accumulate, Goto, ThreadsOK, BufferOK, Labels
  <2>2. BufferOK'
    BY <1>2, <1>t DEF Accumulate, ForgetWheel, ThreadsOK, BufferOK
  <2>3. SwitchesOK' /\ FrameOK' /\ ChannelsOK'
    BY <1>2, <1>t DEF Accumulate, ForgetWheel, SwitchesOK, FrameOK,
       ChannelsOK, shared, buffer, frame
  <2> QED
    BY <2>1, <2>2, <2>3 DEF TypeOK
<1>3. ASSUME NEW t \in Threads,
            Stamp(t)
     PROVE  TypeOK'
  <2>1. ThreadsOK'
    BY <1>3, <1>t DEF Stamp, Goto, ThreadsOK, Labels, threads
  <2>2. SwitchesOK'
    BY <1>3, <1>t DEF Stamp, SwitchesOK, shared, buffer, frame
  <2>3. BufferOK' /\ FrameOK' /\ ChannelsOK'
    BY <1>3, <1>t DEF Stamp, BufferOK, FrameOK, ChannelsOK, buffer, frame
  <2> QED
    BY <2>1, <2>2, <2>3 DEF TypeOK
<1>4. ASSUME NEW t \in Threads,
            DropWheel(t)
     PROVE  TypeOK'
  <2>1. ThreadsOK'
    BY <1>4, <1>t DEF DropWheel, Goto, ThreadsOK, Labels, threads
  <2>2. BufferOK'
    BY <1>4, <1>t DEF DropWheel, ForgetWheel, BufferOK
  <2>3. SwitchesOK' /\ FrameOK' /\ ChannelsOK'
    BY <1>4, <1>t DEF DropWheel, ForgetWheel, SwitchesOK, FrameOK, ChannelsOK,
       shared, buffer, frame
  <2> QED
    BY <2>1, <2>2, <2>3 DEF TypeOK
<1>5. ASSUME NEW t \in Threads,
            DropTime(t)
     PROVE  TypeOK'
  <2>1. ThreadsOK'
    BY <1>5, <1>t DEF DropTime, Goto, ThreadsOK, Labels, threads
  <2>2. SwitchesOK'
    BY <1>5, <1>t DEF DropTime, SwitchesOK, shared, buffer, frame
  <2>3. BufferOK' /\ FrameOK' /\ ChannelsOK'
    BY <1>5, <1>t DEF DropTime, BufferOK, FrameOK, ChannelsOK, buffer, frame
  <2> QED
    BY <2>1, <2>2, <2>3 DEF TypeOK
<1>6. ASSUME NEW t \in Threads,
            DropPending(t)
     PROVE  TypeOK'
  <2>1. ThreadsOK'
    BY <1>6, <1>t DEF DropPending, Goto, ThreadsOK, Labels, threads
  <2>2. BufferOK'
    BY <1>6, <1>t DEF DropPending, ForgetPending, BufferOK
  <2>3. SwitchesOK'
    <3>1. InFlight \in BOOLEAN
      BY DEF InFlight
    <3> QED
      BY <1>6, <1>t, <3>1 DEF DropPending, ForgetPending, SwitchesOK, shared, frame
  <2>4. FrameOK' /\ ChannelsOK'
    BY <1>6, <1>t DEF DropPending, FrameOK, ChannelsOK, frame
  <2> QED
    BY <2>1, <2>2, <2>3, <2>4 DEF TypeOK
<1>7. ASSUME BeginGesture
     PROVE  TypeOK'
  <2>1. SwitchesOK'
    BY <1>7, <1>t DEF BeginGesture, SwitchesOK, shared, buffer, frame
  <2>2. BufferOK' /\ ThreadsOK' /\ FrameOK' /\ ChannelsOK'
    BY <1>7, <1>t DEF BeginGesture, BufferOK, ThreadsOK, FrameOK, ChannelsOK,
       buffer, threads, frame
  <2> QED
    BY <2>1, <2>2 DEF TypeOK
<1>8. ASSUME EndGesture
     PROVE  TypeOK'
  <2>1. ThreadsOK'
    BY <1>8, <1>t DEF EndGesture, Goto, ThreadsOK, Labels, threads
  <2>2. SwitchesOK' /\ BufferOK' /\ FrameOK' /\ ChannelsOK'
    BY <1>8, <1>t DEF EndGesture, SwitchesOK, BufferOK, FrameOK, ChannelsOK,
       shared, buffer, frame
  <2> QED
    BY <2>1, <2>2 DEF TypeOK
<1>9. ASSUME PublishEnd
     PROVE  TypeOK'
  <2>1. SwitchesOK'
    BY <1>9, <1>t DEF PublishEnd, SwitchesOK, shared, buffer, frame
  <2>2. ThreadsOK'
    BY <1>9, <1>t DEF PublishEnd, Goto, ThreadsOK, Labels, threads
  <2>3. BufferOK' /\ FrameOK' /\ ChannelsOK'
    BY <1>9, <1>t DEF PublishEnd, BufferOK, FrameOK, ChannelsOK, buffer, frame
  <2> QED
    BY <2>1, <2>2, <2>3 DEF TypeOK
<1>10. ASSUME MonitorInstalled
      PROVE  TypeOK'
  <2>1. SwitchesOK'
    BY <1>10, <1>t DEF MonitorInstalled, SwitchesOK, shared, buffer, frame
  <2>2. BufferOK' /\ ThreadsOK' /\ FrameOK' /\ ChannelsOK'
    BY <1>10, <1>t DEF MonitorInstalled, BufferOK, ThreadsOK, FrameOK,
       ChannelsOK, buffer, threads, frame
  <2> QED
    BY <2>1, <2>2 DEF TypeOK
<1>11. ASSUME ToggleMode
      PROVE  TypeOK'
  <2>1. SwitchesOK'
    BY <1>11, <1>t DEF ToggleMode, SwitchesOK, shared, buffer, frame
  <2>2. ThreadsOK'
    BY <1>11, <1>t DEF ToggleMode, Goto, ThreadsOK, Labels, threads
  <2>3. BufferOK' /\ FrameOK' /\ ChannelsOK'
    BY <1>11, <1>t DEF ToggleMode, BufferOK, FrameOK, ChannelsOK, buffer,
       frame
  <2> QED
    BY <2>1, <2>2, <2>3 DEF TypeOK
<1>12. ASSUME RemoveHooks
      PROVE  TypeOK'
  <2>1. SwitchesOK'
    BY <1>12, <1>t DEF RemoveHooks, SwitchesOK, shared, buffer, frame
  <2>2. ThreadsOK'
    BY <1>12, <1>t DEF RemoveHooks, Goto, ThreadsOK, Labels, threads
  <2>3. BufferOK' /\ FrameOK' /\ ChannelsOK'
    BY <1>12, <1>t DEF RemoveHooks, BufferOK, FrameOK, ChannelsOK, buffer,
       frame
  <2> QED
    BY <2>1, <2>2, <2>3 DEF TypeOK
<1>13. ASSUME AwaitUpdate
      PROVE  TypeOK'
  <2>1. ThreadsOK'
    BY <1>13, <1>t DEF AwaitUpdate, Goto, ThreadsOK, Labels, threads
  <2>2. SwitchesOK' /\ BufferOK' /\ FrameOK' /\ ChannelsOK'
    BY <1>13, <1>t DEF AwaitUpdate, SwitchesOK, BufferOK, FrameOK, ChannelsOK,
       shared, buffer, frame
  <2> QED
    BY <2>1, <2>2 DEF TypeOK
<1>14. ASSUME GoQuiet
      PROVE  TypeOK'
  <2>1. SwitchesOK'
    BY <1>14, <1>t DEF GoQuiet, SwitchesOK, shared, buffer, frame
  <2>2. BufferOK' /\ ThreadsOK' /\ FrameOK' /\ ChannelsOK'
    BY <1>14, <1>t DEF GoQuiet, BufferOK, ThreadsOK, FrameOK, ChannelsOK,
       buffer, threads, frame
  <2> QED
    BY <2>1, <2>2 DEF TypeOK
<1>15. ASSUME Enter
      PROVE  TypeOK'
  <2>1. FrameOK'
    BY <1>15, <1>t DEF Enter, FrameOK, Stages, frame
  <2>2. SwitchesOK' /\ BufferOK' /\ ThreadsOK' /\ ChannelsOK'
    BY <1>15, <1>t DEF Enter, SwitchesOK, BufferOK, ThreadsOK, ChannelsOK,
       shared, buffer, frame, threads
  <2> QED
    BY <2>1, <2>2 DEF TypeOK
<1>16. ASSUME NEW usable \in BOOLEAN,
             Acquire(usable)
      PROVE  TypeOK'
  <2>1. FrameOK'
    BY <1>16, <1>t, FrameShapes DEF Acquire, FrameOK, Stages
  <2>2. SwitchesOK'
    BY <1>16, <1>t DEF Acquire, SwitchesOK, shared, buffer, frame
  <2>3. BufferOK' /\ ThreadsOK' /\ ChannelsOK'
    BY <1>16, <1>t DEF Acquire, BufferOK, ThreadsOK, ChannelsOK, buffer,
       threads
  <2> QED
    BY <2>1, <2>2, <2>3 DEF TypeOK
<1>17. ASSUME NEW c \in Cameras,
             PreGate(c)
      PROVE  TypeOK'
  <2>1. FrameOK'
    <3>1. visits' \in 0 .. MaxVisits /\ update' \in Stages
      BY <1>17, <1>t, ConstantsAssumption DEF PreGate, FrameOK, Stages
    <3>2. chan[c] \in ChannelValues
      BY <1>t DEF ChannelsOK
    <3>3. gate' \in Gates
      <4>1. \/ gate' = gate
            \/ gate' = [gate EXCEPT !.hits = @ + 1]
            \/ gate' = [gate EXCEPT !.hits = 1, !.camera = c, !.snap = chan[c]]
        BY <1>17 DEF PreGate
      <4>2. gate \in Gates
        BY <1>t DEF FrameOK
      <4>3. gate.hits + 1 \in Nat /\ 1 \in Nat
        BY <4>2 DEF Gates
      <4> QED
        BY <4>1, <4>2, <4>3, <3>2, Zenon DEF Gates
    <3>4. inj' \in Injections
      BY <1>17, <1>t DEF PreGate, FrameOK
    <3> QED
      BY <3>1, <3>3, <3>4 DEF FrameOK
  <2>2. SwitchesOK' /\ BufferOK' /\ ThreadsOK' /\ ChannelsOK'
    BY <1>17, <1>t DEF PreGate, SwitchesOK, BufferOK, ThreadsOK, ChannelsOK,
       shared, buffer, frame, threads
  <2> QED
    BY <2>1, <2>2 DEF TypeOK
<1>18. ASSUME NEW c \in Cameras,
             PreYaw(c)
      PROVE  TypeOK'
  <2>1. FrameOK'
    <3>1. visits' \in 0 .. MaxVisits /\ update' \in Stages
      BY <1>18, <1>t, ConstantsAssumption DEF PreYaw, FrameOK, Stages
    <3>2. gate' \in Gates
      BY <1>18, <1>t DEF PreYaw, FrameOK, Gates
    <3>3. chan[c].travel \in Int
      BY <1>t, ChannelShapes DEF ChannelsOK
    <3>4. inj' \in Injections
      <4>1. PICK tt \in Int, b \in BOOLEAN :
              inj' = [inj EXCEPT !.turned = @ + tt, !.conditional = b]
        <5>1. /\ inj.conditional \in BOOLEAN
              /\ Verified(c) \in BOOLEAN
          BY <1>t DEF FrameOK, Injections, Verified
        <5> QED
          BY <1>18, <3>3, <5>1 DEF PreYaw, Consume
      <4> QED
        <5>1. [inj EXCEPT !.turned = @ + tt] \in Injections
          BY <1>t DEF FrameOK, Injections
        <5>2. inj' = [[inj EXCEPT !.turned = @ + tt] EXCEPT !.conditional = b]
          BY <4>1, <1>t DEF FrameOK, Injections
        <5> QED
          BY <5>1, <5>2 DEF Injections
    <3> QED
      BY <3>1, <3>2, <3>4 DEF FrameOK
  <2>2. BufferOK'
    BY <1>18, <1>t, ChannelShapes DEF PreYaw, Consume, ChannelsOK, BufferOK
  <2>3. SwitchesOK' /\ ThreadsOK' /\ ChannelsOK'
    BY <1>18, <1>t DEF PreYaw, SwitchesOK, ThreadsOK, ChannelsOK, shared,
       buffer, frame, threads
  <2> QED
    BY <2>1, <2>2, <2>3 DEF TypeOK
<1>19. ASSUME NEW c \in Cameras,
             AfterZoom(c)
      PROVE  TypeOK'
  <2>1. FrameOK'
    <3>1. visits' \in 0 .. MaxVisits /\ update' \in Stages
      BY <1>19, <1>t, ConstantsAssumption DEF AfterZoom, FrameOK, Stages
    <3>2. gate' \in Gates
      BY <1>19, <1>t DEF AfterZoom, FrameOK, Gates
    <3>3. inj' \in Injections
      BY <1>19, <1>t DEF AfterZoom, FrameOK
    <3> QED
      BY <3>1, <3>2, <3>3 DEF FrameOK
  <2>2. SwitchesOK' /\ BufferOK' /\ ThreadsOK' /\ ChannelsOK'
    BY <1>19, <1>t DEF AfterZoom, SwitchesOK, BufferOK, ThreadsOK, ChannelsOK,
       shared, buffer, frame, threads
  <2> QED
    BY <2>1, <2>2 DEF TypeOK
<1>20. ASSUME Take
      PROVE  TypeOK'
  <2>1. FrameOK'
    BY <1>20, <1>t DEF Take, FrameOK, Stages
  <2>2. BufferOK'
    BY <1>20, <1>t DEF Take, ForgetAll, BufferOK
  <2>3. SwitchesOK'
    <3>1. InFlight \in BOOLEAN
      BY DEF InFlight
    <3> QED
      BY <1>20, <1>t, <3>1 DEF Take, ForgetAll, SwitchesOK, shared
  <2>4. ThreadsOK' /\ ChannelsOK'
    BY <1>20, <1>t DEF Take, ThreadsOK, ChannelsOK, threads
  <2> QED
    BY <2>1, <2>2, <2>3, <2>4 DEF TypeOK
<1>21. ASSUME Decide
      PROVE  TypeOK'
  <2>1. FrameOK'
    BY <1>21, <1>t, SpendsBounded, ChannelShapes, FrameShapes DEF Decide,
       Inject, KeepTravel, DropToNative, FrameOK, Gates, Injections, Stages
  <2>2. BufferOK'
    <3>1. UNCHANGED <<wheel, pending, owed, credit>> \/ ForgetAll
      BY <1>21 DEF Decide, Inject, KeepTravel, DropToNative
    <3> QED
      BY <1>t, <3>1 DEF ForgetAll, BufferOK
  <2>3. ChannelsOK'
    <3>1. CASE UNCHANGED chan
      BY <1>21, <1>t, <3>1 DEF Decide, ChannelsOK
    <3>2. ASSUME NEW s \in Spends, Inject(s)
          PROVE  ChannelsOK'
      <4>1. Injected(s) \in ChannelValues
        BY SpendsBounded, ChannelShapes
      <4> QED
        BY <1>21, <1>t, <3>2, <4>1 DEF Decide, Inject, ChannelsOK
    <3> QED
      BY <1>21, <3>1, <3>2 DEF Decide, KeepTravel, DropToNative
  <2>4. SwitchesOK'
    <3>1. UNCHANGED <<recent, raced, overdrawn>> \/ (recent' = FALSE /\ ForgetAll)
      BY <1>21 DEF Decide, Inject, KeepTravel, DropToNative
    <3>2. InFlight \in BOOLEAN
      BY DEF InFlight
    <3> QED
      BY <1>21, <1>t, <3>1, <3>2 DEF Decide, ForgetAll, SwitchesOK, shared
  <2>5. ThreadsOK'
    BY <1>21, <1>t DEF Decide, ThreadsOK, threads
  <2> QED
    BY <2>1, <2>2, <2>3, <2>4, <2>5 DEF TypeOK
<1>22. ASSUME Commit
      PROVE  TypeOK'
  <2>1. FrameOK'
    BY <1>22, <1>t DEF Commit, FrameOK, Injections, Stages
  <2>2. BufferOK'
    BY <1>22, <1>t DEF Commit, FrameOK, Injections, BufferOK
  <2>3. SwitchesOK' /\ ThreadsOK' /\ ChannelsOK'
    BY <1>22, <1>t DEF Commit, SwitchesOK, ThreadsOK, ChannelsOK, shared,
       buffer, frame, threads
  <2> QED
    BY <2>1, <2>2, <2>3 DEF TypeOK
<1>23. ASSUME NextSite
      PROVE  TypeOK'
  <2>1. FrameOK'
    <3>1. visits' = 0 /\ UNCHANGED <<gate, inj>>
      BY <1>23 DEF NextSite, frame
    <3>2. update' \in {"turn", "zoom", "end"}
      BY <1>23 DEF NextSite
    <3> QED
      BY <1>t, <3>1, <3>2, ConstantsAssumption DEF FrameOK, Stages
  <2>2. SwitchesOK' /\ BufferOK' /\ ThreadsOK' /\ ChannelsOK'
    BY <1>23, <1>t DEF NextSite, SwitchesOK, BufferOK, ThreadsOK, ChannelsOK,
       shared, buffer, frame, threads
  <2> QED
    BY <2>1, <2>2 DEF TypeOK
<1>24. ASSUME Leave
      PROVE  TypeOK'
  <2>1. FrameOK'
    BY <1>24, <1>t, FrameShapes DEF Leave, FrameOK, Stages
  <2>2. BufferOK'
    BY <1>24, <1>t DEF Leave, BufferOK
  <2>3. ChannelsOK'
    BY <1>24, <1>t DEF Leave, FrameOK, Injections, ChannelsOK
  <2>4. SwitchesOK'
    BY <1>24, <1>t DEF Leave, SwitchesOK, shared
  <2>5. ThreadsOK'
    BY <1>24, <1>t DEF Leave, ThreadsOK, threads
  <2> QED
    BY <2>1, <2>2, <2>3, <2>4, <2>5 DEF TypeOK
<1>25. ASSUME ResetOutsideRpg
      PROVE  TypeOK'
  <2>1. BufferOK'
    BY <1>25, <1>t DEF ResetOutsideRpg, ForgetAll, BufferOK
  <2>2. SwitchesOK'
    BY <1>25, <1>t DEF ResetOutsideRpg, ForgetAll, SwitchesOK, shared, frame,
       InFlight, Injections, FrameOK
  <2>3. ThreadsOK' /\ FrameOK' /\ ChannelsOK'
    BY <1>25, <1>t DEF ResetOutsideRpg, ThreadsOK, FrameOK, ChannelsOK,
       threads, frame
  <2> QED
    BY <2>1, <2>2, <2>3 DEF TypeOK
<1>26. ASSUME NEW c \in Cameras, NEW v \in NativeValues,
             NativeWrite(c, v)
      PROVE  TypeOK'
  <2>1. ChannelsOK'
    BY <1>26, <1>t, ChannelShapes DEF NativeWrite, ChannelsOK
  <2>2. SwitchesOK' /\ BufferOK' /\ ThreadsOK' /\ FrameOK'
    BY <1>26, <1>t DEF NativeWrite, SwitchesOK, BufferOK, ThreadsOK, FrameOK,
       shared, buffer, frame, threads
  <2> QED
    BY <2>1, <2>2 DEF TypeOK
<1>27. CASE UNCHANGED vars
  BY <1>27 DEF TypeOK, SwitchesOK, BufferOK, ThreadsOK, FrameOK, ChannelsOK,
               vars, shared, buffer, threads, frame
<1> QED
  BY <1>1, <1>2, <1>3, <1>4, <1>5, <1>6, <1>7, <1>8, <1>9, <1>10, <1>11,
     <1>12, <1>13, <1>14, <1>15, <1>16, <1>17, <1>18, <1>19, <1>20, <1>21,
     <1>22, <1>23, <1>24, <1>25, <1>26, <1>27
     DEF Next, ThreadStep, Feeding, Discarding, CameraStep

(* The initial state has the types.                                        *)
LEMMA TypeInit == Init => TypeOK
<1> SUFFICES ASSUME Init PROVE TypeOK
  OBVIOUS
<1>1. 0 \in Travel
  BY FiniteIsTravel
<1>2. SwitchesOK
  BY DEF Init, SwitchesOK
<1>3. BufferOK
  BY <1>1 DEF Init, BufferOK
<1>4. ThreadsOK
  BY <1>1 DEF Init, ThreadsOK, Labels
<1>5. FrameOK
  BY FrameShapes, ConstantsAssumption DEF Init, FrameOK, Stages
<1>6. ChannelsOK
  BY ChannelShapes DEF Init, ChannelsOK
<1> QED
  BY <1>2, <1>3, <1>4, <1>5, <1>6 DEF TypeOK

(* Every reachable state is well typed; in particular neither accumulator  *)
(* ever holds a value the mod would call not finite.                       *)
THEOREM TypeCorrect == Spec => []TypeOK
  BY TypeInit, TypeStep, PTL DEF Spec

-----------------------------------------------------------------------------
(* The ledger.  Only nine actions touch it.                                *)
LEMMA LedgerStep == TypeOK /\ LedgerBalance /\ [Next]_vars => LedgerBalance'
<1> SUFFICES ASSUME TypeOK, LedgerBalance, [Next]_vars
             PROVE  LedgerBalance'
  OBVIOUS
<1>t. /\ wheel \in Int /\ pending \in Int /\ owed \in Int /\ credit \in Int
      /\ inj.spend \in Int
      /\ \A u \in Threads : sample[u] \in Int /\ seen[u] \in Int
      /\ \A d \in Cameras : chan[d].travel \in Int
  BY FiniteIsTravel, ChannelShapes
     DEF TypeOK, BufferOK, FrameOK, Injections, ThreadsOK, ChannelsOK
<1>1. ASSUME NEW t \in Threads, Accumulate(t)
      PROVE  LedgerBalance'
  <2>1. \/ ForgetWheel
        \/ wheel' = wheel + sample[t] /\ owed' = owed + sample[t]
           /\ UNCHANGED <<pending, credit>>
        \/ UNCHANGED <<wheel, pending, owed, credit>>
    BY <1>1 DEF Accumulate
  <2> QED
    BY <2>1, <1>t DEF ForgetWheel, LedgerBalance
<1>2. ASSUME NEW t \in Threads, DropWheel(t)
      PROVE  LedgerBalance'
  <2>1. ForgetWheel
    BY <1>2 DEF DropWheel
  <2> QED
    BY <2>1, <1>t DEF ForgetWheel, LedgerBalance
<1>3. ASSUME NEW t \in Threads, DropPending(t)
      PROVE  LedgerBalance'
  BY <1>3, <1>t DEF DropPending, ForgetPending, LedgerBalance
<1>4. ASSUME NEW c \in Cameras, PreYaw(c)
      PROVE  LedgerBalance'
  BY <1>4, <1>t DEF PreYaw, Consume, LedgerBalance
<1>5. CASE Take
  BY <1>5, <1>t DEF Take, ForgetAll, LedgerBalance
<1>6. CASE Decide
  <2>1. UNCHANGED <<wheel, pending, owed, credit>> \/ ForgetAll
    BY <1>6 DEF Decide, KeepTravel, DropToNative, Inject
  <2> QED
    BY <2>1, <1>t DEF ForgetAll, LedgerBalance
<1>7. CASE Commit
  BY <1>7, <1>t DEF Commit, LedgerBalance
<1>8. CASE Leave
  BY <1>8, <1>t DEF Leave, LedgerBalance
<1>9. CASE ResetOutsideRpg
  BY <1>9, <1>t DEF ResetOutsideRpg, ForgetAll, LedgerBalance
<1>10. ASSUME UNCHANGED <<wheel, pending, owed, credit>>
       PROVE  LedgerBalance'
  BY <1>10 DEF LedgerBalance
<1>11. ASSUME NEW t \in Threads,
              (\E a \in Samples : StartSample(t, a)) \/ Stamp(t) \/ DropTime(t)
       PROVE  LedgerBalance'
  BY <1>10, <1>11 DEF StartSample, Stamp, DropTime, buffer
<1>12. CASE \/ BeginGesture \/ EndGesture \/ PublishEnd \/ MonitorInstalled
            \/ ToggleMode \/ RemoveHooks \/ AwaitUpdate \/ GoQuiet
  BY <1>10, <1>12 DEF BeginGesture, EndGesture, PublishEnd, MonitorInstalled,
     ToggleMode, RemoveHooks, AwaitUpdate, GoQuiet, buffer
<1>13. CASE Enter \/ NextSite \/ \E usable \in BOOLEAN : Acquire(usable)
  BY <1>10, <1>13 DEF Enter, NextSite, Acquire, buffer
<1>14. ASSUME NEW c \in Cameras,
              \/ PreGate(c) \/ AfterZoom(c)
              \/ \E v \in NativeValues : NativeWrite(c, v)
       PROVE  LedgerBalance'
  BY <1>10, <1>14 DEF PreGate, AfterZoom, NativeWrite, buffer
<1>15. CASE UNCHANGED vars
  BY <1>10, <1>15 DEF vars, buffer
<1> QED
  BY <1>1, <1>2, <1>3, <1>4, <1>5, <1>6, <1>7, <1>8, <1>9, <1>11, <1>12,
     <1>13, <1>14, <1>15
     DEF Next, ThreadStep, Feeding, Discarding, CameraStep

(* However feeders, drain and discards interleave, for every accumulator   *)
(* range, the banked travel is what is owed plus what was turned but not   *)
(* yet debited.                                                            *)
THEOREM LedgerCorrect == Spec => []LedgerBalance
<1>1. Init => LedgerBalance
  BY DEF Init, LedgerBalance
<1> QED
  BY <1>1, LedgerStep, TypeCorrect, PTL DEF Spec

-----------------------------------------------------------------------------
(* What the other threads do leaves the update's own state alone.          *)
LEMMA ThreadStepFrame ==
  ASSUME TypeOK, ThreadStep
  PROVE  /\ UNCHANGED <<update, visits, frameUsable, gate, inj, chan, native>>
         /\ hooksEnabled' => hooksEnabled
<1>1. ASSUME NEW t \in Threads, Feeding(t) \/ Discarding(t)
      PROVE  UNCHANGED <<frame, chan, native>> /\ hooksEnabled' = hooksEnabled
  BY <1>1 DEF Feeding, Discarding, StartSample, Accumulate, Stamp, DropWheel,
     DropTime, DropPending, shared
<1>2. CASE \/ BeginGesture \/ EndGesture \/ PublishEnd \/ MonitorInstalled
           \/ ToggleMode \/ RemoveHooks \/ AwaitUpdate
           \/ GoQuiet \/ ResetOutsideRpg
  BY <1>2 DEF BeginGesture, EndGesture, PublishEnd, MonitorInstalled,
     ToggleMode, RemoveHooks, AwaitUpdate, GoQuiet, ResetOutsideRpg, shared, frame
<1> QED
  BY <1>1, <1>2 DEF ThreadStep, frame

(* Every action keeps the borrowed channels accounted for.                 *)
LEMMA ChannelStep == TypeOK /\ ChannelInv /\ [Next]_vars => ChannelInv'
<1> SUFFICES ASSUME TypeOK, ChannelInv, [Next]_vars PROVE ChannelInv'
  OBVIOUS
<1>t. /\ chan \in [Cameras -> ChannelValues]
      /\ inj \in Injections /\ gate \in Gates
      /\ gate.hits \in Nat /\ gate.hits + 1 > 0
  BY DEF TypeOK, ChannelsOK, FrameOK, Gates
<1>1. ASSUME UNCHANGED <<update, gate, inj, chan>>
      PROVE  ChannelInv'
  BY <1>1 DEF ChannelInv
<1>2. CASE ThreadStep
  BY <1>1, <1>2, ThreadStepFrame
<1>3. CASE Enter
  BY <1>3, <1>t DEF Enter, ChannelInv
<1>4. ASSUME NEW usable \in BOOLEAN, Acquire(usable)
      PROVE  ChannelInv'
  BY <1>4, <1>t DEF Acquire, NoInjection, ChannelInv
<1>5. ASSUME NEW c \in Cameras, PreGate(c)
      PROVE  ChannelInv'
  <2>1. CASE UNCHANGED <<update, gate>>
    BY <1>1, <1>5, <2>1 DEF PreGate
  <2>2. CASE UNCHANGED update /\ gate' = [gate EXCEPT !.hits = @ + 1]
    BY <1>5, <1>t, <2>2 DEF PreGate, ChannelInv, Gates
  <2>3. CASE gate.hits = 0 /\ update' = "take"
             /\ gate' = [gate EXCEPT !.hits = 1, !.camera = c, !.snap = chan[c]]
    BY <1>5, <1>t, <2>3 DEF PreGate, ChannelInv, Gates
  <2> QED
    BY <1>5, <2>1, <2>2, <2>3 DEF PreGate
<1>6. ASSUME NEW c \in Cameras, PreYaw(c)
      PROVE  ChannelInv'
  <2>1. /\ inj'.active = inj.active /\ inj'.camera = inj.camera
        /\ inj'.prev = inj.prev /\ gate'.hits = gate.hits
        /\ UNCHANGED <<update, chan>> /\ update = "turn"
    BY <1>6, <1>t DEF PreYaw, Consume, Injections, Gates
  <2> QED
    BY <2>1 DEF ChannelInv
<1>7. ASSUME NEW c \in Cameras, AfterZoom(c)
      PROVE  ChannelInv'
  <2>1. /\ update = "zoom" /\ update' \in {"zoom", "commit"}
        /\ gate'.hits = gate.hits /\ UNCHANGED <<inj, chan>>
    BY <1>7, <1>t DEF AfterZoom, Gates
  <2> QED
    BY <2>1 DEF ChannelInv
<1>8. CASE Take
  BY <1>8 DEF Take, ChannelInv
<1>9. CASE Decide
  <2>1. CASE UNCHANGED <<inj, chan>>
    BY <1>9, <2>1 DEF Decide, ChannelInv
  <2>2. ASSUME NEW s \in Spends, Inject(s)
        PROVE  ChannelInv'
    BY <1>9, <1>t, <2>2 DEF Decide, Inject, NoInjection, ChannelInv
  <2> QED
    BY <1>9, <2>1, <2>2 DEF Decide, KeepTravel, DropToNative
<1>10. CASE Commit
  <2>1. /\ inj'.active = inj.active /\ inj'.camera = inj.camera
        /\ inj'.prev = inj.prev /\ UNCHANGED <<gate, chan>>
        /\ update = "commit" /\ update' = "zoom"
    BY <1>10, <1>t DEF Commit, Injections
  <2> QED
    BY <2>1 DEF ChannelInv
<1>11. CASE NextSite
  BY <1>11 DEF NextSite, ChannelInv
<1>12. CASE Leave
  <2>1. ~inj'.active
    BY <1>12 DEF Leave, NoInjection
  <2>2. \A c \in Cameras : chan'[c].by # "mod"
    BY <1>12, <1>t DEF Leave, ChannelInv
  <2> QED
    BY <1>12, <2>1, <2>2 DEF Leave, ChannelInv
<1>13. ASSUME NEW c \in Cameras, NEW v \in NativeValues, NativeWrite(c, v)
       PROVE  ChannelInv'
  BY <1>13, <1>t, ChannelShapes DEF NativeWrite, frame, ChannelInv
<1>14. CASE UNCHANGED vars
  BY <1>1, <1>14 DEF vars, frame
<1> QED
  BY <1>2, <1>3, <1>4, <1>5, <1>6, <1>7, <1>8, <1>9, <1>10, <1>11, <1>12,
     <1>13, <1>14 DEF Next, CameraStep

(* With one visit per update, the native value stays with its owner.       *)
LEMMA NativeStep ==
  TypeOK /\ ChannelInv /\ NativeInv /\ [Next]_vars => NativeInv'
<1> SUFFICES ASSUME TypeOK, ChannelInv, NativeInv, [Next]_vars, MaxVisits = 1
             PROVE  NativeInv'
  BY DEF NativeInv
<1>t. /\ chan \in [Cameras -> ChannelValues]
      /\ native \in [Cameras -> NativeValues]
      /\ inj \in Injections /\ gate \in Gates
  BY DEF TypeOK, ChannelsOK, FrameOK
<1>n. /\ \A c \in Cameras : chan[c] = native[c] \/ (inj.active /\ inj.camera = c)
      /\ inj.active => inj.prev = native[inj.camera]
      /\ update \in {"take", "decide"} => gate.snap = native[gate.camera]
  BY DEF NativeInv
<1>1. ASSUME UNCHANGED <<inj, chan, native>>,
             \/ update' \notin {"take", "decide"}
             \/ update \in {"take", "decide"} /\ UNCHANGED gate
      PROVE  NativeInv'
  BY <1>1, <1>n DEF NativeInv
<1>2. CASE ThreadStep
  BY <1>2, <1>n, ThreadStepFrame DEF NativeInv
<1>3. CASE Enter \/ NextSite
  BY <1>1, <1>3 DEF Enter, NextSite
<1>4. ASSUME NEW usable \in BOOLEAN, Acquire(usable)
      PROVE  NativeInv'
  BY <1>4, <1>n DEF Acquire, NoInjection, ChannelInv, NativeInv
<1>5. ASSUME NEW c \in Cameras, PreGate(c)
      PROVE  NativeInv'
  <2>1. CASE update' = "gate"
    BY <1>1, <1>5, <2>1 DEF PreGate
  <2>2. CASE gate.hits = 0 /\ update' = "take"
             /\ gate' = [gate EXCEPT !.hits = 1, !.camera = c, !.snap = chan[c]]
    <3>1. ~inj.active
      BY <1>t, <2>2 DEF ChannelInv
    <3>2. gate'.snap = native[gate'.camera]
      BY <1>t, <1>n, <2>2, <3>1 DEF Gates
    <3> QED
      BY <1>5, <1>n, <3>1, <3>2 DEF PreGate, NativeInv
  <2> QED
    BY <1>5, <2>1, <2>2 DEF PreGate
<1>6. ASSUME NEW c \in Cameras, PreYaw(c)
      PROVE  NativeInv'
  <2>1. /\ inj'.active = inj.active /\ inj'.camera = inj.camera
        /\ inj'.prev = inj.prev
        /\ UNCHANGED <<update, chan, native>> /\ update = "turn"
    BY <1>6, <1>t DEF PreYaw, Consume, Injections
  <2> QED
    BY <2>1, <1>n DEF NativeInv
<1>7. ASSUME NEW c \in Cameras, AfterZoom(c)
      PROVE  NativeInv'
  BY <1>1, <1>7 DEF AfterZoom
<1>8. CASE Take
  BY <1>1, <1>8 DEF Take
<1>9. CASE Decide
  <2>1. CASE UNCHANGED <<inj, chan>>
    BY <1>1, <1>9, <2>1 DEF Decide
  <2>2. ASSUME NEW s \in Spends, Inject(s)
        PROVE  NativeInv'
    <3>1. /\ update = "decide" /\ update' = "gate" /\ UNCHANGED native
          /\ ~inj.active
      BY <1>9, <2>2 DEF Decide, ChannelInv
    <3>2. /\ inj'.active /\ inj'.camera = gate.camera /\ inj'.prev = gate.snap
      BY <2>2 DEF Inject, NoInjection
    <3>3. \A c \in Cameras : c # gate.camera => chan'[c] = chan[c]
      BY <1>t, <2>2 DEF Inject
    <3> QED
      BY <1>n, <3>1, <3>2, <3>3 DEF NativeInv
  <2> QED
    BY <1>9, <2>1, <2>2 DEF Decide, KeepTravel, DropToNative
<1>10. CASE Commit
  <2>1. /\ inj'.active = inj.active /\ inj'.camera = inj.camera
        /\ inj'.prev = inj.prev
        /\ UNCHANGED <<chan, native>> /\ update' = "zoom"
    BY <1>10, <1>t DEF Commit, Injections
  <2> QED
    BY <2>1, <1>n DEF NativeInv
<1>11. CASE Leave
  <2>1. /\ ~inj'.active /\ update' = "idle" /\ UNCHANGED native
    BY <1>11 DEF Leave, NoInjection
  <2>2. \A c \in Cameras : chan'[c] = native[c]
    BY <1>11, <1>t, <1>n DEF Leave
  <2> QED
    BY <2>1, <2>2 DEF NativeInv
<1>12. ASSUME NEW c \in Cameras, NEW v \in NativeValues, NativeWrite(c, v)
       PROVE  NativeInv'
  <2>1. update \in {"idle", "entered"} /\ ~inj.active
    BY <1>12 DEF NativeWrite, ChannelInv
  <2>2. UNCHANGED <<update, inj>>
    BY <1>12 DEF NativeWrite, frame
  <2>3. \A d \in Cameras : chan'[d] = native'[d]
    BY <1>12, <1>t, <1>n, <2>1 DEF NativeWrite
  <2> QED
    BY <2>1, <2>2, <2>3 DEF NativeInv
<1>13. CASE UNCHANGED vars
  BY <1>n, <1>13 DEF vars, frame, NativeInv
<1> QED
  BY <1>2, <1>3, <1>4, <1>5, <1>6, <1>7, <1>8, <1>9, <1>10, <1>11, <1>12,
     <1>13 DEF Next, CameraStep

(* Whatever the routing, no rate of the mod's outlives the update that     *)
(* injected it, and a channel the game left alone holds the game's value.  *)
THEOREM ChannelCorrect == Spec => []ChannelReturned
<1>1. Init => ChannelInv /\ NativeInv
  <2> SUFFICES ASSUME Init PROVE ChannelInv /\ NativeInv
    OBVIOUS
  <2>1. \A c \in Cameras : chan[c] = native[c] /\ chan[c].by # "mod"
    BY ChannelShapes DEF Init
  <2> QED
    BY <2>1 DEF Init, NoInjection, ChannelInv, NativeInv
<1>2. ChannelInv /\ NativeInv => ChannelReturned
  BY DEF ChannelInv, NativeInv, ChannelReturned
<1> QED
  BY <1>1, <1>2, ChannelStep, NativeStep, TypeCorrect, PTL DEF Spec

-----------------------------------------------------------------------------
(* Every action keeps the verification paired with its injection.          *)
LEMMA VerifyStep == TypeOK /\ VerifyInv /\ [Next]_vars => VerifyInv'
<1> SUFFICES ASSUME TypeOK, VerifyInv, [Next]_vars PROVE VerifyInv'
  OBVIOUS
<1>t. /\ chan \in [Cameras -> ChannelValues]
      /\ inj \in Injections /\ gate \in Gates
  BY DEF TypeOK, ChannelsOK, FrameOK
<1>1. ASSUME UNCHANGED <<gate, inj>>, hooksEnabled' => hooksEnabled,
             update' \in BeforeTurn => update \in BeforeTurn,
             update' = "commit" => update = "commit"
      PROVE  VerifyInv'
  BY <1>1 DEF VerifyInv
<1>2. CASE ThreadStep
  BY <1>1, <1>2, ThreadStepFrame
<1>3. CASE Enter \/ NextSite \/ Take
  BY <1>1, <1>3 DEF Enter, NextSite, Take, shared, BeforeTurn
<1>4. CASE Leave \/ \E usable \in BOOLEAN : Acquire(usable)
  BY <1>4 DEF Leave, Acquire, NoInjection, NoGate, VerifyInv
<1>5. ASSUME NEW c \in Cameras, PreGate(c)
      PROVE  VerifyInv'
  <2>1. /\ update = "gate" /\ update' \in {"gate", "take"}
        /\ UNCHANGED <<inj, hooksEnabled>>
        /\ gate'.preYawHits = gate.preYawHits
    BY <1>5, <1>t DEF PreGate, shared, Gates
  <2> QED
    BY <2>1 DEF VerifyInv, BeforeTurn
<1>6. ASSUME NEW c \in Cameras, PreYaw(c)
      PROVE  VerifyInv'
  <2>0. update = "turn" /\ UNCHANGED <<update, hooksEnabled>>
    BY <1>6 DEF PreYaw, shared
  <2>1. CASE ~hooksEnabled
    <3>1. /\ inj'.conditional = inj.conditional /\ inj'.active = inj.active
          /\ ~hooksEnabled'
      BY <1>6, <1>t, <2>1 DEF PreYaw, Consume, Injections, shared
    <3> QED
      BY <2>0, <3>1 DEF VerifyInv, BeforeTurn
  <2>2. CASE hooksEnabled
    <3>1. gate.preYawHits \in Nat /\ gate'.preYawHits = gate.preYawHits + 1
      BY <1>6, <1>t, <2>2 DEF PreYaw, Gates
    <3>2. inj'.active = inj.active /\ inj'.spend = inj.spend
      BY <1>6, <1>t DEF PreYaw, Consume, Injections
    <3>3. CASE ~inj.active
      <4>1. ~inj'.conditional
        BY <1>6, <1>t, <3>3 DEF PreYaw, Consume, Injections, VerifyInv
      <4> QED
        BY <2>0, <3>1, <3>2, <4>1 DEF VerifyInv, BeforeTurn
    <3>4. CASE inj.active
      <4>1. inj'.conditional =>
              gate.preYawHits = 0 /\ chan[c] = Injected(inj.spend)
        BY <1>6, <1>t, <2>2, <3>4 DEF PreYaw, Consume, Injections, Verified
      <4>2. inj.spend \in Int
        BY <1>t, FiniteIsTravel DEF Injections
      <4>3. chan[c] = Injected(inj.spend) => inj'.turned = inj.turned + inj.spend
        BY <1>6, <1>t DEF PreYaw, Consume, Injections, Injected
      <4>4. inj'.conditional => inj'.turned = inj'.spend
        BY <2>2, <3>2, <4>1, <4>2, <4>3 DEF VerifyInv
      <4> QED
        BY <2>0, <3>1, <3>2, <3>4, <4>4 DEF VerifyInv, BeforeTurn
    <3> QED
      BY <3>3, <3>4
  <2> QED
    BY <2>1, <2>2
<1>7. ASSUME NEW c \in Cameras, AfterZoom(c)
      PROVE  VerifyInv'
  <2>1. /\ update = "zoom" /\ UNCHANGED <<inj, hooksEnabled>>
        /\ gate'.preYawHits = gate.preYawHits
        /\ \/ update' = "zoom"
           \/ update' = "commit" /\ hooksEnabled /\ inj.active /\ inj.conditional
    BY <1>7, <1>t DEF AfterZoom, Gates, shared
  <2> QED
    BY <2>1 DEF VerifyInv, BeforeTurn
<1>8. CASE Decide
  <2>1. CASE UNCHANGED inj
    BY <1>1, <1>8, <2>1 DEF Decide, shared, BeforeTurn
  <2>2. ASSUME NEW s \in Spends, Inject(s)
        PROVE  VerifyInv'
    BY <1>8, <2>2 DEF Decide, Inject, NoInjection, VerifyInv, BeforeTurn
  <2> QED
    BY <1>8, <2>1, <2>2 DEF Decide, KeepTravel, DropToNative
<1>9. CASE Commit
  <2>1. /\ inj'.active = inj.active /\ inj'.conditional = inj.conditional
        /\ inj'.turned = inj.turned /\ inj'.spend = inj.spend
        /\ update' = "zoom" /\ UNCHANGED <<gate, hooksEnabled>>
    BY <1>9, <1>t DEF Commit, Injections, shared
  <2> QED
    BY <2>1 DEF VerifyInv, BeforeTurn
<1>10. ASSUME NEW c \in Cameras, NEW v \in NativeValues, NativeWrite(c, v)
       PROVE  VerifyInv'
  BY <1>1, <1>10 DEF NativeWrite, frame, shared
<1>11. CASE UNCHANGED vars
  BY <1>1, <1>11 DEF vars, frame, shared
<1> QED
  BY <1>2, <1>3, <1>4, <1>5, <1>6, <1>7, <1>8, <1>9, <1>10, <1>11
     DEF Next, CameraStep

(* Initially nothing awaits verification.                                  *)
LEMMA VerifyInit == Init => VerifyInv
  BY DEF Init, VerifyInv, NoInjection, NoGate

(* A debit is only ever made for a rotation the game performed, once and   *)
(* for that amount, whatever the detour sites see and in whatever order.   *)
THEOREM DebitCorrect == Spec => DebitOnlyWhatTurned
<1>1. VerifyInv => (update = "commit" /\ update' = "zoom" => inj.turned = inj.spend)
  BY DEF VerifyInv
<1>2. VerifyInv /\ [Next]_vars
        => [update = "commit" /\ update' = "zoom" => inj.turned = inj.spend]_vars
  BY <1>1
<1> QED
  BY <1>2, VerifyInit, VerifyStep, TypeCorrect, PTL
     DEF Spec, DebitOnlyWhatTurned

-----------------------------------------------------------------------------
(* A discard leaves nothing to debit, and is remembered while it matters.  *)
LEMMA DiscardCredit ==
  ASSUME TypeOK, CreditInv, UNCHANGED <<inj, gate>>,
         inj.committed => update' = update,
         update' = "commit" => update = "commit",
         credit' = 0, raced' = InFlight
  PROVE  CreditInv'
<1>1. inj.turned \in Int /\ inj.spend \in Int
  BY FiniteIsTravel DEF TypeOK, FrameOK, Injections
<1>2. ~raced' => inj.turned - (IF inj.committed THEN inj.spend ELSE 0) = 0
  <2>1. ~raced' => ~inj.active \/ inj.committed
    BY DEF InFlight
  <2> QED
    BY <1>1, <2>1 DEF CreditInv
<1>3. raced' => inj.active
  BY DEF InFlight
<1> QED
  BY <1>2, <1>3 DEF CreditInv

(* Every action keeps the debit owed to the rotation performed.            *)
LEMMA CreditStep ==
  TypeOK /\ ChannelInv /\ VerifyInv /\ CreditInv /\ [Next]_vars => CreditInv'
<1> SUFFICES ASSUME TypeOK, ChannelInv, VerifyInv, CreditInv, [Next]_vars
             PROVE  CreditInv'
  OBVIOUS
<1>t. /\ inj \in Injections /\ inj.turned \in Int /\ inj.spend \in Int
      /\ credit \in Int /\ chan \in [Cameras -> ChannelValues]
      /\ gate \in Gates
  BY FiniteIsTravel DEF TypeOK, FrameOK, Injections, BufferOK, ChannelsOK
<1>1. ASSUME UNCHANGED <<credit, raced, inj>>,
             inj.committed => update' \in {"zoom", "end"} /\ gate'.afterZoom,
             update' = "commit" => gate'.afterZoom
      PROVE  CreditInv'
  BY <1>1 DEF CreditInv
<1>2. ASSUME NEW t \in Threads, DropPending(t)
      PROVE  CreditInv'
  BY <1>2, DiscardCredit DEF DropPending, ForgetPending, frame
<1>3. CASE ResetOutsideRpg
  BY <1>3, DiscardCredit DEF ResetOutsideRpg, ForgetAll, frame
<1>4. ASSUME NEW t \in Threads,
             \/ Feeding(t) \/ DropWheel(t) \/ DropTime(t)
      PROVE  CreditInv'
  <2>1. UNCHANGED <<credit, raced, inj, update, gate>>
    BY <1>4 DEF Feeding, StartSample, Accumulate, Stamp, DropWheel, DropTime,
       ForgetWheel, buffer, frame
  <2> QED
    BY <1>1, <2>1 DEF CreditInv
<1>5. CASE \/ BeginGesture \/ EndGesture \/ PublishEnd \/ MonitorInstalled
           \/ ToggleMode \/ RemoveHooks \/ AwaitUpdate \/ GoQuiet
  <2>1. UNCHANGED <<credit, raced, inj, update, gate>>
    BY <1>5 DEF BeginGesture, EndGesture, PublishEnd, MonitorInstalled,
       ToggleMode, RemoveHooks, AwaitUpdate, GoQuiet, buffer, frame
  <2> QED
    BY <1>1, <2>1 DEF CreditInv
<1>6. CASE Enter \/ NextSite
  BY <1>1, <1>6 DEF Enter, NextSite, buffer, CreditInv
<1>7. ASSUME NEW usable \in BOOLEAN, Acquire(usable)
      PROVE  CreditInv'
  BY <1>7, <1>t DEF Acquire, NoInjection, ChannelInv, CreditInv
<1>8. ASSUME NEW c \in Cameras, PreGate(c)
      PROVE  CreditInv'
  BY <1>1, <1>8 DEF PreGate, buffer, CreditInv
<1>9. ASSUME NEW c \in Cameras, PreYaw(c)
      PROVE  CreditInv'
  <2> DEFINE t == IF chan[c].sel THEN chan[c].travel ELSE 0
  <2>1. /\ inj'.active = inj.active /\ inj'.committed = inj.committed
        /\ inj'.spend = inj.spend /\ inj'.turned = inj.turned + t
        /\ credit' = credit + t
        /\ UNCHANGED <<raced, update>> /\ update = "turn"
    BY <1>9, <1>t DEF PreYaw, Consume, Injections
  <2>2. t \in Int
    BY <1>t, ChannelShapes, FiniteIsTravel
  <2>3. ~inj.active => t = 0
    <3>1. \A v \in ChannelValues : v.by # "mod" => v.travel = 0
      BY ConstantsAssumption DEF ChannelValues, Empty, Injected
    <3> QED
      BY <1>t, <3>1 DEF ChannelInv
  <2> HIDE DEF t
  <2> QED
    BY <1>t, <2>1, <2>2, <2>3 DEF CreditInv
<1>10. ASSUME NEW c \in Cameras, AfterZoom(c)
       PROVE  CreditInv'
  <2>1. UNCHANGED <<credit, raced, inj>> /\ update = "zoom"
    BY <1>10 DEF AfterZoom, buffer
  <2>2. \/ UNCHANGED <<update, gate>>
        \/ ~gate.afterZoom /\ gate'.afterZoom /\ update' \in {"zoom", "commit"}
    BY <1>10, <1>t DEF AfterZoom, Gates
  <2> QED
    BY <1>1, <2>1, <2>2 DEF CreditInv
<1>11. CASE Take
  <2>1. /\ ~inj.committed /\ UNCHANGED <<inj, gate>>
        /\ update' \in {"gate", "decide"}
    BY <1>11 DEF Take, CreditInv
  <2>2. \/ UNCHANGED <<credit, raced>>
        \/ credit' = 0 /\ raced' = InFlight
    BY <1>11 DEF Take, ForgetAll
  <2> QED
    BY <1>1, <2>1, <2>2, DiscardCredit
<1>12. CASE Decide
  <2>1. /\ update = "decide" /\ ~inj.active /\ ~raced /\ credit = 0
        /\ update' = "gate"
    BY <1>12, <1>t DEF Decide, ChannelInv, CreditInv
  <2>2. CASE UNCHANGED <<inj, credit, raced>>
    BY <1>t, <2>1, <2>2 DEF CreditInv
  <2>3. CASE DropToNative
    BY <1>t, <2>1, <2>3 DEF DropToNative, ForgetAll, CreditInv, InFlight
  <2>4. ASSUME NEW s \in Spends, Inject(s)
        PROVE  CreditInv'
    BY <2>1, <2>4 DEF Inject, NoInjection, CreditInv
  <2> QED
    BY <1>12, <2>2, <2>3, <2>4 DEF Decide, KeepTravel
<1>13. CASE Commit
  <2>1. /\ inj'.active = inj.active /\ inj'.committed
        /\ inj'.spend = inj.spend /\ inj'.turned = inj.turned
        /\ update = "commit" /\ update' = "zoom" /\ UNCHANGED <<raced, gate>>
        /\ credit' = credit - inj.spend \/ credit' = 0
    BY <1>13, <1>t DEF Commit, Injections
  <2>2. inj.active /\ inj.turned = inj.spend /\ ~inj.committed
    BY <2>1 DEF VerifyInv, CreditInv
  <2> QED
    BY <1>t, <2>1, <2>2 DEF CreditInv
<1>14. CASE Leave
  BY <1>14 DEF Leave, NoInjection, CreditInv
<1>15. ASSUME NEW c \in Cameras, NEW v \in NativeValues, NativeWrite(c, v)
       PROVE  CreditInv'
  BY <1>1, <1>15 DEF NativeWrite, frame, buffer, CreditInv
<1>16. CASE UNCHANGED vars
  BY <1>1, <1>16 DEF vars, frame, buffer, CreditInv
<1> QED
  BY <1>2, <1>3, <1>4, <1>5, <1>6, <1>7, <1>8, <1>9, <1>10, <1>11, <1>12,
     <1>13, <1>14, <1>15, <1>16
     DEF Next, ThreadStep, Discarding, CameraStep

-----------------------------------------------------------------------------
(* Once an update is disturbed it stays so until it ends: a mode change is *)
(* followed by a discard, and the discard is remembered.                   *)
LEMMA DisturbedStays ==
  ASSUME TypeOK, ThreadStep, InFlight, ~Undisturbed
  PROVE  ~Undisturbed'
<1>t. pc \in [Threads -> Labels]
  BY DEF TypeOK, ThreadsOK
<1>1. ASSUME NEW t \in Threads, DropPending(t)
      PROVE  ~Undisturbed'
  BY <1>1 DEF DropPending, ForgetPending, Undisturbed
<1>2. CASE ResetOutsideRpg
  BY <1>2 DEF ResetOutsideRpg, ForgetAll, Undisturbed
<1>3. CASE ToggleMode
  BY <1>3, <1>t DEF ToggleMode, Idle, Goto, Undisturbed, Switching
<1>4. CASE RemoveHooks
  BY <1>4 DEF RemoveHooks, Undisturbed
<1>5. ASSUME UNCHANGED <<raced, rpg, hooksEnabled>>, Switching => Switching'
      PROVE  ~Undisturbed'
  BY <1>5 DEF Undisturbed
<1>6. ASSUME NEW t \in Threads, Feeding(t) \/ DropWheel(t) \/ DropTime(t)
      PROVE  ~Undisturbed'
  <2>1. UNCHANGED <<raced, rpg, hooksEnabled>>
    BY <1>6 DEF Feeding, StartSample, Accumulate, Stamp, DropWheel, DropTime,
       ForgetWheel, buffer, shared
  <2>2. Switching => Switching'
    <3>1. t = "input" /\ Switching => Switching'
      BY <1>6, <1>t DEF Feeding, StartSample, Idle, Accumulate, Stamp,
         DropWheel, DropTime, Goto, Switching
    <3>2. t # "input" /\ Switching => pc'["input"] = pc["input"]
      BY <1>6, <1>t DEF Feeding, StartSample, Accumulate, Stamp, DropWheel,
         DropTime, Goto, Switching
    <3> QED
      BY <3>1, <3>2 DEF Switching
  <2> QED
    BY <1>5, <2>1, <2>2
<1>7. CASE EndGesture \/ PublishEnd \/ AwaitUpdate
  <2>1. UNCHANGED <<raced, rpg, hooksEnabled>>
    BY <1>7 DEF EndGesture, PublishEnd, AwaitUpdate, buffer, shared
  <2>2. "input" \in Threads => pc'["input"] = pc["input"]
    BY <1>7, <1>t DEF EndGesture, PublishEnd, AwaitUpdate, Goto
  <2> QED
    BY <1>5, <2>1, <2>2 DEF Switching
<1>8. CASE BeginGesture \/ MonitorInstalled \/ GoQuiet
  <2>1. UNCHANGED <<raced, rpg, hooksEnabled, pc>>
    BY <1>8 DEF BeginGesture, MonitorInstalled, GoQuiet, buffer, shared, threads
  <2> QED
    BY <1>5, <2>1 DEF Switching
<1> QED
  BY <1>1, <1>2, <1>3, <1>4, <1>6, <1>7, <1>8 DEF ThreadStep, Discarding

(* Every action keeps the routed travel apart from the native one.         *)
LEMMA RouteStep ==
  TypeOK /\ ChannelInv /\ VerifyInv /\ CreditInv /\ RouteInv /\ [Next]_vars
    => RouteInv'
<1> SUFFICES ASSUME TypeOK, ChannelInv, VerifyInv, CreditInv, RouteParts,
                    Routed, [Next]_vars
             PROVE  RouteParts'
  BY DEF RouteInv, Routed
<1>t. /\ chan \in [Cameras -> ChannelValues] /\ update \in Stages
      /\ inj \in Injections /\ gate \in Gates
      /\ visits \in {0, 1} /\ MaxVisits = 1
  BY DEF TypeOK, ChannelsOK, FrameOK, Routed
<1>1. ASSUME UNCHANGED <<update, visits, gate, inj, chan>>,
             hooksEnabled' => hooksEnabled,
             InFlight /\ ~Undisturbed => ~Undisturbed'
      PROVE  RouteParts'
  BY <1>1 DEF RouteParts, InFlight
<1>2. CASE ThreadStep
  BY <1>1, <1>2, ThreadStepFrame, DisturbedStays
<1>3. ASSUME UNCHANGED <<raced, rpg, hooksEnabled, pc>>
      PROVE  Undisturbed' = Undisturbed
  BY <1>3 DEF Undisturbed, Switching
<1>4. CASE Enter
  <2>1. /\ update' = "entered" /\ ~inj.active /\ UNCHANGED <<gate, inj>>
        /\ update = "idle"
    BY <1>4 DEF Enter, ChannelInv
  <2> QED
    BY <2>1 DEF RouteParts, BeforeTurn
<1>5. ASSUME NEW usable \in BOOLEAN, Acquire(usable)
      PROVE  RouteParts'
  BY <1>5, <1>t DEF Acquire, NoInjection, NoGate, RouteParts
<1>6. ASSUME NEW c \in Cameras, PreGate(c)
      PROVE  RouteParts'
  <2>1. /\ update = "gate" /\ visits = 0 /\ visits' = 1 /\ gate.hits = 0
        /\ UNCHANGED <<inj, chan>> /\ ~gate.afterZoom
    BY <1>6, <1>t DEF PreGate, RouteParts, BeforeTurn, Gates
  <2>2. \/ UNCHANGED <<update, gate>>
        \/ /\ update' = "take" /\ gate'.hits = 1
           /\ gate'.afterZoom = gate.afterZoom
    <3>1. \/ UNCHANGED <<update, gate>>
          \/ /\ update' = "take"
             /\ gate' = [gate EXCEPT !.hits = 1, !.camera = c, !.snap = chan[c]]
      BY <1>6, <2>1 DEF PreGate
    <3> QED
      BY <1>t, <3>1 DEF Gates
  <2> QED
    BY <2>1, <2>2 DEF RouteParts
<1>7. ASSUME NEW c \in Cameras, PreYaw(c)
      PROVE  RouteParts'
  <2>1. /\ update = "turn" /\ visits = 0 /\ visits' = 1
        /\ UNCHANGED <<update, chan, hooksEnabled>>
    BY <1>7, <1>t DEF PreYaw, shared
  <2>2. gate'.hits = gate.hits /\ gate'.afterZoom = gate.afterZoom
    BY <1>7, <1>t DEF PreYaw, Gates
  <2>3. /\ inj'.active = inj.active /\ inj'.camera = inj.camera
        /\ inj'.spend = inj.spend
    BY <1>7, <1>t DEF PreYaw, Consume, Injections
  <2>4. ASSUME hooksEnabled, inj.active
        PROVE  inj'.conditional
    <3>1. gate.hits = 1 /\ gate.preYawHits = 0 /\ inj.camera = c
      BY <1>t, <2>1, <2>4 DEF RouteParts, ChannelInv, Routed, Gates
    <3>2. Verified(c)
      BY <2>4, <3>1 DEF RouteParts, Verified
    <3> QED
      BY <1>7, <1>t, <2>4, <3>1, <3>2 DEF PreYaw, Consume, Injections
  <2> QED
    BY <2>1, <2>2, <2>3, <2>4 DEF RouteParts
<1>8. ASSUME NEW c \in Cameras, AfterZoom(c)
      PROVE  RouteParts'
  <2>1. /\ update = "zoom" /\ visits = 0 /\ visits' = 1
        /\ UNCHANGED <<inj, chan, hooksEnabled, rpg, raced>>
        /\ ~gate.afterZoom
    BY <1>8, <1>t DEF AfterZoom, shared, buffer, RouteParts
  <2>2. gate'.hits = gate.hits
    BY <1>8, <1>t DEF AfterZoom, Gates
  <2>3. ASSUME update' = "zoom"
        PROVE  ~(InFlight /\ Undisturbed)'
    <3>1. CASE ~hooksEnabled \/ ~rpg
      BY <2>1, <3>1 DEF Undisturbed
    <3>2. CASE hooksEnabled /\ rpg /\ inj.active
      <4>1. inj.conditional /\ inj.camera = c
        BY <2>1, <3>2 DEF RouteParts, ChannelInv, Routed
      <4>2. Verified(c)
        BY <3>2, <4>1 DEF RouteParts, Verified
      <4> QED
        BY <1>8, <2>1, <2>3, <3>2, <4>1, <4>2 DEF AfterZoom
    <3>3. CASE ~inj.active
      BY <2>1, <3>3 DEF InFlight
    <3> QED
      BY <3>1, <3>2, <3>3
  <2>4. update' \in {"zoom", "commit"}
    BY <1>8 DEF AfterZoom
  <2> QED
    BY <2>1, <2>2, <2>3, <2>4 DEF RouteParts, BeforeTurn
<1>9. CASE Take
  <2>1. /\ update = "take" /\ update' \in {"gate", "decide"}
        /\ UNCHANGED <<visits, gate, inj, chan>> /\ visits = 1
    BY <1>9 DEF Take, RouteParts
  <2> QED
    BY <1>t, <2>1 DEF RouteParts, BeforeTurn
<1>10. CASE Decide
  <2>1. /\ update = "decide" /\ update' = "gate" /\ visits = 1
        /\ UNCHANGED <<visits, gate>> /\ ~inj.active
        /\ gate.camera \in Cameras
    BY <1>10 DEF Decide, RouteParts, ChannelInv
  <2>2. inj'.active => chan'[inj'.camera] = Injected(inj'.spend)
    <3>1. ASSUME NEW s \in Spends, Inject(s)
          PROVE  chan'[inj'.camera] = Injected(inj'.spend)
      BY <1>t, <2>1, <3>1 DEF Inject, NoInjection
    <3> QED
      BY <1>10, <2>1, <3>1 DEF Decide, KeepTravel, DropToNative
  <2> QED
    BY <2>1, <2>2 DEF RouteParts, BeforeTurn
<1>11. CASE Commit
  <2>1. /\ inj'.active = inj.active /\ inj'.camera = inj.camera
        /\ inj'.spend = inj.spend /\ inj'.committed
        /\ update = "commit" /\ update' = "zoom" /\ visits = 1
        /\ UNCHANGED <<visits, gate, chan>>
    BY <1>11, <1>t DEF Commit, Injections, RouteParts
  <2> QED
    BY <2>1 DEF RouteParts, BeforeTurn, InFlight
<1>12. CASE NextSite
  <2>1. /\ visits' = 0
        /\ UNCHANGED <<gate, inj, chan, hooksEnabled, raced, rpg, pc>>
    BY <1>12 DEF NextSite, shared, buffer, threads
  <2>2. CASE update = "gate" /\ update' = "turn"
    <3>1. gate.hits <= 1 /\ gate.preYawHits = 0 /\ ~gate.afterZoom
      BY <1>t, <2>2 DEF RouteParts, VerifyInv, BeforeTurn, Gates
    <3> QED
      BY <2>1, <2>2, <3>1 DEF RouteParts, BeforeTurn
  <2>3. CASE update = "turn" /\ update' = "zoom"
    <3>1. hooksEnabled /\ inj.active => inj.conditional
      <4>1. inj.active => inj.camera \in Cameras /\ chan[inj.camera].sel
        BY DEF RouteParts, ChannelInv, Injected
      <4>2. visits = 1 \/ ~inj.active
        BY <1>12, <1>t, <2>3, <4>1 DEF NextSite, SiteDone
      <4>3. update = "turn" /\ visits = 1 /\ hooksEnabled /\ inj.active
              => inj.conditional
        BY DEF RouteParts
      <4> QED
        BY <2>3, <4>2, <4>3
    <3> QED
      BY <2>1, <2>3, <3>1 DEF RouteParts, BeforeTurn
  <2>4. CASE update = "zoom" /\ update' = "end"
    <3>1. visits = 1
      BY <1>12, <1>t, <2>4 DEF NextSite, SiteDone
    <3>2. ~(InFlight /\ Undisturbed)
      BY <2>4, <3>1 DEF RouteParts
    <3>3. ~(InFlight /\ Undisturbed)'
      BY <1>3, <2>1, <3>2 DEF InFlight
    <3> QED
      BY <2>1, <2>4, <3>3 DEF RouteParts, BeforeTurn
  <2> QED
    BY <1>12, <2>2, <2>3, <2>4 DEF NextSite
<1>13. CASE Leave
  BY <1>13 DEF Leave, NoInjection, NoGate, RouteParts
<1>14. ASSUME NEW c \in Cameras, NEW v \in NativeValues, NativeWrite(c, v)
       PROVE  RouteParts'
  <2>1. /\ update \in {"idle", "entered"} /\ ~inj.active
        /\ UNCHANGED <<update, visits, gate, inj>>
    BY <1>14, <1>t DEF NativeWrite, frame, ChannelInv
  <2> QED
    BY <2>1 DEF RouteParts
<1>15. CASE UNCHANGED vars
  <2>1. UNCHANGED <<update, visits, gate, inj, chan, hooksEnabled, raced, rpg, pc>>
    BY <1>15 DEF vars, frame, shared, buffer, threads
  <2> QED
    BY <1>1, <1>3, <2>1
<1> QED
  BY <1>2, <1>4, <1>5, <1>6, <1>7, <1>8, <1>9, <1>10, <1>11, <1>12, <1>13,
     <1>14, <1>15 DEF Next, CameraStep

(* The five parts together are inductive.                                  *)
THEOREM InductiveInvariant == Spec => []IInv
<1>1. Init => IInv
  <2> SUFFICES ASSUME Init PROVE IInv
    OBVIOUS
  <2>1. \A c \in Cameras : chan[c] = native[c] /\ chan[c].by # "mod"
    BY ChannelShapes DEF Init
  <2>2. ChannelInv /\ NativeInv
    BY <2>1 DEF Init, NoInjection, ChannelInv, NativeInv
  <2>3. CreditInv
    BY DEF Init, NoInjection, CreditInv
  <2>4. RouteInv
    BY DEF Init, NoInjection, NoGate, RouteInv, RouteParts
  <2> QED
    BY <2>2, <2>3, <2>4, TypeInit, VerifyInit DEF IInv
<1>2. IInv /\ [Next]_vars => IInv'
  BY TypeStep, ChannelStep, NativeStep, VerifyStep, CreditStep, RouteStep
     DEF IInv
<1> QED
  BY <1>1, <1>2, PTL DEF Spec

(* On the route the detours assume, an undisturbed update that turned the  *)
(* camera has debited exactly that much when it ends.                      *)
THEOREM NoDoubleTurn == Spec => []NothingTurnedTwice
<1>1. IInv => NothingTurnedTwice
  <2> SUFFICES ASSUME IInv, Routed, update = "end", Undisturbed
               PROVE  credit = 0
    BY DEF NothingTurnedTwice
  <2>1. inj.turned \in Int /\ inj.spend \in Int
    BY FiniteIsTravel DEF IInv, TypeOK, FrameOK, Injections
  <2>2. ~inj.active \/ inj.committed
    BY DEF IInv, RouteInv, RouteParts, InFlight
  <2>3. inj.turned = (IF inj.committed THEN inj.spend ELSE 0)
    BY <2>2 DEF IInv, CreditInv
  <2>4. ~raced
    BY DEF Undisturbed
  <2> QED
    BY <2>1, <2>3, <2>4 DEF IInv, CreditInv
<1> QED
  BY <1>1, InductiveInvariant, PTL

-----------------------------------------------------------------------------
(* What an injection in flight spends is a share of what is banked, unless *)
(* the bank was emptied under it.                                          *)
Shares(s, p) == (0 < s /\ s <= p) \/ (p <= s /\ s < 0)
ShareInv == InFlight /\ ~raced => Shares(inj.spend, pending)

(* A frame spends no more than there is, and nothing of the other sign.    *)
LEMMA SpendsShares ==
  ASSUME TypeOK, NEW s \in Spends, s # 0
  PROVE  Shares(s, pending)
  BY ConstantsAssumption DEF TypeOK, BufferOK, Spends, Travel, Clip, Abs, Shares

(* Every step keeps the share: what empties the bank leaves its mark, and  *)
(* what is banked anew waits in the wheel until the next update.           *)
LEMMA ShareStep == IInv /\ ShareInv /\ [Next]_vars => ShareInv'
<1> SUFFICES ASSUME IInv, ShareInv, [Next]_vars PROVE ShareInv'
  OBVIOUS
<1>t. TypeOK /\ inj \in Injections
  BY DEF IInv, TypeOK, FrameOK
<1>1. ASSUME UNCHANGED <<pending, raced>>, UNCHANGED inj \/ ~inj'.active
      PROVE  ShareInv'
  BY <1>1 DEF ShareInv, InFlight
<1>2. ASSUME raced' = InFlight, UNCHANGED inj
      PROVE  ShareInv'
  BY <1>2 DEF ShareInv, InFlight
<1>3. ASSUME NEW t \in Threads, Feeding(t) \/ Discarding(t)
      PROVE  ShareInv'
  <2>1. CASE DropPending(t)
    BY <1>2, <2>1 DEF DropPending, ForgetPending, frame
  <2> QED
    BY <1>1, <1>3, <2>1 DEF Feeding, Discarding, StartSample, Accumulate, Stamp,
       DropWheel, DropTime, ForgetWheel, buffer, frame
<1>4. CASE ResetOutsideRpg
  BY <1>2, <1>4 DEF ResetOutsideRpg, ForgetAll, frame
<1>5. CASE \/ BeginGesture \/ EndGesture \/ PublishEnd \/ MonitorInstalled
           \/ ToggleMode \/ RemoveHooks \/ AwaitUpdate \/ GoQuiet
  BY <1>1, <1>5 DEF BeginGesture, EndGesture, PublishEnd, MonitorInstalled,
     ToggleMode, RemoveHooks, AwaitUpdate, GoQuiet, buffer, frame
<1>6. CASE Enter \/ NextSite \/ UNCHANGED vars
  BY <1>1, <1>6 DEF Enter, NextSite, buffer, frame, vars
<1>7. CASE Leave \/ \E usable \in BOOLEAN : Acquire(usable)
  BY <1>7 DEF Leave, Acquire, NoInjection, ShareInv, InFlight
<1>8. ASSUME NEW c \in Cameras,
             PreGate(c) \/ AfterZoom(c) \/ \E v \in NativeValues : NativeWrite(c, v)
      PROVE  ShareInv'
  BY <1>1, <1>8 DEF PreGate, AfterZoom, NativeWrite, buffer, frame
<1>9. ASSUME NEW c \in Cameras, PreYaw(c)
      PROVE  ShareInv'
  <2>1. /\ inj'.active = inj.active /\ inj'.committed = inj.committed
        /\ inj'.spend = inj.spend /\ UNCHANGED <<pending, raced>>
    BY <1>9, <1>t DEF PreYaw, Consume, Injections
  <2> QED
    BY <2>1 DEF ShareInv, InFlight
<1>10. CASE Take
  <2>1. ~inj'.active
    BY <1>10 DEF Take, IInv, ChannelInv
  <2> QED
    BY <2>1 DEF ShareInv, InFlight
<1>11. CASE Decide
  <2>1. ~inj.active
    BY <1>11 DEF Decide, IInv, ChannelInv
  <2>2. ASSUME UNCHANGED inj
        PROVE  ShareInv'
    BY <2>1, <2>2 DEF ShareInv, InFlight
  <2>3. ASSUME NEW s \in Spends, Inject(s)
        PROVE  ShareInv'
    <3>1. inj'.spend = s /\ s # 0 /\ UNCHANGED pending
      BY <2>3 DEF Inject, NoInjection
    <3> QED
      BY <1>t, <3>1, SpendsShares DEF ShareInv
  <2> QED
    BY <1>11, <2>2, <2>3 DEF Decide, KeepTravel, DropToNative
<1>12. CASE Commit
  <2>1. inj'.committed
    BY <1>12, <1>t DEF Commit, Injections
  <2> QED
    BY <2>1 DEF ShareInv, InFlight
<1> QED
  BY <1>3, <1>4, <1>5, <1>6, <1>7, <1>8, <1>9, <1>10, <1>11, <1>12
     DEF Next, ThreadStep, CameraStep

(* Along any route through the detours, a debit the backlog was not        *)
(* discarded under leaves less of it, with its sign.                       *)
THEOREM NoOvershoot == Spec => DebitNeverOvershoots
<1>1. Init => ShareInv
  BY DEF Init, ShareInv, InFlight, NoInjection
<1>2. IInv /\ ShareInv /\ [Next]_vars
        => (update = "commit" /\ update' = "zoom" /\ ~raced
              => \/ 0 <= pending' /\ pending' < pending
                 \/ pending < pending' /\ pending' <= 0)
  <2> SUFFICES ASSUME IInv, ShareInv, [Next]_vars,
                      update = "commit", update' = "zoom", ~raced
               PROVE  \/ 0 <= pending' /\ pending' < pending
                      \/ pending < pending' /\ pending' <= 0
    OBVIOUS
  <2>1. Shares(inj.spend, pending)
    BY DEF IInv, VerifyInv, CreditInv, ShareInv, InFlight
  <2>2. pending \in Int /\ inj.spend \in Int /\ Finite(pending - inj.spend)
    <3>1. pending \in Travel /\ inj.spend \in Travel
      BY DEF IInv, TypeOK, BufferOK, FrameOK, Injections
    <3> QED
      BY <2>1, <3>1, ConstantsAssumption DEF Travel, Shares, Finite, Abs
  <2>3. Commit
    <3>1. CASE ThreadStep
      BY <3>1, ThreadStepFrame DEF IInv
    <3> QED
      BY <3>1 DEF Next, CameraStep, Enter, Acquire, PreGate, PreYaw, AfterZoom,
         Take, Decide, NextSite, Leave, NativeWrite, frame, vars
  <2> QED
    BY <2>1, <2>2, <2>3 DEF Commit, Shares
<1> QED
  BY <1>1, <1>2, ShareStep, InductiveInvariant, PTL DEF Spec, DebitNeverOvershoots

-----------------------------------------------------------------------------
(* What a feeder is about to add is a sample.                              *)
SampleInv == \A t \in Threads : pc[t] = "cas" => sample[t] \in Samples

(* Every step keeps it so.                                                 *)
LEMMA SampleStep == TypeOK /\ SampleInv /\ [Next]_vars => SampleInv'
<1> SUFFICES ASSUME TypeOK, SampleInv, [Next]_vars PROVE SampleInv'
  OBVIOUS
<1>t. pc \in [Threads -> Labels] /\ sample \in [Threads -> Int]
  BY DEF TypeOK, ThreadsOK
<1>1. ASSUME NEW t \in Threads, NEW a \in Samples, StartSample(t, a)
      PROVE  SampleInv'
  BY <1>1, <1>t DEF StartSample, Goto, SampleInv
<1>2. ASSUME NEW t \in Threads, Accumulate(t) \/ Discarding(t)
      PROVE  SampleInv'
  BY <1>2, <1>t DEF Accumulate, Discarding, DropWheel, DropTime, DropPending,
     Goto, SampleInv
<1>3. ASSUME NEW t \in Threads, Stamp(t)
      PROVE  SampleInv'
  BY <1>3, <1>t DEF Stamp, Goto, SampleInv
<1>4. CASE EndGesture \/ PublishEnd \/ ToggleMode \/ RemoveHooks \/ AwaitUpdate
  BY <1>4, <1>t DEF EndGesture, PublishEnd, ToggleMode, RemoveHooks, AwaitUpdate,
     Goto, SampleInv
<1>5. ASSUME UNCHANGED <<pc, sample>>
      PROVE  SampleInv'
  BY <1>5 DEF SampleInv
<1>6. CASE BeginGesture \/ MonitorInstalled \/ GoQuiet \/ ResetOutsideRpg \/ Enter
  BY <1>5, <1>6 DEF BeginGesture, MonitorInstalled, GoQuiet, ResetOutsideRpg,
     Enter, threads
<1>7. CASE CameraStep
  BY <1>5, <1>7 DEF CameraStep, Acquire, PreGate, PreYaw, AfterZoom, Take,
     Decide, Commit, NextSite, Leave, threads
<1>8. ASSUME NEW c \in Cameras, NEW v \in NativeValues, NativeWrite(c, v)
      PROVE  SampleInv'
  BY <1>5, <1>8 DEF NativeWrite, threads
<1>9. CASE UNCHANGED vars
  BY <1>5, <1>9 DEF vars, threads
<1> QED
  BY <1>1, <1>2, <1>3, <1>4, <1>6, <1>7, <1>8, <1>9
     DEF Next, ThreadStep, Feeding

(* Each step adds one sample, empties the accumulator or leaves it.        *)
LEMMA WheelStep == SampleInv /\ [Next]_vars => [WheelBank!Next]_wheel
<1> SUFFICES ASSUME SampleInv, [Next]_vars PROVE WheelBank!Next \/ UNCHANGED wheel
  OBVIOUS
<1>1. ASSUME NEW t \in Threads, Accumulate(t)
      PROVE  WheelBank!Next \/ UNCHANGED wheel
  <2>1. pc[t] = "cas" /\ sample[t] \in Samples
    BY <1>1 DEF Accumulate, SampleInv
  <2>2. wheel' = 0 \/ wheel' = wheel + sample[t] \/ UNCHANGED wheel
    BY <1>1 DEF Accumulate, ForgetWheel
  <2> QED
    BY <2>1, <2>2 DEF WheelBank!Next, WheelBank!Add, WheelBank!Empty
<1>2. ASSUME wheel' = 0 \/ UNCHANGED wheel
      PROVE  WheelBank!Next \/ UNCHANGED wheel
  BY <1>2 DEF WheelBank!Next, WheelBank!Empty
<1>3. ASSUME NEW t \in Threads,
             (\E a \in Samples : StartSample(t, a)) \/ Stamp(t) \/ Discarding(t)
      PROVE  wheel' = 0 \/ UNCHANGED wheel
  BY <1>3 DEF StartSample, Stamp, Discarding, DropWheel, DropTime, DropPending,
     ForgetWheel, ForgetPending, buffer
<1>4. CASE \/ BeginGesture \/ EndGesture \/ PublishEnd \/ MonitorInstalled
           \/ ToggleMode \/ RemoveHooks \/ AwaitUpdate \/ GoQuiet
           \/ ResetOutsideRpg \/ Enter
  BY <1>2, <1>4 DEF BeginGesture, EndGesture, PublishEnd, MonitorInstalled,
     ToggleMode, RemoveHooks, AwaitUpdate, GoQuiet, ResetOutsideRpg, ForgetAll,
     Enter, buffer
<1>5. CASE CameraStep
  <2>1. CASE Take \/ Decide
    BY <1>2, <2>1 DEF Take, Decide, KeepTravel, DropToNative, Inject, ForgetAll
  <2> QED
    BY <1>2, <1>5, <2>1 DEF CameraStep, Acquire, PreGate, PreYaw, AfterZoom,
       Commit, NextSite, Leave, buffer
<1>6. CASE UNCHANGED vars \/ \E c \in Cameras, v \in NativeValues : NativeWrite(c, v)
  BY <1>2, <1>6 DEF NativeWrite, vars, buffer
<1> QED
  BY <1>1, <1>2, <1>3, <1>4, <1>5, <1>6 DEF Next, ThreadStep, Feeding

(* Refinement: for every interleaving of the feeders' loops with the drain *)
(* and the discards, the accumulator gains a sample as a whole or is       *)
(* emptied as a whole.                                                     *)
THEOREM WheelImplementsBank == Spec => WheelIsBank
<1>1. Init => SampleInv /\ WheelBank!Init
  BY DEF Init, SampleInv, WheelBank!Init
<1> QED
  BY <1>1, SampleStep, WheelStep, TypeCorrect, PTL
     DEF Spec, WheelIsBank, WheelBank!Spec

-----------------------------------------------------------------------------
(* With the scroll monitor as the only feeder the main thread alone adds   *)
(* to the wheel, and only during a gesture; from the discard at its end on *)
(* nothing is banked, but for a debit that comes too late.                 *)
Dropped(labels) == ~gesture \/ ("main" \in Threads /\ pc["main"] \in labels)
OnlyTheMonitorFeeds ==
  /\ hooksEnabled => monitorActive
  /\ \A t \in Threads : pc[t] = "cas" => t = "main" /\ gesture
NothingBanked ==
  /\ Dropped({"dropTime", "dropPending", "publish"}) => wheel = 0
  /\ Dropped({"publish"}) /\ ~overdrawn => pending = 0
LiftInv == OnlyTheMonitorFeeds /\ NothingBanked

(* Every step of the other threads keeps it.                               *)
LEMMA LiftThreadStep == IInv /\ LiftInv /\ ThreadStep => LiftInv'
<1> SUFFICES ASSUME IInv, LiftInv, ThreadStep PROVE LiftInv'
  OBVIOUS
<1>t. pc \in [Threads -> Labels] /\ ("main" \in Threads => pc["main"] \in Labels)
  BY DEF IInv, TypeOK, ThreadsOK
<1> USE DEF LiftInv, OnlyTheMonitorFeeds, NothingBanked, Dropped
<1>1. ASSUME NEW t \in Threads, NEW a \in Samples, StartSample(t, a)
      PROVE  LiftInv'
  <2>1. t = "main" /\ gesture /\ pc[t] = "idle"
    BY <1>1 DEF StartSample, MayFeed, Idle
  <2> QED
    BY <1>1, <1>t, <2>1 DEF StartSample, Goto, shared, buffer
<1>2. ASSUME NEW t \in Threads, Accumulate(t)
      PROVE  LiftInv'
  <2>1. t = "main" /\ gesture /\ pc[t] = "cas"
    BY <1>2 DEF Accumulate
  <2>2. pc' = pc \/ pc' = [pc EXCEPT !["main"] = "stamp"]
    BY <1>2, <2>1 DEF Accumulate, Goto
  <2> QED
    BY <1>2, <1>t, <2>1, <2>2 DEF Accumulate, shared
<1>3. ASSUME NEW t \in Threads, Stamp(t)
      PROVE  LiftInv'
  BY <1>3, <1>t DEF Stamp, Goto, shared
<1>4. ASSUME NEW t \in Threads, DropWheel(t)
      PROVE  LiftInv'
  BY <1>4, <1>t DEF DropWheel, ForgetWheel, Goto, shared
<1>5. ASSUME NEW t \in Threads, DropTime(t)
      PROVE  LiftInv'
  BY <1>5, <1>t DEF DropTime, Goto, shared
<1>6. ASSUME NEW t \in Threads, DropPending(t)
      PROVE  LiftInv'
  <2>1. pc[t] = "dropPending" /\ pc'[t] # "cas" /\ \A u \in Threads \ {t} : pc'[u] = pc[u]
    BY <1>6, <1>t DEF DropPending, Goto
  <2> QED
    BY <1>6, <2>1 DEF DropPending, ForgetPending, shared
<1>7. CASE BeginGesture
  BY <1>7, <1>t DEF BeginGesture, Idle, threads, buffer
<1>8. CASE EndGesture
  BY <1>8, <1>t DEF EndGesture, Idle, Goto, shared, buffer
<1>9. CASE PublishEnd
  BY <1>9, <1>t DEF PublishEnd, Goto, buffer
<1>10. CASE ToggleMode \/ RemoveHooks \/ AwaitUpdate
  BY <1>10, <1>t DEF ToggleMode, RemoveHooks, AwaitUpdate, Idle, Goto, shared, buffer
<1>11. CASE MonitorInstalled \/ GoQuiet
  BY <1>11 DEF MonitorInstalled, GoQuiet, shared, threads
<1>12. CASE ResetOutsideRpg
  BY <1>12 DEF ResetOutsideRpg, ForgetAll, shared, threads
<1> QED
  BY <1>1, <1>2, <1>3, <1>4, <1>5, <1>6, <1>7, <1>8, <1>9, <1>10, <1>11, <1>12
     DEF ThreadStep, Feeding, Discarding

(* And so does the update: a debit that leaves something banked after the  *)
(* discard is one the discard overtook, and is marked.                     *)
LEMMA LiftUpdateStep == IInv /\ ShareInv /\ LiftInv /\ CameraStep => LiftInv'
<1> SUFFICES ASSUME IInv, ShareInv, LiftInv, CameraStep PROVE LiftInv'
  OBVIOUS
<1>t. wheel \in Int /\ pending \in Int /\ inj.spend \in Int
  BY FiniteIsTravel DEF IInv, TypeOK, BufferOK, FrameOK, Injections
<1> USE DEF LiftInv, OnlyTheMonitorFeeds, NothingBanked, Dropped
<1>1. ASSUME UNCHANGED <<wheel, pending, overdrawn>>, UNCHANGED shared, UNCHANGED threads
      PROVE  LiftInv'
  BY <1>1 DEF shared, threads
<1>2. CASE Take
  BY <1>2, <1>t DEF Take, ForgetAll, shared, threads
<1>3. CASE Decide
  BY <1>3 DEF Decide, KeepTravel, DropToNative, Inject, ForgetAll, shared, threads
<1>4. CASE Commit
  <2>1. ~raced => Shares(inj.spend, pending)
    BY <1>4 DEF Commit, IInv, VerifyInv, CreditInv, ShareInv, InFlight
  <2>2. ~raced => pending # 0
    BY <1>t, <2>1 DEF Shares
  <2>3. UNCHANGED <<hooksEnabled, monitorActive, gesture, pc, wheel>>
    BY <1>4 DEF Commit, shared, threads
  <2>4. CASE Finite(pending - inj.spend)
    <3>1. pending' = pending - inj.spend
          /\ (overdrawn' <=> (pending # inj.spend /\ (overdrawn \/ raced)))
      BY <1>4, <2>4 DEF Commit
    <3>2. Dropped({"publish"}) /\ ~overdrawn' => pending' = 0
      BY <1>t, <2>2, <3>1
    <3> QED
      BY <2>3, <3>2
  <2>5. CASE ~Finite(pending - inj.spend)
    <3>1. pending' = 0
      BY <1>4, <2>5 DEF Commit
    <3> QED
      BY <2>3, <3>1
  <2> QED
    BY <2>4, <2>5
<1> QED
  BY <1>1, <1>2, <1>3, <1>4 DEF CameraStep, Acquire, PreGate, PreYaw, AfterZoom,
     NextSite, Leave, buffer

(* "The camera stops the instant the fingers lift", for every camera,      *)
(* sample and route, up to one cause: a debit that a discard overtook.     *)
THEOREM StopsUnlessOverdrawn == MonitoredSpec => CameraStopsUnlessOverdrawn
<1>1. MonitoredInit => ShareInv /\ LiftInv
  BY DEF MonitoredInit, Init, ShareInv, InFlight, NoInjection, LiftInv,
     OnlyTheMonitorFeeds, NothingBanked
<1>2. IInv /\ ShareInv /\ LiftInv /\ [Next]_vars => LiftInv'
  <2> SUFFICES ASSUME IInv, ShareInv, LiftInv, [Next]_vars PROVE LiftInv'
    OBVIOUS
  <2>1. ASSUME UNCHANGED shared, UNCHANGED buffer, UNCHANGED threads PROVE LiftInv'
    BY <2>1 DEF shared, buffer, threads, LiftInv, OnlyTheMonitorFeeds, NothingBanked,
       Dropped
  <2> QED
    BY <2>1, LiftThreadStep, LiftUpdateStep DEF Next, Enter, NativeWrite, vars
<1>3. IInv /\ LiftInv /\ [Next]_vars
        => (update = "decide" /\ inj'.active /\ ~overdrawn => gesture)
  <2> SUFFICES ASSUME IInv, LiftInv, [Next]_vars, update = "decide", inj'.active,
                      ~overdrawn
               PROVE  gesture
    OBVIOUS
  <2>1. ~inj.active
    BY DEF IInv, ChannelInv
  <2>2. Decide
    BY <2>1, ThreadStepFrame DEF IInv, Next, Enter, CameraStep, Acquire, PreGate, PreYaw,
       AfterZoom, Take, Commit, NextSite, Leave, NativeWrite, frame, vars
  <2>3. pending # 0
    BY <2>1, <2>2 DEF Decide, KeepTravel, DropToNative, Inject
  <2> QED
    BY <2>3 DEF LiftInv, NothingBanked, Dropped
<1>4. MonitoredSpec => Spec /\ MonitoredInit
  BY DEF MonitoredSpec, MonitoredInit, Spec
<1> QED
  BY <1>1, <1>2, <1>3, <1>4, ShareStep, InductiveInvariant, PTL
     DEF Spec, CameraStopsUnlessOverdrawn
=============================================================================
