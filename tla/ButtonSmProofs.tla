-------------------------- MODULE ButtonSmProofs --------------------------
(***************************************************************************)
(* Proofs about button_sm.c for every debounce time, threshold, width of   *)
(* the clock and timing of the samples that leaves room before it wraps    *)
(* (ButtonAssumption).                                                     *)
(***************************************************************************)
EXTENDS ButtonSm, TLAPS

\* A timestamp measures true time, across the wrap, while it is young enough.
LEMMA SinceCounts ==
  ASSUME NEW t \in Times, NEW u \in Times, NEW d \in Gaps, Since(t, u) + d < Wrap
  PROVE  /\ Plus(t, d) \in Times
         /\ Since(Plus(t, d), u) = Since(t, u) + d
  BY ButtonAssumption DEF Times, Since, Plus

\* uint32_t addition stays within 32 bits.
LEMMA PlusType ==
  ASSUME NEW t \in Times, NEW d \in Gaps
  PROVE  Plus(t, d) \in Times /\ Since(Plus(t, d), Plus(t, d)) = 0
  BY ButtonAssumption DEF Times, Since, Plus

\* No time has passed since this very moment.
LEMMA SinceSelf ==
  ASSUME NEW t \in Times
  PROVE  Since(t, t) = 0
  BY ButtonAssumption DEF Times, Since

\* Arithmetic the steps below need of values that are primed there.
LEMMA LessEqual ==
  ASSUME NEW a \in 0 .. Horizon, a >= Debounce
  PROVE  0 + Debounce <= a
  BY ButtonAssumption

\* A press held to the threshold had its contact closed that long, also without
\* an opening that the debounce time has not accepted yet.
LEMMA HeldLongEnough ==
  ASSUME NEW held \in Nat, NEW closed \in Nat, NEW open \in Nat,
         held >= LongPress, held + Debounce <= closed
  PROVE  /\ closed >= LongPress + 0
         /\ ~(open >= Debounce) => closed >= LongPress + open
  BY ButtonAssumption

\* An age never exceeds the horizon and never shrinks below zero.
LEMMA OlderType ==
  ASSUME NEW a \in 0 .. Horizon, NEW d \in Gaps
  PROVE  Older(a, d) \in 0 .. Horizon /\ (a + d <= Horizon => Older(a, d) = a + d)
  BY ButtonAssumption DEF Older

\* What the timestamps of a press in progress say of true time, and where the
\* published event stands in the press.
AgeInv ==
    /\ raw # debounced => rawAge < Debounce /\ Since(now, rawChange) = rawAge
    /\ debounced /\ ~longFired /\ LongPress # 0 =>
           /\ pressAge < LongPress
           /\ Since(now, press) = pressAge
           /\ pressAge + Debounce <= closedAge

OrderInv ==
    /\ ~debounced => lastEvent \in {"none", "short_press", "released"}
    /\ debounced => lastEvent = (IF longFired THEN "long_press" ELSE "pressed")

Inv == TypeOK /\ AgeInv /\ OrderInv

\* The reset state machine satisfies the inductive invariant.
LEMMA InitInv == Init => Inv
  <1> SUFFICES ASSUME Init PROVE Inv
    OBVIOUS
  <1>1. 0 \in Times /\ 0 \in 0 .. Horizon
    BY ButtonAssumption DEF Times
  <1>2. TypeOK
    BY <1>1 DEF Init, TypeOK, Events
  <1>3. AgeInv /\ OrderInv
    BY DEF Init, AgeInv, OrderInv
  <1> QED BY <1>2, <1>3 DEF Inv

-----------------------------------------------------------------------------
\* One sample, step by step.

\* What button_sm_track_raw does to the timestamps, the ages and their relation.
LEMMA TrackEffect ==
  ASSUME Inv, NEW p \in BOOLEAN, NEW d \in Gaps, TrackRaw(p, d)
  PROVE  /\ now' \in Times /\ rawChange' \in Times /\ raw' \in BOOLEAN
         /\ rawAge' \in 0 .. Horizon
         /\ raw' # debounced => Since(now', rawChange') = rawAge'
         /\ raw' # debounced /\ rawAge' # 0 => rawAge' = rawAge + d
         /\ raw' # raw => rawAge' = 0
  <1>1. /\ now' = Plus(now, d) /\ raw' = p
        /\ rawChange' = IF p # raw THEN now' ELSE rawChange
        /\ rawAge' = IF p # raw THEN 0 ELSE Older(rawAge, d)
    BY DEF TrackRaw
  <1>2. now \in Times /\ rawChange \in Times /\ rawAge \in 0 .. Horizon /\ Horizon \in Nat
    BY ButtonAssumption DEF Inv, TypeOK
  <1>3. now' \in Times /\ Since(now', now') = 0
    BY <1>1, <1>2, PlusType
  <1>4. CASE p # raw
    BY <1>1, <1>2, <1>3, <1>4
  <1>5. CASE p = raw
    <2>1. rawAge' \in 0 .. Horizon /\ (rawAge + d <= Horizon => rawAge' = rawAge + d)
      BY <1>1, <1>2, <1>5, OlderType
    <2>2. ASSUME raw' # debounced
          PROVE  Since(now', rawChange') = rawAge' /\ rawAge' = rawAge + d
      <3>1. rawAge < Debounce /\ Since(now, rawChange) = rawAge
        BY <1>1, <1>5, <2>2 DEF Inv, AgeInv
      <3>2. rawAge + d < Wrap /\ rawAge + d <= Horizon
        BY <1>2, <3>1, ButtonAssumption
      <3>3. Since(Plus(now, d), rawChange) = Since(now, rawChange) + d
        BY <1>2, <3>1, <3>2, SinceCounts
      <3> QED BY <1>1, <1>5, <2>1, <3>1, <3>2, <3>3
    <2> QED BY <1>1, <1>2, <1>3, <1>5, <2>1, <2>2
  <1> QED BY <1>4, <1>5

\* The press in progress ages with the clock.
LEMMA PressEffect ==
  ASSUME Inv, NEW p \in BOOLEAN, NEW d \in Gaps, TrackRaw(p, d),
         debounced, ~longFired, LongPress # 0
  PROVE  /\ Since(now', press) = pressAge + d
         /\ Older(pressAge, d) = pressAge + d
         /\ pressAge + d + Debounce <= Older(closedAge, d)
  <1>1. /\ pressAge < LongPress /\ Since(now, press) = pressAge
        /\ pressAge + Debounce <= closedAge
    BY DEF Inv, AgeInv
  <1>2. /\ now \in Times /\ press \in Times /\ now' = Plus(now, d)
        /\ pressAge \in 0 .. Horizon /\ closedAge \in 0 .. Horizon
    BY DEF Inv, TypeOK, TrackRaw
  <1>3. pressAge + d < Wrap /\ pressAge + d + Debounce <= Horizon
    BY <1>1, <1>2, ButtonAssumption
  <1>4. Since(now', press) = pressAge + d
    BY <1>1, <1>2, <1>3, SinceCounts
  <1>5. Older(pressAge, d) = pressAge + d
    BY <1>2, <1>3, ButtonAssumption, OlderType
  <1>6. pressAge + d + Debounce <= Older(closedAge, d)
    BY <1>1, <1>2, <1>3, ButtonAssumption DEF Older
  <1> QED BY <1>4, <1>5, <1>6

\* An accepted press keeps the invariant: its time and its ages start together.
LEMMA PressKeeps ==
  ASSUME Inv, NEW p \in BOOLEAN, NEW d \in Gaps, TrackRaw(p, d),
         EdgeDue, raw' = TRUE, PressEdge(d), lastEvent' = event'
  PROVE  Inv'
  <1>1. /\ now' \in Times /\ rawChange' \in Times /\ raw' \in BOOLEAN
        /\ rawAge' \in 0 .. Horizon
        /\ Since(now', rawChange') = rawAge'
    BY TrackEffect DEF EdgeDue
  <1>2. 0 \in 0 .. Horizon /\ (LongPress # 0 => 0 < LongPress)
    BY ButtonAssumption
  <1>3. TypeOK'
    BY <1>1, <1>2 DEF PressEdge, Inv, TypeOK, Events
  <1>4. AgeInv'
    <2>1. Since(now', now') = 0
      BY <1>1, SinceSelf
    <2>2. 0 + Debounce <= rawAge'
      BY <1>1, LessEqual DEF EdgeDue
    <2> QED BY <1>1, <1>2, <2>1, <2>2 DEF PressEdge, AgeInv
  <1>5. OrderInv'
    BY DEF PressEdge, OrderInv
  <1> QED BY <1>3, <1>4, <1>5 DEF Inv

\* An accepted release keeps the invariant.
LEMMA ReleaseKeeps ==
  ASSUME Inv, NEW p \in BOOLEAN, NEW d \in Gaps, TrackRaw(p, d),
         EdgeDue, ~p, ReleaseEdge(d), lastEvent' = event'
  PROVE  Inv'
  <1>1. /\ now' \in Times /\ rawChange' \in Times /\ raw' \in BOOLEAN
        /\ rawAge' \in 0 .. Horizon /\ raw' = FALSE
    BY TrackEffect DEF TrackRaw
  <1>2. pressAge' \in 0 .. Horizon /\ closedAge' \in 0 .. Horizon
    BY OlderType DEF ReleaseEdge, Inv, TypeOK
  <1>3. TypeOK'
    BY <1>1, <1>2 DEF ReleaseEdge, Inv, TypeOK, Events
  <1>4. AgeInv'
    BY <1>1 DEF ReleaseEdge, AgeInv
  <1>5. OrderInv'
    BY DEF ReleaseEdge, OrderInv
  <1> QED BY <1>3, <1>4, <1>5 DEF Inv

\* A reported long press keeps the invariant.
LEMMA LongKeeps ==
  ASSUME Inv, NEW p \in BOOLEAN, NEW d \in Gaps, TrackRaw(p, d),
         ~EdgeDue, LongDue, LongEdge(d), lastEvent' = event'
  PROVE  Inv'
  <1>1. /\ now' \in Times /\ rawChange' \in Times /\ raw' \in BOOLEAN
        /\ rawAge' \in 0 .. Horizon
        /\ raw' # debounced => Since(now', rawChange') = rawAge'
    BY TrackEffect
  <1>2. pressAge' \in 0 .. Horizon /\ closedAge' \in 0 .. Horizon
    BY OlderType DEF LongEdge, Inv, TypeOK
  <1>3. TypeOK'
    BY <1>1, <1>2 DEF LongEdge, Inv, TypeOK, Events
  <1>4. AgeInv'
    BY <1>1, ButtonAssumption DEF LongEdge, EdgeDue, AgeInv
  <1>5. OrderInv'
    BY DEF LongEdge, LongDue, OrderInv
  <1> QED BY <1>3, <1>4, <1>5 DEF Inv

\* A sample without an event keeps the invariant.
LEMMA QuietKeeps ==
  ASSUME Inv, NEW p \in BOOLEAN, NEW d \in Gaps, TrackRaw(p, d),
         ~EdgeDue, ~LongDue, Quiet(d), lastEvent' = lastEvent
  PROVE  Inv'
  <1>1. /\ now' \in Times /\ rawChange' \in Times /\ raw' \in BOOLEAN
        /\ rawAge' \in 0 .. Horizon
        /\ raw' # debounced => Since(now', rawChange') = rawAge'
    BY TrackEffect
  <1>2. pressAge' \in 0 .. Horizon /\ closedAge' \in 0 .. Horizon
    BY OlderType DEF Quiet, Inv, TypeOK
  <1>3. TypeOK'
    BY <1>1, <1>2 DEF Quiet, Inv, TypeOK, Events
  <1>4. raw' # debounced' => rawAge' < Debounce /\ Since(now', rawChange') = rawAge'
    BY <1>1, ButtonAssumption DEF Quiet, EdgeDue
  <1>5. ASSUME debounced', ~longFired', LongPress # 0
        PROVE  /\ pressAge' < LongPress /\ Since(now', press') = pressAge'
               /\ pressAge' + Debounce <= closedAge'
    <2>1. debounced /\ ~longFired
      BY <1>5 DEF Quiet
    <2>2. /\ Since(now', press) = pressAge + d /\ pressAge' = pressAge + d
          /\ pressAge + d + Debounce <= closedAge' /\ press' = press
      BY <1>5, <2>1, PressEffect DEF Quiet
    <2>3. ~(Since(now', press) >= LongPress)
      BY <1>5, <2>1 DEF LongDue
    <2> QED BY <1>2, <2>2, <2>3, ButtonAssumption
  <1>6. AgeInv'
    BY <1>4, <1>5 DEF AgeInv
  <1>7. OrderInv'
    BY DEF Quiet, Inv, OrderInv
  <1> QED BY <1>3, <1>6, <1>7 DEF Inv

\* Every sample keeps the invariant.
LEMMA NextInv == Inv /\ [Next]_vars => Inv'
  <1>1. ASSUME Inv, NEW p \in BOOLEAN, NEW d \in Gaps, Sample(p, d) PROVE Inv'
    <2>1. TrackRaw(p, d)
      BY <1>1 DEF Sample
    <2>2. CASE EdgeDue /\ p /\ PressEdge(d)
      <3>1. lastEvent' = event'
        BY <1>1, <2>2 DEF Sample, PressEdge
      <3>2. raw' = TRUE
        BY <2>1, <2>2 DEF TrackRaw
      <3> QED BY <1>1, <2>1, <2>2, <3>1, <3>2, PressKeeps
    <2>3. CASE EdgeDue /\ ~p /\ ReleaseEdge(d)
      <3>1. lastEvent' = event'
        BY <1>1, <2>3 DEF Sample, ReleaseEdge
      <3> QED BY <1>1, <2>1, <2>3, <3>1, ReleaseKeeps
    <2>4. CASE ~EdgeDue /\ LongDue /\ LongEdge(d)
      <3>1. lastEvent' = event'
        BY <1>1, <2>4 DEF Sample, LongEdge
      <3> QED BY <1>1, <2>1, <2>4, <3>1, LongKeeps
    <2>5. CASE ~EdgeDue /\ ~LongDue /\ Quiet(d)
      <3>1. lastEvent' = lastEvent
        BY <1>1, <2>5 DEF Sample, Quiet
      <3> QED BY <1>1, <2>1, <2>5, <3>1, QuietKeeps
    <2> QED BY <1>1, <2>2, <2>3, <2>4, <2>5 DEF Sample
  <1>2. ASSUME Inv, UNCHANGED vars PROVE Inv'
    BY <1>2 DEF Inv, TypeOK, AgeInv, OrderInv, Since, vars, ages
  <1> QED BY <1>1, <1>2 DEF Next

\* The invariant holds in every reachable state.
LEMMA InvHolds == Spec => []Inv
  BY InitInv, NextInv, PTL DEF Spec

-----------------------------------------------------------------------------

\* Timestamps stay 32 bits wide and the history variables bounded.
THEOREM TypeCorrect == Spec => []TypeOK
  <1>1. Inv => TypeOK
    BY DEF Inv
  <1> QED BY <1>1, InvHolds, PTL

\* A SHORT_PRESS is reported for a contact that opened before the threshold,
\* whatever the timing of the samples and wherever the clock wraps.
LEMMA ShortStep == Inv /\ ShortWasShort /\ [Next]_vars => ShortWasShort'
  <1>1. ASSUME Inv, NEW p \in BOOLEAN, NEW d \in Gaps, Sample(p, d),
               event' = "short_press"
        PROVE  /\ rawAge' >= Debounce
               /\ Debounce # 0 /\ LongPress # 0 => pressAge' < LongPress + rawAge'
    <2>1. TrackRaw(p, d) /\ EdgeDue /\ ~p /\ ReleaseEdge(d) /\ ~longFired
      BY <1>1 DEF Sample, PressEdge, ReleaseEdge, LongEdge, Quiet
    <2>2. raw' # debounced /\ raw' = FALSE
      BY <2>1 DEF EdgeDue, TrackRaw
    <2>3. /\ Since(now', rawChange') = rawAge' /\ rawAge' \in 0 .. Horizon
          /\ rawAge' # 0 => rawAge' = rawAge + d
      BY <1>1, <2>1, <2>2, TrackEffect
    <2>4. rawAge' >= Debounce
      BY <2>1, <2>3 DEF EdgeDue
    <2>5. ASSUME Debounce # 0, LongPress # 0 PROVE pressAge' < LongPress + rawAge'
      <3>1. rawAge' = rawAge + d
        BY <2>3, <2>4, <2>5, ButtonAssumption
      <3>2. debounced
        BY <1>1, <2>2 DEF Inv, TypeOK
      <3>3. pressAge' = pressAge + d
        BY <1>1, <2>1, <2>5, <3>2, PressEffect DEF ReleaseEdge
      <3>4. pressAge < LongPress
        BY <1>1, <2>1, <2>5, <3>2 DEF Inv, AgeInv
      <3>5. /\ pressAge \in 0 .. Horizon /\ rawAge \in 0 .. Horizon
            /\ Horizon \in Nat /\ LongPress \in Nat /\ d \in Nat
        BY <1>1, ButtonAssumption DEF Inv, TypeOK
      <3> QED BY <3>1, <3>3, <3>4, <3>5
    <2> QED BY <2>4, <2>5
  <1>2. ASSUME ShortWasShort, UNCHANGED vars PROVE ShortWasShort'
    BY <1>2 DEF ShortWasShort, vars, ages
  <1> QED BY <1>1, <1>2 DEF Next, ShortWasShort

\* A short press is never one that was held to the long-press threshold.
THEOREM ShortWasShortHolds == Spec => []ShortWasShort
  <1>1. Init => ShortWasShort
    BY DEF Init, ShortWasShort
  <1> QED BY <1>1, ShortStep, InvHolds, PTL DEF Spec

\* At a LONG_PRESS the contact was closed for the whole threshold.
LEMMA LongStep == Inv /\ LongWasLong /\ [Next]_vars => LongWasLong'
  <1>1. ASSUME Inv, NEW p \in BOOLEAN, NEW d \in Gaps, Sample(p, d),
               event' = "long_press"
        PROVE  closedAge' >= LongPress + (IF raw' THEN 0 ELSE rawAge')
    <2>1. TrackRaw(p, d) /\ ~EdgeDue /\ LongDue /\ LongEdge(d)
      BY <1>1 DEF Sample, PressEdge, ReleaseEdge, LongEdge, Quiet
    <2>2. debounced /\ ~longFired /\ LongPress # 0 /\ Since(now', press) >= LongPress
      BY <2>1 DEF LongDue
    <2>3. /\ Since(now', press) = pressAge + d
          /\ pressAge + d + Debounce <= closedAge'
      BY <1>1, <2>1, <2>2, PressEffect DEF LongEdge
    <2>4. rawAge' \in 0 .. Horizon /\ (~raw' => Since(now', rawChange') = rawAge')
      BY <1>1, <2>1, <2>2, TrackEffect
    <2>5. raw' = FALSE => ~(rawAge' >= Debounce)
      <3>1. debounced = TRUE
        BY <1>1, <2>2 DEF Inv, TypeOK
      <3> QED BY <2>1, <2>4, <3>1 DEF EdgeDue
    <2>6. pressAge + d \in Nat /\ closedAge' \in Nat /\ rawAge' \in Nat
      BY <1>1, <2>1, <2>4, OlderType, ButtonAssumption DEF Inv, TypeOK, LongEdge
    <2>7. /\ closedAge' >= LongPress + 0
          /\ ~(rawAge' >= Debounce) => closedAge' >= LongPress + rawAge'
      BY <2>2, <2>3, <2>6, HeldLongEnough
    <2>8. raw' \in BOOLEAN
      BY <2>1 DEF TrackRaw
    <2> QED BY <2>5, <2>7, <2>8
  <1>2. ASSUME LongWasLong, UNCHANGED vars PROVE LongWasLong'
    BY <1>2 DEF LongWasLong, vars, ages
  <1> QED BY <1>1, <1>2 DEF Next, LongWasLong

\* A long press is never one that was let go before the threshold.
THEOREM LongWasLongHolds == Spec => []LongWasLong
  <1>1. Init => LongWasLong
    BY DEF Init, LongWasLong
  <1> QED BY <1>1, LongStep, InvHolds, PTL DEF Spec

\* The published events follow the grammar of a press.
THEOREM EventOrderHolds == Spec => EventOrder
  <1> DEFINE Grammar == {<<"none", "pressed">>, <<"pressed", "short_press">>,
                         <<"pressed", "long_press">>, <<"long_press", "released">>,
                         <<"short_press", "pressed">>, <<"released", "pressed">>}
             Ordered == event' # "none" => <<lastEvent, event'>> \in Grammar
  <1>1. ASSUME Inv, NEW p \in BOOLEAN, NEW d \in Gaps, Sample(p, d) PROVE Ordered
    <2>1. OrderInv /\ debounced \in BOOLEAN /\ longFired \in BOOLEAN
      BY <1>1 DEF Inv, TypeOK
    <2>2. CASE EdgeDue /\ p /\ PressEdge(d)
      <3>1. ~debounced
        BY <1>1, <2>2 DEF EdgeDue, Sample, TrackRaw
      <3> QED BY <2>1, <2>2, <3>1 DEF PressEdge, OrderInv
    <2>3. CASE EdgeDue /\ ~p /\ ReleaseEdge(d)
      <3>1. debounced
        BY <1>1, <2>1, <2>3 DEF EdgeDue, Sample, TrackRaw
      <3> QED BY <2>1, <2>3, <3>1 DEF ReleaseEdge, OrderInv
    <2>4. CASE LongDue /\ LongEdge(d)
      BY <2>1, <2>4 DEF LongDue, LongEdge, OrderInv
    <2>5. CASE Quiet(d)
      BY <2>5 DEF Quiet
    <2> QED BY <1>1, <2>2, <2>3, <2>4, <2>5 DEF Sample
  <1>2. Inv /\ [Next]_vars => [Ordered]_vars
    BY <1>1 DEF Next
  <1> QED BY <1>2, InvHolds, PTL DEF Spec, EventOrder
=============================================================================
