-------------------------- MODULE LedRgbRefinement --------------------------
(***************************************************************************)
(* With its mutex, led_rgb.c implements LedAtomic for any number of LEDs   *)
(* and tasks, any requests and any times: every public function takes      *)
(* effect at one instant between its call and its return.                  *)
(***************************************************************************)
EXTENDS LedRgbProofs

\* Between the stores of one command the earlier ones are in memory.
StoreInv ==
    \A t \in Tasks :
        /\ pc[t] \in {"color", "blink"} => active[Item(t).id]
        /\ pc[t] = "blink" => color[Item(t).id] = Item(t).color

\* The refinement mapping when task t stores, when it clears, when none does.
SetOver(t) ==
    [i \in Leds |-> IF ToSet(t, i) # {} THEN AfterSet(t, i) ELSE Override(i)]

ClearOver(t) ==
    [i \in Leds |-> IF ToClear(t, i) # {}
                    THEN [active |-> FALSE, color |-> color[i], blink |-> blink[i]]
                    ELSE Override(i)]

PlainOver == [i \in Leds |-> Override(i)]

NoWriter == \A t \in Tasks : ~Setting(t) /\ ~Clearing(t)

Bars ==
    /\ \A t \in Tasks : Setting(t) => AutoBar = state /\ OverBar = SetOver(t)
    /\ \A t \in Tasks : Clearing(t) =>
          /\ AutoBar = IF pc[t] = "state" THEN op[t].to ELSE state
          /\ OverBar = ClearOver(t)
    /\ NoWriter => AutoBar = state /\ OverBar = PlainOver

RInv == SInv /\ StoreInv /\ Bars

\* What the mapping says of one task.
StageOf(t) == CASE pc[t] = "idle" -> "idle"
                [] pc[t] \in {"lock", "gate"} -> "called"
                [] OTHER -> "served"

AnsOf(t) == CASE Setting(t) \/ Clearing(t) -> "ok"
              [] pc[t] = "reject" -> "invalid_state"
              [] OTHER -> "none"

SeenOf(t) == [k \in 1 .. LedCount |->
    IF pc[t] \in Resolving /\ k \in idx[t] .. Len(op[t].ids)
    THEN IF IdValid(op[t].ids[k])
         THEN Resolved(state, Override(op[t].ids[k]), op[t].now) ELSE Dark
    ELSE buf[t][k]]

-----------------------------------------------------------------------------
\* The abstract specification reads the constants as led_rgb.c does.
LEMMA SameConstants ==
  /\ Atomic!Leds = Leds /\ Atomic!AllIds = AllIds /\ Atomic!Tasks = Tasks
  /\ Atomic!Dark = Dark /\ Atomic!NoCall = NoCall
  /\ \A c : Atomic!ArgsValid(c) = ArgsValid(c)
  /\ \A a, b, c : Atomic!Resolved(a, b, c) = Resolved(a, b, c)
  /\ \A now : Atomic!Render(now) = Render(now)
  /\ \A id : Atomic!IdValid(id) = IdValid(id)
  <1>1. /\ Atomic!Leds = Leds /\ Atomic!AllIds = AllIds /\ Atomic!Tasks = Tasks
        /\ Atomic!Dark = Dark /\ Atomic!NoCall = NoCall
    BY DEF Atomic!Leds, Leds, Atomic!AllIds, AllIds, Atomic!Tasks, Tasks,
           Atomic!Dark, Dark, Atomic!NoCall, NoCall
  <1>2. \A c : Atomic!ArgsValid(c) = ArgsValid(c)
    BY DEF Atomic!ArgsValid, ArgsValid, Atomic!AutoStates, AutoStates,
           Atomic!CommandValid, CommandValid, Atomic!IdValid, IdValid
  <1>3. \A a, b, c : Atomic!Resolved(a, b, c) = Resolved(a, b, c)
    BY DEF Atomic!Resolved, Resolved, Atomic!BlinkOn, BlinkOn, Atomic!Pattern, Pattern
  <1>4. \A now : Atomic!Render(now) = Render(now)
    BY <1>1 DEF Atomic!Render, Render
  <1>5. \A id : Atomic!IdValid(id) = IdValid(id)
    BY DEF Atomic!IdValid, IdValid
  <1> QED
    BY <1>1, <1>2, <1>3, <1>4, <1>5

\* Clearing an override leaves its colour and its period.
LEMMA Deactivated ==
  ASSUME NEW i
  PROVE  [Override(i) EXCEPT !.active = FALSE]
             = [active |-> FALSE, color |-> color[i], blink |-> blink[i]]
  <1>1. \A v : [Override(i) EXCEPT !.active = v]
                  = [active |-> v, color |-> color[i], blink |-> blink[i]]
    BY DEF Override
  <1> QED
    BY <1>1

\* With the mutex there is one writer, and the mapping is about it.
LEMMA BarsFollow == TInv /\ Mutex => Bars
  <1> SUFFICES ASSUME TInv, Mutex PROVE Bars
    OBVIOUS
  <1>1. \A t, u \in Tasks : (Setting(t) \/ Clearing(t)) /\ (Setting(u) \/ Clearing(u)) => t = u
    BY DEF Mutex, Setting, Clearing, Body, Storing
  <1>2. \A t \in Tasks : ~(Setting(t) /\ Clearing(t))
    BY DEF Setting, Clearing
  <1>3. ASSUME NEW t \in Tasks, Setting(t)
        PROVE  AutoBar = state /\ OverBar = SetOver(t)
    <2>1. \A u \in Tasks : Setting(u) \/ Clearing(u) => u = t
      BY <1>1, <1>3
    <2>2. \A u \in Tasks : ~Clearing(u)
      BY <2>1, <1>2, <1>3
    <2>3. AutoBar = state
      BY <2>2 DEF AutoBar, Clearing
    <2>4. ASSUME NEW i \in Leds
          PROVE  OverBar[i] = SetOver(t)[i]
      <3>1. CASE ToSet(t, i) # {}
        <4>1. (CHOOSE u \in Tasks : Setting(u) /\ ToSet(u, i) # {}) = t
          BY <3>1, <2>1, <1>3
        <4> QED
          BY <4>1, <3>1, <1>3 DEF OverBar, SetOver
      <3>2. CASE ToSet(t, i) = {}
        BY <3>2, <2>1, <2>2 DEF OverBar, SetOver
      <3> QED
        BY <3>1, <3>2
    <2> QED
      BY <2>3, <2>4 DEF OverBar, SetOver
  <1>4. ASSUME NEW t \in Tasks, Clearing(t)
        PROVE  /\ AutoBar = IF pc[t] = "state" THEN op[t].to ELSE state
               /\ OverBar = ClearOver(t)
    <2>1. \A u \in Tasks : Setting(u) \/ Clearing(u) => u = t
      BY <1>1, <1>4
    <2>2. \A u \in Tasks : ~Setting(u)
      BY <2>1, <1>2, <1>4
    <2>3. AutoBar = IF pc[t] = "state" THEN op[t].to ELSE state
      <3>1. CASE pc[t] = "state"
        <4>1. (CHOOSE u \in Tasks : pc[u] = "state") = t
          BY <3>1, <2>1 DEF Clearing
        <4> QED
          BY <4>1, <3>1 DEF AutoBar
      <3>2. CASE pc[t] # "state"
        BY <3>2, <2>1 DEF AutoBar, Clearing
      <3> QED
        BY <3>1, <3>2
    <2>4. ASSUME NEW i \in Leds
          PROVE  OverBar[i] = ClearOver(t)[i]
      <3>1. (\E u \in Tasks : Clearing(u) /\ ToClear(u, i) # {}) <=> ToClear(t, i) # {}
        BY <2>1, <1>4
      <3> QED
        BY <3>1, <2>2, Deactivated DEF OverBar, ClearOver
    <2> QED
      BY <2>3, <2>4 DEF OverBar, ClearOver
  <1>5. NoWriter => AutoBar = state /\ OverBar = PlainOver
    BY DEF NoWriter, AutoBar, OverBar, PlainOver, Clearing
  <1> QED
    BY <1>3, <1>4, <1>5 DEF Bars
-----------------------------------------------------------------------------
\* Under the mutex nobody disturbs a command that is half stored.
LEMMA NextStoreInv ==
  ASSUME LockCreated, TInv, Mutex, StoreInv, [Next]_vars
  PROVE  StoreInv'
  <1> USE DEF TInv, TypeOK, Goto, shared, Advance, At, Item
  <1>0. \A t, u \in Tasks : pc[t] \in Body /\ pc[u] \in Body => t = u
    BY DEF Mutex
  <1>1. ASSUME NEW t \in Tasks, NEW c, Invoke(t, c)
        PROVE  StoreInv'
    BY <1>1 DEF StoreInv, Invoke
  <1>2. ASSUME NEW t \in Tasks, Lock(t)
        PROVE  StoreInv'
    <2>1. pc[t] = "lock" /\ UNCHANGED <<active, color, op, idx>>
      BY <1>2 DEF Lock, EnterBody
    <2>2. pc'[t] \in {"state", "gate", "clear", "resolve"}
      BY <1>2 DEF Lock, EnterBody
    <2>3. \A u \in Tasks \ {t} : pc'[u] = pc[u]
      BY <1>2 DEF Lock, EnterBody
    <2> QED
      BY <2>1, <2>2, <2>3 DEF StoreInv
  <1>3. ASSUME NEW t \in Tasks, Gate(t)
        PROVE  StoreInv'
    BY <1>3 DEF StoreInv, Gate
  <1>4. ASSUME NEW t \in Tasks,
               \/ StoreActive(t) \/ StoreColor(t) \/ StoreBlink(t)
               \/ StoreState(t) \/ ClearActive(t)
        PROVE  StoreInv'
    <2>1. \A u \in Tasks \ {t} : pc[u] \notin Body /\ pc'[u] = pc[u]
      BY <1>4, <1>0 DEF StoreActive, StoreColor, StoreBlink, StoreState, ClearActive,
                        Body, Storing
    <2>2. ASSUME NEW u \in Tasks \ {t}
          PROVE  pc'[u] \notin {"color", "blink"}
      BY <2>1 DEF Body, Storing
    <2>3. /\ pc'[t] \in {"color", "blink"} => active'[Item(t)'.id]
          /\ pc'[t] = "blink" => color'[Item(t)'.id] = Item(t)'.color
      <3>1. CASE StoreActive(t)
        <4>1. op[t] \in AnyCall /\ ArgsValid(op[t]) /\ op[t].kind = "set"
          BY <3>1 DEF StoreActive, CallOK
        <4>2. Item(t).id \in Leds
          BY <4>1, <3>1, SetItems DEF StoreActive, LoopDone
        <4> QED
          BY <3>1, <4>2 DEF StoreActive
      <3>2. CASE StoreColor(t)
        <4>1. op[t] \in AnyCall /\ ArgsValid(op[t]) /\ op[t].kind = "set"
          BY <3>2 DEF StoreColor, CallOK
        <4>2. Item(t).id \in Leds
          BY <4>1, <3>2, SetItems DEF StoreColor, LoopDone
        <4> QED
          BY <3>2, <4>2 DEF StoreColor, StoreInv
      <3>3. CASE StoreBlink(t)
        BY <3>3 DEF StoreBlink
      <3>4. CASE StoreState(t)
        BY <3>4 DEF StoreState
      <3>5. CASE ClearActive(t)
        BY <3>5 DEF ClearActive
      <3> QED
        BY <3>1, <3>2, <3>3, <3>4, <3>5, <1>4
    <2> QED
      BY <2>2, <2>3 DEF StoreInv
  <1>5. ASSUME NEW t \in Tasks,
               LoadState(t) \/ LoadActive(t) \/ LoadColor(t) \/ LoadBlink(t)
        PROVE  StoreInv'
    <2>1. pc[t] \in Resolving /\ Inner(t)
      BY <1>5 DEF LoadState, LoadActive, LoadColor, LoadBlink, Resolving, Inner
    <2>2. /\ UNCHANGED <<active, color, op>>
          /\ \A u \in Tasks \ {t} : pc'[u] = pc[u] /\ idx'[u] = idx[u]
      BY <1>5, <2>1, SharedUnchanged, InnerStep
    <2>3. pc'[t] \in Resolving
      BY <1>5 DEF LoadState, LoadActive, LoadColor, LoadBlink, Emit, Resolving
    <2> QED
      BY <2>1, <2>2, <2>3 DEF StoreInv, Resolving
  <1>6. ASSUME NEW t \in Tasks, Unlock(t) \/ Transmit(t)
        PROVE  StoreInv'
    <2>1. /\ pc'[t] \in {"transmit", "idle"}
          /\ UNCHANGED <<active, color>>
          /\ \A u \in Tasks \ {t} : pc'[u] = pc[u] /\ idx'[u] = idx[u] /\ op'[u] = op[u]
      BY <1>6 DEF Unlock, Leave, Transmit
    <2> QED
      BY <2>1 DEF StoreInv
  <1>7. CASE UNCHANGED vars
    BY <1>7 DEF vars, StoreInv
  <1>8. Renderer \in Tasks /\ Callers \subseteq Tasks
    BY DEF Tasks
  <1> QED
    BY <1>1, <1>2, <1>3, <1>4, <1>5, <1>6, <1>7, <1>8 DEF Next, Step

\* The invariant of the refinement.
LEMMA InitRInv == Init => RInv
  <1> SUFFICES ASSUME Init PROVE RInv
    OBVIOUS
  <1>1. TInv
    BY InitTInv
  <1>2. Mutex
    BY LedAssumption DEF Init, Mutex, Body, Storing, Resolving
  <1>3. GateInv /\ ReadInv /\ StoreInv
    BY DEF Init, GateInv, Setting, ReadInv, Resolving, StoreInv
  <1> QED
    BY <1>1, <1>2, <1>3, BarsFollow DEF RInv, SInv

\* It holds of the specification.
LEMMA RInvHolds ==
  ASSUME LockCreated
  PROVE  Spec => []RInv
  <1> DEFINE I == SInv /\ StoreInv
  <1>1. Init => I
    BY InitRInv DEF RInv
  <1>2. I /\ [Next]_vars => I'
    BY NextTInv, NextMutex, NextGateInv, NextReadInv, NextStoreInv DEF SInv
  <1>3. I => RInv
    BY BarsFollow DEF RInv, SInv
  <1> QED
    BY <1>1, <1>2, <1>3, PTL DEF Spec

-----------------------------------------------------------------------------
\* A step of task t leaves the others where they are, and what they read.
Others(t) ==
    \A u \in Tasks \ {t} :
        /\ pc'[u] = pc[u] /\ op'[u] = op[u] /\ idx'[u] = idx[u] /\ buf'[u] = buf[u]
        /\ pc[u] \in Resolving => UNCHANGED <<state, active, color, blink>>

\* Then the mapping changes at t only.
LEMMA OneTask ==
  ASSUME NEW t \in Tasks, Others(t)
  PROVE  /\ StageBar' = [StageBar EXCEPT ![t] = StageOf(t)']
         /\ AnsBar' = [AnsBar EXCEPT ![t] = AnsOf(t)']
         /\ SeenBar' = [SeenBar EXCEPT ![t] = SeenOf(t)']
         /\ StageBar[t] = StageOf(t) /\ AnsBar[t] = AnsOf(t) /\ SeenBar[t] = SeenOf(t)
         /\ StageOf(t)' = StageOf(t) => StageBar' = StageBar
         /\ AnsOf(t)' = AnsOf(t) => AnsBar' = AnsBar
         /\ SeenOf(t)' = SeenOf(t) => SeenBar' = SeenBar
  <1>1. ASSUME NEW u \in Tasks \ {t}
        PROVE  /\ StageOf(u)' = StageOf(u)
               /\ AnsOf(u)' = AnsOf(u)
               /\ SeenOf(u)' = SeenOf(u)
    <2>1. StageOf(u)' = StageOf(u)
      BY DEF Others, StageOf
    <2>2. AnsOf(u)' = AnsOf(u)
      BY DEF Others, AnsOf, Setting, Clearing
    <2>3. SeenOf(u)' = SeenOf(u)
      <3>1. CASE pc[u] \in Resolving
        <4>1. UNCHANGED <<state, active, color, blink>>
          BY <3>1 DEF Others
        <4>2. \A i : Override(i)' = Override(i)
          BY <4>1 DEF Override
        <4> QED
          BY <3>1, <4>1, <4>2 DEF Others, SeenOf
      <3>2. CASE pc[u] \notin Resolving
        BY <3>2 DEF Others, SeenOf
      <3> QED
        BY <3>1, <3>2
    <2> QED
      BY <2>1, <2>2, <2>3
  <1>2. StageBar = [u \in Tasks |-> StageOf(u)] /\ AnsBar = [u \in Tasks |-> AnsOf(u)]
    BY DEF StageBar, StageOf, AnsBar, AnsOf
  <1>3. SeenBar = [u \in Tasks |-> SeenOf(u)]
    BY DEF SeenBar, SeenOf
  <1>4. /\ StageBar' = [u \in Tasks |-> StageOf(u)']
        /\ AnsBar' = [u \in Tasks |-> AnsOf(u)']
        /\ SeenBar' = [u \in Tasks |-> SeenOf(u)']
    BY DEF StageBar, StageOf, AnsBar, AnsOf, SeenBar, SeenOf
  <1>5. /\ StageBar' = [StageBar EXCEPT ![t] = StageOf(t)']
        /\ StageOf(t)' = StageOf(t) => StageBar' = StageBar
    BY <1>1, <1>2, <1>4
  <1>6. /\ AnsBar' = [AnsBar EXCEPT ![t] = AnsOf(t)']
        /\ AnsOf(t)' = AnsOf(t) => AnsBar' = AnsBar
    BY <1>1, <1>2, <1>4
  <1>7. /\ SeenBar' = [SeenBar EXCEPT ![t] = SeenOf(t)']
        /\ SeenOf(t)' = SeenOf(t) => SeenBar' = SeenBar
    BY <1>1, <1>3, <1>4
  <1> QED
    BY <1>2, <1>3, <1>5, <1>6, <1>7

-----------------------------------------------------------------------------
\* While nobody takes up or goes on with a write, the mapping stands still.
LEMMA QuietMemory ==
  ASSUME RInv, RInv', UNCHANGED <<state, active, color, blink>>,
         \A u \in Tasks : Setting(u) \/ Clearing(u) \/ Setting(u)' \/ Clearing(u)' =>
             pc'[u] = pc[u] /\ op'[u] = op[u] /\ idx'[u] = idx[u]
  PROVE  AutoBar' = AutoBar /\ OverBar' = OverBar
  <1>1. \A i : Override(i)' = Override(i)
    BY DEF Override
  <1>2. CASE NoWriter
    <2>1. NoWriter'
      BY <1>2 DEF NoWriter, Setting, Clearing
    <2> QED
      BY <1>1, <1>2, <2>1 DEF RInv, Bars, PlainOver
  <1>3. ASSUME NEW t \in Tasks, Setting(t)
        PROVE  AutoBar' = AutoBar /\ OverBar' = OverBar
    <2>1. Setting(t)' /\ op'[t] = op[t] /\ idx'[t] = idx[t]
      BY <1>3 DEF Setting
    <2>2. \A i : ToSet(t, i)' = ToSet(t, i) /\ AfterSet(t, i)' = AfterSet(t, i)
      BY <2>1 DEF ToSet, AfterSet
    <2>3. SetOver(t)' = SetOver(t)
      BY <1>1, <2>2 DEF SetOver
    <2> QED
      BY <1>3, <2>1, <2>3 DEF RInv, Bars
  <1>4. ASSUME NEW t \in Tasks, Clearing(t)
        PROVE  AutoBar' = AutoBar /\ OverBar' = OverBar
    <2>1. Clearing(t)' /\ pc'[t] = pc[t] /\ op'[t] = op[t] /\ idx'[t] = idx[t]
      BY <1>4 DEF Clearing
    <2>2. \A i : ToClear(t, i)' = ToClear(t, i)
      BY <2>1 DEF ToClear
    <2>3. ClearOver(t)' = ClearOver(t)
      BY <1>1, <2>2 DEF ClearOver
    <2> QED
      BY <1>4, <2>1, <2>3 DEF RInv, Bars
  <1> QED
    BY <1>2, <1>3, <1>4 DEF NoWriter

\* The task in a body is the only one there.
LEMMA Alone ==
  ASSUME RInv, NEW t \in Tasks, pc[t] \in Body
  PROVE  \A u \in Tasks \ {t} : pc[u] \notin Body /\ ~Setting(u) /\ ~Clearing(u)
                                  /\ pc[u] \notin Resolving
  BY DEF RInv, SInv, Mutex, Setting, Clearing, Body, Storing, Resolving

\* A call is made.
LEMMA InvokeImplements ==
  ASSUME RInv, RInv', NEW t \in Tasks, NEW c, Invoke(t, c)
  PROVE  Atomic!AInvoke(t, c)
  <1> USE DEF RInv, SInv, TInv, TypeOK
  <1>1. /\ pc[t] = "idle" /\ pc' = [pc EXCEPT ![t] = "lock"]
        /\ op' = [op EXCEPT ![t] = c] /\ ArgsValid(c)
        /\ UNCHANGED <<state, active, color, blink, idx, buf>>
    BY DEF Invoke, Goto, shared
  <1>2. Others(t)
    BY <1>1 DEF Others
  <1>3. AutoBar' = AutoBar /\ OverBar' = OverBar
    BY <1>1, QuietMemory DEF Setting, Clearing
  <1>4. StageOf(t) = "idle" /\ StageOf(t)' = "called"
    BY <1>1 DEF StageOf
  <1>5. AnsOf(t)' = AnsOf(t)
    BY <1>1 DEF AnsOf, Setting, Clearing
  <1>6. SeenOf(t)' = SeenOf(t)
    BY <1>1 DEF SeenOf, Resolving
  <1>7. AnsBar' = AnsBar /\ SeenBar' = SeenBar
    BY <1>2, <1>5, <1>6, OneTask
  <1> QED
    BY <1>1, <1>2, <1>3, <1>4, <1>7, OneTask, SameConstants DEF Atomic!AInvoke

\* A task takes the lock: all but the set_custom functions take effect.
LEMMA LockImplements ==
  ASSUME LockCreated, RInv, RInv', NEW t \in Tasks, Lock(t)
  PROVE  Atomic!Serve(t) \/ UNCHANGED Atomic!avars
  <1> USE DEF RInv, SInv, TInv, TypeOK
  <1>1. /\ pc[t] = "lock" /\ lock = NoTask
        /\ UNCHANGED <<state, active, color, blink, op, idx, buf>>
        /\ op[t] \in AnyCall /\ ArgsValid(op[t]) /\ idx[t] = 1
    BY DEF Lock, EnterBody, shared, CallOK
  <1>2. pc' = [pc EXCEPT ![t] = CASE op[t].kind = "state" -> "state"
                                  [] op[t].kind = "set"   -> "gate"
                                  [] op[t].kind = "clear" -> "clear"
                                  [] OTHER                -> "resolve"]
    BY DEF Lock, EnterBody, Goto
  <1>3. \A u \in Tasks : pc[u] \notin Body
    BY <1>1, LedAssumption DEF Mutex
  <1>4. NoWriter /\ \A u \in Tasks : pc[u] \notin Resolving
    BY <1>3 DEF NoWriter, Setting, Clearing, Body, Storing, Resolving
  <1>5. AutoBar = state /\ OverBar = PlainOver
    BY <1>4 DEF Bars
  <1>6. Others(t)
    BY <1>1, <1>2, <1>4 DEF Others
  <1>7. StageOf(t) = "called" /\ AnsOf(t) = "none" /\ SeenOf(t) = buf[t]
    BY <1>1 DEF StageOf, AnsOf, SeenOf, Setting, Clearing, Resolving
  <1>8. \A i : Override(i)' = Override(i)
    BY <1>1 DEF Override
  <1>9. StageBar[t] = "called"
    BY <1>6, <1>7, OneTask
  <1>10. CASE op[t].kind = "set"
    <2>1. pc' = [pc EXCEPT ![t] = "gate"]
      BY <1>2, <1>10
    <2>2. StageOf(t)' = StageOf(t) /\ AnsOf(t)' = AnsOf(t) /\ SeenOf(t)' = SeenOf(t)
      BY <1>1, <1>7, <2>1 DEF StageOf, AnsOf, SeenOf, Setting, Clearing, Resolving
    <2>3. StageBar' = StageBar /\ AnsBar' = AnsBar /\ SeenBar' = SeenBar
      BY <1>6, <2>2, OneTask
    <2>4. AutoBar' = AutoBar /\ OverBar' = OverBar
      BY <1>1, <2>1, <1>4, QuietMemory DEF NoWriter, Setting, Clearing
    <2> QED
      BY <1>1, <2>3, <2>4 DEF Atomic!avars
  <1>11. CASE op[t].kind \in {"state", "clear"}
    <2>1. pc' = [pc EXCEPT ![t] = IF op[t].kind = "state" THEN "state" ELSE "clear"]
      BY <1>2, <1>11
    <2>2. Clearing(t)' /\ StageOf(t)' = "served" /\ AnsOf(t)' = "ok" /\ SeenOf(t)' = SeenOf(t)
      BY <1>1, <1>7, <2>1 DEF StageOf, AnsOf, SeenOf, Setting, Clearing, Resolving
    <2>3. AutoBar' = IF op[t].kind = "state" THEN op[t].to ELSE state
      BY <1>1, <2>1, <2>2 DEF Bars
    <2>4. OverBar' = Atomic!Cleared(Items(op[t]))
      <3>1. OverBar' = ClearOver(t)'
        BY <2>2 DEF Bars
      <3>2. DOMAIN Items(op[t]) = 1 .. Len(Items(op[t]))
        BY <1>1, <1>11, ClearItems
      <3>3. ASSUME NEW i \in Leds
            PROVE  ToClear(t, i)' # {} <=> \E k \in DOMAIN Items(op[t]) : Items(op[t])[k] = i
        BY <1>1, <3>2 DEF ToClear
      <3>4. ASSUME NEW i \in Leds
            PROVE  OverBar[i] = Override(i)
        BY <1>5 DEF PlainOver
      <3>5. ASSUME NEW i \in Leds
            PROVE  [OverBar[i] EXCEPT !.active = FALSE]
                       = [active |-> FALSE, color |-> color[i], blink |-> blink[i]]
        BY <3>4, Deactivated
      <3> QED
        BY <3>1, <3>3, <3>4, <3>5, <1>1, <1>8, SameConstants DEF ClearOver, Atomic!Cleared
    <2>5. /\ StageBar' = [StageBar EXCEPT ![t] = "served"]
          /\ AnsBar' = [AnsBar EXCEPT ![t] = "ok"]
          /\ SeenBar' = SeenBar
      BY <1>6, <2>2, OneTask
    <2>6. CASE op[t].kind = "state"
      <3>1. Items(op[t]) = Atomic!AllIds
        BY <2>6, SameConstants DEF Items
      <3>2. Atomic!ServeState(t)
        BY <2>6, <2>3, <2>4, <2>5, <3>1 DEF Atomic!ServeState
      <3> QED
        BY <3>2, <1>1, <1>9, <2>5 DEF Atomic!Serve
    <2>7. CASE op[t].kind = "clear"
      <3>1. Items(op[t]) = op[t].ids
        BY <2>7 DEF Items
      <3>2. Atomic!ServeClear(t)
        BY <2>7, <1>5, <2>3, <2>4, <2>5, <3>1 DEF Atomic!ServeClear
      <3> QED
        BY <3>2, <1>1, <1>9, <2>5 DEF Atomic!Serve
    <2> QED
      BY <1>11, <2>6, <2>7
  <1>12. CASE op[t].kind \in {"get", "render"}
    <2>1. pc' = [pc EXCEPT ![t] = "resolve"]
      BY <1>2, <1>12
    <2>2. StageOf(t)' = "served" /\ AnsOf(t)' = AnsOf(t)
      BY <1>1, <1>7, <2>1 DEF StageOf, AnsOf, Setting, Clearing
    <2>3. AutoBar' = AutoBar /\ OverBar' = OverBar
      BY <1>1, <2>1, <1>4, QuietMemory DEF NoWriter, Setting, Clearing
    <2>4. /\ op[t].ids \in Seq(Nat) /\ Len(op[t].ids) \in 1 .. LedCount
          /\ \A k \in 1 .. Len(op[t].ids) : op[t].ids[k] \in Nat
      BY <1>1, <1>12, ReadItems
    <2>5. SeenOf(t)' = [k \in 1 .. LedCount |->
                           IF k > Len(op[t].ids) THEN SeenBar[t][k]
                           ELSE IF ~Atomic!IdValid(op[t].ids[k]) THEN Atomic!Dark
                           ELSE Atomic!Resolved(AutoBar, OverBar[op[t].ids[k]], op[t].now)]
      <3>1. ASSUME NEW k \in 1 .. LedCount
            PROVE  SeenOf(t)'[k] =
                       IF k > Len(op[t].ids) THEN buf[t][k]
                       ELSE IF ~IdValid(op[t].ids[k]) THEN Dark
                       ELSE Resolved(state, Override(op[t].ids[k]), op[t].now)
        BY <1>1, <2>1, <2>4, <1>8, LedAssumption DEF SeenOf, Resolving
      <3>2. ASSUME NEW k \in 1 .. LedCount, k <= Len(op[t].ids), IdValid(op[t].ids[k])
            PROVE  OverBar[op[t].ids[k]] = Override(op[t].ids[k])
        BY <3>2, <1>5, <2>4, LedAssumption DEF PlainOver, Leds, IdValid
      <3>3. SeenBar[t] = buf[t]
        BY <1>6, <1>7, OneTask
      <3>4. ASSUME NEW k \in 1 .. LedCount
            PROVE  SeenOf(t)'[k] =
                       IF k > Len(op[t].ids) THEN SeenBar[t][k]
                       ELSE IF ~Atomic!IdValid(op[t].ids[k]) THEN Atomic!Dark
                       ELSE Atomic!Resolved(AutoBar, OverBar[op[t].ids[k]], op[t].now)
        <4>1. CASE k > Len(op[t].ids)
          BY <4>1, <3>1, <3>3
        <4>2. CASE ~(k > Len(op[t].ids)) /\ ~IdValid(op[t].ids[k])
          BY <4>2, <3>1, SameConstants
        <4>3. CASE ~(k > Len(op[t].ids)) /\ IdValid(op[t].ids[k])
          <5>1. k <= Len(op[t].ids)
            BY <4>3, <2>4
          <5>2. OverBar[op[t].ids[k]] = Override(op[t].ids[k])
            BY <5>1, <4>3, <3>2
          <5> QED
            BY <5>2, <4>3, <3>1, <1>5, SameConstants
        <4> QED
          BY <4>1, <4>2, <4>3
      <3> QED
        BY <3>4 DEF SeenOf
    <2>6. /\ StageBar' = [StageBar EXCEPT ![t] = "served"]
          /\ AnsBar' = AnsBar
          /\ SeenBar' = [SeenBar EXCEPT ![t] = SeenOf(t)']
      BY <1>6, <2>2, OneTask
    <2>7. Atomic!ServeRead(t)
      BY <1>12, <2>3, <2>5, <2>6 DEF Atomic!ServeRead
    <2> QED
      BY <2>6, <2>7, <1>1, <1>9 DEF Atomic!Serve
  <1>13. op[t].kind \in {"state", "set", "clear", "get", "render"}
    BY <1>1 DEF AnyCall, Call, Render
  <1> QED
    BY <1>10, <1>11, <1>12, <1>13

\* A task passes the gate, and its batch takes effect, or it is refused.
LEMMA GateImplements ==
  ASSUME RInv, RInv', NEW t \in Tasks, Gate(t)
  PROVE  Atomic!Serve(t)
  <1> USE DEF RInv, SInv, TInv, TypeOK
  <1>1. /\ pc[t] = "gate"
        /\ pc' = [pc EXCEPT ![t] = IF state = "connected" THEN "active" ELSE "reject"]
        /\ UNCHANGED <<state, active, color, blink, op, idx, buf>>
        /\ op[t] \in AnyCall /\ ArgsValid(op[t]) /\ idx[t] = 1 /\ op[t].kind = "set"
    BY DEF Gate, Goto, shared, CallOK
  <1>2. \A u \in Tasks \ {t} : pc[u] \notin Body /\ ~Setting(u) /\ ~Clearing(u)
                                 /\ pc[u] \notin Resolving
    BY <1>1, Alone DEF Body
  <1>3. NoWriter
    BY <1>1, <1>2 DEF NoWriter, Setting, Clearing
  <1>4. AutoBar = state /\ OverBar = PlainOver
    BY <1>3 DEF Bars
  <1>5. Others(t)
    BY <1>1, <1>2 DEF Others
  <1>6. StageOf(t) = "called" /\ StageOf(t)' = "served"
    BY <1>1 DEF StageOf
  <1>7. SeenOf(t)' = SeenOf(t)
    BY <1>1 DEF SeenOf, Resolving
  <1>8. /\ StageBar[t] = "called"
        /\ StageBar' = [StageBar EXCEPT ![t] = "served"]
        /\ SeenBar' = SeenBar
    BY <1>5, <1>6, <1>7, OneTask
  <1>9. \A i : Override(i)' = Override(i)
    BY <1>1 DEF Override
  <1>10. CASE state = "connected"
    <2>1. pc'[t] = "active" /\ Setting(t)'
      BY <1>1, <1>10 DEF Setting
    <2>2. AnsBar' = [AnsBar EXCEPT ![t] = "ok"]
      <3>1. AnsOf(t)' = "ok"
        BY <2>1 DEF AnsOf
      <3> QED
        BY <3>1, <1>5, OneTask
    <2>3. AutoBar' = AutoBar
      BY <2>1, <1>1, <1>4 DEF Bars
    <2>4. OverBar' = Atomic!Overridden(op[t].cmds)
      <3>1. OverBar' = SetOver(t)'
        BY <2>1 DEF Bars
      <3>2. Items(op[t]) = op[t].cmds /\ DOMAIN op[t].cmds = 1 .. Len(op[t].cmds)
        <4>1. Items(op[t]) = op[t].cmds
          BY <1>1 DEF Items
        <4> QED
          BY <4>1, <1>1, SetItems
      <3>3. ASSUME NEW i \in Leds
            PROVE  ToSet(t, i)' = {k \in DOMAIN op[t].cmds : op[t].cmds[k].id = i}
        BY <1>1, <3>2 DEF ToSet
      <3>4. ASSUME NEW i \in Leds
            PROVE  SetOver(t)'[i] = Atomic!Overridden(op[t].cmds)[i]
        <4> DEFINE ks == {k \in DOMAIN op[t].cmds : op[t].cmds[k].id = i}
        <4>1. ToSet(t, i)' = ks
          BY <3>3
        <4>2. OverBar[i] = Override(i)
          BY <1>4 DEF PlainOver
        <4>3. SetOver(t)'[i] = IF ks # {} THEN AfterSet(t, i)' ELSE Override(i)
          BY <4>1, <1>9 DEF SetOver
        <4>4. AfterSet(t, i)' = [active |-> TRUE, color |-> op[t].cmds[LastOf(ks)].color,
                                 blink |-> op[t].cmds[LastOf(ks)].blink]
          BY <4>1, <3>2, <1>1 DEF AfterSet
        <4>5. Atomic!Overridden(op[t].cmds)[i] =
                  IF ks = {} THEN OverBar[i]
                  ELSE [active |-> TRUE, color |-> op[t].cmds[LastOf(ks)].color,
                        blink |-> op[t].cmds[LastOf(ks)].blink]
          BY SameConstants DEF Atomic!Overridden, LastOf
        <4> QED
          BY <4>2, <4>3, <4>4, <4>5
      <3> QED
        BY <3>1, <3>4, SameConstants DEF SetOver, Atomic!Overridden
    <2>5. Atomic!ServeSet(t)
      BY <1>1, <1>4, <1>8, <1>10, <2>2, <2>3, <2>4 DEF Atomic!ServeSet
    <2> QED
      BY <2>5, <1>1, <1>8 DEF Atomic!Serve
  <1>11. CASE state # "connected"
    <2>1. pc' = [pc EXCEPT ![t] = "reject"]
      BY <1>1, <1>11
    <2>2. AnsBar' = [AnsBar EXCEPT ![t] = "invalid_state"]
      <3>1. AnsOf(t)' = "invalid_state"
        BY <2>1 DEF AnsOf, Setting, Clearing
      <3> QED
        BY <3>1, <1>5, OneTask
    <2>3. AutoBar' = AutoBar /\ OverBar' = OverBar
      BY <1>1, <1>3, <2>1, QuietMemory DEF NoWriter, Setting, Clearing
    <2>4. Atomic!ServeSet(t)
      BY <1>1, <1>4, <1>8, <1>11, <2>2, <2>3 DEF Atomic!ServeSet
    <2> QED
      BY <2>4, <1>1, <1>8 DEF Atomic!Serve
  <1> QED
    BY <1>10, <1>11

\* A step inside a write leaves all of the mapping but for the memory.
LEMMA WriterStutters ==
  ASSUME RInv, NEW t \in Tasks, Setting(t) \/ Clearing(t), Setting(t)' \/ Clearing(t)',
         Inner(t)
  PROVE  UNCHANGED <<StageBar, op, AnsBar, SeenBar>>
  <1>1. /\ pc[t] \in Body /\ op' = op
        /\ \A u \in Tasks \ {t} : idx'[u] = idx[u] /\ buf'[u] = buf[u] /\ pc'[u] = pc[u]
    BY InnerStep DEF RInv, SInv, TInv, TypeOK
  <1>2. Others(t)
    BY <1>1, Alone DEF Others
  <1>3. buf' = buf
    BY DEF Inner, Setting, Clearing, Gate, StoreActive, StoreColor, StoreBlink, StoreState,
           ClearActive, LoadState, LoadActive, LoadColor, LoadBlink, At
  <1>4. StageOf(t)' = StageOf(t) /\ AnsOf(t)' = AnsOf(t)
    BY DEF StageOf, AnsOf, Setting, Clearing
  <1>5. SeenOf(t)' = SeenOf(t)
    BY <1>3 DEF SeenOf, Setting, Clearing, Resolving
  <1> QED
    BY <1>1, <1>2, <1>4, <1>5, OneTask

\* The stores of a command are counted already.
LEMMA StoreImplements ==
  ASSUME RInv, RInv', NEW t \in Tasks, StoreActive(t) \/ StoreColor(t) \/ StoreBlink(t)
  PROVE  UNCHANGED Atomic!avars
  <1> USE DEF RInv, SInv, TInv, TypeOK
  <1>1. /\ Setting(t) /\ Setting(t)' /\ ~LoopDone(t)
        /\ UNCHANGED <<state, op>>
        /\ op[t] \in AnyCall /\ ArgsValid(op[t]) /\ op[t].kind = "set"
    BY DEF StoreActive, StoreColor, StoreBlink, Goto, At, Setting, CallOK
  <1>2. UNCHANGED <<StageBar, op, AnsBar, SeenBar>>
    BY <1>1, WriterStutters DEF Inner
  <1>3. AutoBar' = AutoBar /\ OverBar = SetOver(t) /\ OverBar' = SetOver(t)'
    BY <1>1 DEF Bars
  <1> DEFINE its == Items(op[t])
             n == idx[t]
  <1>4. /\ n \in 1 .. Len(its) /\ Len(its) \in Nat /\ its[n].id \in Leds
        /\ Item(t) = its[n]
    BY <1>1, SetItems DEF LoopDone, Item
  <1>5. ASSUME NEW i \in Leds
        PROVE  SetOver(t)'[i] = SetOver(t)[i]
    <2>1. CASE StoreActive(t) \/ StoreColor(t)
      <3>1. ToSet(t, i)' = ToSet(t, i) /\ AfterSet(t, i)' = AfterSet(t, i)
        BY <2>1, <1>1 DEF StoreActive, StoreColor, ToSet, AfterSet
      <3>2. CASE i = its[n].id
        <4>1. n \in ToSet(t, i)
          BY <3>2, <1>4 DEF ToSet
        <4> QED
          BY <4>1, <3>1 DEF SetOver
      <3>3. CASE i # its[n].id
        <4>1. Override(i)' = Override(i)
          BY <3>3, <2>1, <1>4 DEF StoreActive, StoreColor, Override
        <4> QED
          BY <4>1, <3>1 DEF SetOver
      <3> QED
        BY <3>2, <3>3
    <2>2. CASE StoreBlink(t)
      <3>1. /\ pc[t] = "blink" /\ idx' = [idx EXCEPT ![t] = n + 1]
            /\ blink' = [blink EXCEPT ![its[n].id] = its[n].blink]
            /\ UNCHANGED <<active, color>>
        BY <2>2, <1>4 DEF StoreBlink, Advance, At
      <3>2. ToSet(t, i)' = {k \in n + 1 .. Len(its) : its[k].id = i}
        BY <3>1, <1>1 DEF ToSet
      <3>3. ToSet(t, i) = {k \in n .. Len(its) : its[k].id = i}
        BY DEF ToSet
      <3>4. CASE i # its[n].id
        <4>1. ToSet(t, i)' = ToSet(t, i)
          BY <3>2, <3>3, <3>4, <1>4
        <4>2. AfterSet(t, i)' = AfterSet(t, i)
          BY <4>1, <1>1 DEF AfterSet
        <4>3. Override(i)' = Override(i)
          BY <3>1, <3>4 DEF Override
        <4> QED
          BY <4>1, <4>2, <4>3 DEF SetOver
      <3>5. CASE i = its[n].id /\ ToSet(t, i)' # {}
        <4>1. \A k : (k \in ToSet(t, i)' /\ \A j \in ToSet(t, i)' : j <= k)
                       <=> (k \in ToSet(t, i) /\ \A j \in ToSet(t, i) : j <= k)
          <5>1. ToSet(t, i) = ToSet(t, i)' \cup {n}
            BY <3>2, <3>3, <3>5, <1>4
          <5>2. \A j \in ToSet(t, i)' : j \in Nat /\ n < j
            BY <3>2, <1>4
          <5> QED
            BY <5>1, <5>2, <3>5, <1>4
        <4>2. LastOf(ToSet(t, i)') = LastOf(ToSet(t, i))
          BY <4>1 DEF LastOf
        <4>3. AfterSet(t, i)' = AfterSet(t, i)
          BY <4>2, <1>1 DEF AfterSet
        <4>4. ToSet(t, i) # {}
          BY <3>2, <3>3, <3>5, <1>4
        <4> QED
          BY <4>3, <4>4, <3>5 DEF SetOver
      <3>6. CASE i = its[n].id /\ ToSet(t, i)' = {}
        <4>1. ToSet(t, i) = {n}
          BY <3>2, <3>3, <3>6, <1>4
        <4>2. LastOf(ToSet(t, i)) = n
          BY <4>1, <1>4 DEF LastOf
        <4>3. SetOver(t)[i] = [active |-> TRUE, color |-> its[n].color, blink |-> its[n].blink]
          BY <4>1, <4>2 DEF SetOver, AfterSet
        <4>4. active[i] /\ color[i] = its[n].color
          BY <3>1, <3>6, <1>4 DEF StoreInv
        <4>5. active[i] = TRUE
          BY <4>4
        <4>6. Override(i)' = [active |-> TRUE, color |-> its[n].color, blink |-> its[n].blink]
          BY <4>4, <4>5, <3>1, <3>6, <1>4 DEF Override
        <4> QED
          BY <4>3, <4>6, <3>6 DEF SetOver
      <3> QED
        BY <3>4, <3>5, <3>6
    <2> QED
      BY <2>1, <2>2
  <1>6. OverBar' = OverBar
    BY <1>3, <1>5 DEF SetOver
  <1> QED
    BY <1>2, <1>3, <1>6 DEF Atomic!avars

\* So are the stores of a clear and of a change of state.
LEMMA ClearImplements ==
  ASSUME RInv, RInv', NEW t \in Tasks, StoreState(t) \/ ClearActive(t)
  PROVE  UNCHANGED Atomic!avars
  <1> USE DEF RInv, SInv, TInv, TypeOK
  <1>1. /\ Clearing(t) /\ Clearing(t)' /\ UNCHANGED op
        /\ op[t] \in AnyCall /\ ArgsValid(op[t]) /\ op[t].kind \in {"state", "clear"}
    BY DEF StoreState, ClearActive, Goto, At, Clearing, CallOK
  <1>2. UNCHANGED <<StageBar, op, AnsBar, SeenBar>>
    BY <1>1, WriterStutters DEF Inner
  <1>3. /\ AutoBar = IF pc[t] = "state" THEN op[t].to ELSE state
        /\ AutoBar' = IF pc'[t] = "state" THEN op'[t].to ELSE state'
        /\ OverBar = ClearOver(t) /\ OverBar' = ClearOver(t)'
    BY <1>1 DEF Bars
  <1>4. AutoBar' = AutoBar
    BY <1>1, <1>3 DEF StoreState, ClearActive, Goto, At
  <1>5. CASE StoreState(t)
    <2>1. \A i : ToClear(t, i)' = ToClear(t, i) /\ Override(i)' = Override(i)
      BY <1>5 DEF StoreState, ToClear, Override
    <2>2. ClearOver(t)' = ClearOver(t)
      BY <2>1, <1>5 DEF ClearOver, StoreState
    <2> QED
      BY <2>2, <1>2, <1>3, <1>4 DEF Atomic!avars
  <1>6. CASE ClearActive(t)
    <2> DEFINE its == Items(op[t])
               n == idx[t]
    <2>1. /\ n \in 1 .. Len(its) /\ Len(its) \in Nat /\ its[n] \in Leds
          /\ idx' = [idx EXCEPT ![t] = n + 1]
          /\ active' = [active EXCEPT ![its[n]] = FALSE]
          /\ UNCHANGED <<color, blink>>
      BY <1>1, <1>6, ClearItems DEF ClearActive, LoopDone, Item, At, Advance
    <2>2. ASSUME NEW i \in Leds
          PROVE  ClearOver(t)'[i] = ClearOver(t)[i]
      <3>1. ToClear(t, i)' = {k \in n + 1 .. Len(its) : its[k] = i}
        BY <2>1, <1>1 DEF ToClear
      <3>2. ToClear(t, i) = {k \in n .. Len(its) : its[k] = i}
        BY DEF ToClear
      <3>3. CASE i # its[n]
        <4>1. ToClear(t, i)' = ToClear(t, i) /\ Override(i)' = Override(i)
          BY <3>1, <3>2, <3>3, <2>1 DEF Override
        <4> QED
          BY <4>1, <2>1 DEF ClearOver
      <3>4. CASE i = its[n]
        <4>1. n \in ToClear(t, i)
          BY <3>2, <3>4, <2>1
        <4>2. ClearOver(t)[i] = [active |-> FALSE, color |-> color[i], blink |-> blink[i]]
          BY <4>1 DEF ClearOver, Override
        <4>3. ClearOver(t)'[i] = [active |-> FALSE, color |-> color[i], blink |-> blink[i]]
          BY <3>4, <2>1 DEF ClearOver, Override
        <4> QED
          BY <4>2, <4>3
      <3> QED
        BY <3>3, <3>4
    <2>3. ClearOver(t)' = ClearOver(t)
      BY <2>2 DEF ClearOver
    <2> QED
      BY <2>3, <1>2, <1>3, <1>4 DEF Atomic!avars
  <1> QED
    BY <1>5, <1>6

\* What has been read already is what the call saw when it took effect.
LEMMA LoadImplements ==
  ASSUME RInv, RInv', NEW t \in Tasks,
         LoadState(t) \/ LoadActive(t) \/ LoadColor(t) \/ LoadBlink(t)
  PROVE  UNCHANGED Atomic!avars
  <1> USE DEF RInv, SInv, TInv, TypeOK
  <1>1. /\ pc[t] \in Resolving /\ pc'[t] \in Resolving /\ Inner(t) /\ ~LoopDone(t)
        /\ op[t] \in AnyCall /\ op[t].kind \in {"get", "render"}
    BY DEF LoadState, LoadActive, LoadColor, LoadBlink, Emit, Goto, At,
           Resolving, Inner, CallOK
  <1>2. /\ pc[t] \in Body /\ op' = op
        /\ \A u \in Tasks \ {t} : idx'[u] = idx[u] /\ buf'[u] = buf[u] /\ pc'[u] = pc[u]
    BY <1>1, InnerStep
  <1>3. UNCHANGED <<state, active, color, blink>>
    BY SharedUnchanged
  <1>4. \A i : Override(i)' = Override(i)
    BY <1>3 DEF Override
  <1>5. Others(t)
    BY <1>2, <1>3 DEF Others
  <1>6. StageOf(t)' = StageOf(t) /\ AnsOf(t)' = AnsOf(t)
    BY <1>1 DEF StageOf, AnsOf, Setting, Clearing, Resolving
  <1>7. AutoBar' = AutoBar /\ OverBar' = OverBar
    BY <1>1, <1>2, <1>3, QuietMemory, Alone DEF Setting, Clearing, Resolving
  <1> DEFINE ids == op[t].ids
             n == idx[t]
  <1>8. /\ Items(op[t]) = ids /\ Len(ids) \in 1 .. LedCount /\ n \in 1 .. Len(ids)
        /\ Item(t) = ids[n]
    BY <1>1, ReadItems, LedAssumption DEF LoopDone, Item
  <1>9. CASE idx' = idx /\ buf' = buf
    <2>1. SeenOf(t)' = SeenOf(t)
      BY <1>1, <1>2, <1>3, <1>4, <1>9 DEF SeenOf
    <2> QED
      BY <2>1, <1>2, <1>5, <1>6, <1>7, OneTask DEF Atomic!avars
  <1>10. CASE idx' = [idx EXCEPT ![t] = n + 1]
    <2>0. n \in 1 .. LedCount /\ buf[t] \in [1 .. LedCount -> Output]
      BY <1>8, LedAssumption
    <2>1. /\ \A k \in 1 .. LedCount : k # n => buf'[t][k] = buf[t][k]
          /\ ~IdValid(ids[n]) => buf'[t][n] = Dark
      <3>1. CASE LoadState(t)
        <4>1. idx'[t] # idx[t]
          BY <1>10, <1>8
        <4>2. buf' = [buf EXCEPT ![t] = [buf[t] EXCEPT ![n] = Dark]]
          BY <3>1, <4>1 DEF LoadState
        <4>3. buf'[t] = [buf[t] EXCEPT ![n] = Dark]
          BY <4>2
        <4> QED
          BY <4>3, <2>0
      <3>2. CASE LoadActive(t)
        <4>1. IdValid(ids[n])
          BY <3>2, <1>8 DEF LoadActive, At, CallOK
        <4>2. idx'[t] # idx[t]
          BY <1>10, <1>8
        <4>3. \E v : buf' = [buf EXCEPT ![t] = [buf[t] EXCEPT ![n] = v]]
          BY <3>2, <4>2 DEF LoadActive, Emit
        <4>4. \E v : buf'[t] = [buf[t] EXCEPT ![n] = v]
          BY <4>3
        <4> QED
          BY <4>1, <4>4, <2>0
      <3>3. CASE LoadColor(t)
        BY <3>3, <1>10 DEF LoadColor
      <3>4. CASE LoadBlink(t)
        <4>1. IdValid(ids[n])
          BY <3>4, <1>8 DEF LoadBlink, At, CallOK
        <4>2. \E v : buf' = [buf EXCEPT ![t] = [buf[t] EXCEPT ![n] = v]]
          BY <3>4 DEF LoadBlink, Emit
        <4>3. \E v : buf'[t] = [buf[t] EXCEPT ![n] = v]
          BY <4>2
        <4> QED
          BY <4>1, <4>3, <2>0
      <3> QED
        BY <3>1, <3>2, <3>3, <3>4
    <2>2. IdValid(ids[n]) => buf'[t][n] = Resolved(state, Override(ids[n]), op[t].now)
      <3>1. ReadOK(t)'
        BY <1>1 DEF ReadInv
      <3>2. idx'[t] = n + 1 /\ n \in 1 .. idx'[t] - 1
        BY <1>8, <1>10
      <3>3. \A k \in 1 .. idx'[t] - 1 :
                k <= Len(op[t].ids) /\ IdValid(op[t].ids[k]) =>
                    buf'[t][k] = Resolved(state, Override(op[t].ids[k]), op[t].now)
        BY <3>1, <1>2, <1>3 DEF ReadOK, Override
      <3>4. n <= Len(ids)
        BY <1>8
      <3> HIDE DEF n
      <3> QED
        BY <3>2, <3>3, <3>4
    <2>3. ASSUME NEW k \in 1 .. LedCount
          PROVE  SeenOf(t)'[k] = SeenOf(t)[k]
      <3>1. SeenOf(t)'[k] = IF k \in n + 1 .. Len(ids)
                            THEN IF IdValid(ids[k])
                                 THEN Resolved(state, Override(ids[k]), op[t].now) ELSE Dark
                            ELSE buf'[t][k]
        BY <1>1, <1>2, <1>3, <1>4, <1>10 DEF SeenOf
      <3>2. SeenOf(t)[k] = IF k \in n .. Len(ids)
                           THEN IF IdValid(ids[k])
                                THEN Resolved(state, Override(ids[k]), op[t].now) ELSE Dark
                           ELSE buf[t][k]
        BY <1>1 DEF SeenOf
      <3>3. CASE k = n
        BY <3>1, <3>2, <3>3, <2>1, <2>2, <1>8
      <3>4. CASE k # n
        BY <3>1, <3>2, <3>4, <2>1, <1>8
      <3> QED
        BY <3>3, <3>4
    <2>4. SeenOf(t)' = SeenOf(t)
      BY <2>3 DEF SeenOf
    <2> QED
      BY <2>4, <1>2, <1>5, <1>6, <1>7, OneTask DEF Atomic!avars
  <1>11. (idx' = idx /\ buf' = buf) \/ idx' = [idx EXCEPT ![t] = n + 1]
    BY DEF LoadState, LoadActive, LoadColor, LoadBlink, Emit, Advance
  <1> QED
    BY <1>9, <1>10, <1>11

\* A call returns, or render goes on to its sink.
LEMMA UnlockImplements ==
  ASSUME RInv, RInv', NEW t \in Tasks, Unlock(t)
  PROVE  Atomic!Return(t) \/ UNCHANGED Atomic!avars
  <1> USE DEF RInv, SInv, TInv, TypeOK
  <1>1. /\ AtEnd(t) /\ pc[t] \in Body /\ pc[t] # "gate"
        /\ UNCHANGED <<state, active, color, blink>>
        /\ op[t] \in AnyCall /\ ArgsValid(op[t])
    BY DEF Unlock, Leave, AtEnd, shared, Body, Storing, Resolving, CallOK
  <1>2. /\ pc' = [pc EXCEPT ![t] = IF op[t].kind = "render" THEN "transmit" ELSE "idle"]
        /\ op' = IF op[t].kind = "render" THEN op ELSE [op EXCEPT ![t] = NoCall]
        /\ idx' = [idx EXCEPT ![t] = 1]
        /\ buf' = IF op[t].kind = "get"
                  THEN [buf EXCEPT ![t] = [k \in 1 .. LedCount |-> Dark]] ELSE buf
    BY DEF Unlock, Leave, Goto
  <1>3. Others(t)
    BY <1>1, <1>2 DEF Others
  <1>4. \A u \in Tasks : ~Setting(u)' /\ ~Clearing(u)'
    BY <1>1, <1>2, Alone DEF Setting, Clearing
  <1>5. AutoBar' = state /\ OverBar' = PlainOver
    <2>1. NoWriter'
      BY <1>4 DEF NoWriter
    <2>2. AutoBar' = state' /\ OverBar' = PlainOver'
      BY <2>1 DEF Bars
    <2>3. PlainOver' = PlainOver
      BY <1>1 DEF PlainOver, Override
    <2> QED
      BY <2>2, <2>3, <1>1
  <1>6. AutoBar = state /\ OverBar = PlainOver
    <2>1. CASE Setting(t)
      <3>1. pc[t] = "active" /\ LoopDone(t) /\ op[t].kind = "set"
        BY <2>1, <1>1 DEF AtEnd, Setting, CallOK
      <3>2. \A i : ToSet(t, i) = {}
        BY <3>1, <1>1, SetItems DEF ToSet, LoopDone
      <3> QED
        BY <2>1, <3>2 DEF Bars, SetOver, PlainOver
    <2>2. CASE Clearing(t)
      <3>1. pc[t] = "clear" /\ LoopDone(t) /\ op[t].kind \in {"state", "clear"}
        BY <2>2, <1>1 DEF AtEnd, Clearing, CallOK
      <3>2. \A i : ToClear(t, i) = {}
        BY <3>1, <1>1, ClearItems DEF ToClear, LoopDone
      <3> QED
        BY <2>2, <3>1, <3>2 DEF Bars, ClearOver, PlainOver
    <2>3. CASE ~Setting(t) /\ ~Clearing(t)
      <3>1. NoWriter
        BY <2>3, <1>1, Alone DEF NoWriter
      <3> QED
        BY <3>1 DEF Bars
    <2> QED
      BY <2>1, <2>2, <2>3
  <1>7. StageOf(t) = "served"
    BY <1>1 DEF StageOf, Body, Storing, Resolving
  <1>8. SeenOf(t) = buf[t]
    <2>1. CASE pc[t] \in Resolving
      <3>1. pc[t] = "resolve" /\ LoopDone(t) /\ op[t].kind \in {"get", "render"}
        BY <2>1, <1>1 DEF AtEnd, Resolving, CallOK
      <3>2. Items(op[t]) = op[t].ids /\ Len(op[t].ids) \in Nat /\ idx[t] > Len(op[t].ids)
        BY <3>1, <1>1, ReadItems, LedAssumption DEF LoopDone
      <3>3. \A k : k \notin idx[t] .. Len(op[t].ids)
        BY <3>2
      <3> QED
        BY <3>3 DEF SeenOf
    <2>2. CASE pc[t] \notin Resolving
      BY <2>2 DEF SeenOf
    <2> QED
      BY <2>1, <2>2
  <1>9. SeenOf(t)' = buf'[t]
    <2>1. pc'[t] \notin Resolving
      BY <1>2 DEF Resolving
    <2>2. buf'[t] \in [1 .. LedCount -> Output]
      OBVIOUS
    <2> QED
      BY <2>1, <2>2 DEF SeenOf
  <1>10. CASE op[t].kind = "render"
    <2>1. pc[t] = "resolve" /\ pc'[t] = "transmit" /\ op' = op /\ buf' = buf
      BY <1>1, <1>2, <1>10 DEF AtEnd, CallOK
    <2>2. StageOf(t)' = StageOf(t) /\ AnsOf(t)' = AnsOf(t) /\ SeenOf(t)' = SeenOf(t)
      BY <2>1, <1>8, <1>9 DEF StageOf, AnsOf, Setting, Clearing
    <2> QED
      BY <2>1, <2>2, <1>3, <1>5, <1>6, OneTask DEF Atomic!avars
  <1>11. CASE op[t].kind # "render"
    <2>1. pc'[t] = "idle" /\ op' = [op EXCEPT ![t] = NoCall]
      BY <1>2, <1>11
    <2>2. StageOf(t)' = "idle" /\ AnsOf(t)' = "none"
      BY <2>1 DEF StageOf, AnsOf, Setting, Clearing
    <2>3. SeenBar' = IF op[t].kind = "get"
                     THEN [SeenBar EXCEPT ![t] = Atomic!NothingSeen] ELSE SeenBar
      <3>1. CASE op[t].kind = "get"
        <4>1. SeenOf(t)' = [k \in 1 .. LedCount |-> Dark]
          BY <3>1, <1>2, <1>9
        <4>2. Atomic!NothingSeen = [k \in 1 .. LedCount |-> Dark]
          BY SameConstants DEF Atomic!NothingSeen
        <4> QED
          BY <3>1, <4>1, <4>2, <1>3, OneTask
      <3>2. CASE op[t].kind # "get"
        <4>1. SeenOf(t)' = SeenOf(t)
          BY <3>2, <1>2, <1>8, <1>9
        <4> QED
          BY <3>2, <4>1, <1>3, OneTask
      <3> QED
        BY <3>1, <3>2
    <2>4. /\ StageBar[t] = "served" /\ StageBar' = [StageBar EXCEPT ![t] = "idle"]
          /\ AnsBar' = [AnsBar EXCEPT ![t] = "none"]
      BY <2>2, <1>3, <1>7, OneTask
    <2> QED
      BY <2>1, <2>3, <2>4, <1>5, <1>6, SameConstants DEF Atomic!Return
  <1> QED
    BY <1>10, <1>11

\* The sink is done: render returns.
LEMMA TransmitImplements ==
  ASSUME RInv, RInv', NEW t \in Tasks, Transmit(t)
  PROVE  Atomic!Return(t)
  <1> USE DEF RInv, SInv, TInv, TypeOK
  <1>1. /\ pc[t] = "transmit" /\ pc' = [pc EXCEPT ![t] = "idle"]
        /\ op' = [op EXCEPT ![t] = NoCall] /\ op[t].kind = "render"
        /\ UNCHANGED <<state, active, color, blink, idx, buf>>
    BY DEF Transmit, Goto, shared, CallOK
  <1>2. Others(t)
    BY <1>1 DEF Others
  <1>3. AutoBar' = AutoBar /\ OverBar' = OverBar
    BY <1>1, QuietMemory DEF Setting, Clearing
  <1>4. StageOf(t) = "served" /\ StageOf(t)' = "idle" /\ AnsOf(t)' = "none"
    BY <1>1 DEF StageOf, AnsOf, Setting, Clearing
  <1>5. SeenOf(t)' = SeenOf(t)
    BY <1>1 DEF SeenOf, Resolving
  <1>6. /\ StageBar[t] = "served" /\ StageBar' = [StageBar EXCEPT ![t] = "idle"]
        /\ AnsBar' = [AnsBar EXCEPT ![t] = "none"] /\ SeenBar' = SeenBar
    BY <1>2, <1>4, <1>5, OneTask
  <1> QED
    BY <1>1, <1>3, <1>6, SameConstants DEF Atomic!Return

-----------------------------------------------------------------------------
\* The initial states of led_rgb.c are those of the abstract specification.
LEMMA InitImplements == Init => Atomic!AInit
  <1> SUFFICES ASSUME Init PROVE Atomic!AInit
    OBVIOUS
  <1>1. RInv /\ NoWriter
    BY InitRInv DEF Init, NoWriter, Setting, Clearing
  <1>2. AutoBar = "provisioning"
    BY <1>1 DEF RInv, Bars, Init
  <1>3. OverBar = [i \in Leds |-> [active |-> FALSE, color |-> "black", blink |-> 0]]
    BY <1>1 DEF RInv, Bars, Init, PlainOver, Override
  <1>4. StageBar = [t \in Tasks |-> "idle"] /\ AnsBar = [t \in Tasks |-> "none"]
    BY DEF Init, StageBar, AnsBar, Setting, Clearing
  <1>5. SeenBar = [t \in Tasks |-> [k \in 1 .. LedCount |-> Dark]]
    BY DEF Init, SeenBar, Resolving
  <1> QED
    BY <1>2, <1>3, <1>4, <1>5, SameConstants DEF Init, Atomic!AInit, Atomic!NothingSeen

\* Every step is a step of the abstract specification or leaves it as it is.
LEMMA StepImplements ==
  ASSUME LockCreated, RInv, RInv', [Next]_vars
  PROVE  [Atomic!ANext]_(Atomic!avars)
  <1>1. CASE \E t \in Callers : \E c \in Requests[t] : Invoke(t, c)
    <2>1. PICK t \in Callers : \E c \in Requests[t] : Invoke(t, c)
      BY <1>1
    <2>2. PICK c \in Requests[t] : Invoke(t, c)
      BY <2>1
    <2>3. Atomic!AInvoke(t, c)
      BY <2>2, InvokeImplements DEF Tasks
    <2> QED
      BY <2>3 DEF Atomic!ANext
  <1>2. CASE \E now \in Times : Invoke(Renderer, Render(now))
    <2>1. PICK now \in Times : Invoke(Renderer, Render(now))
      BY <1>2
    <2>2. Atomic!AInvoke(Renderer, Atomic!Render(now))
      BY <2>1, InvokeImplements, SameConstants DEF Tasks
    <2> QED
      BY <2>2 DEF Atomic!ANext
  <1>3. ASSUME NEW t \in Tasks, Step(t)
        PROVE  Atomic!Serve(t) \/ Atomic!Return(t) \/ UNCHANGED Atomic!avars
    BY <1>3, LockImplements, GateImplements, StoreImplements, ClearImplements,
       LoadImplements, UnlockImplements, TransmitImplements DEF Step
  <1>4. CASE \E t \in Tasks : Step(t)
    BY <1>3, <1>4, SameConstants DEF Atomic!ANext
  <1>5. CASE UNCHANGED vars
    <2>1. UNCHANGED <<AutoBar, OverBar, StageBar, op, AnsBar, SeenBar>>
      <3> USE <1>5 DEF vars, Setting, Clearing
      <3>1. UNCHANGED <<AutoBar, op>>
        BY DEF AutoBar
      <3>2. UNCHANGED <<StageBar, AnsBar>>
        BY DEF StageBar, AnsBar
      <3>3. \A i : Override(i)' = Override(i)
        BY DEF Override
      <3>4. UNCHANGED SeenBar
        BY <3>3 DEF SeenBar
      <3>5. UNCHANGED OverBar
        BY QuietMemory
      <3> QED
        BY <3>1, <3>2, <3>4, <3>5
    <2> QED
      BY <2>1 DEF Atomic!avars
  <1> QED
    BY <1>1, <1>2, <1>4, <1>5 DEF Next

\* led_rgb.h's functions are atomic: batches are all or nothing, the gate and
\* the update it guards are one step, the last command wins, and a frame is the
\* state of one instant, however the tasks interleave.
THEOREM Implements ==
  ASSUME LockCreated
  PROVE  Spec => Linearizable
  <1>1. Spec => []RInv
    BY RInvHolds
  <1>2. RInv /\ RInv' /\ [Next]_vars => [Atomic!ANext]_(Atomic!avars)
    BY StepImplements
  <1> QED
    BY <1>1, <1>2, InitImplements, PTL DEF Spec, Linearizable, Atomic!ASpec
=============================================================================
