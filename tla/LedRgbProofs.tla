---------------------------- MODULE LedRgbProofs ----------------------------
(***************************************************************************)
(* Proofs about led_driver_rmt.c, for a chain of WS2812 pixels of any      *)
(* length, and about led_rgb.c for any number of LEDs and tasks, any       *)
(* requests and any times.  Type correctness holds with or without the     *)
(* mutex; the other theorems assume that led_rgb_init has created it.      *)
(***************************************************************************)
EXTENDS LedRgb, TLAPS

-----------------------------------------------------------------------------
\* What led_driver_rmt.c puts on the wire for a frame.

\* Every colour has three bytes.
LEMMA RgbBytes ==
  ASSUME NEW c \in Colors
  PROVE  Rgb(c) \in [1 .. 3 -> 0 .. 255]
  <1>1. CASE c \in {"black", "blue", "amber", "green", "red"}
    BY <1>1 DEF Rgb
  <1>2. CASE c \notin {"black", "blue", "amber", "green", "red"}
    <2>1. c \in CustomColors /\ Rgb(c) = CustomRgb[c]
      BY <1>2 DEF Colors, Rgb
    <2> QED
      BY <2>1, LedAssumption
  <1> QED
    BY <1>1, <1>2

\* An LED shows three bytes, lit or dark.
LEMMA ShownBytes ==
  ASSUME NEW out \in Output
  PROVE  Shown(out) \in [1 .. 3 -> 0 .. 255]
  <1>1. Rgb(out.color) \in [1 .. 3 -> 0 .. 255]
    BY RgbBytes DEF Output
  <1> QED
    BY <1>1 DEF Shown

\* A byte is the sum of its bits.
LEMMA ByteOfBits ==
  ASSUME NEW byte \in 0 .. 255
  PROVE  byte = 128 * ((byte \div 128) % 2) + 64 * ((byte \div 64) % 2)
                  + 32 * ((byte \div 32) % 2) + 16 * ((byte \div 16) % 2)
                  + 8 * ((byte \div 8) % 2) + 4 * ((byte \div 4) % 2)
                  + 2 * ((byte \div 2) % 2) + ((byte \div 1) % 2)
  OBVIOUS

\* A pixel reads the byte that eight pulses encode.
LEMMA ByteLatched ==
  ASSUME NEW byte \in 0 .. 255, NEW pulses, NEW from \in Nat,
         \A k \in 1 .. 8 : pulses[from + k] = EncodeBit(BitSet(byte, k))
  PROVE  ByteAt(pulses, from) = byte
  <1>1. ASSUME NEW k \in 1 .. 8
        PROVE  One(pulses[from + k]) = (byte \div Weight[k]) % 2
    <2>1. Weight[k] \in Nat \ {0}
      BY DEF Weight
    <2>2. (byte \div Weight[k]) % 2 \in {0, 1}
      BY <2>1
    <2>3. One(EncodeBit(BitSet(byte, k))) = (byte \div Weight[k]) % 2
      BY <2>2 DEF One, EncodeBit, BitSet, Pulse
    <2> QED
      BY <2>3
  <1>2. /\ One(pulses[from + 1]) = (byte \div 128) % 2
        /\ One(pulses[from + 2]) = (byte \div 64) % 2
        /\ One(pulses[from + 3]) = (byte \div 32) % 2
        /\ One(pulses[from + 4]) = (byte \div 16) % 2
        /\ One(pulses[from + 5]) = (byte \div 8) % 2
        /\ One(pulses[from + 6]) = (byte \div 4) % 2
        /\ One(pulses[from + 7]) = (byte \div 2) % 2
        /\ One(pulses[from + 8]) = (byte \div 1) % 2
    BY <1>1 DEF Weight
  <1> HIDE DEF One
  <1>3. ByteAt(pulses, from) =
            128 * ((byte \div 128) % 2) + 64 * ((byte \div 64) % 2)
                  + 32 * ((byte \div 32) % 2) + 16 * ((byte \div 16) % 2)
                  + 8 * ((byte \div 8) % 2) + 4 * ((byte \div 4) % 2)
                  + 2 * ((byte \div 2) % 2) + ((byte \div 1) % 2)
    BY <1>2 DEF ByteAt, Weight
  <1> QED
    BY <1>3, ByteOfBits

\* Pixel i reads the bytes of entry i + 1.
LEMMA LatchedWire ==
  ASSUME NEW frame \in [1 .. LedCount -> Output], NEW i \in Leds
  PROVE  Latched(Wire(frame), i) = Shown(frame[i + 1])
  <1> DEFINE rgb == Shown(frame[i + 1])
  <1>0. LedCount \in Nat /\ i \in Nat /\ i < LedCount /\ Len(frame) = LedCount
    BY LedAssumption DEF Leds
  <1>1. rgb \in [1 .. 3 -> 0 .. 255]
    BY <1>0, ShownBytes
  <1>2. ASSUME NEW j \in 1 .. 24
        PROVE  Wire(frame)[i * 24 + j] = EncodeColor(rgb)[j]
    <2>1. i * 24 + j \in 1 .. LedCount * 24
      BY <1>0
    <2>2. ((i * 24 + j) - 1) \div 24 = i /\ ((i * 24 + j) - 1) % 24 = j - 1
      BY <1>0
    <2>3. Wire(frame)[i * 24 + j] =
              EncodeColor(Shown(frame[(((i * 24 + j) - 1) \div 24) + 1]))[(((i * 24 + j) - 1) % 24) + 1]
      BY <1>0, <2>1 DEF Wire, PixelPulses
    <2> QED
      BY <2>2, <2>3
  <1> HIDE DEF rgb
  <1>3. ASSUME NEW b \in 0 .. 2, NEW k \in 1 .. 8
        PROVE  Wire(frame)[(i * 24 + b * 8) + k] = EncodeBit(BitSet(Grb(rgb)[b + 1], k))
    <2>1. b * 8 + k \in 1 .. 24 /\ ((b * 8 + k) - 1) \div 8 = b /\ ((b * 8 + k) - 1) % 8 = k - 1
      OBVIOUS
    <2>2. EncodeColor(rgb)[b * 8 + k] = EncodeBit(BitSet(Grb(rgb)[b + 1], k))
      <3>1. \A j \in 1 .. 24 :
                EncodeColor(rgb)[j]
                    = EncodeBit(BitSet(Grb(rgb)[((j - 1) \div 8) + 1], ((j - 1) % 8) + 1))
        BY DEF EncodeColor, PixelPulses
      <3>2. EncodeColor(rgb)[b * 8 + k]
                = EncodeBit(BitSet(Grb(rgb)[(((b * 8 + k) - 1) \div 8) + 1],
                                   (((b * 8 + k) - 1) % 8) + 1))
        BY <2>1, <3>1
      <3>3. (((b * 8 + k) - 1) \div 8) + 1 = b + 1 /\ (((b * 8 + k) - 1) % 8) + 1 = k
        BY <2>1
      <3> QED
        BY <3>2, <3>3, Zenon
    <2>3. (i * 24 + b * 8) + k = i * 24 + (b * 8 + k)
      BY <1>0
    <2> QED
      BY <2>1, <2>2, <2>3, <1>2
  <1>4. Grb(rgb)[1] = rgb[2] /\ Grb(rgb)[2] = rgb[1] /\ Grb(rgb)[3] = rgb[3]
    BY DEF Grb
  <1>5. ByteAt(Wire(frame), i * 24) = rgb[2]
    <2>1. i * 24 + 0 * 8 = i * 24 /\ i * 24 \in Nat /\ rgb[2] \in 0 .. 255
      BY <1>0, <1>1
    <2>2. ASSUME NEW k \in 1 .. 8
          PROVE  Wire(frame)[(i * 24) + k] = EncodeBit(BitSet(rgb[2], k))
      <3>1. Wire(frame)[(i * 24 + 0 * 8) + k] = EncodeBit(BitSet(Grb(rgb)[0 + 1], k))
        BY <1>3
      <3>2. Grb(rgb)[0 + 1] = rgb[2]
        BY <1>4
      <3> QED
        BY <2>1, <3>1, <3>2
    <2> QED
      BY <2>1, <2>2, ByteLatched
  <1>6. ByteAt(Wire(frame), i * 24 + 8) = rgb[1]
    <2>1. i * 24 + 1 * 8 = i * 24 + 8 /\ i * 24 + 8 \in Nat /\ rgb[1] \in 0 .. 255
      BY <1>0, <1>1
    <2>2. ASSUME NEW k \in 1 .. 8
          PROVE  Wire(frame)[(i * 24 + 8) + k] = EncodeBit(BitSet(rgb[1], k))
      <3>1. Wire(frame)[(i * 24 + 1 * 8) + k] = EncodeBit(BitSet(Grb(rgb)[1 + 1], k))
        BY <1>3
      <3>2. Grb(rgb)[1 + 1] = rgb[1]
        BY <1>4
      <3> QED
        BY <2>1, <3>1, <3>2
    <2> QED
      BY <2>1, <2>2, ByteLatched
  <1>7. ByteAt(Wire(frame), i * 24 + 16) = rgb[3]
    <2>1. i * 24 + 2 * 8 = i * 24 + 16 /\ i * 24 + 16 \in Nat /\ rgb[3] \in 0 .. 255
      BY <1>0, <1>1
    <2>2. ASSUME NEW k \in 1 .. 8
          PROVE  Wire(frame)[(i * 24 + 16) + k] = EncodeBit(BitSet(rgb[3], k))
      <3>1. Wire(frame)[(i * 24 + 2 * 8) + k] = EncodeBit(BitSet(Grb(rgb)[2 + 1], k))
        BY <1>3
      <3>2. Grb(rgb)[2 + 1] = rgb[3]
        BY <1>4
      <3> QED
        BY <2>1, <3>1, <3>2
    <2> QED
      BY <2>1, <2>2, ByteLatched
  <1>8. Latched(Wire(frame), i) = <<rgb[1], rgb[2], rgb[3]>>
    BY <1>5, <1>6, <1>7 DEF Latched, PixelPulses
  <1> QED
    BY <1>1, <1>8 DEF rgb

-----------------------------------------------------------------------------
\* The calls of led_rgb.c.

\* The chain is a sequence of all LEDs in order.
LEMMA AllIdsSeq == AllIds \in Seq(Leds) /\ Len(AllIds) = LedCount
  <1>1. LedCount \in Nat
    BY LedAssumption
  <1>2. AllIds \in [1 .. LedCount -> Leds]
    BY <1>1 DEF AllIds, Leds
  <1> QED
    BY <1>1, <1>2

\* What a call of each kind carries once its arguments have been checked.
LEMMA SetItems ==
  ASSUME NEW c \in AnyCall, c.kind = "set", ArgsValid(c)
  PROVE  /\ Items(c) \in Seq(Cmd)
         /\ \A k \in 1 .. Len(Items(c)) :
              /\ Items(c)[k].id \in Leds
              /\ Items(c)[k].color \in Colors
              /\ Items(c)[k].blink \in 0 .. MaxBlink
  <1>1. c.cmds \in Seq(Cmd) /\ Items(c) = c.cmds
    BY DEF AnyCall, Call, Render, Items
  <1>2. ASSUME NEW k \in 1 .. Len(c.cmds)
        PROVE  c.cmds[k] \in Cmd /\ CommandValid(c.cmds[k])
    BY <1>1, <1>2 DEF ArgsValid
  <1> QED
    BY <1>1, <1>2, LedAssumption DEF Cmd, CommandValid, IdValid, Leds

\* The loops of set_state and clear_custom* walk valid ids only.
LEMMA ClearItems ==
  ASSUME NEW c \in AnyCall, c.kind \in {"state", "clear"}, ArgsValid(c)
  PROVE  /\ Items(c) \in Seq(Nat)
         /\ \A k \in 1 .. Len(Items(c)) : Items(c)[k] \in Leds
  <1>1. CASE c.kind = "state"
    BY <1>1, AllIdsSeq DEF Items, Leds
  <1>2. CASE c.kind = "clear"
    <2>1. c.ids \in Seq(Nat) /\ Items(c) = c.ids
      BY <1>2 DEF AnyCall, Call, Render, Items
    <2>2. ASSUME NEW k \in 1 .. Len(c.ids)
          PROVE  c.ids[k] \in Nat /\ IdValid(c.ids[k])
      BY <1>2, <2>1, <2>2 DEF ArgsValid
    <2> QED
      BY <2>1, <2>2, LedAssumption DEF IdValid, Leds
  <1> QED
    BY <1>1, <1>2

\* get_output has one LED to resolve, render the whole chain.
LEMMA ReadItems ==
  ASSUME NEW c \in AnyCall, c.kind \in {"get", "render"}
  PROVE  /\ Items(c) = c.ids /\ c.ids \in Seq(Nat)
         /\ Len(c.ids) \in 1 .. LedCount
         /\ c.now \in Nat
         /\ c.kind = "render" => c.ids = AllIds
  <1>1. CASE c.kind = "get"
    <2>1. c \in [kind : {"get"}, ids : Seq(Nat), now : Nat] /\ Len(c.ids) = 1
      BY <1>1 DEF AnyCall, Call, Render
    <2>2. Items(c) = c.ids
      BY <1>1 DEF Items
    <2> QED
      BY <2>1, <2>2, <1>1, LedAssumption
  <1>2. CASE c.kind = "render"
    <2>1. PICK now \in Times : c = Render(now)
      BY <1>2 DEF AnyCall, Call, Render
    <2>2. AllIds \in Seq(Nat)
      BY AllIdsSeq DEF Leds
    <2> QED
      BY <2>1, <2>2, <1>2, AllIdsSeq, LedAssumption DEF Render, Items
  <1> QED
    BY <1>1, <1>2
-----------------------------------------------------------------------------

\* A task inside a call has checked its arguments, executes the statements of
\* that function, and its loop counter is on an item it may touch.
CallOK(t) ==
    /\ pc[t] # "idle" => op[t] \in AnyCall /\ ArgsValid(op[t])
    /\ pc[t] \in {"gate", "reject", "active", "color", "blink"} => op[t].kind = "set"
    /\ pc[t] = "state" => op[t].kind = "state"
    /\ pc[t] = "clear" => op[t].kind \in {"state", "clear"}
    /\ pc[t] \in Resolving => op[t].kind \in {"get", "render"}
    /\ pc[t] = "transmit" => op[t].kind = "render"
    /\ pc[t] \in {"color", "blink", "active?", "color?", "blink?"} => ~LoopDone(t)
    /\ pc[t] \in {"active?", "color?", "blink?"} => IdValid(Item(t))
    /\ pc[t] \in {"idle", "lock", "gate", "state", "transmit"} => idx[t] = 1

TInv == TypeOK /\ \A t \in Tasks : CallOK(t)

\* With the mutex, the task inside a body is the holder.
Mutex == \A t \in Tasks : pc[t] \in Body <=> lock = t

\* set_custom* stores only while the device is connected, and outside of a
\* set_state that is clearing its way up the chain an override implies that.
GateInv ==
    /\ \A t \in Tasks : Setting(t) => state = "connected"
    /\ \A i \in Leds : active[i] =>
          \/ state = "connected"
          \/ \E t \in Tasks : pc[t] = "clear" /\ op[t].kind = "state" /\ idx[t] <= i + 1

\* What a resolving task has read so far is what the memory still holds.
ReadOK(t) ==
    /\ \A k \in 1 .. idx[t] - 1 :
          k <= Len(op[t].ids) /\ IdValid(op[t].ids[k]) =>
              buf[t][k] = Resolved(state, Override(op[t].ids[k]), op[t].now)
    /\ pc[t] \in {"active?", "color?"} =>
          tmp[t] = [state |-> state, color |-> Pattern[state].color, blink |-> Pattern[state].blink]
    /\ pc[t] \in {"color?", "blink?"} => active[Item(t)]
    /\ pc[t] = "blink?" => tmp[t].color = color[Item(t)]

ReadInv == \A t \in Tasks : pc[t] \in Resolving => ReadOK(t)

SInv == TInv /\ Mutex /\ GateInv /\ ReadInv

\* The static initialisers satisfy the type invariant.
LEMMA InitTInv == Init => TInv
  <1> SUFFICES ASSUME Init PROVE TInv
    OBVIOUS
  <1>1. TypeOK
    BY LedAssumption DEF Init, TypeOK, Leds, AutoStates, Colors, Body, Fresh, Dark, Output
  <1>2. \A t \in Tasks : CallOK(t)
    BY DEF Init, CallOK, Resolving
  <1> QED
    BY <1>1, <1>2 DEF TInv

\* The patterns are outputs of the right type.
LEMMA PatternType ==
  ASSUME NEW st \in AutoStates
  PROVE  Pattern[st].color \in Colors /\ Pattern[st].blink \in Nat
  BY LedAssumption DEF AutoStates, Pattern, Colors

\* A call keeps the type invariant.
LEMMA InvokeTInv ==
  ASSUME TInv, NEW t \in Tasks, NEW c \in AnyCall, Invoke(t, c)
  PROVE  TInv'
  <1>1. TypeOK'
    BY DEF TInv, TypeOK, Invoke, Goto, shared
  <1>2. ASSUME NEW u \in Tasks
        PROVE  CallOK(u)'
    <2>1. CASE u = t
      BY <2>1 DEF TInv, TypeOK, CallOK, Invoke, Goto, shared, Resolving
    <2>2. CASE u # t
      BY <2>2 DEF TInv, TypeOK, CallOK, Invoke, Goto, shared, Resolving, LoopDone, Item
    <2> QED
      BY <2>1, <2>2
  <1> QED
    BY <1>1, <1>2 DEF TInv

\* Taking the lock keeps the type invariant.
LEMMA LockTInv ==
  ASSUME TInv, NEW t \in Tasks, Lock(t)
  PROVE  TInv'
  <1> USE DEF TInv, TypeOK, Lock, EnterBody, Goto, shared
  <1>k. op[t] \in AnyCall /\ idx[t] = 1 /\ pc[t] = "lock"
    BY DEF CallOK
  <1>k2. op[t].kind \in {"state", "set", "clear", "get", "render"}
    BY <1>k DEF AnyCall, Call, Render
  <1>k3. \/ op[t].kind = "state" /\ pc' = [pc EXCEPT ![t] = "state"]
         \/ op[t].kind = "set" /\ pc' = [pc EXCEPT ![t] = "gate"]
         \/ op[t].kind = "clear" /\ pc' = [pc EXCEPT ![t] = "clear"]
         \/ op[t].kind \in {"get", "render"} /\ pc' = [pc EXCEPT ![t] = "resolve"]
    BY <1>k2
  <1>1. TypeOK'
    <2>1. lock' \in Tasks \cup {NoTask}
      OBVIOUS
    <2>2. pc' \in [Tasks -> {"idle", "lock", "transmit"} \cup Body]
      BY <1>k3 DEF Body, Storing, Resolving
    <2> QED
      BY <2>1, <2>2
  <1>2. ASSUME NEW u \in Tasks
        PROVE  CallOK(u)'
    <2>1. CASE u = t
      BY <2>1, <1>k, <1>k3 DEF CallOK, Resolving
    <2>2. CASE u # t
      BY <2>2 DEF CallOK, Resolving, LoopDone, Item
    <2> QED
      BY <2>1, <2>2
  <1> QED
    BY <1>1, <1>2
\* The connection gate keeps the type invariant.
LEMMA GateTInv ==
  ASSUME TInv, NEW t \in Tasks, Gate(t)
  PROVE  TInv'
  <1>1. TypeOK'
    BY DEF TInv, TypeOK, Gate, Goto, shared, Body, Storing
  <1>2. ASSUME NEW u \in Tasks
        PROVE  CallOK(u)'
    BY DEF TInv, TypeOK, CallOK, Gate, Goto, shared, Resolving, LoopDone, Item
  <1> QED
    BY <1>1, <1>2 DEF TInv

\* The three stores of a command and the two of set_state and clear_custom.
LEMMA StoreTInv ==
  ASSUME TInv, NEW t \in Tasks,
         \/ StoreActive(t) \/ StoreColor(t) \/ StoreBlink(t)
         \/ StoreState(t) \/ ClearActive(t)
  PROVE  TInv'
  <1> USE DEF TInv, TypeOK, Goto, shared, At, Advance
  <1>1. CASE StoreActive(t) \/ StoreColor(t) \/ StoreBlink(t)
    <2>1. op[t] \in AnyCall /\ op[t].kind = "set" /\ ArgsValid(op[t])
      BY <1>1 DEF CallOK, StoreActive, StoreColor, StoreBlink
    <2>2. idx[t] \in 1 .. Len(Items(op[t])) /\ idx[t] + 1 \in Nat \ {0}
      BY <1>1, <2>1, SetItems DEF StoreActive, StoreColor, StoreBlink, LoopDone
    <2>3. Item(t).id \in Leds /\ Item(t).color \in Colors /\ Item(t).blink \in 0 .. MaxBlink
      BY <2>1, <2>2, SetItems DEF Item
    <2>4. TypeOK'
      BY <1>1, <2>2, <2>3 DEF StoreActive, StoreColor, StoreBlink, Body, Storing
    <2>5. ASSUME NEW u \in Tasks
          PROVE  CallOK(u)'
      BY <1>1, <2>1, <2>2 DEF CallOK, StoreActive, StoreColor, StoreBlink, Resolving, LoopDone, Item
    <2> QED
      BY <2>4, <2>5
  <1>2. CASE StoreState(t)
    <2>1. op[t] \in AnyCall /\ op[t].kind = "state" /\ ArgsValid(op[t])
      BY <1>2 DEF CallOK, StoreState
    <2>2. op[t].to \in AutoStates
      BY <2>1 DEF ArgsValid
    <2>3. TypeOK'
      BY <1>2, <2>2 DEF StoreState, Body, Storing
    <2>4. ASSUME NEW u \in Tasks
          PROVE  CallOK(u)'
      BY <1>2, <2>1 DEF CallOK, StoreState, Resolving, LoopDone, Item
    <2> QED
      BY <2>3, <2>4
  <1>3. CASE ClearActive(t)
    <2>1. op[t] \in AnyCall /\ op[t].kind \in {"state", "clear"} /\ ArgsValid(op[t])
      BY <1>3 DEF CallOK, ClearActive
    <2>2. idx[t] \in 1 .. Len(Items(op[t])) /\ idx[t] + 1 \in Nat \ {0}
      BY <1>3, <2>1, ClearItems DEF ClearActive, LoopDone
    <2>3. Item(t) \in Leds
      BY <2>1, <2>2, ClearItems DEF Item
    <2>4. TypeOK'
      BY <1>3, <2>2, <2>3 DEF ClearActive
    <2>5. ASSUME NEW u \in Tasks
          PROVE  CallOK(u)'
      BY <1>3, <2>1 DEF CallOK, ClearActive, Resolving, LoopDone, Item
    <2> QED
      BY <2>4, <2>5
  <1> QED
    BY <1>1, <1>2, <1>3

\* An output stored in one slot of a task's destination.
LEMMA BufType ==
  ASSUME buf \in [Tasks -> [1 .. LedCount -> Output]],
         NEW t \in Tasks, NEW k \in 1 .. LedCount, NEW v \in Output
  PROVE  [buf EXCEPT ![t][k] = v] \in [Tasks -> [1 .. LedCount -> Output]]
  <1>1. [buf[t] EXCEPT ![k] = v] \in [1 .. LedCount -> Output]
    OBVIOUS
  <1> QED
    BY <1>1

\* The loads of led_rgb_compute_locked.
LEMMA LoadTInv ==
  ASSUME TInv, NEW t \in Tasks,
         LoadState(t) \/ LoadActive(t) \/ LoadColor(t) \/ LoadBlink(t)
  PROVE  TInv'
  <1> USE DEF TInv, TypeOK, Goto, shared, At, Advance
  <1>1. /\ op[t] \in AnyCall /\ op[t].kind \in {"get", "render"} /\ ArgsValid(op[t])
        /\ pc[t] \in Resolving
    BY DEF CallOK, LoadState, LoadActive, LoadColor, LoadBlink, Resolving
  <1>2. /\ idx[t] \in 1 .. Len(Items(op[t])) /\ idx[t] + 1 \in Nat \ {0}
        /\ idx[t] \in 1 .. LedCount
        /\ Item(t) \in Nat
        /\ op[t].now \in Nat
    <2>1. ~LoopDone(t)
      BY DEF LoadState, LoadActive, LoadColor, LoadBlink
    <2>2. /\ Items(op[t]) \in Seq(Nat)
          /\ Len(Items(op[t])) \in 1 .. LedCount
          /\ op[t].now \in Nat
      BY <1>1, ReadItems
    <2>3. idx[t] \in 1 .. Len(Items(op[t])) /\ idx[t] + 1 \in Nat \ {0}
      BY <2>1, <2>2 DEF LoopDone
    <2> QED
      BY <2>2, <2>3, LedAssumption DEF Item
  <1>3. IdValid(Item(t)) => Item(t) \in Leds
    BY <1>2, LedAssumption DEF IdValid, Leds
  <1>4. Dark \in Output
    BY DEF Dark, Output, AutoStates, Colors
  <1>5. Fresh \in [state : AutoStates, color : Colors, blink : Nat]
    BY DEF Fresh, AutoStates, Colors
  <1>6. CASE LoadState(t)
    <2>1. TypeOK'
      <3>1. CASE IdValid(Item(t))
        <4>1. [state |-> state, color |-> Pattern[state].color, blink |-> Pattern[state].blink]
                \in [state : AutoStates, color : Colors, blink : Nat]
          BY PatternType
        <4>2. /\ tmp' = [tmp EXCEPT ![t] = [state |-> state, color |-> Pattern[state].color,
                                           blink |-> Pattern[state].blink]]
              /\ pc' = [pc EXCEPT ![t] = "active?"]
              /\ UNCHANGED <<state, active, color, blink, lock, op, idx, buf>>
          BY <1>6, <3>1 DEF LoadState
        <4> QED
          BY <4>1, <4>2 DEF Body, Resolving
      <3>2. CASE ~IdValid(Item(t))
        <4>1. /\ buf' = [buf EXCEPT ![t][idx[t]] = Dark]
              /\ idx' = [idx EXCEPT ![t] = idx[t] + 1]
              /\ UNCHANGED <<state, active, color, blink, lock, op, tmp, pc>>
          BY <1>6, <3>2 DEF LoadState
        <4>2. buf' \in [Tasks -> [1 .. LedCount -> Output]]
          BY <4>1, <1>2, <1>4, BufType
        <4> QED
          BY <4>1, <4>2, <1>2
      <3> QED
        BY <3>1, <3>2
    <2>2. ASSUME NEW u \in Tasks
          PROVE  CallOK(u)'
      BY <1>6, <1>1 DEF CallOK, LoadState, Resolving, LoopDone, Item
    <2> QED
      BY <2>1, <2>2
  <1>7. CASE LoadActive(t)
    <2>1. CASE active[Item(t)]
      <3>1. TypeOK'
        BY <1>7, <2>1 DEF LoadActive, Body, Resolving
      <3>2. ASSUME NEW u \in Tasks
            PROVE  CallOK(u)'
        BY <1>7, <2>1, <1>1 DEF CallOK, LoadActive, Resolving, LoopDone, Item
      <3> QED
        BY <3>1, <3>2
    <2>2. CASE ~active[Item(t)]
      <3>1. [state |-> tmp[t].state, color |-> tmp[t].color, blink |-> tmp[t].blink,
             on |-> BlinkOn(tmp[t].blink, op[t].now)] \in Output
        BY DEF Output, BlinkOn
      <3>2. Emit(t, tmp[t]) /\ UNCHANGED <<shared, lock, op>>
        BY <1>7, <2>2 DEF LoadActive
      <3>3. buf' \in [Tasks -> [1 .. LedCount -> Output]]
        BY <3>1, <3>2, <1>2, BufType DEF Emit
      <3>4. TypeOK'
        BY <3>2, <3>3, <1>2, <1>5 DEF Emit, Body, Resolving
      <3>5. ASSUME NEW u \in Tasks
            PROVE  CallOK(u)'
        BY <1>7, <2>2, <1>1 DEF CallOK, LoadActive, Emit, Resolving, LoopDone, Item
      <3> QED
        BY <3>4, <3>5
    <2> QED
      BY <2>1, <2>2
  <1>8. CASE LoadColor(t)
    <2>1. color[Item(t)] \in Colors
      BY <1>8, <1>3 DEF LoadColor, CallOK
    <2>2. TypeOK'
      BY <1>8, <2>1 DEF LoadColor, Body, Resolving
    <2>3. ASSUME NEW u \in Tasks
          PROVE  CallOK(u)'
      BY <1>8, <1>1 DEF CallOK, LoadColor, Resolving, LoopDone, Item
    <2> QED
      BY <2>2, <2>3
  <1>9. CASE LoadBlink(t)
    <2>1. blink[Item(t)] \in Nat
      BY <1>9, <1>3, LedAssumption DEF LoadBlink, CallOK
    <2>2. [state |-> "custom", color |-> tmp[t].color, blink |-> blink[Item(t)],
           on |-> BlinkOn(blink[Item(t)], op[t].now)] \in Output
      BY <2>1 DEF Output, BlinkOn
    <2>3. buf' \in [Tasks -> [1 .. LedCount -> Output]]
      BY <1>9, <2>2, <1>2, BufType DEF LoadBlink, Emit
    <2>4. TypeOK'
      BY <1>9, <2>3, <1>2, <1>5 DEF LoadBlink, Emit, Body, Resolving
    <2>5. ASSUME NEW u \in Tasks
          PROVE  CallOK(u)'
      BY <1>9, <1>1 DEF CallOK, LoadBlink, Emit, Resolving, LoopDone, Item
    <2> QED
      BY <2>4, <2>5
  <1> QED
    BY <1>6, <1>7, <1>8, <1>9
\* Giving the lock back keeps the type invariant.
LEMMA UnlockTInv ==
  ASSUME TInv, NEW t \in Tasks, Unlock(t) \/ Transmit(t)
  PROVE  TInv'
  <1> USE DEF TInv, TypeOK, Goto, shared
  <1>1. CASE Unlock(t)
    <2>1. lock' \in Tasks \cup {NoTask}
      BY <1>1 DEF Unlock
    <2>2. [k \in 1 .. LedCount |-> Dark] \in [1 .. LedCount -> Output]
      BY DEF Dark, Output, AutoStates, Colors
    <2>3. TypeOK'
      BY <1>1, <2>1, <2>2 DEF Unlock, Leave
    <2>4. ASSUME NEW u \in Tasks
          PROVE  CallOK(u)'
      <3>1. CASE u = t
        <4>1. /\ op[t] \in AnyCall /\ ArgsValid(op[t])
              /\ idx'[t] = 1
          BY <1>1 DEF CallOK, Unlock, Leave, AtEnd
        <4>2. CASE op[t].kind = "render"
          <5>1. op' = op /\ pc'[t] = "transmit"
            BY <1>1, <4>2 DEF Unlock, Leave
          <5> QED
            BY <3>1, <4>1, <4>2, <5>1 DEF CallOK, Resolving
        <4>3. CASE op[t].kind # "render"
          <5>1. pc'[t] = "idle"
            BY <1>1, <4>3 DEF Unlock, Leave
          <5> QED
            BY <3>1, <4>1, <5>1 DEF CallOK, Resolving
        <4> QED
          BY <4>2, <4>3
      <3>2. CASE u # t
        <4>1. pc'[u] = pc[u] /\ op'[u] = op[u] /\ idx'[u] = idx[u]
          BY <1>1, <3>2 DEF Unlock, Leave
        <4> QED
          BY <4>1 DEF CallOK, Resolving, LoopDone, Item
      <3> QED
        BY <3>1, <3>2
    <2> QED
      BY <2>3, <2>4
  <1>2. CASE Transmit(t)
    <2>1. TypeOK'
      BY <1>2 DEF Transmit
    <2>2. ASSUME NEW u \in Tasks
          PROVE  CallOK(u)'
      <3>1. CASE u = t
        BY <1>2, <3>1 DEF CallOK, Transmit, Resolving
      <3>2. CASE u # t
        BY <1>2, <3>2 DEF CallOK, Transmit, Resolving, LoopDone, Item
      <3> QED
        BY <3>1, <3>2
    <2> QED
      BY <2>1, <2>2
  <1> QED
    BY <1>1, <1>2

\* The calls of the next-state relation are calls of the API.
LEMMA RequestCalls ==
  /\ \A s \in Callers : \A c \in Requests[s] : c \in AnyCall
  /\ \A now \in Times : Render(now) \in AnyCall
  BY LedAssumption DEF AnyCall

\* Type correctness, with or without the mutex: every variable keeps its
\* type, and no period beyond LED_RGB_MAX_BLINK_MS gets past the argument
\* checks into the per-LED arrays.
LEMMA NextTInv == TInv /\ [Next]_vars => TInv'
  <1> SUFFICES ASSUME TInv, [Next]_vars PROVE TInv'
    OBVIOUS
  <1>1. CASE \E t \in Callers : \E c \in Requests[t] : Invoke(t, c)
    BY <1>1, InvokeTInv, RequestCalls DEF Tasks
  <1>2. CASE \E now \in Times : Invoke(Renderer, Render(now))
    BY <1>2, InvokeTInv, RequestCalls DEF Tasks
  <1>3. ASSUME NEW t \in Tasks, Step(t)
        PROVE  TInv'
    BY <1>3, LockTInv, GateTInv, StoreTInv, LoadTInv, UnlockTInv DEF Step
  <1>4. CASE UNCHANGED vars
    BY <1>4 DEF vars, TInv, TypeOK, CallOK, LoopDone, Item
  <1> QED
    BY <1>1, <1>2, <1>3, <1>4 DEF Next

\* Every variable keeps its type; no stored period exceeds LED_RGB_MAX_BLINK_MS.
THEOREM TypeCorrect == Spec => []TypeOK
  <1>1. Spec => []TInv
    BY InitTInv, NextTInv, PTL DEF Spec
  <1>2. TInv => TypeOK
    BY DEF TInv
  <1> QED
    BY <1>1, <1>2, PTL
-----------------------------------------------------------------------------

Inner(t) ==
    \/ Gate(t)
    \/ StoreActive(t) \/ StoreColor(t) \/ StoreBlink(t)
    \/ StoreState(t) \/ ClearActive(t)
    \/ LoadState(t) \/ LoadActive(t) \/ LoadColor(t) \/ LoadBlink(t)

\* A step within a body leaves the task in that body and the lock alone.
LEMMA InnerStep ==
  ASSUME TInv, NEW t \in Tasks, Inner(t)
  PROVE  /\ pc[t] \in Body
         /\ \E l \in Body : pc' = [pc EXCEPT ![t] = l]
         /\ lock' = lock
         /\ op' = op
         /\ \A u \in Tasks \ {t} : idx'[u] = idx[u] /\ tmp'[u] = tmp[u] /\ buf'[u] = buf[u]
  <1> USE DEF TInv, TypeOK, Goto, At, Body, Storing, Resolving
  <1>1. CASE Gate(t)
    BY <1>1 DEF Gate
  <1>2. CASE StoreActive(t) \/ StoreColor(t) \/ StoreBlink(t)
    BY <1>2 DEF StoreActive, StoreColor, StoreBlink, Advance
  <1>3. CASE StoreState(t) \/ ClearActive(t)
    <2>1. pc = [pc EXCEPT ![t] = pc[t]]
      OBVIOUS
    <2> QED
      BY <1>3, <2>1 DEF StoreState, ClearActive, Advance
  <1>4. CASE LoadState(t)
    <2>1. pc = [pc EXCEPT ![t] = pc[t]]
      OBVIOUS
    <2> QED
      BY <1>4, <2>1 DEF LoadState, Advance
  <1>5. CASE LoadActive(t)
    BY <1>5 DEF LoadActive, Emit, Advance
  <1>6. CASE LoadColor(t) \/ LoadBlink(t)
    BY <1>6 DEF LoadColor, LoadBlink, Emit, Advance
  <1> QED
    BY <1>1, <1>2, <1>3, <1>4, <1>5, <1>6 DEF Inner

\* The mutex: at most one task is between a take and a give.
LEMMA NextMutex ==
  ASSUME LockCreated, TInv, Mutex, [Next]_vars
  PROVE  Mutex'
  <1> USE DEF TInv, TypeOK
  <1>0. NoTask \notin Tasks /\ {"idle", "lock", "transmit"} \cap Body = {}
    BY LedAssumption DEF Body, Storing, Resolving
  <1>1. ASSUME NEW t \in Tasks, NEW c, Invoke(t, c)
        PROVE  Mutex'
    BY <1>0, <1>1 DEF Mutex, Invoke, Goto
  <1>2. ASSUME NEW t \in Tasks, Lock(t)
        PROVE  Mutex'
    <2>1. lock = NoTask /\ lock' = t
      BY <1>2 DEF Lock
    <2>2. PICK l \in Body : pc' = [pc EXCEPT ![t] = l]
      <3>1. \E l \in {"state", "gate", "clear", "resolve"} : pc' = [pc EXCEPT ![t] = l]
        <4>1. CASE op[t].kind = "state"
          BY <4>1, <1>2 DEF Lock, EnterBody, Goto
        <4>2. CASE op[t].kind = "set"
          BY <4>2, <1>2 DEF Lock, EnterBody, Goto
        <4>3. CASE op[t].kind = "clear"
          BY <4>3, <1>2 DEF Lock, EnterBody, Goto
        <4>4. CASE op[t].kind \notin {"state", "set", "clear"}
          BY <4>4, <1>2 DEF Lock, EnterBody, Goto
        <4> QED
          BY <4>1, <4>2, <4>3, <4>4
      <3> QED
        BY <3>1 DEF Body, Storing, Resolving
    <2> QED
      BY <2>1, <2>2, <1>0 DEF Mutex
  <1>3. ASSUME NEW t \in Tasks, Inner(t)
        PROVE  Mutex'
    BY <1>3, InnerStep DEF Mutex
  <1>4. ASSUME NEW t \in Tasks, Unlock(t)
        PROVE  Mutex'
    <2>1. pc[t] \in Body /\ lock' = NoTask
      BY <1>4 DEF Unlock, AtEnd, Body, Storing, Resolving
    <2>2. pc' \in {[pc EXCEPT ![t] = "transmit"], [pc EXCEPT ![t] = "idle"]}
      BY <1>4 DEF Unlock, Leave, Goto
    <2> QED
      BY <2>1, <2>2, <1>0 DEF Mutex
  <1>5. ASSUME NEW t \in Tasks, Transmit(t)
        PROVE  Mutex'
    BY <1>0, <1>5 DEF Mutex, Transmit, Goto
  <1>6. CASE UNCHANGED vars
    BY <1>6 DEF vars, Mutex
  <1>7. Renderer \in Tasks /\ Callers \subseteq Tasks
    BY DEF Tasks
  <1> QED
    BY <1>1, <1>2, <1>3, <1>4, <1>5, <1>6, <1>7 DEF Next, Step, Inner
\* Only the stores touch the memory.
LEMMA SharedUnchanged ==
  ASSUME NEW t \in Tasks,
         \/ \E c : Invoke(t, c)
         \/ Lock(t) \/ Gate(t)
         \/ LoadState(t) \/ LoadActive(t) \/ LoadColor(t) \/ LoadBlink(t)
         \/ Unlock(t) \/ Transmit(t)
  PROVE  UNCHANGED <<state, active, color, blink>>
  BY DEF Invoke, Lock, EnterBody, Gate, LoadState, LoadActive, LoadColor, LoadBlink,
         Unlock, Leave, Transmit, shared

\* The connection gate survives every step: a set_custom* that passed it still
\* holds the lock while it stores, and set_state clears every override before
\* it gives the lock back.
LEMMA NextGateInv ==
  ASSUME LockCreated, TInv, Mutex, GateInv, [Next]_vars
  PROVE  GateInv'
  <1> USE DEF TInv, TypeOK, Goto, shared, Advance, At
  <1>0. \A t, u \in Tasks : pc[t] \in Body /\ pc[u] \in Body => t = u
    BY DEF Mutex
  <1>1. ASSUME NEW t \in Tasks, NEW c, Invoke(t, c)
        PROVE  GateInv'
    BY <1>1 DEF GateInv, Setting, Invoke
  <1>2. ASSUME NEW t \in Tasks, Lock(t)
        PROVE  GateInv'
    <2>1. pc[t] = "lock" /\ UNCHANGED <<state, active, op, idx>>
      BY <1>2 DEF Lock, EnterBody
    <2>2. pc'[t] \in {"state", "gate", "clear", "resolve"}
      BY <1>2 DEF Lock, EnterBody
    <2>3. \A u \in Tasks \ {t} : pc'[u] = pc[u]
      BY <1>2 DEF Lock, EnterBody
    <2> QED
      BY <2>1, <2>2, <2>3 DEF GateInv, Setting
  <1>3. ASSUME NEW t \in Tasks, Gate(t)
        PROVE  GateInv'
    BY <1>3 DEF GateInv, Setting, Gate
  <1>4. ASSUME NEW t \in Tasks, StoreActive(t) \/ StoreColor(t) \/ StoreBlink(t)
        PROVE  GateInv'
    <2>1. Setting(t) /\ state = "connected" /\ state' = state
      BY <1>4 DEF GateInv, Setting, StoreActive, StoreColor, StoreBlink
    <2> QED
      BY <2>1 DEF GateInv, Setting
  <1>5. ASSUME NEW t \in Tasks, StoreState(t)
        PROVE  GateInv'
    <2>1. /\ pc[t] = "state" /\ pc' = [pc EXCEPT ![t] = "clear"]
          /\ UNCHANGED <<active, op, idx>>
      BY <1>5 DEF StoreState
    <2>2. op[t].kind = "state" /\ idx[t] = 1
      BY <2>1 DEF CallOK
    <2>3. \A u \in Tasks : ~Setting(u)'
      BY <2>1, <1>0 DEF Setting, Body, Storing
    <2>4. \A i \in Leds : idx'[t] <= i + 1
      BY <2>1, <2>2, LedAssumption DEF Leds
    <2> QED
      BY <2>1, <2>2, <2>3, <2>4 DEF GateInv
  <1>6. ASSUME NEW t \in Tasks, ClearActive(t)
        PROVE  GateInv'
    <2>1. /\ pc[t] = "clear" /\ idx' = [idx EXCEPT ![t] = idx[t] + 1]
          /\ active' = [active EXCEPT ![Item(t)] = FALSE]
          /\ UNCHANGED <<state, pc, op>>
      BY <1>6 DEF ClearActive
    <2>2. \A u \in Tasks : pc[u] = "clear" => u = t
      BY <2>1, <1>0 DEF Body, Storing
    <2>3. op[t].kind = "state" => Item(t) = idx[t] - 1
      <3>1. SUFFICES ASSUME op[t].kind = "state" PROVE Item(t) = idx[t] - 1
        OBVIOUS
      <3>2. Items(op[t]) = AllIds
        BY <3>1 DEF Items
      <3>3. idx[t] \in 1 .. LedCount
        BY <1>6, <3>2, AllIdsSeq, LedAssumption DEF ClearActive, LoopDone
      <3> QED
        BY <3>2, <3>3 DEF Item, AllIds
    <2>4. ASSUME NEW i \in Leds, active'[i], state' # "connected"
          PROVE  op[t].kind = "state" /\ idx[t] + 1 <= i + 1
      <3>1. active[i] /\ i # Item(t)
        BY <2>1, <2>4
      <3>2. op[t].kind = "state" /\ idx[t] <= i + 1
        BY <3>1, <2>1, <2>2, <2>4 DEF GateInv
      <3> QED
        BY <3>1, <3>2, <2>3, LedAssumption DEF Leds
    <2>5. idx'[t] = idx[t] + 1
      BY <2>1
    <2> QED
      BY <2>1, <2>4, <2>5 DEF GateInv, Setting
  <1>7. ASSUME NEW t \in Tasks,
               LoadState(t) \/ LoadActive(t) \/ LoadColor(t) \/ LoadBlink(t)
        PROVE  GateInv'
    <2>1. pc[t] \in Resolving /\ Inner(t)
      BY <1>7 DEF LoadState, LoadActive, LoadColor, LoadBlink, Resolving, Inner
    <2>2. /\ UNCHANGED <<state, active, op>>
          /\ \A u \in Tasks \ {t} : pc'[u] = pc[u] /\ idx'[u] = idx[u]
      BY <1>7, <2>1, SharedUnchanged, InnerStep
    <2>3. pc'[t] \in Resolving
      BY <1>7 DEF LoadState, LoadActive, LoadColor, LoadBlink, Emit, Resolving
    <2> QED
      BY <2>1, <2>2, <2>3 DEF GateInv, Setting, Resolving
  <1>8. ASSUME NEW t \in Tasks, Unlock(t)
        PROVE  GateInv'
    <2>1. /\ pc[t] \in Body /\ pc'[t] \in {"transmit", "idle"}
          /\ UNCHANGED <<state, active>>
          /\ \A u \in Tasks \ {t} : pc'[u] = pc[u] /\ idx'[u] = idx[u] /\ op'[u] = op[u]
      BY <1>8 DEF Unlock, Leave, AtEnd, Body, Storing, Resolving
    <2>2. ASSUME pc[t] = "clear", op[t].kind = "state", NEW i \in Leds
          PROVE  ~(idx[t] <= i + 1)
      <3>1. Items(op[t]) = AllIds /\ LoopDone(t)
        BY <1>8, <2>2 DEF Unlock, AtEnd, Items
      <3> QED
        BY <3>1, AllIdsSeq, LedAssumption DEF LoopDone, Leds
    <2> QED
      BY <2>1, <2>2 DEF GateInv, Setting
  <1>9. ASSUME NEW t \in Tasks, Transmit(t)
        PROVE  GateInv'
    BY <1>9 DEF GateInv, Setting, Transmit
  <1>10. CASE UNCHANGED vars
    BY <1>10 DEF vars, GateInv, Setting
  <1>11. Renderer \in Tasks /\ Callers \subseteq Tasks
    BY DEF Tasks
  <1> QED
    BY <1>1, <1>2, <1>3, <1>4, <1>5, <1>6, <1>7, <1>8, <1>9, <1>10, <1>11 DEF Next, Step

\* An LED is overridden only while the device is connected: FR-10's gate, as a
\* set_custom* and a set_state of two tasks could break it.
THEOREM CustomNeedsConnectedHolds ==
  ASSUME LockCreated
  PROVE  Spec => []CustomNeedsConnected
  <1> DEFINE I == TInv /\ Mutex /\ GateInv
  <1>1. Init => I
    <2> SUFFICES ASSUME Init PROVE I
      OBVIOUS
    <2>1. Mutex
      BY LedAssumption DEF Init, Mutex, Body, Storing, Resolving
    <2>2. GateInv
      BY DEF Init, GateInv, Setting
    <2> QED
      BY <2>1, <2>2, InitTInv
  <1>2. I /\ [Next]_vars => I'
    BY NextTInv, NextMutex, NextGateInv
  <1>3. I => CustomNeedsConnected
    BY DEF GateInv, CustomNeedsConnected, Quiescent, Body, Storing
  <1> QED
    BY <1>1, <1>2, <1>3, PTL DEF Spec
-----------------------------------------------------------------------------

\* One load of led_rgb_compute_locked keeps what the task has read in step
\* with the memory, which no other task can change meanwhile.
LEMMA LoadReadOK ==
  ASSUME TInv, NEW t \in Tasks, ReadOK(t),
         LoadState(t) \/ LoadActive(t) \/ LoadColor(t) \/ LoadBlink(t)
  PROVE  ReadOK(t)'
  <1> USE DEF TInv, TypeOK, Goto, At, Advance
  <1>1. /\ op[t] \in AnyCall /\ op[t].kind \in {"get", "render"}
        /\ ~LoopDone(t)
    BY DEF CallOK, LoadState, LoadActive, LoadColor, LoadBlink, Resolving
  <1>2. /\ Items(op[t]) = op[t].ids /\ op[t].ids \in Seq(Nat)
        /\ Len(op[t].ids) \in 1 .. LedCount
        /\ idx[t] \in 1 .. Len(op[t].ids)
        /\ Item(t) = op[t].ids[idx[t]]
        /\ idx[t] \in 1 .. LedCount
    <2>1. /\ Items(op[t]) = op[t].ids /\ op[t].ids \in Seq(Nat)
          /\ Len(op[t].ids) \in 1 .. LedCount
      BY <1>1, ReadItems
    <2> QED
      BY <1>1, <2>1, LedAssumption DEF LoopDone, Item
  <1>3. UNCHANGED <<state, active, color, blink, op>>
    BY SharedUnchanged DEF LoadState, LoadActive, LoadColor, LoadBlink
  <1>4. \A i : Override(i)' = Override(i)
    BY <1>3 DEF Override
  \* The case of an emitted LED: v is what the locals hold for it.
  <1>5. ASSUME NEW v,
               /\ IdValid(Item(t)) =>
                    v = Resolved(state, Override(Item(t)), op[t].now)
               /\ buf' = [buf EXCEPT ![t][idx[t]] = v]
               /\ idx' = [idx EXCEPT ![t] = idx[t] + 1]
               /\ pc'[t] = "resolve"
        PROVE  ReadOK(t)'
    <2>1. ASSUME NEW k \in 1 .. idx'[t] - 1, k <= Len(op[t].ids), IdValid(op[t].ids[k])
          PROVE  buf'[t][k] = Resolved(state, Override(op[t].ids[k]), op[t].now)
      <3>1. CASE k = idx[t]
        BY <3>1, <2>1, <1>2, <1>5
      <3>2. CASE k # idx[t]
        <4>1. k \in 1 .. idx[t] - 1
          BY <3>2, <2>1, <1>2, <1>5
        <4>2. buf'[t][k] = buf[t][k]
          BY <3>2, <1>5
        <4> QED
          BY <4>1, <4>2, <2>1 DEF ReadOK
      <3> QED
        BY <3>1, <3>2
    <2> QED
      BY <2>1, <1>3, <1>4, <1>5 DEF ReadOK
  <1>6. CASE LoadState(t)
    <2>1. CASE IdValid(Item(t))
      <3>1. /\ tmp' = [tmp EXCEPT ![t] = [state |-> state, color |-> Pattern[state].color,
                                         blink |-> Pattern[state].blink]]
            /\ pc'[t] = "active?" /\ UNCHANGED <<buf, idx>>
        BY <1>6, <2>1 DEF LoadState
      <3> QED
        BY <3>1, <1>3, <1>4 DEF ReadOK
    <2>2. CASE ~IdValid(Item(t))
      <3>1. /\ buf' = [buf EXCEPT ![t][idx[t]] = Dark]
            /\ idx' = [idx EXCEPT ![t] = idx[t] + 1]
            /\ pc'[t] = "resolve"
        BY <1>6, <2>2 DEF LoadState
      <3> QED
        BY <3>1, <2>2, <1>5
    <2> QED
      BY <2>1, <2>2
  <1>7. CASE LoadActive(t)
    <2>1. CASE active[Item(t)]
      <3>1. pc'[t] = "color?" /\ UNCHANGED <<tmp, buf, idx>> /\ pc[t] = "active?"
        BY <1>7, <2>1 DEF LoadActive
      <3>2. Item(t)' = Item(t)
        BY <3>1, <1>3 DEF Item
      <3> QED
        BY <3>1, <3>2, <2>1, <1>3, <1>4 DEF ReadOK
    <2>2. CASE ~active[Item(t)]
      <3>1. Emit(t, tmp[t]) /\ pc[t] = "active?"
        BY <1>7, <2>2 DEF LoadActive
      <3>2. [state |-> tmp[t].state, color |-> tmp[t].color, blink |-> tmp[t].blink,
             on |-> BlinkOn(tmp[t].blink, op[t].now)]
              = Resolved(state, Override(Item(t)), op[t].now)
        BY <3>1, <2>2 DEF ReadOK, Resolved, Override
      <3> QED
        BY <3>1, <3>2, <1>5 DEF Emit
    <2> QED
      BY <2>1, <2>2
  <1>8. CASE LoadColor(t)
    <2>1. /\ tmp' = [tmp EXCEPT ![t].color = color[Item(t)]]
          /\ pc[t] = "color?" /\ pc'[t] = "blink?" /\ UNCHANGED <<buf, idx>>
      BY <1>8 DEF LoadColor
    <2>2. Item(t)' = Item(t)
      BY <2>1, <1>3 DEF Item
    <2> QED
      BY <2>1, <2>2, <1>3, <1>4 DEF ReadOK
  <1>9. CASE LoadBlink(t)
    <2>1. /\ pc[t] = "blink?"
          /\ Emit(t, [state |-> "custom", color |-> tmp[t].color, blink |-> blink[Item(t)]])
      BY <1>9 DEF LoadBlink
    <2>2. [state |-> "custom", color |-> tmp[t].color, blink |-> blink[Item(t)],
           on |-> BlinkOn(blink[Item(t)], op[t].now)]
            = Resolved(state, Override(Item(t)), op[t].now)
      BY <2>1 DEF ReadOK, Resolved, Override
    <2> QED
      BY <2>1, <2>2, <1>5 DEF Emit
  <1> QED
    BY <1>6, <1>7, <1>8, <1>9

\* No step but a task's own load disturbs what it has read: the others cannot
\* store while it holds the lock.
LEMMA NextReadInv ==
  ASSUME LockCreated, TInv, Mutex, ReadInv, [Next]_vars
  PROVE  ReadInv'
  <1> USE DEF TInv, TypeOK
  <1> SUFFICES ASSUME NEW u \in Tasks, pc'[u] \in Resolving
               PROVE  ReadOK(u)'
    BY DEF ReadInv
  <1>0. ASSUME UNCHANGED <<state, active, color, blink>>,
               pc'[u] = pc[u], op'[u] = op[u], idx'[u] = idx[u],
               tmp'[u] = tmp[u], buf'[u] = buf[u]
        PROVE  ReadOK(u)'
    <2>1. ReadOK(u)
      BY <1>0 DEF ReadInv
    <2>2. \A i : Override(i)' = Override(i)
      BY <1>0 DEF Override
    <2>3. Item(u)' = Item(u)
      BY <1>0 DEF Item
    <2> QED
      BY <1>0, <2>1, <2>2, <2>3 DEF ReadOK
  <1>1. ASSUME NEW t \in Tasks, NEW c, Invoke(t, c)
        PROVE  ReadOK(u)'
    <2>1. UNCHANGED <<state, active, color, blink>>
      BY <1>1, SharedUnchanged
    <2>2. u # t
      BY <1>1 DEF Invoke, Goto, Resolving
    <2> QED
      BY <1>1, <2>1, <2>2, <1>0 DEF Invoke, Goto
  <1>2. ASSUME NEW t \in Tasks, Lock(t)
        PROVE  ReadOK(u)'
    <2>1. UNCHANGED <<state, active, color, blink>>
      BY <1>2, SharedUnchanged
    <2>2. CASE u = t
      <3>1. idx'[u] = 1
        BY <1>2, <2>2 DEF Lock, EnterBody, CallOK
      <3>2. pc'[u] \in {"state", "gate", "clear", "resolve"}
        BY <1>2, <2>2 DEF Lock, EnterBody, Goto
      <3> QED
        BY <3>1, <3>2 DEF ReadOK, Resolving
    <2>3. CASE u # t
      BY <1>2, <2>1, <2>3, <1>0 DEF Lock, EnterBody, Goto
    <2> QED
      BY <2>2, <2>3
  <1>3. ASSUME NEW t \in Tasks, Inner(t)
        PROVE  ReadOK(u)'
    <2>1. CASE u = t
      <3>1. LoadState(t) \/ LoadActive(t) \/ LoadColor(t) \/ LoadBlink(t)
        BY <1>3, <2>1 DEF Inner, Gate, StoreActive, StoreColor, StoreBlink, StoreState,
                          ClearActive, At, Goto, Resolving
      <3>2. ReadOK(t)
        BY <3>1, <2>1 DEF ReadInv, LoadState, LoadActive, LoadColor, LoadBlink, At, Resolving
      <3> QED
        BY <3>1, <3>2, <2>1, LoadReadOK
    <2>2. CASE u # t
      <3>1. pc[t] \in Body /\ pc[u] \in Body
        BY <1>3, <2>2, InnerStep DEF Body
      <3> QED
        BY <3>1, <2>2 DEF Mutex
    <2> QED
      BY <2>1, <2>2
  <1>4. ASSUME NEW t \in Tasks, Unlock(t)
        PROVE  ReadOK(u)'
    <2>1. UNCHANGED <<state, active, color, blink>>
      BY <1>4, SharedUnchanged
    <2>2. pc'[t] \in {"transmit", "idle"}
      BY <1>4 DEF Unlock, Leave, Goto
    <2>3. u # t
      BY <2>2 DEF Resolving
    <2> QED
      BY <1>4, <2>1, <2>3, <1>0 DEF Unlock, Leave, Goto
  <1>5. ASSUME NEW t \in Tasks, Transmit(t)
        PROVE  ReadOK(u)'
    <2>1. UNCHANGED <<state, active, color, blink>>
      BY <1>5, SharedUnchanged
    <2>2. u # t
      BY <1>5 DEF Transmit, Goto, Resolving
    <2> QED
      BY <1>5, <2>1, <2>2, <1>0 DEF Transmit, Goto
  <1>6. CASE UNCHANGED vars
    BY <1>6, <1>0 DEF vars
  <1>7. Renderer \in Tasks /\ Callers \subseteq Tasks
    BY DEF Tasks
  <1> QED
    BY <1>1, <1>2, <1>3, <1>4, <1>5, <1>6, <1>7 DEF Next, Step, Inner

\* Every frame that render hands to the driver, and every output that
\* get_output returns, resolves the memory of one instant.
THEOREM SnapshotConsistentHolds ==
  ASSUME LockCreated
  PROVE  Spec => []SnapshotConsistent
  <1> DEFINE I == TInv /\ Mutex /\ ReadInv
  <1>1. Init => I
    <2> SUFFICES ASSUME Init PROVE I
      OBVIOUS
    <2>1. Mutex
      BY LedAssumption DEF Init, Mutex, Body, Storing, Resolving
    <2>2. ReadInv
      BY DEF Init, ReadInv, Resolving
    <2> QED
      BY <2>1, <2>2, InitTInv
  <1>2. I /\ [Next]_vars => I'
    BY NextTInv, NextMutex, NextReadInv
  <1>3. I => SnapshotConsistent
    <2> SUFFICES ASSUME I, NEW t \in Tasks, pc[t] = "resolve", LoopDone(t),
                        NEW k \in 1 .. Len(op[t].ids), IdValid(op[t].ids[k])
                 PROVE  buf[t][k] = Resolved(state, Override(op[t].ids[k]), op[t].now)
      BY DEF SnapshotConsistent
    <2>1. op[t] \in AnyCall /\ op[t].kind \in {"get", "render"}
      BY DEF TInv, CallOK, Resolving
    <2>2. Items(op[t]) = op[t].ids /\ Len(op[t].ids) \in 1 .. LedCount
      BY <2>1, ReadItems
    <2>3. k \in 1 .. idx[t] - 1
      BY <2>2, LedAssumption DEF LoopDone, TInv, TypeOK
    <2> QED
      BY <2>2, <2>3 DEF ReadInv, ReadOK, Resolving
  <1> QED
    BY <1>1, <1>2, <1>3, PTL DEF Spec

\* render never holds the lock while it waits for the RMT transfer (FR-9).
THEOREM UnlockedTransmitHolds ==
  ASSUME LockCreated
  PROVE  Spec => []UnlockedTransmit
  <1> DEFINE I == TInv /\ Mutex
  <1>1. Init => I
    BY InitTInv, LedAssumption DEF Init, Mutex, Body, Storing, Resolving
  <1>2. I /\ [Next]_vars => I'
    BY NextTInv, NextMutex
  <1>3. I => UnlockedTransmit
    BY DEF Mutex, UnlockedTransmit, Body, Storing, Resolving
  <1> QED
    BY <1>1, <1>2, <1>3, PTL DEF Spec
-----------------------------------------------------------------------------

\* A caller's call is one of its requests; only the renderer renders.
OpInv == \A t \in Tasks : pc[t] # "idle" =>
            \/ t \in Callers /\ op[t] \in Requests[t]
            \/ op[t].kind = "render"

\* An override is somebody's command, or the holder is about to complete it.
SentInv ==
    /\ OpInv
    /\ \A t \in Tasks : pc[t] = "blink" => color[Item(t).id] = Item(t).color
    /\ \A i \in Leds : active[i] =>
          \/ Sent(i, color[i], blink[i])
          \/ \E t \in Tasks : pc[t] \in {"color", "blink"} /\ Item(t).id = i

\* Every step keeps a task's call among the calls it makes.
LEMMA NextOpInv ==
  ASSUME TInv, OpInv, [Next]_vars
  PROVE  OpInv'
  <1> USE DEF TInv, TypeOK, OpInv, Goto
  <1>1. CASE \E t \in Callers : \E c \in Requests[t] : Invoke(t, c)
    BY <1>1 DEF Invoke, Tasks
  <1>2. CASE \E now \in Times : Invoke(Renderer, Render(now))
    BY <1>2 DEF Invoke, Render, Tasks
  <1>3. ASSUME NEW t \in Tasks, Lock(t)
        PROVE  OpInv'
    <2>1. op' = op /\ pc[t] = "lock" /\ \A u \in Tasks \ {t} : pc'[u] = pc[u]
      BY <1>3 DEF Lock, EnterBody
    <2> QED
      BY <2>1
  <1>4. ASSUME NEW t \in Tasks, Inner(t)
        PROVE  OpInv'
    BY <1>4, InnerStep DEF Body, Storing, Resolving
  <1>5. ASSUME NEW t \in Tasks, Unlock(t)
        PROVE  OpInv'
    <2>1. pc[t] # "idle" /\ \A u \in Tasks \ {t} : pc'[u] = pc[u] /\ op'[u] = op[u]
      BY <1>5 DEF Unlock, Leave, AtEnd
    <2>2. pc'[t] = "idle" \/ op'[t].kind = "render"
      BY <1>5 DEF Unlock, Leave
    <2> QED
      BY <2>1, <2>2
  <1>6. ASSUME NEW t \in Tasks, Transmit(t)
        PROVE  OpInv'
    BY <1>6 DEF Transmit
  <1>7. CASE UNCHANGED vars
    BY <1>7 DEF vars
  <1> QED
    BY <1>1, <1>2, <1>3, <1>4, <1>5, <1>6, <1>7 DEF Next, Step, Inner

\* A command of a call that is under way was asked for.
LEMMA RequestSent ==
  ASSUME NEW t \in Callers, op[t] \in Requests[t], op[t] \in AnyCall, op[t].kind = "set",
         NEW k \in 1 .. Len(Items(op[t])), ArgsValid(op[t])
  PROVE  Sent(Items(op[t])[k].id, Items(op[t])[k].color, Items(op[t])[k].blink)
  <1>1. op[t].cmds \in Seq(Cmd) /\ Items(op[t]) = op[t].cmds
    BY DEF AnyCall, Call, Render, Items
  <1>2. op[t].cmds[k] \in Cmd /\ k \in DOMAIN op[t].cmds
    BY <1>1
  <1>3. op[t].cmds[k] = [id |-> op[t].cmds[k].id, color |-> op[t].cmds[k].color,
                         blink |-> op[t].cmds[k].blink]
    BY <1>2 DEF Cmd
  <1> QED
    BY <1>1, <1>2, <1>3 DEF Sent

\* The three stores of a command: between the first and the last the holder
\* owns the LED, after the last the LED shows the command.
LEMMA StoreSentInv ==
  ASSUME LockCreated, TInv, Mutex, SentInv, NEW t \in Tasks,
         StoreActive(t) \/ StoreColor(t) \/ StoreBlink(t)
  PROVE  SentInv'
  <1> USE DEF TInv, TypeOK, Goto, At
  <1>1. \A u \in Tasks : pc[u] \in Body => u = t
    BY DEF Mutex, StoreActive, StoreColor, StoreBlink, Body, Storing
  <1>2. /\ op[t] \in AnyCall /\ op[t].kind = "set" /\ ArgsValid(op[t])
        /\ idx[t] \in 1 .. Len(Items(op[t]))
        /\ Item(t) = Items(op[t])[idx[t]] /\ Item(t).id \in Leds
        /\ t \in Callers /\ op[t] \in Requests[t]
    <2>1. op[t] \in AnyCall /\ op[t].kind = "set" /\ ArgsValid(op[t]) /\ pc[t] # "idle"
      BY DEF CallOK, StoreActive, StoreColor, StoreBlink
    <2>2. idx[t] \in 1 .. Len(Items(op[t]))
      BY <2>1, SetItems DEF StoreActive, StoreColor, StoreBlink, LoopDone
    <2> QED
      BY <2>1, <2>2, SetItems DEF Item, SentInv, OpInv
  <1>3. OpInv'
    <2>1. Next
      BY DEF Next, Step
    <2> QED
      BY <2>1, NextOpInv DEF SentInv
  <1>4. CASE StoreActive(t)
    <2>1. /\ pc'[t] = "color" /\ \A u \in Tasks \ {t} : pc'[u] = pc[u]
          /\ active' = [active EXCEPT ![Item(t).id] = TRUE]
          /\ UNCHANGED <<color, blink, op, idx>>
          /\ pc[t] = "active"
      BY <1>4 DEF StoreActive
    <2>2. \A u \in Tasks : Item(u)' = Item(u)
      BY <2>1 DEF Item
    <2>3. \A u \in Tasks : pc'[u] # "blink"
      BY <2>1, <1>1 DEF Body, Storing
    <2>4. ASSUME NEW i \in Leds, active'[i]
          PROVE  Sent(i, color[i], blink[i]) \/ Item(t).id = i
      <3>1. CASE i # Item(t).id
        BY <3>1, <2>1, <2>4, <1>1 DEF SentInv, Body, Storing
      <3> QED
        BY <3>1
    <2> QED
      BY <2>1, <2>2, <2>3, <2>4, <1>3 DEF SentInv
  <1>5. CASE StoreColor(t)
    <2>1. /\ pc'[t] = "blink" /\ \A u \in Tasks \ {t} : pc'[u] = pc[u]
          /\ color' = [color EXCEPT ![Item(t).id] = Item(t).color]
          /\ UNCHANGED <<active, blink, op, idx>>
          /\ pc[t] = "color"
      BY <1>5 DEF StoreColor
    <2>2. \A u \in Tasks : Item(u)' = Item(u)
      BY <2>1 DEF Item
    <2>3. \A u \in Tasks : pc'[u] = "blink" => u = t
      BY <2>1, <1>1 DEF Body, Storing
    <2>4. color'[Item(t).id] = Item(t).color
      BY <2>1, <1>2
    <2>5. ASSUME NEW i \in Leds, active'[i]
          PROVE  Sent(i, color'[i], blink[i]) \/ Item(t).id = i
      <3>1. CASE i # Item(t).id
        <4>1. color'[i] = color[i] /\ active[i]
          BY <3>1, <2>1, <2>5
        <4> QED
          BY <4>1, <3>1, <1>1 DEF SentInv, Body, Storing
      <3> QED
        BY <3>1
    <2> QED
      BY <2>1, <2>2, <2>3, <2>4, <2>5, <1>3 DEF SentInv
  <1>6. CASE StoreBlink(t)
    <2>1. /\ pc'[t] = "active" /\ \A u \in Tasks \ {t} : pc'[u] = pc[u]
          /\ blink' = [blink EXCEPT ![Item(t).id] = Item(t).blink]
          /\ UNCHANGED <<active, color, op>>
          /\ pc[t] = "blink"
      BY <1>6 DEF StoreBlink
    <2>2. \A u \in Tasks : pc'[u] \notin {"color", "blink"}
      BY <2>1, <1>1 DEF Body, Storing
    <2>3. Sent(Item(t).id, Item(t).color, Item(t).blink)
      BY <1>2, RequestSent
    <2>4. color[Item(t).id] = Item(t).color
      BY <2>1 DEF SentInv
    <2>5. ASSUME NEW i \in Leds, active'[i]
          PROVE  Sent(i, color[i], blink'[i])
      <3>1. CASE i = Item(t).id
        BY <3>1, <2>1, <2>3, <2>4, <1>2
      <3>2. CASE i # Item(t).id
        <4>1. blink'[i] = blink[i] /\ active[i]
          BY <3>2, <2>1, <2>5
        <4> QED
          BY <4>1, <3>2, <1>1 DEF SentInv, Body, Storing
      <3> QED
        BY <3>1, <3>2
    <2> QED
      BY <2>1, <2>2, <2>5, <1>3 DEF SentInv
  <1> QED
    BY <1>4, <1>5, <1>6
\* Every step keeps each override and each frame a command somebody sent.
LEMMA NextSentInv ==
  ASSUME LockCreated, TInv, Mutex, SentInv, [Next]_vars
  PROVE  SentInv'
  <1> USE DEF TInv, TypeOK, Goto, At
  <1>0. OpInv'
    BY NextOpInv DEF SentInv
  \* A step that leaves the memory alone and no task on the way of a store.
  <1>1. ASSUME NEW t \in Tasks, UNCHANGED <<state, active, color, blink>>,
               pc[t] \notin {"color", "blink"}, pc'[t] \notin {"color", "blink"},
               \A u \in Tasks \ {t} : pc'[u] = pc[u] /\ op'[u] = op[u] /\ idx'[u] = idx[u]
        PROVE  SentInv'
    <2>1. \A u \in Tasks \ {t} : Item(u)' = Item(u)
      BY <1>1 DEF Item
    <2>2. ASSUME NEW u \in Tasks, pc'[u] = "blink"
          PROVE  color'[Item(u)'.id] = Item(u)'.color
      <3>1. u # t /\ pc[u] = "blink"
        BY <1>1, <2>2
      <3> QED
        BY <3>1, <2>1, <1>1 DEF SentInv
    <2>3. ASSUME NEW i \in Leds, active'[i]
          PROVE  \/ Sent(i, color'[i], blink'[i])
                 \/ \E u \in Tasks : pc'[u] \in {"color", "blink"} /\ Item(u)'.id = i
      <3>1. CASE Sent(i, color[i], blink[i])
        BY <3>1, <1>1
      <3>2. ASSUME NEW u \in Tasks, pc[u] \in {"color", "blink"}, Item(u).id = i
            PROVE  \E v \in Tasks : pc'[v] \in {"color", "blink"} /\ Item(v)'.id = i
        BY <3>2, <1>1, <2>1
      <3> QED
        BY <3>1, <3>2, <2>3, <1>1 DEF SentInv
    <2> QED
      BY <2>2, <2>3, <1>0 DEF SentInv
  <1>2. ASSUME NEW t \in Tasks, NEW c, Invoke(t, c)
        PROVE  SentInv'
    <2>1. UNCHANGED <<state, active, color, blink>>
      BY <1>2, SharedUnchanged
    <2> QED
      BY <1>1, <1>2, <2>1 DEF Invoke
  <1>3. ASSUME NEW t \in Tasks, Lock(t)
        PROVE  SentInv'
    <2>1. UNCHANGED <<state, active, color, blink>>
      BY <1>3, SharedUnchanged
    <2>2. pc[t] = "lock" /\ pc'[t] \in {"state", "gate", "clear", "resolve"}
      BY <1>3 DEF Lock, EnterBody
    <2>3. \A u \in Tasks \ {t} : pc'[u] = pc[u] /\ op'[u] = op[u] /\ idx'[u] = idx[u]
      BY <1>3 DEF Lock, EnterBody
    <2> QED
      BY <1>1, <2>1, <2>2, <2>3
  <1>4. ASSUME NEW t \in Tasks,
               \/ Gate(t) \/ LoadState(t) \/ LoadActive(t) \/ LoadColor(t) \/ LoadBlink(t)
        PROVE  SentInv'
    <2>1. UNCHANGED <<state, active, color, blink>>
      BY <1>4, SharedUnchanged
    <2>2. /\ op' = op
          /\ \A u \in Tasks \ {t} : pc'[u] = pc[u] /\ idx'[u] = idx[u]
      BY <1>4, InnerStep DEF Inner
    <2>3. pc[t] \in {"gate"} \cup Resolving
      BY <1>4 DEF Gate, LoadState, LoadActive, LoadColor, LoadBlink, Resolving
    <2>4. pc'[t] \in {"active", "reject"} \cup Resolving
      BY <1>4 DEF Gate, LoadState, LoadActive, LoadColor, LoadBlink, Emit, Resolving
    <2> QED
      BY <1>1, <2>1, <2>2, <2>3, <2>4 DEF Resolving
  <1>5. ASSUME NEW t \in Tasks, StoreActive(t) \/ StoreColor(t) \/ StoreBlink(t)
        PROVE  SentInv'
    BY <1>5, StoreSentInv
  <1>6. ASSUME NEW t \in Tasks, StoreState(t) \/ ClearActive(t)
        PROVE  SentInv'
    <2>1. pc[t] \in {"state", "clear"} /\ pc'[t] = "clear"
      BY <1>6 DEF StoreState, ClearActive
    <2>2. /\ op' = op
          /\ \A u \in Tasks \ {t} : pc'[u] = pc[u] /\ idx'[u] = idx[u]
      BY <1>6, InnerStep DEF Inner
    <2>3. \A u \in Tasks : pc[u] \notin {"color", "blink"} /\ pc'[u] \notin {"color", "blink"}
      BY <2>1, <2>2 DEF Mutex, Body, Storing
    <2>4. /\ UNCHANGED <<color, blink>>
          /\ \A i \in Leds : active'[i] => active[i]
      BY <1>6 DEF StoreState, ClearActive
    <2>5. ASSUME NEW i \in Leds, active'[i]
          PROVE  Sent(i, color'[i], blink'[i])
      BY <2>3, <2>4, <2>5 DEF SentInv
    <2> QED
      BY <2>3, <2>5, <1>0 DEF SentInv
  <1>7. ASSUME NEW t \in Tasks, Unlock(t)
        PROVE  SentInv'
    <2>1. UNCHANGED <<state, active, color, blink>>
      BY <1>7, SharedUnchanged
    <2>2. /\ pc[t] \in {"reject", "active", "clear", "resolve"}
          /\ pc'[t] \in {"transmit", "idle"}
      BY <1>7 DEF Unlock, Leave, AtEnd
    <2>3. \A u \in Tasks \ {t} : pc'[u] = pc[u] /\ op'[u] = op[u] /\ idx'[u] = idx[u]
      BY <1>7 DEF Unlock, Leave
    <2> QED
      BY <1>1, <2>1, <2>2, <2>3
  <1>8. ASSUME NEW t \in Tasks, Transmit(t)
        PROVE  SentInv'
    <2>1. UNCHANGED <<state, active, color, blink>>
      BY <1>8, SharedUnchanged
    <2> QED
      BY <1>1, <1>8, <2>1 DEF Transmit
  <1>9. CASE UNCHANGED vars
    <2>1. UNCHANGED <<active, color, blink, pc, op, idx>>
      BY <1>9 DEF vars
    <2>2. \A u \in Tasks : Item(u)' = Item(u)
      BY <2>1 DEF Item
    <2> QED
      BY <2>1, <2>2, <1>0 DEF SentInv
  <1>10. Renderer \in Tasks /\ Callers \subseteq Tasks
    BY DEF Tasks
  <1> QED
    BY <1>2, <1>3, <1>4, <1>5, <1>6, <1>7, <1>8, <1>9, <1>10 DEF Next, Step

\* The frame of a render that has just left its loop holds only commands.
LEMMA NextFrame ==
  ASSUME LockCreated, TInv, Mutex, ReadInv, SentInv, FrameNeverTorn, [Next]_vars
  PROVE  FrameNeverTorn'
  <1> USE DEF TInv, TypeOK, Goto
  <1> SUFFICES ASSUME NEW u \in Tasks, pc'[u] = "transmit",
                      NEW k \in 1 .. LedCount, buf'[u][k].state = "custom"
               PROVE  Sent(op'[u].ids[k], buf'[u][k].color, buf'[u][k].blink)
    BY DEF FrameNeverTorn
  <1>0. ASSUME pc[u] = "transmit", op'[u] = op[u], buf'[u] = buf[u]
        PROVE  Sent(op'[u].ids[k], buf'[u][k].color, buf'[u][k].blink)
    BY <1>0 DEF FrameNeverTorn
  <1>1. ASSUME NEW t \in Tasks, NEW c, Invoke(t, c)
        PROVE  Sent(op'[u].ids[k], buf'[u][k].color, buf'[u][k].blink)
    BY <1>0, <1>1 DEF Invoke
  <1>2. ASSUME NEW t \in Tasks, Lock(t)
        PROVE  Sent(op'[u].ids[k], buf'[u][k].color, buf'[u][k].blink)
    <2>1. pc'[t] # "transmit" /\ UNCHANGED <<op, buf>>
      BY <1>2 DEF Lock, EnterBody
    <2>2. pc'[u] = pc[u]
      BY <1>2, <2>1 DEF Lock, EnterBody
    <2> QED
      BY <2>1, <2>2, <1>0
  <1>3. ASSUME NEW t \in Tasks, Inner(t)
        PROVE  Sent(op'[u].ids[k], buf'[u][k].color, buf'[u][k].blink)
    <2>1. u # t
      BY <1>3, InnerStep DEF Body, Storing, Resolving
    <2> QED
      BY <1>3, <2>1, InnerStep, <1>0
  <1>4. ASSUME NEW t \in Tasks, Unlock(t)
        PROVE  Sent(op'[u].ids[k], buf'[u][k].color, buf'[u][k].blink)
    <2>1. CASE u # t
      BY <1>4, <2>1, <1>0 DEF Unlock, Leave
    <2>2. CASE u = t
      <3>1. op[u].kind = "render" /\ op'[u] = op[u] /\ buf'[u] = buf[u]
        BY <1>4, <2>2 DEF Unlock, Leave
      <3>2. op[u] \in AnyCall /\ pc[u] = "resolve" /\ LoopDone(u)
        BY <1>4, <2>2, <3>1 DEF Unlock, AtEnd, CallOK
      <3>3. op[u].ids = AllIds /\ Items(op[u]) = AllIds
        BY <3>1, <3>2, ReadItems
      <3>4. op[u].ids[k] = k - 1 /\ IdValid(op[u].ids[k]) /\ k - 1 \in Leds
        BY <3>3, LedAssumption DEF AllIds, IdValid, Leds
      <3>5. k \in 1 .. idx[u] - 1 /\ k <= Len(op[u].ids)
        BY <3>2, <3>3, AllIdsSeq, LedAssumption DEF LoopDone
      <3>6. buf[u][k] = Resolved(state, Override(k - 1), op[u].now)
        BY <3>2, <3>4, <3>5 DEF ReadInv, ReadOK, Resolving
      <3>7. /\ active[k - 1]
            /\ buf[u][k].color = color[k - 1] /\ buf[u][k].blink = blink[k - 1]
        <4>1. state # "custom"
          BY DEF AutoStates
        <4> QED
          BY <3>1, <3>6, <4>1 DEF Resolved, Override
      <3>8. \A v \in Tasks : pc[v] \notin {"color", "blink"}
        BY <3>2 DEF Mutex, Body, Storing, Resolving
      <3> QED
        BY <3>1, <3>4, <3>7, <3>8 DEF SentInv
    <2> QED
      BY <2>1, <2>2
  <1>5. ASSUME NEW t \in Tasks, Transmit(t)
        PROVE  Sent(op'[u].ids[k], buf'[u][k].color, buf'[u][k].blink)
    BY <1>0, <1>5 DEF Transmit
  <1>6. CASE UNCHANGED vars
    BY <1>0, <1>6 DEF vars
  <1>7. Renderer \in Tasks /\ Callers \subseteq Tasks
    BY DEF Tasks
  <1> QED
    BY <1>1, <1>2, <1>3, <1>4, <1>5, <1>6, <1>7 DEF Next, Step, Inner

\* With the mutex no frame ever shows half a command: FR-9's worked example.
THEOREM FrameNeverTornHolds ==
  ASSUME LockCreated
  PROVE  Spec => []FrameNeverTorn
  <1> DEFINE I == TInv /\ Mutex /\ ReadInv /\ SentInv /\ FrameNeverTorn
  <1>1. Init => I
    <2> SUFFICES ASSUME Init PROVE I
      OBVIOUS
    <2>1. Mutex
      BY LedAssumption DEF Init, Mutex, Body, Storing, Resolving
    <2>2. ReadInv /\ FrameNeverTorn
      BY DEF Init, ReadInv, Resolving, FrameNeverTorn
    <2>3. SentInv
      BY DEF Init, SentInv, OpInv
    <2> QED
      BY <2>1, <2>2, <2>3, InitTInv
  <1>2. I /\ [Next]_vars => I'
    BY NextTInv, NextMutex, NextReadInv, NextSentInv, NextFrame
  <1>3. I => FrameNeverTorn
    OBVIOUS
  <1> QED
    BY <1>1, <1>2, <1>3, PTL DEF Spec

\* Whatever the tasks do, with or without the mutex, the chain shows the frame
\* that render hands to the driver.
THEOREM WireShowsFrameHolds == Spec => []WireShowsFrame
  <1>1. TypeOK => WireShowsFrame
    BY LatchedWire DEF TypeOK, WireShowsFrame
  <1> QED
    BY <1>1, TypeCorrect, PTL
=============================================================================
