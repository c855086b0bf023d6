------------------------------ MODULE LedRgb ------------------------------
(***************************************************************************)
(* The LED state machine of components/led_rgb/led_rgb.c, at the           *)
(* granularity of its single loads and stores of shared memory.            *)
(*                                                                         *)
(* Tasks call the public functions concurrently: app_led_task renders, the *)
(* HTTP server, button, network and event tasks call the setters and       *)
(* getters.  Each function checks its arguments, takes s_lock, makes its   *)
(* loads and stores one after the other, and gives s_lock back.  The lock  *)
(* exists only when led_rgb_init has created it: without it every take and *)
(* give is a no-op and the loads and stores of the tasks interleave.       *)
(***************************************************************************)
EXTENDS LedDriver

VARIABLES
    state,      \* s_state
    active,     \* s_custom_active[]
    color,      \* s_custom_color[]
    blink,      \* s_custom_blink_ms[]
    lock,       \* the task that holds s_lock, or NoTask
    pc,         \* where each task is in its call
    op,         \* the call each task is in
    idx,        \* its loop counter, from 1
    tmp,        \* the locals of led_rgb_compute_locked
    buf         \* where it resolves to: s_frame, or the caller's output

shared == <<state, active, color, blink>>
vars == <<state, active, color, blink, lock, pc, op, idx, tmp, buf>>

Resolving == {"resolve", "active?", "color?", "blink?"}
Storing   == {"state", "active", "color", "blink", "clear"}
Body      == {"gate", "reject"} \cup Storing \cup Resolving

Fresh == [state |-> "provisioning", color |-> "blue", blink |-> 0]

\* The static initialisers, which led_rgb_init and app_main's first
\* set_state (PROVISIONING) both leave as they are.
Init ==
    /\ state = "provisioning"
    /\ active = [i \in Leds |-> FALSE]
    /\ color = [i \in Leds |-> "black"]
    /\ blink = [i \in Leds |-> 0]
    /\ lock = NoTask
    /\ pc = [t \in Tasks |-> "idle"]
    /\ op = [t \in Tasks |-> NoCall]
    /\ idx = [t \in Tasks |-> 1]
    /\ tmp = [t \in Tasks |-> Fresh]
    /\ buf = [t \in Tasks |-> [k \in 1 .. LedCount |-> Dark]]

Goto(t, l) == pc' = [pc EXCEPT ![t] = l]
Item(t)    == Items(op[t])[idx[t]]
LoopDone(t) == idx[t] > Len(Items(op[t]))
At(t, l)   == pc[t] = l /\ ~LoopDone(t)
Advance(t) == idx' = [idx EXCEPT ![t] = @ + 1]

\* A task calls a public function, which checks the arguments: a bad one
\* returns at once and is no step.
Invoke(t, c) ==
    /\ pc[t] = "idle"
    /\ ArgsValid(c)
    /\ Goto(t, "lock")
    /\ op' = [op EXCEPT ![t] = c]
    /\ UNCHANGED <<shared, lock, idx, tmp, buf>>

\* The first statement under the lock.
EnterBody(t) ==
    /\ Goto(t, CASE op[t].kind = "state" -> "state"
                 [] op[t].kind = "set"   -> "gate"
                 [] op[t].kind = "clear" -> "clear"
                 [] OTHER                -> "resolve")
    /\ UNCHANGED <<shared, op, idx, tmp, buf>>

\* Mutants of Lock: one kind of call forgets to take the lock.
LockNotForClear(t) ==
    /\ pc[t] = "lock"
    /\ IF op[t].kind = "clear" THEN UNCHANGED lock
       ELSE lock = NoTask /\ lock' = t
    /\ EnterBody(t)

LockNotForRender(t) ==
    /\ pc[t] = "lock"
    /\ IF op[t].kind = "render" THEN UNCHANGED lock
       ELSE lock = NoTask /\ lock' = t
    /\ EnterBody(t)

\* led_rgb_lock: a blocking take, or nothing at all without a mutex.
Lock(t) ==
    /\ pc[t] = "lock"
    /\ LockCreated => lock = NoTask
    /\ lock' = IF LockCreated THEN t ELSE lock
    /\ EnterBody(t)

\* Mutant of Gate: the connection state is not tested.
GateOpen(t) ==
    /\ pc[t] = "gate"
    /\ Goto(t, "active")
    /\ UNCHANGED <<shared, lock, op, idx, tmp, buf>>

\* The connection gate of the set_custom functions.
Gate(t) ==
    /\ pc[t] = "gate"
    /\ Goto(t, IF state = "connected" THEN "active" ELSE "reject")
    /\ UNCHANGED <<shared, lock, op, idx, tmp, buf>>

\* led_rgb_apply_command and the loop of set_custom_all: three stores per LED.
StoreActive(t) ==
    /\ At(t, "active")
    /\ active' = [active EXCEPT ![Item(t).id] = TRUE]
    /\ Goto(t, "color")
    /\ UNCHANGED <<state, color, blink, lock, op, idx, tmp, buf>>

StoreColor(t) ==
    /\ At(t, "color")
    /\ color' = [color EXCEPT ![Item(t).id] = Item(t).color]
    /\ Goto(t, "blink")
    /\ UNCHANGED <<state, active, blink, lock, op, idx, tmp, buf>>

StoreBlink(t) ==
    /\ At(t, "blink")
    /\ blink' = [blink EXCEPT ![Item(t).id] = Item(t).blink]
    /\ Goto(t, "active")
    /\ Advance(t)
    /\ UNCHANGED <<state, active, color, lock, op, tmp, buf>>

\* set_state stores the automatic state, then clears every override.
StoreState(t) ==
    /\ pc[t] = "state"
    /\ state' = op[t].to
    /\ Goto(t, "clear")
    /\ UNCHANGED <<active, color, blink, lock, op, idx, tmp, buf>>

\* The loops of set_state and of the clear_custom functions.
ClearActive(t) ==
    /\ At(t, "clear")
    /\ active' = [active EXCEPT ![Item(t)] = FALSE]
    /\ Advance(t)
    /\ UNCHANGED <<state, color, blink, lock, pc, op, tmp, buf>>
\* led_rgb_compute_locked ends: the locals go to the destination and the
\* blink phase is evaluated.
Emit(t, v) ==
    /\ buf' = [buf EXCEPT ![t][idx[t]] =
                  [state |-> v.state, color |-> v.color, blink |-> v.blink,
                   on |-> BlinkOn(v.blink, op[t].now)]]
    /\ tmp' = [tmp EXCEPT ![t] = Fresh]
    /\ Goto(t, "resolve")
    /\ Advance(t)

\* It starts from the pattern of the automatic state (one load of s_state
\* serves both uses); get_output answers an invalid id with a dark ERROR.
LoadState(t) ==
    /\ At(t, "resolve")
    /\ IF IdValid(Item(t))
       THEN /\ tmp' = [tmp EXCEPT ![t] =
                         [state |-> state, color |-> Pattern[state].color,
                          blink |-> Pattern[state].blink]]
            /\ Goto(t, "active?")
            /\ UNCHANGED <<buf, idx>>
       ELSE /\ buf' = [buf EXCEPT ![t][idx[t]] = Dark]
            /\ Advance(t)
            /\ UNCHANGED <<tmp, pc>>
    /\ UNCHANGED <<shared, lock, op>>

LoadActive(t) ==
    /\ At(t, "active?")
    /\ IF active[Item(t)]
       THEN Goto(t, "color?") /\ UNCHANGED <<tmp, buf, idx>>
       ELSE Emit(t, tmp[t])
    /\ UNCHANGED <<shared, lock, op>>

LoadColor(t) ==
    /\ At(t, "color?")
    /\ tmp' = [tmp EXCEPT ![t].color = color[Item(t)]]
    /\ Goto(t, "blink?")
    /\ UNCHANGED <<shared, lock, op, idx, buf>>

LoadBlink(t) ==
    /\ At(t, "blink?")
    /\ Emit(t, [state |-> "custom", color |-> tmp[t].color, blink |-> blink[Item(t)]])
    /\ UNCHANGED <<shared, lock, op>>

\* The function has left its loop, or the gate refused it.
AtEnd(t) == \/ pc[t] = "reject"
            \/ pc[t] \in {"active", "clear", "resolve"} /\ LoopDone(t)

\* render goes on to its sink, the others return and their locals are gone.
Leave(t) ==
    /\ Goto(t, IF op[t].kind = "render" THEN "transmit" ELSE "idle")
    /\ op' = IF op[t].kind = "render" THEN op ELSE [op EXCEPT ![t] = NoCall]
    /\ idx' = [idx EXCEPT ![t] = 1]
    /\ buf' = IF op[t].kind = "get"
              THEN [buf EXCEPT ![t] = [k \in 1 .. LedCount |-> Dark]] ELSE buf
    /\ UNCHANGED <<shared, tmp>>

\* Mutants of Unlock: the error path returns without the give; render keeps
\* the lock for its sink.
UnlockNotOnReject(t) ==
    /\ AtEnd(t)
    /\ lock' = IF pc[t] = "reject" THEN lock ELSE NoTask
    /\ Leave(t)

UnlockNotForSink(t) ==
    /\ AtEnd(t)
    /\ lock' = IF op[t].kind = "render" THEN lock ELSE NoTask
    /\ Leave(t)

\* led_rgb_unlock.
Unlock(t) ==
    /\ AtEnd(t)
    /\ lock' = IF LockCreated THEN NoTask ELSE lock
    /\ Leave(t)

\* The sink, led_driver_write, blocks on the transfer of Wire(s_frame).
Transmit(t) ==
    /\ pc[t] = "transmit"
    /\ Goto(t, "idle")
    /\ op' = [op EXCEPT ![t] = NoCall]
    /\ UNCHANGED <<shared, lock, idx, tmp, buf>>

\* One task goes on with the call it is in.
Step(t) ==
    \/ Lock(t) \/ Gate(t)
    \/ StoreActive(t) \/ StoreColor(t) \/ StoreBlink(t)
    \/ StoreState(t) \/ ClearActive(t)
    \/ LoadState(t) \/ LoadActive(t) \/ LoadColor(t) \/ LoadBlink(t)
    \/ Unlock(t) \/ Transmit(t)

Next ==
    \/ \E t \in Callers : \E c \in Requests[t] : Invoke(t, c)
    \/ \E now \in Times : Invoke(Renderer, Render(now))
    \/ \E t \in Tasks : Step(t)

\* The scheduler runs every task that can go on; who gets a contended lock
\* first is left open, so nothing is assumed of Lock beyond weak fairness.
Fairness == \A t \in Tasks : WF_vars(Step(t))

Spec == Init /\ [][Next]_vars /\ Fairness
-----------------------------------------------------------------------------

Override(i) == [active |-> active[i], color |-> color[i], blink |-> blink[i]]

\* The variables hold what their C types and the argument checks allow.  No
\* period beyond LED_RGB_MAX_BLINK_MS is ever stored.
TypeOK ==
    /\ state \in AutoStates
    /\ active \in [Leds -> BOOLEAN]
    /\ color \in [Leds -> Colors]
    /\ blink \in [Leds -> 0 .. MaxBlink]
    /\ lock \in Tasks \cup {NoTask}
    /\ pc \in [Tasks -> {"idle", "lock", "transmit"} \cup Body]
    /\ op \in [Tasks -> AnyCall \cup {NoCall}]
    /\ idx \in [Tasks -> Nat \ {0}]
    /\ tmp \in [Tasks -> [state : AutoStates, color : Colors, blink : Nat]]
    /\ buf \in [Tasks -> [1 .. LedCount -> Output]]

\* No task is between the take and the give of led_rgb's lock.
Quiescent == \A t \in Tasks : pc[t] \notin Body

\* The connection gate: whenever no call is half done, an LED that is
\* overridden implies that the device is connected (set_custom* tests the
\* state and stores under one lock, set_state clears under the same).
CustomNeedsConnected ==
    Quiescent => \A i \in Leds : active[i] => state = "connected"

\* A frame that render is about to transmit resolves every LED against one
\* and the same memory and time: render holds the lock over the whole
\* snapshot, so no setter's stores fall between the loads of two LEDs.
SnapshotConsistent ==
    \A t \in Tasks : pc[t] = "resolve" /\ LoopDone(t) =>
        \A k \in 1 .. Len(op[t].ids) :
            IdValid(op[t].ids[k]) =>
                buf[t][k] = Resolved(state, Override(op[t].ids[k]), op[t].now)

\* Some caller asks for colour c and period b on LED i.
Sent(i, c, b) ==
    \E s \in Callers : \E r \in Requests[s] :
        /\ r.kind = "set"
        /\ \E j \in DOMAIN r.cmds : r.cmds[j] = [id |-> i, color |-> c, blink |-> b]

\* An LED that a transmitted frame shows as CUSTOM shows the colour and the
\* period of one command somebody sent, never the flag, the colour and the
\* period of different moments.
FrameNeverTorn ==
    \A t \in Tasks : pc[t] = "transmit" =>
        \A k \in 1 .. LedCount : buf[t][k].state = "custom" =>
            Sent(op[t].ids[k], buf[t][k].color, buf[t][k].blink)

\* What the chain latches is the frame render resolved: LED i of the chain
\* shows the colour of entry i, byte for byte, and is dark when it blinks off.
WireShowsFrame ==
    \A t \in Tasks : pc[t] = "transmit" =>
        \A i \in Leds : Latched(Wire(buf[t]), i) = Shown(buf[t][i + 1])

\* render gives the lock back before the blocking transmit, so the RMT
\* transfer never makes a setter wait.
UnlockedTransmit == \A t \in Tasks : pc[t] = "transmit" => lock # t

\* Every function gives the lock back, on its error path too.
LockReleased == \A t \in Tasks : lock = t ~> lock # t

(***************************************************************************)
(* Refinement.  A call takes effect when its task has the lock and has     *)
(* passed the gate: the stores it has still to make are counted as made,   *)
(* the LEDs it has still to resolve as resolved.                           *)
(***************************************************************************)
ToSet(t, i)   == {k \in idx[t] .. Len(Items(op[t])) : Items(op[t])[k].id = i}
ToClear(t, i) == {k \in idx[t] .. Len(Items(op[t])) : Items(op[t])[k] = i}

Setting(t)  == pc[t] \in {"active", "color", "blink"}
Clearing(t) == pc[t] \in {"state", "clear"}

LastOf(S) == CHOOSE k \in S : \A j \in S : j <= k

\* When t is setting, what its remaining commands leave LED i with.
AfterSet(t, i) ==
    LET cmd == Items(op[t])[LastOf(ToSet(t, i))]
    IN  [active |-> TRUE, color |-> cmd.color, blink |-> cmd.blink]

OverBar ==
    [i \in Leds |->
        IF \E t \in Tasks : Setting(t) /\ ToSet(t, i) # {}
        THEN AfterSet(CHOOSE t \in Tasks : Setting(t) /\ ToSet(t, i) # {}, i)
        ELSE IF \E t \in Tasks : Clearing(t) /\ ToClear(t, i) # {}
        THEN [Override(i) EXCEPT !.active = FALSE]
        ELSE Override(i)]

AutoBar ==
    IF \E t \in Tasks : pc[t] = "state"
    THEN op[CHOOSE t \in Tasks : pc[t] = "state"].to ELSE state

StageBar == [t \in Tasks |-> CASE pc[t] = "idle" -> "idle"
                               [] pc[t] \in {"lock", "gate"} -> "called"
                               [] OTHER -> "served"]

AnsBar == [t \in Tasks |-> CASE Setting(t) \/ Clearing(t) -> "ok"
                             [] pc[t] = "reject" -> "invalid_state"
                             [] OTHER -> "none"]

SeenBar == [t \in Tasks |-> [k \in 1 .. LedCount |->
    IF pc[t] \in Resolving /\ k \in idx[t] .. Len(op[t].ids)
    THEN IF IdValid(op[t].ids[k])
         THEN Resolved(state, Override(op[t].ids[k]), op[t].now) ELSE Dark
    ELSE buf[t][k]]]

Atomic == INSTANCE LedAtomic WITH
    auto <- AutoBar, over <- OverBar, stage <- StageBar,
    req <- op, ans <- AnsBar, seen <- SeenBar

\* Every public function takes effect at one instant between its call and its
\* return: batches are all or nothing, no command is lost and the last wins.
Linearizable == Atomic!ASpec
=============================================================================
