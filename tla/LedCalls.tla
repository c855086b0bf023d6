------------------------------ MODULE LedCalls ------------------------------
(***************************************************************************)
(* What the callers of components/led_rgb/led_rgb.c and its implementation *)
(* share: the constants of the build, the calls, the argument checks and   *)
(* the blink evaluation.                                                   *)
(***************************************************************************)
EXTENDS Naturals, Sequences

CONSTANTS
    LedCount,       \* LED_RGB_COUNT, the length of the chain
    MaxBlink,       \* LED_RGB_MAX_BLINK_MS
    SlowBlink,      \* LED_RGB_SLOW_BLINK_MS
    FastBlink,      \* LED_RGB_FAST_BLINK_MS
    CustomColors,   \* colours the callers ask for
    CustomRgb,      \* their bytes
    Callers,        \* the tasks that call the setters and getters
    Renderer,       \* app_led_task, the only task that renders
    NoTask,         \* s_lock is free
    Requests,       \* the calls each of them makes
    Times,          \* the values of now_ms the renderer passes
    LockCreated     \* whether led_rgb_init ran before the tasks

Tasks == Callers \cup {Renderer}

Leds == 0 .. LedCount - 1

\* Every LED in chain order: the loops `for (i = 0; i < LED_RGB_COUNT; i++)`.
AllIds == [k \in 1 .. LedCount |-> k - 1]

\* led_rgb_state_t without the pseudo-state CUSTOM, which set_state refuses.
AutoStates == {"provisioning", "connecting", "connected", "error"}

Colors == {"black", "blue", "amber", "green", "red"} \cup CustomColors

\* The bytes r, g and b of a colour: those of s_patterns, or the caller's.
Rgb(c) == CASE c = "black" -> <<0, 0, 0>>
            [] c = "blue"  -> <<0, 0, 255>>
            [] c = "amber" -> <<255, 191, 0>>
            [] c = "green" -> <<0, 255, 0>>
            [] c = "red"   -> <<255, 0, 0>>
            [] OTHER       -> CustomRgb[c]

\* s_patterns: the colour and blink period of every automatic state.
Pattern ==
    [provisioning |-> [color |-> "blue",  blink |-> SlowBlink],
     connecting   |-> [color |-> "amber", blink |-> FastBlink],
     connected    |-> [color |-> "green", blink |-> 0],
     error        |-> [color |-> "red",   blink |-> FastBlink]]

\* A led_rgb_cmd_t.  Its id and its period are the caller's, valid or not.
Cmd == [id : Nat, color : Colors, blink : Nat]

\* A resolved led_rgb_output_t.
Output == [state : AutoStates \cup {"custom"}, color : Colors,
           blink : Nat, on : BOOLEAN]

Dark == [state |-> "error", color |-> "black", blink |-> 0, on |-> FALSE]

(***************************************************************************)
(* The calls.  A batch of one command, or of one id, is set_custom or      *)
(* clear_custom; the _all variants walk the whole chain.                   *)
(***************************************************************************)
SetState(st)          == [kind |-> "state", to |-> st]
SetCustomMany(cmds)   == [kind |-> "set", cmds |-> cmds]
SetCustom(id, c, b)   == SetCustomMany(<<[id |-> id, color |-> c, blink |-> b]>>)
SetCustomAll(c, b)    == SetCustomMany([k \in 1 .. LedCount |->
                                           [id |-> k - 1, color |-> c, blink |-> b]])
ClearCustomMany(ids)  == [kind |-> "clear", ids |-> ids]
ClearCustom(id)       == ClearCustomMany(<<id>>)
ClearCustomAll        == ClearCustomMany(AllIds)
GetOutput(id, now)    == [kind |-> "get", ids |-> <<id>>, now |-> now]
Render(now)           == [kind |-> "render", ids |-> AllIds, now |-> now]

Call ==
    [kind : {"state"}, to : AutoStates \cup {"custom", "out_of_range"}]
        \cup [kind : {"set"}, cmds : Seq(Cmd)]
        \cup [kind : {"clear"}, ids : Seq(Nat)]
        \cup {c \in [kind : {"get"}, ids : Seq(Nat), now : Nat] : Len(c.ids) = 1}

AnyCall == Call \cup {Render(now) : now \in Times}

NoCall == [kind |-> "none"]

ASSUME LedAssumption ==
    /\ LedCount \in Nat \ {0}
    /\ MaxBlink \in Nat /\ SlowBlink \in Nat /\ FastBlink \in Nat
    /\ Renderer \notin Callers /\ NoTask \notin Tasks
    /\ CustomRgb \in [CustomColors -> [1 .. 3 -> 0 .. 255]]
    /\ Requests \in [Callers -> SUBSET Call]
    /\ Times \subseteq Nat
    /\ LockCreated \in BOOLEAN

\* led_rgb_id_valid.
IdValid(id) == id < LedCount

\* Mutant of CommandValid: the period is not checked.
CommandAnyPeriod(cmd) == IdValid(cmd.id)

\* led_rgb_command_valid.
CommandValid(cmd) == IdValid(cmd.id) /\ cmd.blink <= MaxBlink

\* The argument checks every function makes before it takes the lock.
ArgsValid(c) ==
    CASE c.kind = "state" -> c.to \in AutoStates
      [] c.kind = "set"   -> \A k \in DOMAIN c.cmds : CommandValid(c.cmds[k])
      [] c.kind = "clear" -> \A k \in DOMAIN c.ids : IdValid(c.ids[k])
      [] OTHER            -> TRUE

\* What the body of a call loops over.
Items(c) == CASE c.kind = "state" -> AllIds
              [] c.kind = "set"   -> c.cmds
              [] OTHER            -> c.ids

\* led_rgb_blink_on: lit in the first half of the period, solid when it is 0.
BlinkOn(blink, now) == blink = 0 \/ now % blink < blink \div 2

(***************************************************************************)
(* led_rgb_compute_locked as a function of the memory it reads: the        *)
(* automatic state st and the override o of LED id.                        *)
(***************************************************************************)
Resolved(st, o, now) ==
    LET src == IF o.active
               THEN [state |-> "custom", color |-> o.color, blink |-> o.blink]
               ELSE [state |-> st, color |-> Pattern[st].color, blink |-> Pattern[st].blink]
    IN  [state |-> src.state, color |-> src.color, blink |-> src.blink,
         on |-> BlinkOn(src.blink, now)]
=============================================================================
