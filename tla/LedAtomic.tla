----------------------------- MODULE LedAtomic -----------------------------
(***************************************************************************)
(* What led_rgb.h promises: every public function takes effect at one      *)
(* instant between its call and its return.  A batch is all or nothing,    *)
(* the connection gate and the update it guards are one step, the last     *)
(* command wins, and a rendered frame is the state of one instant.         *)
(***************************************************************************)
EXTENDS LedCalls

VARIABLES
    auto,       \* the automatic state
    over,       \* the override of each LED
    stage,      \* how far each task's call is: idle, called or served
    req,        \* the call
    ans,        \* its answer, once it is served
    seen        \* what it resolved, for get_output and render

avars == <<auto, over, stage, req, ans, seen>>

NothingSeen == [k \in 1 .. LedCount |-> Dark]

AInit ==
    /\ auto = "provisioning"
    /\ over = [i \in Leds |-> [active |-> FALSE, color |-> "black", blink |-> 0]]
    /\ stage = [t \in Tasks |-> "idle"]
    /\ req = [t \in Tasks |-> NoCall]
    /\ ans = [t \in Tasks |-> "none"]
    /\ seen = [t \in Tasks |-> NothingSeen]

\* The overrides after a batch: the last command for an LED decides.
Overridden(cmds) ==
    [i \in Leds |->
        LET ks == {k \in DOMAIN cmds : cmds[k].id = i}
            last == CHOOSE k \in ks : \A j \in ks : j <= k
        IN  IF ks = {} THEN over[i]
            ELSE [active |-> TRUE, color |-> cmds[last].color, blink |-> cmds[last].blink]]

Cleared(ids) ==
    [i \in Leds |-> IF \E k \in DOMAIN ids : ids[k] = i
                    THEN [over[i] EXCEPT !.active = FALSE] ELSE over[i]]

AInvoke(t, c) ==
    /\ stage[t] = "idle"
    /\ ArgsValid(c)
    /\ stage' = [stage EXCEPT ![t] = "called"]
    /\ req' = [req EXCEPT ![t] = c]
    /\ UNCHANGED <<auto, over, ans, seen>>

ServeState(t) ==
    /\ req[t].kind = "state"
    /\ auto' = req[t].to
    /\ over' = Cleared(AllIds)
    /\ ans' = [ans EXCEPT ![t] = "ok"]
    /\ UNCHANGED seen

ServeSet(t) ==
    /\ req[t].kind = "set"
    /\ over' = IF auto = "connected" THEN Overridden(req[t].cmds) ELSE over
    /\ ans' = [ans EXCEPT ![t] = IF auto = "connected" THEN "ok" ELSE "invalid_state"]
    /\ UNCHANGED <<auto, seen>>

ServeClear(t) ==
    /\ req[t].kind = "clear"
    /\ over' = Cleared(req[t].ids)
    /\ ans' = [ans EXCEPT ![t] = "ok"]
    /\ UNCHANGED <<auto, seen>>

ServeRead(t) ==
    /\ req[t].kind \in {"get", "render"}
    /\ seen' = [seen EXCEPT ![t] = [k \in 1 .. LedCount |->
                   IF k > Len(req[t].ids) THEN seen[t][k]
                   ELSE IF ~IdValid(req[t].ids[k]) THEN Dark
                   ELSE Resolved(auto, over[req[t].ids[k]], req[t].now)]]
    /\ UNCHANGED <<auto, over, ans>>

Serve(t) ==
    /\ stage[t] = "called"
    /\ stage' = [stage EXCEPT ![t] = "served"]
    /\ ServeState(t) \/ ServeSet(t) \/ ServeClear(t) \/ ServeRead(t)
    /\ UNCHANGED req

\* The call returns: its answer and what it saw are the caller's from here on.
Return(t) ==
    /\ stage[t] = "served"
    /\ stage' = [stage EXCEPT ![t] = "idle"]
    /\ req' = [req EXCEPT ![t] = NoCall]
    /\ ans' = [ans EXCEPT ![t] = "none"]
    /\ seen' = IF req[t].kind = "get" THEN [seen EXCEPT ![t] = NothingSeen] ELSE seen
    /\ UNCHANGED <<auto, over>>

ANext ==
    \/ \E t \in Callers : \E c \in Requests[t] : AInvoke(t, c)
    \/ \E now \in Times : AInvoke(Renderer, Render(now))
    \/ \E t \in Tasks : Serve(t) \/ Return(t)

ASpec == AInit /\ [][ANext]_avars
=============================================================================
