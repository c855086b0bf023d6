----------------------------- MODULE ButtonSm -----------------------------
(***************************************************************************)
(* components/button: the BOOT button.  One task samples the contact every *)
(* few milliseconds, debounces it and classifies the press, and publishes  *)
(* the event (button_sm.c, and the loop of button_gpio.c).  Timestamps are *)
(* uint32_t milliseconds and wrap; the history variables age in true time. *)
(***************************************************************************)
EXTENDS Naturals

CONSTANTS
    Debounce,   \* debounce_ms
    LongPress,  \* long_press_ms, 0 for no long presses
    Wrap,       \* 2^32: the first time a uint32_t does not hold
    Gaps,       \* time from one sample to the next: the poll and its jitter
    Horizon     \* bound: the history variables count no further

ASSUME ButtonAssumption ==
    /\ Debounce \in Nat /\ LongPress \in Nat
    /\ Wrap \in Nat \ {0} /\ Horizon \in Nat
    /\ Gaps \subseteq Nat \ {0}
    /\ \A d \in Gaps :
           /\ Debounce + d < Wrap /\ LongPress + d < Wrap
           /\ \A e \in Gaps : LongPress + Debounce + d + e <= Horizon

VARIABLES
    now,        \* now_ms of the last sample
    raw,        \* sm.raw: the contact is closed
    debounced,  \* sm.debounced
    rawChange,  \* sm.raw_change_ms
    press,      \* sm.press_ms
    longFired,  \* sm.long_fired
    event,      \* what the last sample returned
    lastEvent,  \* s_last_event
    rawAge,     \* history: true time since raw changed
    pressAge,   \* history: true time since the press was accepted
    closedAge   \* history: true time since the contact closed for that press

ages == <<rawAge, pressAge, closedAge>>
vars == <<now, raw, debounced, rawChange, press, longFired, event, lastEvent, ages>>

Times  == 0 .. Wrap - 1
Events == {"none", "pressed", "short_press", "long_press", "released"}

Init ==
    /\ now = 0 /\ rawChange = 0 /\ press = 0
    /\ raw = FALSE /\ debounced = FALSE /\ longFired = FALSE
    /\ event = "none" /\ lastEvent = "none"
    /\ rawAge = 0 /\ pressAge = 0 /\ closedAge = 0

\* Mutant of Plus: more than 32 bits are kept.
PlusNoWrap(t, d) == t + d

\* uint32_t arithmetic.
Plus(t, d)  == IF t + d < Wrap THEN t + d ELSE t + d - Wrap

\* Mutant of Since: a clock that has wrapped looks younger than what it timed.
SinceNoWrap(t, u) == IF t >= u THEN t - u ELSE 0

Since(t, u) == IF t >= u THEN t - u ELSE t + Wrap - u

Older(age, d) == IF age + d < Horizon THEN age + d ELSE Horizon

\* button_sm_track_raw at a sample of the level p, d after the last one.
TrackRaw(p, d) ==
    /\ now' = Plus(now, d)
    /\ raw' = p
    /\ rawChange' = IF p # raw THEN now' ELSE rawChange
    /\ rawAge' = IF p # raw THEN 0 ELSE Older(rawAge, d)

\* Mutant of EdgeDue: a level is accepted however short it has been.
EdgeAtOnce == raw' # debounced

\* The level has been stable for the debounce time.
EdgeDue == raw' # debounced /\ Since(now', rawChange') >= Debounce

\* button_sm_long_due.
LongDue ==
    debounced /\ ~longFired /\ LongPress # 0 /\ Since(now', press) >= LongPress

\* Mutants of PressEdge: the latch of the previous press stays; its time does.
PressKeepsLatch(d) ==
    /\ event' = "pressed"
    /\ debounced' = TRUE
    /\ press' = now'
    /\ pressAge' = 0
    /\ closedAge' = rawAge'
    /\ UNCHANGED longFired

PressKeepsTime(d) ==
    /\ event' = "pressed"
    /\ debounced' = TRUE
    /\ longFired' = FALSE
    /\ pressAge' = 0
    /\ closedAge' = rawAge'
    /\ UNCHANGED press

PressEdge(d) ==
    /\ event' = "pressed"
    /\ debounced' = TRUE
    /\ press' = now'
    /\ longFired' = FALSE
    /\ pressAge' = 0
    /\ closedAge' = rawAge'

ReleaseEdge(d) ==
    /\ event' = IF longFired THEN "released" ELSE "short_press"
    /\ debounced' = FALSE
    /\ pressAge' = Older(pressAge, d) /\ closedAge' = Older(closedAge, d)
    /\ UNCHANGED <<press, longFired>>

LongEdge(d) ==
    /\ event' = "long_press"
    /\ longFired' = TRUE
    /\ pressAge' = Older(pressAge, d) /\ closedAge' = Older(closedAge, d)
    /\ UNCHANGED <<debounced, press>>

Quiet(d) ==
    /\ event' = "none"
    /\ pressAge' = Older(pressAge, d) /\ closedAge' = Older(closedAge, d)
    /\ UNCHANGED <<debounced, press, longFired>>

\* One turn of button_task: button_sm_process, where an edge comes before the
\* long press, then button_store_event.
Sample(p, d) ==
    /\ TrackRaw(p, d)
    /\ \/ EdgeDue /\ p /\ PressEdge(d)
       \/ EdgeDue /\ ~p /\ ReleaseEdge(d)
       \/ ~EdgeDue /\ LongDue /\ LongEdge(d)
       \/ ~EdgeDue /\ ~LongDue /\ Quiet(d)
    /\ lastEvent' = IF event' = "none" THEN lastEvent ELSE event'

Next == \E p \in BOOLEAN, d \in Gaps : Sample(p, d)

\* The polling task never stops.
Spec == Init /\ [][Next]_vars /\ WF_vars(Next)
-----------------------------------------------------------------------------

TypeOK ==
    /\ now \in Times /\ rawChange \in Times /\ press \in Times
    /\ raw \in BOOLEAN /\ debounced \in BOOLEAN /\ longFired \in BOOLEAN
    /\ event \in Events /\ lastEvent \in Events
    /\ rawAge \in 0 .. Horizon /\ pressAge \in 0 .. Horizon /\ closedAge \in 0 .. Horizon

\* The events a reader of /api/status sees come in the order of one press:
\* PRESSED, then SHORT_PRESS, or LONG_PRESS once and RELEASED.
EventOrder ==
    [][event' # "none" =>
         <<lastEvent, event'>> \in
             {<<"none", "pressed">>, <<"pressed", "short_press">>,
              <<"pressed", "long_press">>, <<"long_press", "released">>,
              <<"short_press", "pressed">>, <<"released", "pressed">>}]_vars

\* "short press: released before the long-press threshold" (button.h:6): at a
\* SHORT_PRESS the contact has been open for the debounce time, and it opened
\* before the press was LongPress old.  Without a debounce time the opening
\* is seen with the sample that reports it.
ShortWasShort ==
    event = "short_press" =>
        /\ rawAge >= Debounce
        /\ Debounce # 0 /\ LongPress # 0 => pressAge < LongPress + rawAge

\* "long press: held for at least the long-press threshold" (button.h:7): the
\* contact was closed that long, even when it has opened since and the
\* opening is not accepted yet.
LongWasLong ==
    event = "long_press" =>
        closedAge >= LongPress + (IF raw THEN 0 ELSE rawAge)

\* Every accepted press that lasts is reported as a long one, also when the
\* clock wraps meanwhile.
LongComes == debounced /\ LongPress # 0 ~> longFired \/ ~debounced
=============================================================================
