----------------------------- MODULE WifiLogic -----------------------------
(***************************************************************************)
(* components/app_wifi/wifi_logic.c: the connection policy, a function of  *)
(* its state and one event.                                                *)
(***************************************************************************)
EXTENDS Naturals

CONSTANTS
    Bases,          \* the base_delay_ms in play; 0 is to retry at once
    MaxDelay,       \* max_delay_ms
    Budgets,        \* the max_retries in play; 0 is unlimited, the firmware's
    RetryBound      \* bound: retries counts no further; the delay is at its
                    \* cap by then

States == {"idle", "connecting", "connected", "error"}

\* The events app_wifi.c feeds it (it never reports WIFI_LOGIC_FAILED).
Events == {"connect_requested", "sta_started", "got_ip", "disconnected"}

\* wifi_logic_t.
Logic == [state : States, retries : 0 .. RetryBound, base : Bases, max : Budgets]

\* wifi_logic_init.
FreshLogic(base, max) == [state |-> "idle", retries |-> 0, base |-> base, max |-> max]

\* The loop of wifi_logic_backoff: double while below the ceiling.
Doubled(l) ==
    LET delay[k \in 0 .. l.retries] ==
            IF k = 0 THEN l.base
            ELSE IF delay[k - 1] < MaxDelay THEN 2 * delay[k - 1] ELSE delay[k - 1]
    IN  delay[l.retries]

\* Mutant of Backoff: the last doubling is not cut to the ceiling.
BackoffUncapped(l) == Doubled(l)

\* wifi_logic_backoff.
Backoff(l) == IF Doubled(l) > MaxDelay THEN MaxDelay ELSE Doubled(l)

\* retries++, up to the bound.
OneMore(n) == IF n < RetryBound THEN n + 1 ELSE n

\* Mutant of GivesUp: 0 is a budget like any other.
GivesUpAtZero(l) == l.retries >= l.max

\* wifi_logic_on_disconnected: out of budget, or one more retry.
GivesUp(l) == l.max > 0 /\ l.retries >= l.max

AfterDisconnect(l) ==
    IF GivesUp(l) THEN [l EXCEPT !.state = "error"]
    ELSE [l EXCEPT !.state = "connecting", !.retries = OneMore(@)]

\* Mutant of Process: the backoff goes on where it was before the connection.
ProcessKeepsRetries(l, e) ==
    CASE e \in {"connect_requested", "sta_started"} -> [l EXCEPT !.state = "connecting"]
      [] e = "got_ip"       -> [l EXCEPT !.state = "connected"]
      [] e = "disconnected" -> AfterDisconnect(l)

\* wifi_logic_process, and the delay it hands back.
Process(l, e) ==
    CASE e \in {"connect_requested", "sta_started"} -> [l EXCEPT !.state = "connecting"]
      [] e = "got_ip"       -> [l EXCEPT !.state = "connected", !.retries = 0]
      [] e = "disconnected" -> AfterDisconnect(l)

RetryDelay(l, e) ==
    IF e = "disconnected" /\ ~GivesUp(l) THEN Backoff(l) ELSE 0
=============================================================================
