------------------------------ MODULE AppWifi ------------------------------
(***************************************************************************)
(* components/app_wifi/app_wifi.c: the station glue around WifiLogic.  The *)
(* network task starts the station and connects if credentials are stored *)
(* (the provisioning manager does otherwise); the event task               *)
(* handles WiFi and IP events in the order they were posted; the esp_timer *)
(* task reconnects.  app_wifi_apply runs the policy under the lock, one    *)
(* step here, and calls back, reconnects or arms the timer after it.       *)
(*                                                                         *)
(* The WiFi driver and the network are external: an attempt may succeed,   *)
(* fail, or lose the link before or after the address; each loss posts one *)
(* DISCONNECTED event, an address one GOT_IP event.  A call of             *)
(* esp_wifi_connect that the driver refuses posts nothing.                 *)
(***************************************************************************)
EXTENDS WifiLogic, Sequences

CONSTANT QueueBound     \* bound: events waiting in the default event loop

ASSUME WifiAssumption ==
    /\ Bases \subseteq Nat /\ MaxDelay \in Nat /\ RetryBound \in Nat \ {0}
    /\ Budgets \subseteq Nat /\ QueueBound \in Nat \ {0}

\* The powers of two, as far as retries are counted.
TwoTo[n \in 0 .. RetryBound] == IF n = 0 THEN 1 ELSE 2 * TwoTo[n - 1]

\* The delay is at its ceiling by the time the count of retries stops.
ASSUME BoundAssumption ==
    \A base \in Bases : base > 0 => base * TwoTo[RetryBound - 1] >= MaxDelay

VARIABLES
    logic,      \* s_logic
    state,      \* s_state
    started,    \* s_started
    net,        \* where the network task is
    ev,         \* what the event task does next
    cur,        \* the event it handles
    got,        \* the state and the delay its policy run returned
    queue,      \* the events posted and not yet handled
    timer,      \* s_reconnect_timer: 0 or the delay it is armed with
    link,       \* external: the station's link
    stored,     \* credentials are stored: the network task connects
    tried,      \* history: somebody has called esp_wifi_connect
    refused,    \* history: the driver refused the last call to a station down
    told,       \* history: the state the callback was last given
    fails       \* history: disconnections since the last address

tries == <<tried, refused>>
vars == <<logic, state, started, net, ev, cur, got, queue, timer, link,
          stored, tries, told, fails>>
driver == <<queue, timer, link, tries>>
history == <<stored, told, fails>>

Init ==
    /\ \E base \in Bases, max \in Budgets : logic = FreshLogic(base, max)
    /\ state = "idle" /\ told = "idle"
    /\ started = FALSE
    /\ net = "start" /\ ev = "idle"
    /\ cur = "sta_started"
    /\ got = [state |-> "idle", delay |-> 0]
    /\ queue = <<>>
    /\ timer = 0
    /\ link = "off"
    /\ stored \in BOOLEAN
    /\ tried = FALSE /\ refused = FALSE
    /\ fails = 0

\* esp_wifi_connect: an attempt starts when the station is down, unless the
\* driver refuses, which nobody looks at.
EspConnect ==
    /\ tried' = TRUE
    /\ refused' \in (IF link = "down" THEN BOOLEAN ELSE {FALSE})
    /\ link' = IF link = "down" /\ ~refused' THEN "trying" ELSE link

Post(e) == Len(queue) < QueueBound /\ queue' = Append(queue, e)

\* The locked part of app_wifi_apply.
ApplyPolicy(e) ==
    /\ logic' = Process(logic, e)
    /\ state' = logic'.state

(***************************************************************************)
(* The network task: app_wifi_start, then app_wifi_connect.                *)
(***************************************************************************)

\* Callback and policy are set up, the driver starts and posts STA_START.
StartStation ==
    /\ net = "start" /\ ~started
    /\ link' = "down"
    /\ Post("sta_started")
    /\ net' = "started"
    /\ UNCHANGED <<logic, state, started, ev, cur, got, timer, tries, history>>

SetStarted ==
    /\ net = "started"
    /\ started' = TRUE
    /\ net' = IF stored THEN "connect" ELSE "done"
    /\ UNCHANGED <<logic, state, ev, cur, got, driver, history>>

\* Mutant of ConnectRequested: the policy is told after the attempt started.
ConnectRequestedLate ==
    /\ net = "connect" /\ started
    /\ IF tried
       THEN ApplyPolicy("connect_requested") /\ net' = "attempt" /\ UNCHANGED driver
       ELSE EspConnect /\ UNCHANGED <<net, logic, state, queue, timer>>
    /\ UNCHANGED <<started, ev, cur, got, history>>

\* app_wifi_connect stores the configuration and tells the policy.
ConnectRequested ==
    /\ net = "connect" /\ started
    /\ ApplyPolicy("connect_requested")
    /\ net' = IF state' = state THEN "attempt" ELSE "callback"
    /\ UNCHANGED <<started, ev, cur, got, driver, history>>

\* The driver refuses the configuration: app_wifi_connect returns before it
\* tells the policy, and app_net_task does not look at the result.
ConfigRefused ==
    /\ net = "connect" /\ started
    /\ net' = "done"
    /\ UNCHANGED <<logic, state, started, ev, cur, got, driver, history>>

NetCallback ==
    /\ net = "callback"
    /\ told' = "connecting"
    /\ net' = "attempt"
    /\ UNCHANGED <<logic, state, started, ev, cur, got, driver, stored, fails>>

Attempt ==
    /\ net = "attempt"
    /\ EspConnect
    /\ net' = "done"
    /\ UNCHANGED <<logic, state, started, ev, cur, got, queue, timer, history>>

\* The provisioning manager connects with the credentials it was sent, each
\* time it is sent some (external).
ManagerConnect ==
    /\ net = "done" /\ ~stored /\ link = "down"
    /\ EspConnect
    /\ UNCHANGED <<logic, state, started, net, ev, cur, got, queue, timer, history>>

(***************************************************************************)
(* The event task: one event at a time.                                    *)
(***************************************************************************)
Failures(e) == CASE e = "got_ip" -> 0
                 [] e = "disconnected" -> OneMore(fails)
                 [] OTHER -> fails

HandleHead ==
    LET e == Head(queue)
    IN  /\ cur' = e
        /\ got' = [state |-> Process(logic, e).state, delay |-> RetryDelay(logic, e)]
        /\ ApplyPolicy(e)
        /\ fails' = Failures(e)

\* Mutant of Handle: the previous state is read after the new one is stored.
HandleComparesLate ==
    /\ ev = "idle" /\ queue # <<>>
    /\ HandleHead
    /\ ev' = "act"
    /\ queue' = Tail(queue)
    /\ UNCHANGED <<started, net, timer, link, tries, stored, told>>

\* An event handler runs the policy.
Handle ==
    /\ ev = "idle" /\ queue # <<>>
    /\ HandleHead
    /\ ev' = IF state' = state THEN "act" ELSE "callback"
    /\ queue' = Tail(queue)
    /\ UNCHANGED <<started, net, timer, link, tries, stored, told>>

EvCallback ==
    /\ ev = "callback"
    /\ told' = got.state
    /\ ev' = "act"
    /\ UNCHANGED <<logic, state, started, net, cur, got, driver, stored, fails>>

\* Mutant of Retries: only a lost connection is retried, not a failed attempt.
RetriesLossOnly == cur = "disconnected" /\ got.state = "connecting" /\ fails = 1

\* A disconnection that leaves the policy connecting is retried.
Retries == cur = "disconnected" /\ got.state = "connecting"

\* Nothing to do, an attempt at once, or the one-shot timer, which keeps the
\* delay it is armed with (the error is not looked at).
Act ==
    /\ ev = "act"
    /\ ev' = "idle"
    /\ \/ ~Retries /\ UNCHANGED <<link, tries, timer>>
       \/ Retries /\ got.delay = 0 /\ EspConnect /\ UNCHANGED timer
       \/ /\ Retries /\ got.delay # 0
          /\ timer' = IF timer = 0 THEN got.delay ELSE timer
          /\ UNCHANGED <<link, tries>>
    /\ UNCHANGED <<logic, state, started, net, cur, got, queue, history>>

\* app_wifi_reconnect_timer_cb.
Reconnect ==
    /\ timer # 0
    /\ timer' = 0
    /\ EspConnect
    /\ UNCHANGED <<logic, state, started, net, ev, cur, got, queue, history>>

(***************************************************************************)
(* The driver and the network (external).                                  *)
(***************************************************************************)
policy == <<logic, state, started, net, ev, cur, got, timer, tries, history>>

Associate ==
    /\ link = "trying" /\ link' = "associated"
    /\ UNCHANGED <<policy, queue>>

GetAddress ==
    /\ link = "associated" /\ link' = "up"
    /\ Post("got_ip")
    /\ UNCHANGED policy

LoseLink ==
    /\ link \in {"trying", "associated", "up"} /\ link' = "down"
    /\ Post("disconnected")
    /\ UNCHANGED policy

NetStep   == \/ StartStation \/ SetStarted \/ ConnectRequested \/ ConfigRefused
             \/ NetCallback \/ Attempt
EventStep == Handle \/ EvCallback \/ Act

Next == NetStep \/ ManagerConnect \/ EventStep \/ Reconnect
            \/ Associate \/ GetAddress \/ LoseLink

\* Tasks and armed timers run; a network that is tried again and again lets
\* the station in at last.
Fairness ==
    /\ WF_vars(NetStep) /\ WF_vars(EventStep) /\ WF_vars(Reconnect)
    /\ SF_vars(Associate) /\ SF_vars(GetAddress)

Spec == Init /\ [][Next]_vars /\ Fairness
-----------------------------------------------------------------------------

TypeOK ==
    /\ logic \in Logic /\ state \in States /\ told \in States
    /\ started \in BOOLEAN
    /\ net \in {"start", "started", "connect", "callback", "attempt", "done"}
    /\ ev \in {"idle", "callback", "act"}
    /\ cur \in Events
    /\ got \in [state : States, delay : 0 .. MaxDelay]
    /\ queue \in Seq(Events) /\ Len(queue) <= QueueBound
    /\ timer \in 0 .. MaxDelay
    /\ link \in {"off", "down", "trying", "associated", "up"}
    /\ stored \in BOOLEAN /\ tried \in BOOLEAN /\ refused \in BOOLEAN
    /\ fails \in 0 .. RetryBound

\* A disconnection is waiting for its retry.
RetryPending ==
    \/ timer # 0
    \/ \E k \in DOMAIN queue : queue[k] = "disconnected"
    \/ ev # "idle" /\ Retries

\* The station is never left down: once somebody has connected it, a link that
\* is down has a retry on its way, unless the policy has given up or the driver
\* has refused the last attempt.
NeverStranded ==
    net = "done" /\ tried /\ link = "down" =>
        RetryPending \/ logic.state = "error" \/ refused

\* When every posted event has been handled, s_state says what the link is:
\* connected exactly with an address, and in error only without a link.
StateTracksLink ==
    net = "done" /\ queue = <<>> =>
        /\ state = "connected" <=> link = "up"
        /\ state = "error" /\ stored => link = "down" /\ timer = 0

\* The callback runs outside the lock and in two tasks; still, whenever none
\* is about to be made, the application was last told the current state.
CallbackCurrent == net # "callback" /\ ev # "callback" => told = state

\* What the timer should wait after n failures in a row.
DelayAfter(n) ==
    LET d == logic.base * TwoTo[n - 1] IN IF d > MaxDelay THEN MaxDelay ELSE d

\* Backoff: the timer is armed with its base doubled once for each earlier
\* failure since the last address, up to the ceiling.  (A timer that was armed
\* before the provisioning manager connected keeps its older delay.)
BackoffFollowsFailures ==
    timer # 0 /\ stored => timer = DelayAfter(fails)

\* With unlimited retries the device always gets back to the network, unless
\* the driver refuses an attempt.
Reconnects == net = "done" /\ tried /\ logic.max = 0 ~> state = "connected" \/ refused
=============================================================================
