--------------------------- MODULE AppWifiProofs ---------------------------
(***************************************************************************)
(* Proofs about app_wifi.c, for any base delays, ceiling, budgets and      *)
(* capacity of the event loop: where the one retry of a lost link is, what *)
(* the application was told, and how long the timer waits.  The loop of    *)
(* wifi_logic_backoff is followed by induction on its length.              *)
(***************************************************************************)
EXTENDS AppWifi, Recursion

\* The types the retry depends on; TypeOK adds the delays and the counts.
Typed ==
    /\ logic \in Logic /\ state \in States
    /\ net \in {"start", "started", "connect", "callback", "attempt", "done"}
    /\ ev \in {"idle", "callback", "act"}
    /\ cur \in Events
    /\ queue \in Seq(Events)
    /\ link \in {"off", "down", "trying", "associated", "up"}

\* The policy and the copies of its state agree.
StateInv ==
    /\ state = logic.state
    /\ ev # "idle" => got.state = state
    /\ net = "callback" => state = "connecting"
    /\ net # "callback" /\ ev # "callback" => told = state

\* Until the network task has made its attempt only STA_START can happen.
BootInv ==
    /\ net # "done" => /\ ~tried /\ timer = 0 /\ link \in {"off", "down"}
                       /\ state \in {"idle", "connecting"}
                       /\ cur = "sta_started"
                       /\ \A k \in 1 .. Len(queue) : queue[k] = "sta_started"
    /\ net = "start" => queue = <<>> /\ ev = "idle" /\ state = "idle"
    /\ link = "off" <=> net = "start"
    /\ ev # "idle" /\ cur = "sta_started" => state = "connecting"

\* The queue holds what the driver posts and ends in what the link is now.
QueueInv ==
    /\ \A k \in 1 .. Len(queue) : queue[k] # "connect_requested"
    /\ \A k \in 1 .. Len(queue) : queue[k] = "sta_started" =>
          k = 1 /\ state \in {"idle", "connecting"}
    /\ \A k \in 1 .. Len(queue) : queue[k] = "got_ip" =>
          link = "up" \/ \E j \in k + 1 .. Len(queue) : queue[j] = "disconnected"
    /\ queue # <<>> => (queue[Len(queue)] = "got_ip" <=> link = "up")
    /\ queue = <<>> => (state = "connected" <=> link = "up")

Live == link \in {"trying", "associated", "up"}

Lost == \E k \in 1 .. Len(queue) : queue[k] = "disconnected"

Retrying == ev # "idle" /\ Retries

\* With stored credentials the station is in one place at a time: trying,
\* waiting to hear of a loss, about to retry, waiting for the timer, or in error.
OneRetry ==
    stored =>
        /\ Live => ~Lost /\ ~Retrying /\ timer = 0 /\ state # "error"
        /\ Lost => ~Retrying /\ timer = 0 /\ state # "error"
        /\ Retrying => timer = 0
        /\ timer # 0 => state # "error"
        /\ \A j, k \in 1 .. Len(queue) :
              queue[j] = "disconnected" /\ queue[k] = "disconnected" => j = k

IInv == Typed /\ StateInv /\ BootInv /\ QueueInv /\ OneRetry /\ NeverStranded

-----------------------------------------------------------------------------
\* Posting keeps what is waiting and adds the event at the end.
LEMMA Posted ==
  ASSUME NEW e \in Events, NEW q \in Seq(Events), NEW p, p = Append(q, e)
  PROVE  /\ p \in Seq(Events) /\ p # <<>> /\ Len(p) = Len(q) + 1
         /\ p[Len(p)] = e
         /\ \A k \in 1 .. Len(q) : p[k] = q[k]
  OBVIOUS

\* Handling takes the first and moves the others up.
LEMMA Taken ==
  ASSUME NEW q \in Seq(Events), q # <<>>, NEW p, p = Tail(q)
  PROVE  /\ p \in Seq(Events) /\ Len(p) = Len(q) - 1 /\ Len(q) \in Nat \ {0}
         /\ Head(q) = q[1] /\ Head(q) \in Events
         /\ \A k \in 1 .. Len(p) : p[k] = q[k + 1] /\ k + 1 \in 1 .. Len(q)
         /\ \A k \in 2 .. Len(q) : p[k - 1] = q[k] /\ k - 1 \in 1 .. Len(p)
         /\ p # <<>> => Len(p) >= 1 /\ p[Len(p)] = q[Len(q)]
         /\ p = <<>> => Len(q) = 1
  <1>1. p \in Seq(Events) /\ Len(p) = Len(q) - 1 /\ Len(q) \in Nat \ {0}
    OBVIOUS
  <1>2. Head(q) = q[1] /\ Head(q) \in Events
    OBVIOUS
  <1>3. ASSUME NEW k \in 1 .. Len(p)
        PROVE  p[k] = q[k + 1] /\ k + 1 \in 1 .. Len(q)
    BY <1>1
  <1>4. ASSUME NEW k \in 2 .. Len(q)
        PROVE  p[k - 1] = q[k] /\ k - 1 \in 1 .. Len(p)
    <2>1. k - 1 \in 1 .. Len(p) /\ (k - 1) + 1 = k
      BY <1>1
    <2> QED
      BY <2>1, <1>3
  <1>5. ASSUME p # <<>>
        PROVE  Len(p) >= 1 /\ p[Len(p)] = q[Len(q)]
    <2>1. Len(p) >= 1
      BY <1>1, <1>5
    <2> QED
      BY <2>1, <1>1, <1>3
  <1>6. p = <<>> => Len(q) = 1
    <2>1. Len(<<>>) = 0
      OBVIOUS
    <2>2. p = <<>> => Len(p) = 0
      BY <2>1
    <2> QED
      BY <1>1, <2>2
  <1> QED
    BY <1>1, <1>2, <1>3, <1>4, <1>5, <1>6

\* The policy's state after each event.
LEMMA Processed ==
  ASSUME NEW l \in Logic, NEW e \in Events
  PROVE  /\ Process(l, e) \in Logic
         /\ e \in {"connect_requested", "sta_started"} => Process(l, e).state = "connecting"
         /\ e = "got_ip" => Process(l, e).state = "connected"
         /\ e = "disconnected" => Process(l, e).state \in {"connecting", "error"}
  <1>1. OneMore(l.retries) \in 0 .. RetryBound /\ 0 \in 0 .. RetryBound
    BY WifiAssumption DEF OneMore, Logic
  <1>2. CASE e = "disconnected"
    BY <1>1, <1>2 DEF Process, AfterDisconnect, Logic, States
  <1>3. CASE e # "disconnected"
    BY <1>1, <1>3 DEF Process, Events, Logic, States
  <1> QED
    BY <1>2, <1>3

\* An attempt leaves the station trying, or down because it was refused.
LEMMA Attempted ==
  ASSUME EspConnect
  PROVE  /\ tried' = TRUE
         /\ link' = link \/ (link = "down" /\ link' = "trying")
         /\ link' = "down" => refused'
  BY DEF EspConnect

-----------------------------------------------------------------------------
\* Nothing has happened yet.
LEMMA InitIInv == Init => IInv
  <1> SUFFICES ASSUME Init PROVE IInv
    OBVIOUS
  <1>1. logic \in Logic /\ logic.state = "idle"
    BY WifiAssumption DEF Init, FreshLogic, Logic, States
  <1>2. queue \in Seq(Events) /\ Len(queue) = 0 /\ queue = <<>>
    BY DEF Init
  <1>3. Typed
    BY <1>1, <1>2 DEF Init, Typed, States, Events
  <1>4. StateInv /\ BootInv /\ QueueInv
    BY <1>1, <1>2 DEF Init, StateInv, BootInv, QueueInv
  <1>5. OneRetry /\ NeverStranded
    BY <1>2 DEF Init, OneRetry, Live, Lost, Retrying, NeverStranded
  <1> QED
    BY <1>3, <1>4, <1>5 DEF IInv

\* The driver's first event is alone in the queue.
LEMMA StartStationKeeps == IInv /\ StartStation => IInv'
  <1> SUFFICES ASSUME IInv, StartStation PROVE IInv'
    OBVIOUS
  <1>1. queue = <<>> /\ Len(queue) = 0
    BY DEF IInv, BootInv, StartStation
  <1>2. /\ queue' \in Seq(Events) /\ queue' # <<>> /\ Len(queue') = 1
        /\ queue'[1] = "sta_started"
    BY <1>1, Posted DEF IInv, Typed, StartStation, Post, Events
  <1>3. Typed'
    BY <1>1, <1>2 DEF IInv, StartStation, tries, history, Typed
  <1>4. StateInv'
    BY <1>1, <1>2 DEF IInv, StartStation, tries, history, Typed, StateInv, BootInv
  <1>5. BootInv'
    BY <1>1, <1>2 DEF IInv, StartStation, tries, history, Typed, BootInv, StateInv
  <1>6. QueueInv'
    BY <1>1, <1>2 DEF IInv, StartStation, tries, history, Typed, QueueInv, BootInv
  <1>7. OneRetry'
    BY <1>1, <1>2
       DEF IInv, StartStation, tries, history, Typed, OneRetry, StateInv,
           BootInv, QueueInv, Live, Lost, Retrying, Retries
  <1>8. NeverStranded'
    BY <1>1, <1>2
       DEF IInv, StartStation, tries, history, Typed, NeverStranded, BootInv,
           StateInv, QueueInv, RetryPending, Retries
  <1> QED
    BY <1>3, <1>4, <1>5, <1>6, <1>7, <1>8 DEF IInv

\* The network task goes on to connect, or leaves it to the manager.
LEMMA SetStartedKeeps == IInv /\ SetStarted => IInv'
  <1> SUFFICES ASSUME IInv, SetStarted PROVE IInv'
    OBVIOUS
  <1>1. Typed'
    BY DEF IInv, SetStarted, driver, tries, history, Typed
  <1>2. StateInv'
    BY DEF IInv, SetStarted, driver, tries, history, Typed, StateInv, BootInv
  <1>3. BootInv'
    BY DEF IInv, SetStarted, driver, tries, history, Typed, BootInv, StateInv
  <1>4. QueueInv'
    BY DEF IInv, SetStarted, driver, tries, history, Typed, QueueInv, BootInv
  <1>5. OneRetry'
    BY
       DEF IInv, SetStarted, driver, tries, history, Typed, OneRetry, StateInv,
           BootInv, QueueInv, Live, Lost, Retrying, Retries
  <1>6. NeverStranded'
    BY
       DEF IInv, SetStarted, driver, tries, history, Typed, NeverStranded,
           BootInv, StateInv, QueueInv, RetryPending, Retries
  <1> QED
    BY <1>1, <1>2, <1>3, <1>4, <1>5, <1>6 DEF IInv

\* The policy is told before anything is tried.
LEMMA ConnectRequestedKeeps == IInv /\ ConnectRequested => IInv'
  <1> SUFFICES ASSUME IInv, ConnectRequested PROVE IInv'
    OBVIOUS
  <1>1. logic' \in Logic /\ logic'.state = "connecting" /\ state' = "connecting"
    BY Processed DEF IInv, Typed, ConnectRequested, ApplyPolicy, Events
  <1>2. state' \in States
    BY <1>1 DEF States
  <1>3. Typed'
    BY <1>1, <1>2 DEF IInv, ConnectRequested, driver, tries, history, Typed
  <1>4. StateInv'
    BY <1>1, <1>2
       DEF IInv, ConnectRequested, driver, tries, history, Typed, StateInv,
           BootInv
  <1>5. BootInv'
    BY <1>1, <1>2
       DEF IInv, ConnectRequested, driver, tries, history, Typed, BootInv,
           StateInv
  <1>6. QueueInv'
    BY <1>1, <1>2
       DEF IInv, ConnectRequested, driver, tries, history, Typed, QueueInv,
           BootInv
  <1>7. OneRetry'
    BY <1>1, <1>2
       DEF IInv, ConnectRequested, driver, tries, history, Typed, OneRetry,
           StateInv, BootInv, QueueInv, Live, Lost, Retrying, Retries
  <1>8. NeverStranded'
    BY <1>1, <1>2
       DEF IInv, ConnectRequested, driver, tries, history, Typed,
           NeverStranded, BootInv, StateInv, QueueInv, RetryPending, Retries
  <1> QED
    BY <1>3, <1>4, <1>5, <1>6, <1>7, <1>8 DEF IInv

\* A refused configuration leaves the station as it was, with nothing tried.
LEMMA ConfigRefusedKeeps == IInv /\ ConfigRefused => IInv'
  <1> SUFFICES ASSUME IInv, ConfigRefused PROVE IInv'
    OBVIOUS
  <1>1. Typed'
    BY DEF IInv, ConfigRefused, driver, tries, history, Typed
  <1>2. StateInv'
    BY DEF IInv, ConfigRefused, driver, tries, history, Typed, StateInv, BootInv
  <1>3. BootInv'
    BY DEF IInv, ConfigRefused, driver, tries, history, Typed, BootInv, StateInv
  <1>4. QueueInv'
    BY DEF IInv, ConfigRefused, driver, tries, history, Typed, QueueInv, BootInv
  <1>5. OneRetry'
    BY
       DEF IInv, ConfigRefused, driver, tries, history, Typed, OneRetry,
           StateInv, BootInv, QueueInv, Live, Lost, Retrying, Retries
  <1>6. NeverStranded'
    BY DEF IInv, ConfigRefused, driver, tries, history, NeverStranded, BootInv
  <1> QED
    BY <1>1, <1>2, <1>3, <1>4, <1>5, <1>6 DEF IInv

\* The network task's callback tells what it stored.
LEMMA NetCallbackKeeps == IInv /\ NetCallback => IInv'
  <1> SUFFICES ASSUME IInv, NetCallback PROVE IInv'
    OBVIOUS
  <1>1. Typed'
    BY DEF IInv, NetCallback, driver, tries, Typed
  <1>2. StateInv'
    BY DEF IInv, NetCallback, driver, tries, Typed, StateInv, BootInv
  <1>3. BootInv'
    BY DEF IInv, NetCallback, driver, tries, Typed, BootInv, StateInv
  <1>4. QueueInv'
    BY DEF IInv, NetCallback, driver, tries, Typed, QueueInv, BootInv
  <1>5. OneRetry'
    BY
       DEF IInv, NetCallback, driver, tries, Typed, OneRetry, StateInv,
           BootInv, QueueInv, Live, Lost, Retrying, Retries
  <1>6. NeverStranded'
    BY
       DEF IInv, NetCallback, driver, tries, Typed, NeverStranded, BootInv,
           StateInv, QueueInv, RetryPending, Retries
  <1> QED
    BY <1>1, <1>2, <1>3, <1>4, <1>5, <1>6 DEF IInv

\* The first attempt leaves the station trying, or refused.
LEMMA AttemptKeeps == IInv /\ Attempt => IInv'
  <1> SUFFICES ASSUME IInv, Attempt PROVE IInv'
    OBVIOUS
  <1>1. Typed'
    BY Attempted DEF IInv, Attempt, history, Typed
  <1>2. StateInv'
    BY Attempted DEF IInv, Attempt, history, Typed, StateInv, BootInv
  <1>3. BootInv'
    BY Attempted DEF IInv, Attempt, history, Typed, BootInv, StateInv
  <1>4. QueueInv'
    BY Attempted DEF IInv, Attempt, history, Typed, QueueInv, BootInv
  <1>5. OneRetry'
    BY Attempted
       DEF IInv, Attempt, history, Typed, OneRetry, StateInv, BootInv,
           QueueInv, Live, Lost, Retrying, Retries
  <1>6. NeverStranded'
    BY Attempted
       DEF IInv, Attempt, history, Typed, NeverStranded, BootInv, StateInv,
           QueueInv, RetryPending, Retries
  <1> QED
    BY <1>1, <1>2, <1>3, <1>4, <1>5, <1>6 DEF IInv

\* Without stored credentials the manager may try again at any time.
LEMMA ManagerConnectKeeps == IInv /\ ManagerConnect => IInv'
  <1> SUFFICES ASSUME IInv, ManagerConnect PROVE IInv'
    OBVIOUS
  <1>1. Typed'
    BY Attempted DEF IInv, ManagerConnect, history, Typed
  <1>2. StateInv'
    BY Attempted DEF IInv, ManagerConnect, history, Typed, StateInv, BootInv
  <1>3. BootInv'
    BY Attempted DEF IInv, ManagerConnect, history, Typed, BootInv, StateInv
  <1>4. QueueInv'
    BY Attempted DEF IInv, ManagerConnect, history, Typed, QueueInv, BootInv
  <1>5. OneRetry'
    BY Attempted
       DEF IInv, ManagerConnect, history, Typed, OneRetry, StateInv, BootInv,
           QueueInv, Live, Lost, Retrying, Retries
  <1>6. NeverStranded'
    BY Attempted
       DEF IInv, ManagerConnect, history, Typed, NeverStranded, BootInv,
           StateInv, QueueInv, RetryPending, Retries
  <1> QED
    BY <1>1, <1>2, <1>3, <1>4, <1>5, <1>6 DEF IInv

\* The event task's callback tells what it stored.
LEMMA EvCallbackKeeps == IInv /\ EvCallback => IInv'
  <1> SUFFICES ASSUME IInv, EvCallback PROVE IInv'
    OBVIOUS
  <1>1. Typed'
    BY DEF IInv, EvCallback, driver, tries, Typed
  <1>2. StateInv'
    BY DEF IInv, EvCallback, driver, tries, Typed, StateInv, BootInv
  <1>3. BootInv'
    BY DEF IInv, EvCallback, driver, tries, Typed, BootInv, StateInv
  <1>4. QueueInv'
    BY DEF IInv, EvCallback, driver, tries, Typed, QueueInv, BootInv
  <1>5. OneRetry'
    BY
       DEF IInv, EvCallback, driver, tries, Typed, OneRetry, StateInv, BootInv,
           QueueInv, Live, Lost, Retrying, Retries
  <1>6. NeverStranded'
    BY
       DEF IInv, EvCallback, driver, tries, Typed, NeverStranded, BootInv,
           StateInv, QueueInv, RetryPending, Retries
  <1> QED
    BY <1>1, <1>2, <1>3, <1>4, <1>5, <1>6 DEF IInv

\* The timer fires only for a station with nothing else on its way.
LEMMA ReconnectKeeps == IInv /\ Reconnect => IInv'
  <1> SUFFICES ASSUME IInv, Reconnect PROVE IInv'
    OBVIOUS
  <1>1. Typed'
    BY Attempted DEF IInv, Reconnect, history, Typed
  <1>2. StateInv'
    BY Attempted DEF IInv, Reconnect, history, Typed, StateInv, BootInv
  <1>3. BootInv'
    BY Attempted DEF IInv, Reconnect, history, Typed, BootInv, StateInv
  <1>4. QueueInv'
    BY Attempted DEF IInv, Reconnect, history, Typed, QueueInv, BootInv
  <1>5. OneRetry'
    BY Attempted
       DEF IInv, Reconnect, history, Typed, OneRetry, StateInv, BootInv,
           QueueInv, Live, Lost, Retrying, Retries
  <1>6. NeverStranded'
    BY Attempted
       DEF IInv, Reconnect, history, Typed, NeverStranded, BootInv, StateInv,
           QueueInv, RetryPending, Retries
  <1> QED
    BY <1>1, <1>2, <1>3, <1>4, <1>5, <1>6 DEF IInv

\* Associating changes neither the queue nor the policy.
LEMMA AssociateKeeps == IInv /\ Associate => IInv'
  <1> SUFFICES ASSUME IInv, Associate PROVE IInv'
    OBVIOUS
  <1>1. Typed'
    BY DEF IInv, Associate, policy, tries, history, Typed
  <1>2. StateInv'
    BY DEF IInv, Associate, policy, tries, history, Typed, StateInv, BootInv
  <1>3. BootInv'
    BY DEF IInv, Associate, policy, tries, history, Typed, BootInv, StateInv
  <1>4. QueueInv'
    BY DEF IInv, Associate, policy, tries, history, Typed, QueueInv, BootInv
  <1>5. OneRetry'
    BY
       DEF IInv, Associate, policy, tries, history, Typed, OneRetry, StateInv,
           BootInv, QueueInv, Live, Lost, Retrying, Retries
  <1>6. NeverStranded'
    BY
       DEF IInv, Associate, policy, tries, history, Typed, NeverStranded,
           BootInv, StateInv, QueueInv, RetryPending, Retries
  <1> QED
    BY <1>1, <1>2, <1>3, <1>4, <1>5, <1>6 DEF IInv

\* An address is the last thing in the queue while the link is up.
LEMMA GetAddressKeeps == IInv /\ GetAddress => IInv'
  <1> SUFFICES ASSUME IInv, GetAddress PROVE IInv'
    OBVIOUS
  <1>1. /\ queue' \in Seq(Events) /\ queue' # <<>> /\ Len(queue') = Len(queue) + 1
        /\ Len(queue) \in Nat /\ queue'[Len(queue')] = "got_ip"
        /\ \A k \in 1 .. Len(queue) : queue'[k] = queue[k]
    BY Posted DEF IInv, Typed, GetAddress, Post, Events
  <1>2. Typed'
    BY <1>1 DEF IInv, GetAddress, policy, tries, history, Typed
  <1>3. StateInv'
    BY <1>1 DEF IInv, GetAddress, policy, tries, history, Typed, StateInv, BootInv
  <1>4. BootInv'
    BY <1>1 DEF IInv, GetAddress, policy, tries, history, Typed, BootInv, StateInv
  <1>5. QueueInv'
    BY <1>1 DEF IInv, GetAddress, policy, tries, history, Typed, QueueInv, BootInv
  <1>6. OneRetry'
    BY <1>1
       DEF IInv, GetAddress, policy, tries, history, Typed, OneRetry, StateInv,
           BootInv, QueueInv, Live, Lost, Retrying, Retries
  <1>7. NeverStranded'
    BY <1>1
       DEF IInv, GetAddress, policy, tries, history, Typed, NeverStranded,
           BootInv, StateInv, QueueInv, RetryPending, Retries
  <1> QED
    BY <1>2, <1>3, <1>4, <1>5, <1>6, <1>7 DEF IInv

\* A loss is posted, and nothing else was on its way.
LEMMA LoseLinkKeeps == IInv /\ LoseLink => IInv'
  <1> SUFFICES ASSUME IInv, LoseLink PROVE IInv'
    OBVIOUS
  <1>1. /\ queue' \in Seq(Events) /\ queue' # <<>> /\ Len(queue') = Len(queue) + 1
        /\ Len(queue) \in Nat /\ queue'[Len(queue')] = "disconnected"
        /\ \A k \in 1 .. Len(queue) : queue'[k] = queue[k]
    BY Posted DEF IInv, Typed, LoseLink, Post, Events
  <1>2. Typed'
    BY <1>1 DEF IInv, LoseLink, policy, tries, history, Typed
  <1>3. StateInv'
    BY <1>1 DEF IInv, LoseLink, policy, tries, history, Typed, StateInv, BootInv
  <1>4. BootInv'
    BY <1>1 DEF IInv, LoseLink, policy, tries, history, Typed, BootInv, StateInv
  <1>5. QueueInv'
    BY <1>1 DEF IInv, LoseLink, policy, tries, history, Typed, QueueInv, BootInv
  <1>6. OneRetry'
    BY <1>1
       DEF IInv, LoseLink, policy, tries, history, Typed, OneRetry, StateInv,
           BootInv, QueueInv, Live, Lost, Retrying, Retries
  <1>7. NeverStranded'
    BY <1>1
       DEF IInv, LoseLink, policy, tries, history, Typed, NeverStranded,
           BootInv, StateInv, QueueInv, RetryPending, Retries
  <1> QED
    BY <1>2, <1>3, <1>4, <1>5, <1>6, <1>7 DEF IInv

\* A retry passes from the handler to the driver or the timer.
LEMMA ActKeeps == IInv /\ Act => IInv'
  <1> SUFFICES ASSUME IInv, Act PROVE IInv'
    OBVIOUS
  <1>1. Typed'
    BY Attempted DEF IInv, Act, tries, history, Typed
  <1>2. StateInv'
    BY Attempted DEF IInv, Act, tries, history, Typed, StateInv, BootInv
  <1>3. BootInv'
    <2>1. CASE net # "done"
      BY <2>1 DEF IInv, Act, tries, history, Typed, BootInv, StateInv, Retries
    <2>2. CASE net = "done"
      BY <2>2, Attempted DEF IInv, Act, tries, history, Typed, BootInv
    <2> QED
      BY <2>1, <2>2
  <1>4. QueueInv'
    BY Attempted DEF IInv, Act, tries, history, Typed, QueueInv, BootInv
  <1>5. OneRetry'
    BY Attempted
       DEF IInv, Act, tries, history, Typed, OneRetry, StateInv, BootInv,
           QueueInv, Live, Lost, Retrying, Retries
  <1>6. NeverStranded'
    BY Attempted
       DEF IInv, Act, tries, history, Typed, NeverStranded, BootInv, StateInv,
           QueueInv, RetryPending, Retries
  <1> QED
    BY <1>1, <1>2, <1>3, <1>4, <1>5, <1>6 DEF IInv

\* Each event leaves the policy in the state it tells, or its retry to make.
LEMMA HandleKeeps == IInv /\ Handle => IInv'
  <1> SUFFICES ASSUME IInv, Handle PROVE IInv'
    OBVIOUS
  <1> DEFINE e == Head(queue)
  <1>1. /\ queue' \in Seq(Events) /\ Len(queue') = Len(queue) - 1 /\ Len(queue) \in Nat \ {0}
        /\ e = queue[1] /\ e \in Events
        /\ \A k \in 1 .. Len(queue') : queue'[k] = queue[k + 1] /\ k + 1 \in 1 .. Len(queue)
        /\ \A k \in 2 .. Len(queue) : queue'[k - 1] = queue[k] /\ k - 1 \in 1 .. Len(queue')
        /\ queue' # <<>> => Len(queue') >= 1 /\ queue'[Len(queue')] = queue[Len(queue)]
        /\ queue' = <<>> => Len(queue) = 1
    BY Taken DEF IInv, Typed, Handle
  <1>2. /\ cur' = e /\ state' = logic'.state /\ got'.state = state' /\ logic' \in Logic
        /\ e \in {"connect_requested", "sta_started"} => state' = "connecting"
        /\ e = "got_ip" => state' = "connected"
        /\ e = "disconnected" => state' \in {"connecting", "error"}
    BY <1>1, Processed DEF IInv, Typed, Handle, HandleHead, ApplyPolicy
  <1>3. /\ ev = "idle" /\ queue # <<>> /\ ev' = (IF state' = state THEN "act" ELSE "callback")
        /\ UNCHANGED <<net, timer, link, tried, refused, stored, told>>
    BY DEF Handle, tries
  <1> HIDE DEF e
  <1>4. Typed'
    BY <1>1, <1>2, <1>3 DEF IInv, Events, States, Typed
  <1>5. StateInv'
    BY <1>1, <1>2, <1>3 DEF IInv, Events, Typed, StateInv, BootInv
  <1>6. BootInv'
    BY <1>1, <1>2, <1>3 DEF IInv, Events, Typed, BootInv, StateInv
  <1>7. QueueInv'
    <2>1. ASSUME NEW k \in 1 .. Len(queue'), queue'[k] = "sta_started"
          PROVE  FALSE
      BY <2>1, <1>1 DEF IInv, QueueInv
    <2>2. ASSUME NEW k \in 1 .. Len(queue'), queue'[k] = "got_ip"
          PROVE  link' = "up" \/ \E j \in k + 1 .. Len(queue') : queue'[j] = "disconnected"
      <3>1. k + 1 \in 1 .. Len(queue) /\ queue[k + 1] = "got_ip"
        BY <2>2, <1>1
      <3>2. CASE link # "up"
        <4>1. PICK j \in (k + 1) + 1 .. Len(queue) : queue[j] = "disconnected"
          BY <3>1, <3>2 DEF IInv, QueueInv
        <4>2. queue'[j - 1] = "disconnected" /\ j - 1 \in k + 1 .. Len(queue')
          BY <4>1, <1>1
        <4> QED
          BY <4>2
      <3> QED
        BY <3>2, <1>3
    <2>3. queue' # <<>> => (queue'[Len(queue')] = "got_ip" <=> link' = "up")
      BY <1>1, <1>3 DEF IInv, QueueInv
    <2>4. queue' = <<>> => (state' = "connected" <=> link' = "up")
      <3>1. queue' = <<>> => (e = "got_ip" <=> link = "up")
        BY <1>1, <1>3 DEF IInv, QueueInv
      <3>2. state' = "connected" <=> e = "got_ip"
        BY <1>1, <1>2 DEF Events
      <3> QED
        BY <3>1, <3>2, <1>3
    <2>5. \A k \in 1 .. Len(queue') : queue'[k] # "connect_requested"
      BY <1>1 DEF IInv, QueueInv
    <2> QED
      BY <2>1, <2>2, <2>3, <2>4, <2>5 DEF QueueInv
  <1>8. OneRetry'
    BY <1>1, <1>2, <1>3
       DEF IInv, Events, Typed, OneRetry, StateInv, BootInv, QueueInv, Live,
           Lost, Retrying, Retries
  <1>9. NeverStranded'
    <2> SUFFICES ASSUME net = "done", tried, link = "down", ~refused
                 PROVE  RetryPending' \/ logic'.state = "error"
      BY <1>3 DEF NeverStranded
    <2>1. CASE e = "disconnected"
      BY <2>1, <1>2, <1>3 DEF RetryPending, Retries
    <2>2. CASE timer # 0
      BY <2>2, <1>3 DEF RetryPending
    <2>3. ASSUME NEW k \in 1 .. Len(queue), queue[k] = "disconnected", e # "disconnected"
          PROVE  RetryPending'
      <3>1. k \in 2 .. Len(queue)
        BY <2>3, <1>1
      <3>2. k - 1 \in DOMAIN queue' /\ queue'[k - 1] = "disconnected"
        BY <3>1, <2>3, <1>1
      <3> QED
        BY <3>2 DEF RetryPending
    <2>4. CASE e # "disconnected" /\ timer = 0
      <3>1. CASE e = "got_ip"
        <4>1. 1 \in 1 .. Len(queue) /\ queue[1] = "got_ip"
          BY <3>1, <1>1
        <4>2. PICK j \in 1 + 1 .. Len(queue) : queue[j] = "disconnected"
          BY <4>1 DEF IInv, QueueInv
        <4> QED
          BY <4>2, <2>3, <2>4, <1>1
      <3>2. CASE e = "sta_started"
        <4>1. 1 \in 1 .. Len(queue) /\ queue[1] = "sta_started"
          BY <3>2, <1>1
        <4>2. state # "error" /\ state = logic.state
          BY <4>1 DEF IInv, QueueInv, StateInv
        <4>3. RetryPending
          BY <4>2 DEF IInv, NeverStranded
        <4>4. PICK k \in DOMAIN queue : queue[k] = "disconnected"
          BY <4>3, <2>4, <1>3 DEF RetryPending
        <4> QED
          BY <4>4, <2>3, <2>4 DEF IInv, Typed
      <3>3. CASE e = "connect_requested"
        BY <3>3, <1>1 DEF IInv, QueueInv
      <3> QED
        BY <3>1, <3>2, <3>3, <2>4, <1>1 DEF Events
    <2> QED
      BY <2>1, <2>2, <2>4
  <1> QED
    BY <1>4, <1>5, <1>6, <1>7, <1>8, <1>9 DEF IInv

-----------------------------------------------------------------------------
\* Every step keeps the invariant.
LEMMA NextKeeps == IInv /\ [Next]_vars => IInv'
  <1> SUFFICES ASSUME IInv, [Next]_vars PROVE IInv'
    OBVIOUS
  <1>1. CASE Next
    BY <1>1, StartStationKeeps, SetStartedKeeps, ConnectRequestedKeeps, ConfigRefusedKeeps,
       NetCallbackKeeps, AttemptKeeps, ManagerConnectKeeps, HandleKeeps, EvCallbackKeeps, ActKeeps,
       ReconnectKeeps, AssociateKeeps, GetAddressKeeps, LoseLinkKeeps
       DEF Next, NetStep, EventStep
  <1>2. CASE UNCHANGED vars
    BY <1>2 DEF vars, tries, IInv, Typed, StateInv, BootInv, QueueInv, OneRetry,
       NeverStranded, RetryPending, Live, Lost, Retrying, Retries
  <1> QED
    BY <1>1, <1>2

\* The invariant holds of the specification, whatever the delays are.
THEOREM Inductive == Spec => []IInv
  <1> QED
    BY InitIInv, NextKeeps, PTL DEF Spec

\* Whenever no callback is about to be made, the application was last told the
\* current state, although two tasks tell it outside the lock.
THEOREM CallbackCurrentHolds == Spec => []CallbackCurrent
  <1>1. IInv => CallbackCurrent
    BY DEF IInv, StateInv, CallbackCurrent
  <1> QED
    BY <1>1, Inductive, PTL

\* A station that is down has a retry on its way, unless the policy has given up
\* or the driver has refused.
THEOREM NeverStrandedHolds == Spec => []NeverStranded
  <1>1. IInv => NeverStranded
    BY DEF IInv
  <1> QED
    BY <1>1, Inductive, PTL

\* With every posted event handled, s_state says what the link is.
THEOREM StateTracksLinkHolds == Spec => []StateTracksLink
  <1>1. IInv => StateTracksLink
    BY DEF IInv, Typed, BootInv, QueueInv, OneRetry, Live, StateTracksLink
  <1> QED
    BY <1>1, Inductive, PTL

-----------------------------------------------------------------------------
\* The powers of two double, from 1.
LEMMA Powers ==
  /\ TwoTo[0] = 1
  /\ \A n \in 0 .. RetryBound : TwoTo[n] \in Nat
  /\ \A n \in 1 .. RetryBound : TwoTo[n] = 2 * TwoTo[n - 1]
  <1> DEFINE step == [n \in 1 .. RetryBound |-> [x \in Nat |-> 2 * x]]
             IsPower(f) == f = [n \in 0 .. RetryBound |-> IF n = 0 THEN 1 ELSE 2 * f[n - 1]]
  <1>1. \A n \in 1 .. RetryBound : \A x \in Nat : step[n][x] = 2 * x
    OBVIOUS
  <1> HIDE DEF step
  <1>2. StaysIn(Nat, RetryBound, step)
    BY <1>1 DEF StaysIn
  <1>3. RetryBound \in Nat
    BY WifiAssumption
  <1>4. PICK f : Loops(f, RetryBound, 1, step) /\ \A n \in 0 .. RetryBound : f[n] \in Nat
    BY <1>2, <1>3, RecursiveFunction
  <1>5. IsPower(f)
    <2>1. \A n \in 0 .. RetryBound : n # 0 => n \in 1 .. RetryBound /\ n - 1 \in 0 .. RetryBound
      BY <1>3
    <2> QED
      BY <1>1, <1>4, <2>1 DEF Loops
  <1>6. IsPower(TwoTo)
    <2>1. TwoTo = CHOOSE g : IsPower(g)
      BY DEF TwoTo
    <2> HIDE DEF IsPower
    <2> QED
      BY <2>1, <1>5
  <1>7. /\ TwoTo[0] = 1
        /\ \A n \in 1 .. RetryBound : TwoTo[n] = 2 * TwoTo[n - 1]
    <2>1. 0 \in 0 .. RetryBound /\ \A n \in 1 .. RetryBound : n \in 0 .. RetryBound /\ n # 0
      BY <1>3
    <2> QED
      BY <1>6, <2>1
  <1> DEFINE Whole == {n \in Nat : n <= RetryBound => TwoTo[n] \in Nat}
  <1>8. 0 \in Whole
    BY <1>7
  <1>9. ASSUME NEW n \in Nat, n \in Whole PROVE n + 1 \in Whole
    <2> SUFFICES ASSUME n + 1 <= RetryBound PROVE TwoTo[n + 1] \in Nat
      OBVIOUS
    <2>1. n + 1 \in 1 .. RetryBound /\ (n + 1) - 1 = n /\ TwoTo[n] \in Nat
      BY <1>3, <1>9
    <2> QED
      BY <2>1, <1>7
  <1>10. \A n \in Nat : n \in Whole
    <2> HIDE DEF Whole
    <2> QED
      BY <1>8, <1>9, Induction
  <1> QED
    BY <1>3, <1>7, <1>10

\* What the loop of wifi_logic_backoff returns: the base doubled once for each
\* retry, unless that is beyond the ceiling.
LEMMA DoubledIs ==
  ASSUME NEW l \in Logic
  PROVE  /\ Doubled(l) \in Nat
         /\ IF Doubled(l) < MaxDelay THEN Doubled(l) = l.base * TwoTo[l.retries]
            ELSE l.base * TwoTo[l.retries] >= MaxDelay
  <1> DEFINE size == l.retries
             base == l.base
             longer(x) == IF x < MaxDelay THEN 2 * x ELSE x
             step == [n \in 1 .. size |-> [x \in Nat |-> longer(x)]]
             IsDelay(f) == f = [k \in 0 .. size |->
                 IF k = 0 THEN base
                 ELSE IF f[k - 1] < MaxDelay THEN 2 * f[k - 1] ELSE f[k - 1]]
             delay == CHOOSE f : IsDelay(f)
  <1> HIDE DEF step, IsDelay, delay
  <1>1. size \in Nat /\ base \in Nat /\ size <= RetryBound /\ MaxDelay \in Nat /\ RetryBound \in Nat
    <2>1. l.retries \in 0 .. RetryBound /\ l.base \in Nat /\ MaxDelay \in Nat /\ RetryBound \in Nat
      BY WifiAssumption DEF Logic
    <2> QED
      BY <2>1
  <1>2. Doubled(l) = delay[size]
    BY DEF Doubled, delay, IsDelay
  <1>3. \A n \in 1 .. size : \A x \in Nat : step[n][x] = longer(x) /\ longer(x) \in Nat
    BY <1>1 DEF step
  <1> HIDE DEF size, base
  <1>4. StaysIn(Nat, size, step)
    BY <1>3 DEF StaysIn
  <1>5. PICK h : Loops(h, size, base, step) /\ \A n \in 0 .. size : h[n] \in Nat
    <2> HIDE DEF IsDelay, longer
    <2> QED
      BY <1>1, <1>4, RecursiveFunction
  <1>6. IsDelay(h)
    <2>1. \A n \in 0 .. size : n # 0 => n \in 1 .. size /\ n - 1 \in 0 .. size
      BY <1>1
    <2> QED
      BY <1>3, <1>5, <2>1 DEF Loops, IsDelay
  <1>7. IsDelay(delay)
    BY <1>6 DEF delay
  <1> DEFINE Follows(d, p) == d \in Nat /\ IF d < MaxDelay THEN d = base * p ELSE base * p >= MaxDelay
             Right == {n \in Nat : n <= size => Follows(delay[n], TwoTo[n])}
  <1>8. /\ delay[0] = base
        /\ \A n \in 1 .. size : delay[n] = longer(delay[n - 1])
    <2>1. 0 \in 0 .. size /\ \A n \in 1 .. size : n \in 0 .. size /\ n # 0
      BY <1>1
    <2> QED
      BY <1>7, <2>1 DEF IsDelay
  <1>9. 0 \in Right
    BY <1>1, <1>8, Powers
  <1>10. ASSUME NEW d \in Nat, NEW p \in Nat, Follows(d, p) PROVE Follows(longer(d), 2 * p)
    <2>1. base * (2 * p) = 2 * (base * p) /\ base * p \in Nat
      BY <1>1
    <2> DEFINE bp == base * p
    <2> HIDE DEF bp
    <2>2. bp \in Nat /\ base * (2 * p) = 2 * bp
      BY <2>1 DEF bp
    <2>3. IF d < MaxDelay THEN d = bp ELSE bp >= MaxDelay
      BY <1>10 DEF bp
    <2> QED
      BY <1>1, <2>2, <2>3
  <1>11. ASSUME NEW n \in Nat, n \in Right PROVE n + 1 \in Right
    <2> SUFFICES ASSUME n + 1 <= size PROVE Follows(delay[n + 1], TwoTo[n + 1])
      OBVIOUS
    <2>1. n + 1 \in 1 .. size /\ n + 1 \in 1 .. RetryBound /\ n \in 0 .. RetryBound /\ (n + 1) - 1 = n
      BY <1>1
    <2>2. Follows(delay[n], TwoTo[n])
      BY <1>1, <1>11
    <2>3. delay[n + 1] = longer(delay[n]) /\ TwoTo[n + 1] = 2 * TwoTo[n] /\ TwoTo[n] \in Nat
      BY <2>1, <1>8, Powers
    <2>4. delay[n] \in Nat
      BY <2>2
    <2> HIDE DEF longer, Follows
    <2> QED
      BY <2>2, <2>3, <2>4, <1>10
  <1>12. \A n \in Nat : n \in Right
    <2> HIDE DEF Right
    <2> QED
      BY <1>9, <1>11, Induction
  <1>13. Follows(delay[size], TwoTo[size])
    BY <1>1, <1>12
  <1> QED
    BY <1>2, <1>13 DEF size, base

\* wifi_logic_backoff returns no more than the ceiling, and what the base
\* doubled once for each retry comes to below it.
LEMMA BackoffIs ==
  ASSUME NEW l \in Logic
  PROVE  /\ Backoff(l) \in 0 .. MaxDelay
         /\ Backoff(l) = LET d == l.base * TwoTo[l.retries]
                         IN  IF d > MaxDelay THEN MaxDelay ELSE d
  <1>1. /\ l.retries \in 0 .. RetryBound /\ l.base \in Nat
        /\ MaxDelay \in Nat /\ RetryBound \in Nat
    BY WifiAssumption DEF Logic
  <1> DEFINE d == Doubled(l)
             p == l.base * TwoTo[l.retries]
  <1>2. TwoTo[l.retries] \in Nat
    BY <1>1, Powers
  <1>3. p \in Nat
    BY <1>1, <1>2
  <1>4. d \in Nat /\ IF d < MaxDelay THEN d = p ELSE p >= MaxDelay
    BY DoubledIs
  <1>5. Backoff(l) = IF d > MaxDelay THEN MaxDelay ELSE d
    BY DEF Backoff
  <1> HIDE DEF d, p
  <1>6. Backoff(l) \in 0 .. MaxDelay /\ Backoff(l) = IF p > MaxDelay THEN MaxDelay ELSE p
    BY <1>1, <1>3, <1>4, <1>5
  <1> QED
    BY <1>6 DEF p

\* A policy that is given an event hands back a delay below the ceiling.
LEMMA RetryDelayTyped ==
  ASSUME NEW l \in Logic, NEW e
  PROVE  RetryDelay(l, e) \in 0 .. MaxDelay
  <1>1. Backoff(l) \in 0 .. MaxDelay /\ 0 \in 0 .. MaxDelay
    BY BackoffIs, WifiAssumption
  <1> QED
    BY <1>1 DEF RetryDelay

\* The count of retries stays within its bound.
LEMMA OneMoreTyped ==
  ASSUME NEW n \in 0 .. RetryBound
  PROVE  OneMore(n) \in 0 .. RetryBound
  BY WifiAssumption DEF OneMore

\* The types hold at the start.
LEMMA InitTyped == Init => TypeOK
  <1> SUFFICES ASSUME Init PROVE TypeOK
    OBVIOUS
  <1>1. logic \in Logic
    BY WifiAssumption DEF Init, FreshLogic, Logic, States
  <1>2. queue \in Seq(Events) /\ Len(queue) <= QueueBound
    BY WifiAssumption DEF Init
  <1>3. got \in [state : States, delay : 0 .. MaxDelay] /\ 0 \in 0 .. MaxDelay
        /\ 0 \in 0 .. RetryBound
    BY WifiAssumption DEF Init, States
  <1> QED
    BY <1>1, <1>2, <1>3 DEF Init, TypeOK, States, Events

\* An event posted finds room and joins the queue.
LEMMA PostTyped ==
  ASSUME TypeOK, NEW e \in Events, Post(e)
  PROVE  queue' \in Seq(Events) /\ Len(queue') <= QueueBound
  <1>1. queue' \in Seq(Events) /\ Len(queue') = Len(queue) + 1 /\ Len(queue) \in Nat
    BY Posted DEF TypeOK, Post
  <1> QED
    BY <1>1, WifiAssumption DEF Post

\* esp_wifi_connect keeps the types.
LEMMA AttemptTyped ==
  ASSUME TypeOK, EspConnect
  PROVE  /\ tried' \in BOOLEAN /\ refused' \in BOOLEAN
         /\ link' \in {"off", "down", "trying", "associated", "up"}
  <1>1. refused' \in BOOLEAN
    BY DEF EspConnect
  <1> QED
    BY <1>1, Attempted DEF TypeOK

\* Every step keeps the types.
LEMMA NextTyped == TypeOK /\ [Next]_vars => TypeOK'
  <1> SUFFICES ASSUME TypeOK, [Next]_vars PROVE TypeOK'
    OBVIOUS
  <1>1. CASE StartStation
    <2>1. queue' \in Seq(Events) /\ Len(queue') <= QueueBound
      BY <1>1, PostTyped DEF StartStation, Events
    <2> QED
      BY <1>1, <2>1 DEF StartStation, tries, history, TypeOK
  <1>2. CASE SetStarted \/ ConfigRefused
    BY <1>2 DEF SetStarted, ConfigRefused, driver, tries, history, TypeOK
  <1>3. CASE ConnectRequested
    <2>1. logic' \in Logic /\ state' \in States
      <3>1. logic' \in Logic
        BY <1>3, Processed DEF TypeOK, ConnectRequested, ApplyPolicy, Events
      <3> QED
        BY <1>3, <3>1 DEF ConnectRequested, ApplyPolicy, Logic
    <2> QED
      BY <1>3, <2>1 DEF ConnectRequested, driver, tries, history, TypeOK
  <1>4. CASE NetCallback
    BY <1>4 DEF NetCallback, driver, tries, TypeOK, States
  <1>5. CASE Attempt
    BY <1>5, AttemptTyped DEF Attempt, history, TypeOK
  <1>6. CASE ManagerConnect
    BY <1>6, AttemptTyped DEF ManagerConnect, history, TypeOK
  <1>7. CASE Handle
    <2> DEFINE e == Head(queue)
    <2>1. e \in Events /\ queue' \in Seq(Events) /\ Len(queue') <= QueueBound
      <3>1. /\ e \in Events /\ queue' \in Seq(Events)
            /\ Len(queue') = Len(queue) - 1 /\ Len(queue) \in Nat
        BY <1>7, Taken DEF Handle, TypeOK
      <3> QED
        BY <3>1, WifiAssumption DEF TypeOK
    <2>2. Process(logic, e) \in Logic /\ RetryDelay(logic, e) \in 0 .. MaxDelay
      BY <2>1, Processed, RetryDelayTyped DEF TypeOK
    <2>3. Failures(e) \in 0 .. RetryBound
      <3>1. OneMore(fails) \in 0 .. RetryBound /\ 0 \in 0 .. RetryBound
        BY OneMoreTyped, WifiAssumption DEF TypeOK
      <3> QED
        BY <2>1, <3>1 DEF Failures, Events, TypeOK
    <2>4. /\ cur' = e /\ logic' = Process(logic, e) /\ state' = logic'.state
          /\ got' = [state |-> Process(logic, e).state, delay |-> RetryDelay(logic, e)]
          /\ fails' = Failures(e)
      BY <1>7 DEF Handle, HandleHead, ApplyPolicy
    <2> HIDE DEF e
    <2>5. logic' \in Logic /\ state' \in States /\ got' \in [state : States, delay : 0 .. MaxDelay]
      BY <2>2, <2>4 DEF Logic
    <2>6. /\ ev' \in {"idle", "callback", "act"}
          /\ UNCHANGED <<started, net, timer, link, tried, refused, stored, told>>
      BY <1>7 DEF Handle, tries
    <2> QED
      BY <2>1, <2>3, <2>4, <2>5, <2>6 DEF TypeOK
  <1>8. CASE EvCallback
    BY <1>8 DEF EvCallback, driver, tries, TypeOK
  <1>9. CASE Act
    <2>1. /\ timer' \in 0 .. MaxDelay /\ tried' \in BOOLEAN /\ refused' \in BOOLEAN
          /\ link' \in {"off", "down", "trying", "associated", "up"}
      <3>1. got.delay \in 0 .. MaxDelay
        BY DEF TypeOK
      <3> QED
        BY <1>9, <3>1, AttemptTyped DEF Act, tries, TypeOK
    <2> QED
      BY <1>9, <2>1 DEF Act, history, TypeOK
  <1>10. CASE Reconnect
    <2>1. 0 \in 0 .. MaxDelay
      BY WifiAssumption
    <2> QED
      BY <1>10, <2>1, AttemptTyped DEF Reconnect, history, TypeOK
  <1>11. CASE Associate
    BY <1>11 DEF Associate, policy, tries, history, TypeOK
  <1>12. CASE GetAddress
    <2>1. queue' \in Seq(Events) /\ Len(queue') <= QueueBound
      BY <1>12, PostTyped DEF GetAddress, Events
    <2> QED
      BY <1>12, <2>1 DEF GetAddress, policy, tries, history, TypeOK
  <1>13. CASE LoseLink
    <2>1. queue' \in Seq(Events) /\ Len(queue') <= QueueBound
      BY <1>13, PostTyped DEF LoseLink, Events
    <2> QED
      BY <1>13, <2>1 DEF LoseLink, policy, tries, history, TypeOK
  <1>14. CASE UNCHANGED vars
    BY <1>14 DEF vars, tries, TypeOK
  <1> QED
    BY <1>1, <1>2, <1>3, <1>4, <1>5, <1>6, <1>7, <1>8, <1>9, <1>10, <1>11,
       <1>12, <1>13, <1>14 DEF Next, NetStep, EventStep

\* Every variable keeps its type; no delay goes beyond the ceiling.
THEOREM AppWifiTypes == Spec => []TypeOK
  <1> QED
    BY InitTyped, NextTyped, PTL DEF Spec

-----------------------------------------------------------------------------
\* The policy counts what the history counts, until it gives up; the delay on
\* its way to the timer is the one the count asks for.
CountInv ==
    /\ state # "error" => fails = logic.retries
    /\ state = "error" => GivesUp(logic)
    /\ Retries => got.delay = DelayAfter(fails)

TimedInv == TypeOK /\ IInv /\ CountInv /\ BackoffFollowsFailures

\* The delay after one more failure is what wifi_logic_backoff returns for the
\* failures before it.
LEMMA NextDelay ==
  ASSUME NEW l \in Logic
  PROVE  Backoff(l) = LET d == l.base * TwoTo[OneMore(l.retries) - 1]
                      IN  IF d > MaxDelay THEN MaxDelay ELSE d
  <1>1. /\ l.retries \in 0 .. RetryBound /\ l.base \in Nat /\ l.base \in Bases
        /\ MaxDelay \in Nat /\ RetryBound \in Nat \ {0}
    BY WifiAssumption DEF Logic
  <1>2. CASE l.retries < RetryBound
    <2>1. OneMore(l.retries) - 1 = l.retries
      BY <1>1, <1>2 DEF OneMore
    <2> QED
      BY <2>1, BackoffIs
  <1>3. CASE l.retries = RetryBound
    <2>1. OneMore(l.retries) - 1 = RetryBound - 1
      BY <1>1, <1>3 DEF OneMore
    <2> DEFINE p == TwoTo[RetryBound - 1]
               b == l.base
    <2>2. p \in Nat /\ TwoTo[RetryBound] = 2 * p
      <3>1. RetryBound - 1 \in 0 .. RetryBound /\ RetryBound \in 1 .. RetryBound
        BY <1>1
      <3> QED
        BY <3>1, Powers
    <2>3. b > 0 => b * p >= MaxDelay
      BY <1>1, BoundAssumption
    <2>4. Backoff(l) = LET d == b * (2 * p) IN IF d > MaxDelay THEN MaxDelay ELSE d
      BY <1>3, <2>2, BackoffIs
    <2>5. b \in Nat /\ MaxDelay \in Nat
      BY <1>1
    <2> HIDE DEF p, b
    <2>6. b * (2 * p) = 2 * (b * p) /\ b * p \in Nat /\ (b = 0 => b * p = 0)
      BY <2>2, <2>5
    <2> DEFINE bp == b * p
    <2>7. Backoff(l) = IF bp > MaxDelay THEN MaxDelay ELSE bp
      <3>1. Backoff(l) = IF 2 * bp > MaxDelay THEN MaxDelay ELSE 2 * bp
        BY <2>4, <2>6
      <3>2. bp \in Nat /\ (bp = 0 \/ bp >= MaxDelay)
        BY <2>3, <2>5, <2>6
      <3> HIDE DEF bp
      <3> QED
        BY <2>5, <3>1, <3>2
    <2> QED
      BY <2>1, <2>7 DEF p, b
  <1> QED
    BY <1>1, <1>2, <1>3

\* What happens to the count when an event is handled.
LEMMA HandleCounts ==
  ASSUME TimedInv, Handle
  PROVE  /\ state' # "error" => fails' = logic'.retries
         /\ state' = "error" => GivesUp(logic')
         /\ Retries' => got'.delay = DelayAfter(fails)'
  <1> DEFINE e == Head(queue)
  <1>1. /\ e = queue[1] /\ e \in Events /\ 1 \in 1 .. Len(queue)
    BY Taken DEF TimedInv, TypeOK, Handle
  <1>2. /\ cur' = e /\ logic' = Process(logic, e) /\ state' = logic'.state
        /\ got'.state = state' /\ got'.delay = RetryDelay(logic, e)
        /\ fails' = Failures(e)
    BY DEF Handle, HandleHead, ApplyPolicy
  <1>3. logic \in Logic /\ state = logic.state /\ e # "connect_requested"
    BY <1>1 DEF TimedInv, IInv, StateInv, QueueInv, TypeOK
  <1>4. CASE e = "sta_started"
    <2>1. state # "error"
      BY <1>1, <1>4 DEF TimedInv, IInv, QueueInv
    <2>2. logic' = [logic EXCEPT !.state = "connecting"] /\ fails' = fails
      BY <1>2, <1>4 DEF Process, Failures
    <2>3. logic'.state = "connecting" /\ logic'.retries = logic.retries
      BY <1>3, <2>2 DEF Logic
    <2> QED
      BY <1>2, <1>4, <2>1, <2>2, <2>3 DEF TimedInv, CountInv, Retries
  <1>5. CASE e = "got_ip"
    <2>1. logic' = [logic EXCEPT !.state = "connected", !.retries = 0] /\ fails' = 0
      BY <1>2, <1>5 DEF Process, Failures
    <2>2. logic'.state = "connected" /\ logic'.retries = 0
      BY <1>3, <2>1 DEF Logic
    <2> QED
      BY <1>2, <1>5, <2>1, <2>2 DEF Retries
  <1>6. CASE e = "disconnected"
    <2>1. logic' = AfterDisconnect(logic) /\ fails' = OneMore(fails)
      BY <1>2, <1>6 DEF Process, Failures
    <2>2. CASE GivesUp(logic)
      <3>1. logic' = [logic EXCEPT !.state = "error"]
        BY <2>1, <2>2 DEF AfterDisconnect
      <3>2. /\ logic'.state = "error" /\ logic'.retries = logic.retries
            /\ logic'.max = logic.max
        BY <1>3, <3>1 DEF Logic
      <3>3. GivesUp(logic')
        BY <2>2, <3>2 DEF GivesUp
      <3> QED
        BY <1>2, <3>2, <3>3 DEF Retries
    <2>3. CASE ~GivesUp(logic)
      <3>1. fails = logic.retries
        BY <1>3, <2>3 DEF TimedInv, CountInv
      <3>2. logic' = [logic EXCEPT !.state = "connecting", !.retries = OneMore(@)]
        BY <2>1, <2>3 DEF AfterDisconnect
      <3>3. /\ logic'.state = "connecting" /\ logic'.retries = OneMore(logic.retries)
            /\ logic'.base = logic.base
        BY <1>3, <3>2 DEF Logic
      <3>4. got'.delay = Backoff(logic)
        BY <1>2, <1>6, <2>3 DEF RetryDelay
      <3>5. got'.delay = LET d == logic'.base * TwoTo[fails' - 1]
                         IN  IF d > MaxDelay THEN MaxDelay ELSE d
        BY <1>3, <2>1, <3>1, <3>3, <3>4, NextDelay
      <3>6. got'.delay = DelayAfter(fails)'
        BY <3>5 DEF DelayAfter
      <3> QED
        BY <1>2, <2>1, <3>1, <3>3, <3>6
    <2> QED
      BY <2>2, <2>3
  <1> QED
    BY <1>1, <1>3, <1>4, <1>5, <1>6 DEF Events

\* While a timer runs with stored credentials, nothing handled changes what it
\* waits for.
LEMMA HandleWaits ==
  ASSUME TimedInv, Handle
  PROVE  BackoffFollowsFailures'
  <1> SUFFICES ASSUME timer' # 0, stored' PROVE timer' = DelayAfter(fails)'
    BY DEF BackoffFollowsFailures
  <1> DEFINE e == Head(queue)
  <1>1. /\ e = queue[1] /\ e \in Events /\ Len(queue) \in Nat /\ 1 \in 1 .. Len(queue)
    BY Taken DEF TimedInv, TypeOK, Handle
  <1>2. timer' = timer /\ stored' = stored /\ logic' = Process(logic, e) /\ fails' = Failures(e)
    BY DEF Handle, HandleHead, ApplyPolicy
  <1>3. ~Live /\ ~Lost
    BY <1>2 DEF TimedInv, IInv, OneRetry
  <1>4. e # "disconnected"
    BY <1>1, <1>3 DEF Lost
  <1>5. e # "got_ip"
    <2> SUFFICES ASSUME e = "got_ip" PROVE FALSE
      OBVIOUS
    <2>1. PICK j \in 1 + 1 .. Len(queue) : queue[j] = "disconnected"
      BY <1>1, <1>3 DEF TimedInv, IInv, QueueInv, Live
    <2>2. j \in 1 .. Len(queue)
      BY <1>1
    <2> QED
      BY <1>3, <2>1, <2>2 DEF Lost
  <1>6. logic' = [logic EXCEPT !.state = "connecting"] /\ fails' = fails
    BY <1>1, <1>2, <1>4, <1>5 DEF Process, Failures, Events
  <1>7. logic'.base = logic.base
    BY <1>6 DEF TimedInv, TypeOK, Logic
  <1>8. timer = DelayAfter(fails)
    BY <1>2 DEF TimedInv, BackoffFollowsFailures
  <1> QED
    BY <1>2, <1>6, <1>7, <1>8 DEF DelayAfter

\* The count and the delays when every policy variable is left alone.
LEMMA QuietCounts ==
  ASSUME TimedInv, UNCHANGED <<logic, state, cur, got, fails>>
  PROVE  CountInv'
  BY DEF TimedInv, CountInv, GivesUp, Retries, DelayAfter

\* ...and so is the timer, or disarmed.
LEMMA QuietWaits ==
  ASSUME TimedInv, UNCHANGED <<logic, fails, stored>>, timer' \in {timer, 0}
  PROVE  BackoffFollowsFailures'
  BY DEF TimedInv, BackoffFollowsFailures, DelayAfter

\* Every step keeps the count and the delay of the timer.
LEMMA NextTimed == TimedInv /\ [Next]_vars => TimedInv'
  <1> SUFFICES ASSUME TimedInv, [Next]_vars PROVE TimedInv'
    OBVIOUS
  <1>1. TypeOK' /\ IInv'
    BY NextTyped, NextKeeps DEF TimedInv
  <1> SUFFICES CountInv' /\ BackoffFollowsFailures'
    BY <1>1 DEF TimedInv
  <1>2. CASE ConnectRequested
    <2>1. state # "error" /\ timer = 0 /\ cur = "sta_started"
      BY <1>2 DEF TimedInv, IInv, BootInv, ConnectRequested
    <2>2. logic' = [logic EXCEPT !.state = "connecting"] /\ state' = logic'.state
      BY <1>2 DEF ConnectRequested, ApplyPolicy, Process
    <2>3. logic'.state = "connecting" /\ logic'.retries = logic.retries
      BY <2>2 DEF TimedInv, TypeOK, Logic
    <2>4. UNCHANGED <<cur, got, fails, timer, stored>>
      BY <1>2 DEF ConnectRequested, driver, history
    <2> QED
      BY <2>1, <2>2, <2>3, <2>4 DEF TimedInv, CountInv, Retries, BackoffFollowsFailures
  <1>3. CASE Handle
    <2>1. CountInv'
      BY <1>3, HandleCounts DEF CountInv
    <2> QED
      BY <1>3, <2>1, HandleWaits
  <1>4. CASE Act
    <2>1. UNCHANGED <<logic, state, cur, got, fails, stored>>
      BY <1>4 DEF Act, history
    <2>2. CASE timer' = timer
      BY <2>1, <2>2, QuietCounts, QuietWaits
    <2>3. CASE Retries /\ timer = 0 /\ timer' = got.delay
      <3>1. timer' = DelayAfter(fails)
        BY <2>3 DEF TimedInv, CountInv
      <3> QED
        BY <2>1, <3>1, QuietCounts DEF BackoffFollowsFailures, DelayAfter
    <2> QED
      BY <1>4, <2>2, <2>3 DEF Act
  <1>5. CASE \/ StartStation \/ SetStarted \/ ConfigRefused \/ NetCallback \/ Attempt
             \/ ManagerConnect \/ EvCallback \/ Reconnect \/ Associate \/ GetAddress \/ LoseLink
             \/ UNCHANGED vars
    <2>1. UNCHANGED <<logic, state, cur, got, fails, stored>> /\ timer' \in {timer, 0}
      BY <1>5 DEF StartStation, SetStarted, ConfigRefused, NetCallback, Attempt,
         ManagerConnect, EvCallback, Reconnect, Associate, GetAddress, LoseLink, vars, driver, history,
         policy
    <2> QED
      BY <2>1, QuietCounts, QuietWaits
  <1> QED
    BY <1>2, <1>3, <1>4, <1>5 DEF Next, NetStep, EventStep

\* With stored credentials the timer waits for the base doubled once for each
\* earlier failure since the last address, up to the ceiling.
THEOREM BackoffHolds == Spec => []BackoffFollowsFailures
  <1>1. Init => TimedInv
    <2>1. Init => CountInv
      <3> SUFFICES ASSUME Init PROVE CountInv
        OBVIOUS
      <3>1. PICK base \in Bases, max \in Budgets : logic = FreshLogic(base, max)
        BY DEF Init
      <3>2. logic.retries = 0
        BY <3>1 DEF FreshLogic
      <3> QED
        BY <3>2 DEF Init, CountInv, Retries
    <2>2. Init => BackoffFollowsFailures
      BY DEF Init, BackoffFollowsFailures
    <2> QED
      BY <2>1, <2>2, InitTyped, InitIInv DEF TimedInv
  <1>2. TimedInv => BackoffFollowsFailures
    BY DEF TimedInv
  <1> QED
    BY <1>1, <1>2, NextTimed, PTL DEF Spec
=============================================================================
