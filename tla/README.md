# Formal model of the ESP32 LED controller

TLA+ models of the firmware in `src/` (ESP-IDF, C): a WiFi-provisioned
controller for WS2812 LEDs with a REST API, a BOOT button and credentials in
NVS. TLC checks small instances; TLAPS proves the theorems listed below for
every value of the constants.

## 1. The system

| Component | State | Operations | Talks to |
|---|---|---|---|
| `led_rgb` | automatic state, per-LED override (flag, colour, period), frame, mutex | `set_state`, `set_custom[_many,_all]`, `clear_custom[_many,_all]`, `get_output`, `render`, ... | called by the LED, network, event, button and HTTP tasks; calls the sink |
| `led_driver_rmt` | RMT channel, symbol buffer | `led_driver_write` (the sink), `led_driver_init` | blocks on the RMT transfer |
| `storage` | two NVS keys, mutex | `save`, `load`, `erase`, `has` | NVS through a backend table |
| `button` | debounce and press state, last event | polling task, `button_sm_process` | calls `app_button_cb` |
| `wifi_logic` | state, retry count | `wifi_logic_process` | pure |
| `app_wifi` | policy, state, timer, mutex | `start`, `connect`, event handlers, timer callback | WiFi driver, default event loop, `app_wifi_state_cb` |
| `provisioning` (+ `_logic`) | state, started flag | `start`, event handler | `network_prov_mgr`, `storage`, `app_prov_state_cb` |
| `main` | event group | `app_main`, network, provisioning and LED tasks, callbacks | everything |
| `http_server`, `api_json` | request being handled | the REST routes | `led_rgb`, `storage`, `time_sync`, `app_wifi`, `button` |
| `time_sync` | started and synchronised flags | `start`, SNTP callback, getters | SNTP, libc clock |
| `mdns_service` | none of its own | `start`, name functions | mDNS library |

Five tasks run at once: the LED task renders every tick; the network task boots
the connection and then starts the services; the event task runs every WiFi, IP
and provisioning handler; the button task polls; the HTTP server handles one
request at a time. The provisioning task runs once. They meet in `led_rgb` and
in `storage`, each under its own mutex, in the event group, in the default event
loop, and in the system clock that SNTP steps.

What is hard here: setters and the renderer interleave inside `led_rgb`; a pair
of keys is written one key at a time, each write may fail, and the power can
fail between them; the state callback runs outside the lock; the network loses
the link at any stage and the driver may refuse to try again; button timestamps
wrap and contacts bounce; an erase, a save and a restart race; a request's text
may be anything, may arrive in part, and is served between the steps of other
tasks. What makes each component correct:

* `led_rgb`: every call takes effect at one instant; an override exists only
  while connected; a frame shows one instant and never half a command, and the
  pixels show the frame.
* `storage`: `ESP_OK` means what it says, after any restart; a load returns one
  saved pair.
* `button`: short is short and long is long in true time, events come in order.
* `app_wifi`: a station that is down has a retry on its way; the application is
  told the current state; the backoff follows the failures.
* `http_server`: an accepted request has the effect its text asks for, on the
  LEDs it names and on no others; the status says what happened; every request
  is answered.
* `time_sync`: a time said to be synchronised is a real one.
* `mdns_service`: the host label is a legal one whatever the system is called.
* the device: it provisions or connects and never ends up doing neither; LEDs
  follow the network; a factory reset ends in provisioning.

`PROJECT.json` lists the hazards with their lines.

## 2. Modules

| Module | Models | State and actions |
|---|---|---|
| `LedCalls` | calls, argument checks, patterns, blink evaluation of `led_rgb` | no state; a batch of one stands for `set_custom` / `clear_custom` |
| `LedDriver` | `led_driver_rmt.c`: the pulses of a frame; the pixel chain (external) | no state; `Wire` encodes, `Latched` is what a pixel reads |
| `LedRgb` | `led_rgb.c` | `state`, `active`, `color`, `blink` are the statics; one action per load or store; `pc`, `op`, `idx`, `tmp`, `buf` are each task's place and locals; `Lock` and `Unlock` do nothing without `LockCreated`, as the code does while `s_lock` is NULL |
| `LedAtomic` | what `led_rgb.h` promises | one atomic step per call between its call and its return |
| `Storage` | `storage.c`, `storage_nvs.c` | `flash` is the two keys; one action per backend call; `Restart` clears RAM at any step, and flash too when the next start finds a partition it must wipe |
| `ButtonSm` | `button_sm.c` and the loop of `button_gpio.c` | one action per sample; three history variables age in true time beside the wrapping timestamps |
| `WifiLogic` | `wifi_logic.c` | `Process` and `RetryDelay`, functions of the policy and one event |
| `AppWifi` | `app_wifi.c` over `WifiLogic` | network, event and timer task; the locked part of `app_wifi_apply` is one step, the callback and the retry are later ones; driver (which may refuse) and network external |
| `Device` | `main`, `provisioning`, and the resets and LED updates of `http_server` | where each task is, the event loop's queue, both keys, and the restart; `led_rgb` and `storage` calls at the granularity the other modules justify |
| `ApiJson` | `api_json.c`: which bodies are accepted, the commands in them, the length of the answers | no state; a body is a tree of records, a number is held in halves |
| `TimeSync` | `time_sync.c` | the two flags, the clock; the SNTP client external |
| `Names` | `mdns_name.c`, `provisioning_build_name`, the server's copy of the name | no state; a name is a sequence of ASCII codes |
| `HttpApi` | the LED and time routes of `http_server.c`, over `LedAtomic`, `ApiJson` and `TimeSync` | where the handler is, its request and locals; one action per call it makes |
| `Services` | the second half of `app_net_task`, `mdns_service_start`, and all tasks that run once the services are up | the network task's place; composes `HttpApi`, `TimeSync` and `Names` with the event and button tasks |
| `MC*` | instances for TLC | |
| `LedRgbProofs`, `LedRgbRefinement`, `StorageProofs`, `ButtonSmProofs`, `AppWifiProofs`, `DeviceProofs`, `ServicesProofs` | theorems and the lemmas they rest on | |
| `Recursion` | induction and the functions that loops are modelled with, for the proofs | |

`LedRgb` implements `LedAtomic` under the refinement mapping at its end: a call
takes effect when it holds the lock and has passed the gate, so the stores and
loads it has still to make count as made. `HttpApi` is built on `LedAtomic` for
that reason: between a handler's calls of `led_rgb` every other task may act,
inside one none can. `Device` relies on the same (one step per LED call), on
`Storage` (one step per key) and on `AppWifi` (a station told to connect keeps
trying). `Device` and `Services` split `app_net_task` at its wait for the first
address: `Device` models the boot before it, with restarts, `Services` what the
address starts.

Operators named as mutants beside a definition are that definition with a
plausible bug; nothing uses them. Each property is violated when its mutant
takes the definition's place.

Abstractions. In `LedRgb` a colour is one value: the three bytes are copied as
one struct (finer tearing would only add outcomes to `led_firmware`);
`CustomRgb` gives its bytes where they matter, on the wire and in JSON. One load
of `s_state` stands for both reads of `compute_locked`. Calls whose arguments are
refused return before the lock and are no step. NVS lengths are in range by the
buffers' sizes. In `Device`, credentials are good or bad, the event queue and
the number of resets are bounded, writes of NVS may fail and reads do not, and
HTTP requests are reduced to what they do to the rest. In `HttpApi` a body is the
tree cJSON makes of it, and a text that is cut short is one that does not parse
(its first character still tells a list from an object); `luck` is how the
request fares: its body is received in part, or the heap refuses what it needs: a
buffer of the handler, the tree of the parser, or the text of the answer.
The clock stands still but for SNTP's steps, so that `time_sync`'s answers can be
compared with it.

## 3. Runs

| Run | Instance | Result |
|---|---|---|
| `led_locked` | 2 LEDs, 3 callers and the renderer; broadcast, a batch naming an LED twice, bad id, bad period | gate, snapshots, frames, the wire, lock release and the refinement hold (about 122,000 states) |
| `led_firmware` | the same without the lock | `FrameNeverTorn` violated: nothing in the firmware calls `led_rgb_init`; `render` reads an LED between the store of its override flag and the store of its colour |
| `storage` | three tasks, two networks, failing NVS calls, restarts with and without a wiped partition | durable `ESP_OK`, consistent loads, lock released |
| `storage_open` | `nvs_open` may fail | `EraseOkMeansGone` violated: the erase reports success, and the SSID that a save wrote before a restart is still there |
| `button` | clock of 16 ticks, threshold 7, debounce 2, gaps 1 and 3 | event order, true lengths, long presses arrive |
| `wifi` | delays 2 to 10 or none, budgets 0 and 2, four queued events, refused attempts and configurations | retries, state, callback, backoff, reconnection |
| `device` | both kinds of build, failing writes, four queued events, three resets | provisioning, connection, services, restart after a long press, green when online (about 49,000 states) |
| `device_silent` | reliable writes | `NeverSilent` violated: an SSID without a password is neither used nor replaced |
| `device_green` | reliable writes | `GreenMeansOnline` violated: LEDs stay green after a disconnection |
| `device_reset` | reliable writes, one reset | `FactoryReset` violated: a save is caught between its keys by the reset's restart |
| `services` | 2 LEDs, the HTTP task and one task that stands for the event and button tasks, the requests described below, the defaults of Kconfig | every request answered, with the effect asked for and the status that tells it; legal names; the services start (about 460,000 states) |
| `http_routes` | the same with the matcher as ESP-IDF has it | `LedsAreRouted` violated: `/api/led/1` is answered 404 |

Bounds. Two LEDs are enough for a batch, a broadcast and a snapshot to be half
done, and three callers make every kind of setter race every other. Four events
hold the longest chain one cause posts plus the next one's; three resets allow a
power cut inside a save, one inside the recovery and a user's reset.
`RetryBound` exceeds the retries that reach the ceiling. The button's gaps step
over both thresholds and its horizon exceeds every age that is compared.
In `services` the event task (`connected`, `error`) and the button (clear all)
make their calls one at a time, as one caller: their calls of `led_rgb` race
each other in `led_locked`. Each request tells apart something
the handlers or parsers do: values on both sides of every limit, fractions, missing
and extra members, lists that name an LED twice, never or beyond the chain,
texts that do not parse, do not fit, arrive cut or find no memory, and the id
65536. The names are all those of up to four characters over a capital, a digit,
a dash and another character, with labels of at most three, and one that fits
nowhere.

`CHECK_DEADLOCK FALSE` is set for `wifi` only: a station that has used up its
retry budget stops.

Fairness. FreeRTOS runs every ready task, so each task's steps are weakly fair.
In `LedRgb` and `Storage` nothing says which waiter gets a mutex. In `Device` the
button and HTTP tasks are strongly fair: a FreeRTOS mutex goes to its
longest-waiting task of the highest priority when it is given back, and
`storage` is free again and again. The polling task and an armed timer go on.
`AppWifi` and `Device` assume strong fairness of the network's good answer: one
that is tried again for ever lets the station in at last. In `Services` the
network task, the handler and `led_rgb` (for every caller) are weakly fair.
Nothing is assumed of users, clients, SNTP servers, losses or power cuts.

## 4. Findings

Each violation run states a sentence of the repository and finds what the code
does instead; `PROJECT.json` quotes both sides. In short: the LED mutex is never
created in the firmware (`main` calls only `led_rgb_set_state`), so that a frame
may show an override of which only the flag has been stored; a torn first
save leaves a device that neither connects nor provisions until a long press;
erase hides a failing `nvs_open`; a disconnection changes no LED; a factory reset
can lose the race against a concurrent provisioning; the per-LED routes are
registered with a pattern the matcher does not know, so that they never match.

Smaller things the models had to follow, on which the documents are silent:
when the buffers for a list of commands cannot be allocated, `PUT /api/led`
answers 400 instead of 500; `DELETE /api/led` with an empty list, or with a body
that has no `ids`, clears every LED; a body of 160 bytes or more is a 400
on the routes with a fixed buffer, so a long `ids` list is refused; a
synchronisation in the middle of `GET /api/time` can give a 1970 text with
`synced` true; a refused `esp_wifi_connect` is not tried again, nor is a refused
configuration, which also leaves the policy untold.

## 5. Proofs

Assumptions are the `ASSUME`s on the constants and, where the theorem says so,
`LockCreated` (the mutex exists) or `~OpenFails` (`nvs_open` succeeds). The runs
`led_firmware` and `storage_open` show what happens without them. Every safety
property of the passing runs has its theorem.

What the `ASSUME`s say. `LedAssumption`, `WifiAssumption` and their like give
types. `BoundAssumption` (`AppWifi`): the delay has reached its ceiling by the
time the model stops counting retries; without it the bound itself, not the
code, would decide how long the timer waits. `HttpAssumption` describes a
request: its numbers are finite halves, its lists are lists, every colour it may
send is one of `Colors`, the LEDs are no more than `API_JSON_MAX_LEDS`; bodies
that are wrong in any other way are allowed. `NamesAssumption`: Kconfig's
default name has a letter or digit and the prefix of the BLE name fits its
buffer. `SystemsAssumption`: a name is a sequence of characters, any.

Loops. A loop is modelled as a recursive function of the number of its steps.
The library's induction theorems take an operator as a parameter, which the
provers cannot instantiate; `Recursion` states induction about a set instead
(`Induction`), from the well-foundedness of `<`, and with it that the function a
loop defines exists and stays where its steps stay (`RecursiveFunction`). The
backoff, the length of a list answer and the loop of `mdns_sanitize` are
followed that way.

* `LedRgbProofs`. Types rest on `TInv`: `TypeOK` plus what a task's call
  satisfies at each place (arguments checked, kind fits the place, index within
  the loop). `CustomNeedsConnected`, `SnapshotConsistent`,
  `UnlockedTransmit` and `FrameNeverTorn` rest on mutual exclusion: a task in the
  body of a call holds the lock. `CustomNeedsConnected` is not inductive: while a setter
  stores, the gate it passed must still hold, and while `set_state` clears, the
  LEDs still overridden are those its loop has ahead. `SnapshotConsistent` needs that
  the entries resolved so far equal `Resolved` of the present memory, and that
  the locals hold what has been loaded for the current one.
  `FrameNeverTorn` needs that an active override is a command somebody sent, or
  that the holder is between its stores to it, and that frames inherit this.
  `WireShowsFrame` follows from the types alone, with or without the mutex, by
  the lemmas on `LedDriver`: a byte is the sum of its bits, pulse `j` of pixel `i` is
  bit `j` of that pixel's bytes for a chain of any length, and a pixel that reads
  the pulses so encoded latches the colour the frame shows (`LatchedWire`).
* `LedRgbRefinement`. `LedRgb` implements `LedAtomic` (`Linearizable`): the
  initial states map to initial states and every step to a step or a stutter.
  With the mutex at most one task writes, so the mapping of the memory is about
  that task (`Bars`); the others' places map as they are (`OneTask`). Taking the
  lock serves a state change, a clear or a reading, the gate serves a batch; the
  stores that follow stutter, because a command whose last store is made has its
  first two in memory (`StoreInv`), and a reading's loads because what has been
  resolved is what the memory still says (`ReadInv`).
* `StorageProofs`. The invariant adds mutual exclusion to the two properties:
  while nobody is inside a save or erase, `flash` is `last`; a loading task's
  buffer holds what flash holds for the keys it has read.
* `ButtonSmProofs`. The timestamps say true time only while it matters:
  a bounce is younger than the debounce time, a press in progress younger than
  the threshold, so the 32-bit difference equals the true age. `EventOrder`
  follows from where the last published event stands in the press.
* `AppWifiProofs`. `OneRetry`: with stored credentials the station is in one
  place at a time: trying, waiting to hear of a loss, about to retry, waiting
  for the timer, or in error; without it an attempt could be armed twice and a
  later loss find the timer taken. `QueueInv`: the queue ends in what the link
  is, and an address still queued on a link that is down has its loss behind it.
  `BackoffFollowsFailures` needs more (`CountInv`): until the policy gives up it
  has counted as many retries as the history has failures, and once it has given
  up it stays out of budget; the delay on its way to the timer is the one for the
  present count, and nothing that is handled while the timer runs changes the
  count. What the loop computes is `DoubledIs`: the base times a power of two,
  unless that is past the ceiling.
* `DeviceProofs`. `BootInv` says how far the boot has come: until the station
  has been told to connect, and while the device waits for credentials, no event
  is pending and nothing is online (`Early`); a pair found incomplete stays so
  until the manager runs. `SilentOnlyWhenTorn` follows from it. `GreenInv` says
  that once an address is known no event that turns the LEDs another colour is
  waiting, being handled or still to come (`StaysGreen`), because the manager
  has ended or never runs; a link has been acknowledged or its `got_ip` is on
  its way. `OnlineIsGreen` follows.
* `ServicesProofs`. `TypeInv` is the types and what the handler is waiting for
  (`HandlerInv`): a call of `led_rgb` is under way exactly while the handler is
  in one, and it is the call its request asks for (`Asked`), so that no step of
  another task can answer it. `EffectAsAsked` follows from what the parsers read
  (`CommandRead`, `EntryRead`: a cast is the number the text says) and what a
  batch leaves (`PutListDone`: the last entry that names an LED decides).
  `StatusTellsEffect` is inductive on the types: a well-formed request is read as
  one (`ProperPut`, `ProperPutMany`, `ProperDelete`) and no answer outgrows its
  buffer (`LedLengthBound`: 91 characters of the 96 allowed for an LED, so
  `ListLengthBound` for any chain). `LedsAsTheyAre` needs that every LED
  collected so far is as it is now or noted as changed (`ShownInv`), and
  `SyncedTimeIsReal` that a time is filled in before its flag (`TimeInv`).
  `NamesAsDocumented`: every prefix of `mdns_sanitize`'s loop is a label but for
  its end (`Started`); a name with a letter or digit leaves something; and
  sanitizing a label changes nothing.

The proofs corrected the model where no instance had shown anything: `Says`, which
`EffectAsAsked` uses, rounded a negative fraction down instead of towards zero;
`Proper` did not know the limit on the entries of a list; `StatusTellsEffect`
said one half of when a 404 is due; and `Digits` was a CASE whose guards overlap,
whose value TLA+ leaves open.

Only model-checked: liveness (`LockReleased`, `LongComes`, `Reconnects`,
`NoCredentialsProvision`, `AutoConnects`, `ServicesStart`, `LongPressRestarts`,
`ServerComesUp`, `RequestsAnswered`), because fairness and `ENABLED` are out of
the prover's reach.

## 6. Not modelled

* `led_rgb_get_state` and `is_custom` (one load under the lock);
  `led_driver_init` (configures the peripheral before the tasks exist).
* `provisioning_reset`, `time_sync_wait_synced` and `time_sync_get_local`
  (nothing calls them); `network_prov_mgr_*` calls that fail, and an
  `app_wifi_start` that fails halfway.
* In `Device`, an `app_wifi_connect` that fails: `app_net_task` ignores its result
  (lines 186 and 193) and waits for an address nobody asks for. `AppWifi` has both
  refusals, of the configuration and of the attempt; `AutoConnects` and
  `SilentOnlyWhenTorn` are about a driver that takes them.
* Want of memory where the code does not look: a member of an answer that cJSON
  leaves out, an acknowledgement whose text is never written. The status is
  the same.
* `GET /api/status` and the static assets, which change nothing and read one
  value after another; the text of the answers but for its length; JSON objects with a
  member twice; the time between two readings of a running clock; requests that
  arrive between `httpd_start` and the registration of their route.
* The ISO-8601 text (`strftime`), the web page, the host tests and the LED scan
  program.

## 7. Plan

Done: `LedCalls`, `LedDriver`, `LedAtomic`, `LedRgb`, `Storage`, `ButtonSm`,
`WifiLogic`, `AppWifi`, `Device`, `ApiJson`, `TimeSync`, `Names`, `HttpApi`,
`Services`, and a theorem for every safety property. Next, most important first:

1. An abstract `storage` (one step per call between its call and its return) and
   the proof that `Storage` implements it while no call fails or is cut off, as
   `Device` and `Services` take it to.
2. For `Device`: that a long press, once counted, is not lost before the restart,
   and that a save never ends half done without a failure, as invariants.
