------------------------------- MODULE Device -------------------------------
(***************************************************************************)
(* The firmware as a whole: main/esp32ledcontrol.c and the components it   *)
(* wires together.  The network task connects with stored credentials or   *)
(* asks the provisioning task, over the event group, to start BLE          *)
(* provisioning; the event task handles provisioning, WiFi and IP events;  *)
(* the button task and the HTTP server reset the device.  A build with     *)
(* static credentials connects with those and has no provisioning and no   *)
(* factory reset.  The chip may restart at any point: RAM starts anew,     *)
(* flash stays.                                                            *)
(*                                                                         *)
(* Calls of led_rgb are one step (LedRgb shows that they are atomic under  *)
(* their lock), those of storage one step per key (Storage), and the       *)
(* station keeps trying once it has been told to connect (AppWifi).  The   *)
(* provisioning manager, its client and the network are external.          *)
(***************************************************************************)
EXTENDS Naturals, Sequences

CONSTANTS
    Good,           \* credentials of a network that lets the device in
    Bad,            \* credentials no network accepts
    Missing,        \* a key that holds no blob
    None,           \* nobody, nothing
    Builds,         \* the static credentials of the builds, None for none
    WritesFail,     \* whether writes of NVS may fail
    QueueBound,     \* bound: events waiting in the default event loop
    MaxResets       \* bound: power cuts, long presses and reset requests

Creds == {Good, Bad}

ASSUME DeviceAssumption ==
    /\ Good # Bad /\ Missing \notin Creds /\ None \notin Creds
    /\ Builds \subseteq Creds \cup {None} /\ WritesFail \in BOOLEAN
    /\ QueueBound \in Nat /\ MaxResets \in Nat

VARIABLES
    flash,      \* the two NVS keys; a value stands for its half of a pair
    locker,     \* the task that holds storage's s_lock
    bits,       \* s_net_events
    led,        \* led_rgb: the automatic state
    custom,     \* led_rgb: some LED is overridden
    net,        \* where app_net_task is
    prov,       \* where app_prov_task is
    ev,         \* what the event task does next
    cur,        \* the event it handles
    queue,      \* the default event loop
    wifi,       \* app_wifi's s_state is CONNECTED
    config,     \* the station's credentials, None before a connect
    link,       \* external: the station has an address
    mgr,        \* external: network_prov_mgr
    btn,        \* what app_button_cb does next
    http,       \* the HTTP server: not started, idle, or what it does next
    resets,     \* power cuts and reset requests so far
    static      \* CONFIG_APP_WIFI_SSID and _PASSWORD, None if not in use

ram  == <<locker, bits, led, custom, net, prov, ev, cur, queue, wifi, config,
          link, mgr, btn, http>>
vars == <<flash, ram, resets, static>>

Event(k, c) == [kind |-> k, creds |-> c]
NoEvent == Event("none", None)

\* A build with static credentials has no provisioning task.
FirstProv(creds) == IF creds = None THEN "wait" ELSE "none"

\* What app_main leaves behind when the scheduler runs the tasks.
Init ==
    /\ flash \in {[ssid |-> c, password |-> c] : c \in Creds \cup {Missing}}
    /\ led = "provisioning" /\ custom = FALSE /\ bits = {}
    /\ static \in Builds
    /\ net = "start" /\ prov = FirstProv(static) /\ btn = "idle" /\ http = "off"
    /\ ev = "idle" /\ cur = NoEvent /\ queue = <<>>
    /\ locker = None /\ wifi = FALSE /\ config = None /\ link = FALSE
    /\ mgr = "off" /\ resets = 0

Wiped == [ssid |-> Missing, password |-> Missing]

\* esp_restart, or the power comes back: RAM starts anew, flash stays unless
\* storage_init finds a partition it cannot use.
Reboot ==
    /\ led' = "provisioning" /\ custom' = FALSE /\ bits' = {}
    /\ net' = "start" /\ prov' = FirstProv(static) /\ btn' = "idle" /\ http' = "off"
    /\ ev' = "idle" /\ cur' = NoEvent /\ queue' = <<>>
    /\ locker' = None /\ wifi' = FALSE /\ config' = None /\ link' = FALSE
    /\ mgr' = "off"
    /\ flash' \in {flash, Wiped}
    /\ UNCHANGED static

PowerCut ==
    /\ resets < MaxResets
    /\ resets' = resets + 1
    /\ Reboot

\* led_rgb_set_state clears every override.
SetState(s) == led' = s /\ custom' = FALSE

Post(events) ==
    /\ Len(queue) + Len(events) <= QueueBound
    /\ queue' = queue \o events

(***************************************************************************)
(* The writes of storage's two keys; nobody looks at what storage answers. *)
(***************************************************************************)
Written(key, value) == [flash EXCEPT ![key] = value]

\* set_blob: a failure may come after the key has changed.
SetKey(key, value, ok) ==
    IF ok THEN flash' = Written(key, value) ELSE WritesFail /\ flash' \in {flash, Written(key, value)}

\* erase_key: ESP_OK for a namespace that cannot be opened, too.
EraseKey(key, ok) == SetKey(key, Missing, ok) \/ (WritesFail /\ UNCHANGED flash)

(***************************************************************************)
(* app_net_task.                                                           *)
(***************************************************************************)
NetRest == <<flash, locker, prov, ev, cur, queue, wifi, link, mgr, btn, http, resets, static>>

\* app_wifi_start has returned.
NetStart ==
    /\ net = "start"
    /\ config' = static
    /\ net' = IF static = None THEN "has" ELSE "connecting"
    /\ UNCHANGED <<bits, led, custom, NetRest>>

\* Mutant of NetHas: the answer is taken the wrong way round.
NetHasInverted ==
    /\ net = "has" /\ locker = None
    /\ net' = IF flash.ssid = Missing THEN "load" ELSE "ask"
    /\ UNCHANGED <<bits, led, custom, config, NetRest>>

\* storage_has_wifi, then storage_load_wifi.
NetHas ==
    /\ net = "has" /\ locker = None
    /\ net' = IF flash.ssid # Missing THEN "load" ELSE "ask"
    /\ UNCHANGED <<bits, led, custom, config, NetRest>>

NetLoad ==
    /\ net = "load" /\ locker = None
    /\ IF Missing \in {flash.ssid, flash.password}
       THEN net' = "ask" /\ UNCHANGED config
       ELSE /\ net' = "connecting"
            /\ config' = IF flash.ssid = flash.password THEN flash.ssid ELSE Bad
    /\ UNCHANGED <<bits, led, custom, NetRest>>

NetConnecting ==
    /\ net = "connecting" /\ net' = "connect"
    /\ SetState("connecting")
    /\ UNCHANGED <<bits, config, NetRest>>

\* app_wifi_connect; until here config is the task's local copy.  Its result is
\* ignored; that the driver refuses the configuration or the attempt is left to
\* AppWifi, and here it takes both.
NetConnect ==
    /\ net = "connect" /\ net' = "wait"
    /\ UNCHANGED <<bits, led, custom, config, NetRest>>

NetAsk ==
    /\ net = "ask" /\ net' = "ask_prov"
    /\ SetState("provisioning")
    /\ UNCHANGED <<bits, config, NetRest>>

NetAskProv ==
    /\ net = "ask_prov" /\ net' = "wait"
    /\ bits' = bits \cup {"start_prov"}
    /\ UNCHANGED <<led, custom, config, NetRest>>

\* Mutant of NetServices: the wait is for all bits instead of any.
NetServicesAll ==
    /\ net = "wait" /\ {"connected", "error"} \subseteq bits
    /\ net' = "done"
    /\ http' = "idle"
    /\ UNCHANGED <<flash, locker, bits, led, custom, prov, ev, cur, queue, wifi, config,
                   link, mgr, btn, resets, static>>

\* The first address: time, mDNS and the HTTP server start.
NetServices ==
    /\ net = "wait" /\ "connected" \in bits
    /\ net' = "done"
    /\ http' = "idle"
    /\ UNCHANGED <<flash, locker, bits, led, custom, prov, ev, cur, queue, wifi, config,
                   link, mgr, btn, resets, static>>

NetStep == NetStart \/ NetHas \/ NetLoad \/ NetConnecting \/ NetConnect
               \/ NetAsk \/ NetAskProv \/ NetServices

(***************************************************************************)
(* app_prov_task and provisioning_start.                                   *)
(***************************************************************************)
ProvRest == <<flash, locker, bits, net, ev, cur, wifi, config, link, btn, http, resets, static>>

ProvWake ==
    /\ prov = "wait" /\ "start_prov" \in bits
    /\ prov' = "check"
    /\ UNCHANGED <<led, custom, queue, mgr, ProvRest>>

\* Mutant of ProvCheck: the test is the wrong way round.
ProvCheckInverted ==
    /\ prov = "check" /\ locker = None
    /\ prov' = IF flash.ssid = Missing THEN "done" ELSE "publish"
    /\ UNCHANGED <<led, custom, queue, mgr, ProvRest>>

\* provisioning_is_provisioned: with an SSID the initial state is IDLE, which
\* the callback ignores, and nothing is started.
ProvCheck ==
    /\ prov = "check" /\ locker = None
    /\ prov' = IF flash.ssid # Missing THEN "done" ELSE "publish"
    /\ UNCHANGED <<led, custom, queue, mgr, ProvRest>>

ProvPublish ==
    /\ prov = "publish" /\ prov' = "begin"
    /\ SetState("provisioning")
    /\ UNCHANGED <<queue, mgr, ProvRest>>

ProvBegin ==
    /\ prov = "begin" /\ prov' = "done"
    /\ mgr' = "advertising"
    /\ Post(<<Event("prov_start", None)>>)
    /\ UNCHANGED <<led, custom, ProvRest>>

ProvStep == ProvWake \/ ProvCheck \/ ProvPublish \/ ProvBegin

(***************************************************************************)
(* The provisioning manager, its client and the network (external).        *)
(***************************************************************************)
OutsideRest == <<flash, locker, bits, led, custom, net, prov, ev, cur, wifi, btn, http,
                 resets, static>>

\* A client delivers credentials; the manager posts them and connects.
ClientSends(c) ==
    /\ mgr = "advertising" /\ mgr' = "verifying"
    /\ config' = c
    /\ Post(<<Event("cred_recv", c)>>)
    /\ UNCHANGED <<link, OutsideRest>>

\* Good credentials end in an address, which is the manager's success too.
Address ==
    /\ config = Good /\ ~link /\ (mgr = "off" => net \in {"wait", "done"})
    /\ link' = TRUE
    /\ Post(IF mgr = "verifying"
            THEN <<Event("got_ip", None), Event("cred_success", None)>>
            ELSE <<Event("got_ip", None)>>)
    /\ mgr' = IF mgr = "verifying" THEN "ended" ELSE mgr
    /\ UNCHANGED <<config, OutsideRest>>

Rejected ==
    /\ mgr = "verifying" /\ config = Bad
    /\ mgr' = "failed"
    /\ Post(<<Event("disconnected", None), Event("cred_fail", None)>>)
    /\ UNCHANGED <<config, link, OutsideRest>>

LoseLink ==
    /\ link /\ link' = FALSE
    /\ Post(<<Event("disconnected", None)>>)
    /\ UNCHANGED <<mgr, config, OutsideRest>>

(***************************************************************************)
(* The event task: provisioning_event_handler, and app_wifi's handlers     *)
(* with app_wifi_state_cb.                                                 *)
(***************************************************************************)
EvRest == <<net, prov, config, link, btn, http, resets, static>>

Take ==
    /\ ev = "idle" /\ queue # <<>>
    /\ cur' = Head(queue) /\ queue' = Tail(queue)
    /\ ev' = Head(queue).kind
    /\ UNCHANGED <<flash, locker, bits, led, custom, wifi, mgr, EvRest>>

\* provisioning_store_credentials, then CREDENTIALS is published.
EvSaveLock ==
    /\ ev = "cred_recv" /\ locker = None
    /\ ev' = "save_ssid" /\ locker' = "event"
    /\ UNCHANGED <<flash, bits, led, custom, cur, queue, wifi, mgr, EvRest>>

EvSaveSsid ==
    /\ ev = "save_ssid"
    /\ \E ok \in BOOLEAN :
        /\ SetKey("ssid", cur.creds, ok)
        /\ IF ok THEN ev' = "save_password" /\ UNCHANGED locker
           ELSE ev' = "credentials" /\ locker' = None
    /\ UNCHANGED <<bits, led, custom, cur, queue, wifi, mgr, EvRest>>

EvSavePassword ==
    /\ ev = "save_password" /\ ev' = "credentials"
    /\ \E ok \in BOOLEAN : SetKey("password", cur.creds, ok)
    /\ locker' = None
    /\ UNCHANGED <<bits, led, custom, cur, queue, wifi, mgr, EvRest>>

\* provisioning_event_handler and provisioning_logic_process: event to state.
ProvState(event) == CASE event = "prov_start"   -> "provisioning"
                      [] event = "credentials"  -> "connecting"
                      [] event = "cred_success" -> "connected"
                      [] event = "cred_fail"    -> "failed"

\* Mutant of ProvLed: the provisioning state is taken for an LED state.
ProvLedRaw(event) == ProvState(event)

\* app_prov_state_cb: state to LED state.
ProvLed(event) == IF ProvState(event) = "failed" THEN "error" ELSE ProvState(event)

\* The LED state each event ends with; CRED_FAIL also sets the manager back.
EvPublish ==
    /\ ev \in {"prov_start", "credentials", "cred_success", "cred_fail"}
    /\ SetState(ProvLed(ev))
    /\ ev' = IF ev = "cred_fail" THEN "mgr_reset" ELSE "idle"
    /\ UNCHANGED <<flash, locker, bits, cur, queue, wifi, mgr, EvRest>>

EvManagerReset ==
    /\ ev = "mgr_reset" /\ ev' = "idle"
    /\ mgr' = IF mgr = "failed" THEN "advertising" ELSE mgr
    /\ UNCHANGED <<flash, locker, bits, led, custom, cur, queue, wifi, EvRest>>

\* Mutant of EvGotIp: the callback runs when the state has not changed.
EvGotIpUnchanged ==
    /\ ev = "got_ip"
    /\ wifi' = TRUE
    /\ ev' = IF wifi THEN "connected" ELSE "idle"
    /\ UNCHANGED <<flash, locker, bits, led, custom, cur, queue, mgr, EvRest>>

\* GOT_IP: when the state changes the callback turns the LEDs green, then
\* sets the event bit.
EvGotIp ==
    /\ ev = "got_ip"
    /\ wifi' = TRUE
    /\ ev' = IF wifi THEN "idle" ELSE "connected"
    /\ UNCHANGED <<flash, locker, bits, led, custom, cur, queue, mgr, EvRest>>

EvConnected ==
    /\ ev = "connected" /\ ev' = "connected_bit"
    /\ SetState("connected")
    /\ UNCHANGED <<flash, locker, bits, cur, queue, wifi, mgr, EvRest>>

EvConnectedBit ==
    /\ ev = "connected_bit" /\ ev' = "idle"
    /\ bits' = bits \cup {"connected"}
    /\ UNCHANGED <<flash, locker, led, custom, cur, queue, wifi, mgr, EvRest>>

\* DISCONNECTED: the state becomes CONNECTING, which the callback ignores.
EvDisconnected ==
    /\ ev = "disconnected" /\ ev' = "idle"
    /\ wifi' = FALSE
    /\ UNCHANGED <<flash, locker, bits, led, custom, cur, queue, mgr, EvRest>>

EventStep ==
    \/ Take \/ EvSaveLock \/ EvSaveSsid \/ EvSavePassword \/ EvPublish
    \/ EvManagerReset \/ EvGotIp \/ EvConnected \/ EvConnectedBit \/ EvDisconnected

(***************************************************************************)
(* Resets: the BOOT button and POST /api/wifi erase both keys and restart; *)
(* POST /api/reset only restarts.                                          *)
(***************************************************************************)
UserRest == <<bits, net, prov, ev, cur, queue, wifi, config, link, mgr, static>>

ShortPress ==
    /\ btn = "idle"
    /\ custom' = FALSE
    /\ UNCHANGED <<flash, locker, led, btn, http, resets, UserRest>>

\* LONG_PRESS is dispatched to app_button_cb.
LongPress ==
    /\ btn = "idle" /\ static = None /\ resets < MaxResets
    /\ btn' = "erase" /\ resets' = resets + 1
    /\ UNCHANGED <<flash, locker, led, custom, http, UserRest>>

PostWifi ==
    /\ http = "idle" /\ static = None /\ resets < MaxResets
    /\ http' = "erase" /\ resets' = resets + 1
    /\ UNCHANGED <<flash, locker, led, custom, btn, UserRest>>

PostReset ==
    /\ http = "idle" /\ resets < MaxResets
    /\ http' = "restart" /\ resets' = resets + 1
    /\ UNCHANGED <<flash, locker, led, custom, btn, UserRest>>

\* Mutant of ButtonErase: a failed erase calls the restart off.
ButtonEraseChecked ==
    \E ok \in BOOLEAN :
        \/ /\ btn = "erase" /\ locker = None
           /\ EraseKey("ssid", ok)
           /\ IF ok THEN btn' = "erase_password" /\ locker' = "button"
              ELSE btn' = "idle" /\ UNCHANGED locker
        \/ /\ btn = "erase_password" /\ locker' = None
           /\ EraseKey("password", ok)
           /\ btn' = IF ok THEN "restart" ELSE "idle"

\* storage_erase_wifi in the button task.
ButtonErase ==
    \E ok \in BOOLEAN :
        \/ /\ btn = "erase" /\ locker = None
           /\ EraseKey("ssid", ok)
           /\ IF ok THEN btn' = "erase_password" /\ locker' = "button"
              ELSE btn' = "restart" /\ UNCHANGED locker
        \/ /\ btn = "erase_password" /\ locker' = None
           /\ EraseKey("password", ok)
           /\ btn' = "restart"

ButtonStep ==
    \/ ButtonErase /\ UNCHANGED <<led, custom, http, resets, UserRest>>
    \/ btn = "restart" /\ Reboot /\ UNCHANGED resets

HttpErase ==
    \E ok \in BOOLEAN :
        \/ /\ http = "erase" /\ locker = None
           /\ EraseKey("ssid", ok)
           /\ IF ok THEN http' = "erase_password" /\ locker' = "http"
              ELSE http' = "restart" /\ UNCHANGED locker
        \/ /\ http = "erase_password" /\ locker' = None
           /\ EraseKey("password", ok)
           /\ http' = "restart"

HttpStep ==
    \/ HttpErase /\ UNCHANGED <<led, custom, btn, resets, UserRest>>
    \/ http = "restart" /\ Reboot /\ UNCHANGED resets

\* PUT /api/led, refused with 409 unless the state is CONNECTED.
PutLed ==
    /\ http = "idle" /\ led = "connected"
    /\ custom' = TRUE
    /\ UNCHANGED <<flash, locker, led, btn, http, resets, UserRest>>

DeleteLed ==
    /\ http = "idle"
    /\ custom' = FALSE
    /\ UNCHANGED <<flash, locker, led, btn, http, resets, UserRest>>

Users == ShortPress \/ LongPress \/ PostWifi \/ PostReset \/ PutLed \/ DeleteLed

Outside == Address \/ Rejected \/ LoseLink \/ \E c \in Creds : ClientSends(c)

Next == NetStep \/ ProvStep \/ EventStep \/ ButtonStep \/ HttpStep
            \/ Users \/ Outside \/ PowerCut

\* Every task is scheduled, a task that waits for storage's mutex is next when
\* it is given back, and a network that is tried forever answers.
Fairness ==
    /\ WF_vars(NetStep) /\ WF_vars(ProvStep) /\ WF_vars(EventStep)
    /\ SF_vars(ButtonStep) /\ SF_vars(HttpStep)
    /\ SF_vars(Address)

Spec == Init /\ [][Next]_vars /\ Fairness
-----------------------------------------------------------------------------

TypeOK ==
    /\ flash \in [ssid : Creds \cup {Missing}, password : Creds \cup {Missing}]
    /\ locker \in {None, "event", "button", "http"}
    /\ bits \subseteq {"start_prov", "connected"}
    /\ led \in {"provisioning", "connecting", "connected", "error"}
    /\ custom \in BOOLEAN /\ wifi \in BOOLEAN /\ link \in BOOLEAN
    /\ net \in {"start", "has", "load", "connecting", "connect", "ask", "ask_prov",
                "wait", "done"}
    /\ static \in Builds /\ prov \in {"none", "wait", "check", "publish", "begin", "done"}
    /\ config \in Creds \cup {None}
    /\ mgr \in {"off", "advertising", "verifying", "failed", "ended"}
    /\ btn \in {"idle", "erase", "erase_password", "restart"}
    /\ http \in {"off", "idle", "erase", "erase_password", "restart"}
    /\ Len(queue) <= QueueBound /\ resets \in 0 .. MaxResets

\* Neither on the network nor open for provisioning.
Silent == prov = "done" /\ mgr = "off"

\* The device ends up silent only over an SSID without a password, which a save
\* or an erase leaves behind that failed or was cut off in the middle.
SilentOnlyWhenTorn ==
    Silent /\ btn = "idle" => flash.ssid # Missing /\ flash.password = Missing

\* "The device shall start a BLE provisioning service on first boot or when no
\* valid WiFi credentials are stored" (FR-1): it never ends up silent.
NeverSilent == ~Silent

\* A boot without an SSID leads to provisioning, whatever restarts it.
NoCredentialsProvision ==
    net = "start" /\ static = None /\ flash.ssid = Missing ~> mgr = "advertising"

\* The boot has credentials of its own, or finds a pair stored.
Knows(c) ==
    static = c \/ (static = None /\ flash = [ssid |-> c, password |-> c])

\* "Credentials persist across reboot; device auto-connects" (acceptance 2), and
\* static ones are used at every boot (FR-11), by a driver that takes them.
AutoConnects == net = "start" /\ Knows(Good) ~> led = "connected" \/ ~Knows(Good)

\* "Green: connected": with every event handled, a device on the network shows
\* it, whichever of the tasks set the LEDs last.
OnlineIsGreen == link /\ ev = "idle" /\ queue = <<>> => led = "connected"

\* The first address starts the services, unless a restart comes first.
ServicesStart == "connected" \in bits ~> http # "off" \/ net = "start"

\* A long press ends in a restart: neither a save in progress, nor another
\* reset, nor an erase that fails keeps the device as it is.
LongPressRestarts == btn = "erase" ~> net = "start"

\* "Long press: factory reset - erase stored WiFi credentials from NVS [and]
\* revert to the provisioning state" (FR-7).
FactoryReset == btn = "restart" ~> mgr = "advertising"

\* "On WiFi disconnect all LEDs shall leave the custom state and follow the
\* automatic state machine again" (FR-6): with every event handled, green or
\* custom LEDs mean that the device is on the network.
GreenMeansOnline ==
    ev = "idle" /\ queue = <<>> /\ led = "connected" => link
=============================================================================
