------------------------------ MODULE Services ------------------------------
(***************************************************************************)
(* What the first address brings up, and what runs from then on: the       *)
(* second half of app_net_task (main/esp32ledcontrol.c) starts SNTP, mDNS  *)
(* (components/mdns_service/mdns_service.c) and the HTTP server one after  *)
(* the other and ignores their results; HTTP requests are then handled     *)
(* while the event task changes the LED state, the button clears it and    *)
(* SNTP steps the clock.  Device models what happens before.               *)
(***************************************************************************)
EXTENDS HttpApi, Names

CONSTANT Systems        \* the system names builds are configured with

ASSUME SystemsAssumption == Systems \subseteq Seq(Nat)

VARIABLES
    net,        \* where app_net_task is
    up,         \* NET_CONNECTED_BIT
    system      \* the name it hands to mdns_service_start

vars == <<avars, tvars, hvars, history, net, up, system>>

Init ==
    /\ AInit /\ TInit /\ HInit
    /\ net = "wait" /\ up = FALSE /\ system = <<>>

NetRest == <<avars, hreq, outs, now, time, status, up>>

\* The wait is over; time_sync_start.
StartTime ==
    /\ net = "wait" /\ up
    /\ TimeSyncStart
    /\ net' = "mdns"
    /\ UNCHANGED <<NetRest, http, system>>

StartMdns ==
    /\ net = "mdns" /\ net' = "names"
    /\ system' \in Systems
    /\ UNCHANGED <<NetRest, tvars, http>>

\* Mutant of MdnsStarted: a name that does not fit ends the start-up.
MdnsStartedChecked ==
    /\ net = "names" /\ net' = IF InstanceFits(system) THEN "http" ELSE "done"
    /\ system' = <<>>
    /\ UNCHANGED <<NetRest, tvars, http>>

\* mdns_service_start returns: a name does not fit, one of the library's five
\* calls has failed, or the device is advertised.
MdnsStarted ==
    /\ net = "names" /\ net' = "http"
    /\ system' = <<>>
    /\ UNCHANGED <<NetRest, tvars, http>>

\* http_server_start, whose result is ignored too.
StartHttp ==
    /\ net = "http"
    /\ \/ http' = "idle" /\ net' = "done"
       \/ http' = "off"  /\ net' = "failed"
    /\ UNCHANGED <<NetRest, tvars, system>>

NetStep == StartTime \/ StartMdns \/ MdnsStarted \/ StartHttp

(***************************************************************************)
(* The tasks around it.                                                    *)
(***************************************************************************)
Around == <<tvars, hvars, net, system>>

\* The event task and the button task call led_rgb.
OtherCalls(t) ==
    /\ t # Me
    /\ \E c \in Requests[t] : AInvoke(t, c)
    /\ UNCHANGED <<Around, up>>

\* led_rgb does what a task has asked for.
LedStep(t) == Serve(t) /\ UNCHANGED <<Around, up>>

\* It returns.  After a first CONNECTED the event task sets the event bit.
OtherReturns(t) ==
    /\ t # Me
    /\ Return(t)
    /\ up' = (up \/ req[t] = SetState("connected"))
    /\ UNCHANGED Around

Clients == \E r \in HttpRequests : Accept(r) /\ UNCHANGED <<tvars, net, up, system>>

HttpStep == Handler /\ UNCHANGED <<tvars, net, up, system>>

SntpStep == (SntpReply \/ OnSync) /\ UNCHANGED <<avars, hvars, net, up, system>>

Changes == {i \in Leds : auto' # auto \/ over'[i] # over[i]}

\* What the properties remember of a request, until it is answered.
Observe ==
    LET done == http' \in {"off", "idle"}
    IN  /\ effect' = IF done THEN "none"
                     ELSE IF ans'[Me] # ans[Me] /\ ans'[Me] # "none" THEN ans'[Me]
                     ELSE effect
        /\ touched' = IF done THEN {} ELSE touched \cup Changes
        /\ stepped' = (~done /\ (stepped \/ clock' # clock))

Next ==
    /\ \/ NetStep \/ Clients \/ HttpStep \/ SntpStep
       \/ \E t \in Callers : OtherCalls(t) \/ LedStep(t) \/ OtherReturns(t)
    /\ Observe

\* Every task runs; what clients, users, the network and SNTP do is open.
Fairness ==
    /\ WF_vars(NetStep /\ Observe) /\ WF_vars(HttpStep /\ Observe)
    /\ \A t \in Callers : WF_vars(LedStep(t) /\ Observe) /\ WF_vars(OtherReturns(t) /\ Observe)

Spec == Init /\ [][Next]_vars /\ Fairness
-----------------------------------------------------------------------------

TypeOK ==
    /\ auto \in AutoStates
    /\ over \in [Leds -> [active : BOOLEAN, color : Colors, blink : 0 .. MaxBlink]]
    /\ stage \in [Tasks -> {"idle", "called", "served"}]
    /\ \A t \in Tasks : req[t] \in AnyCall \cup {NoCall}
    /\ ans \in [Tasks -> {"none", "ok", "invalid_state"}]
    /\ seen \in [Tasks -> [1 .. LedCount -> Output]]
    /\ clock \in {0} \cup ServerTimes /\ synced \in BOOLEAN /\ started \in BOOLEAN
    /\ sntp \in {"off", "running", "replied"}
    /\ http \in {"off", "idle", "handle", "next", "called", "synced?", "epoch?", "answered"}
    /\ hreq \in HttpRequests \cup {NoRequest}
    /\ Len(outs) <= LedCount /\ \A k \in DOMAIN outs : outs[k] \in Output
    /\ now \in Times \cup {0} /\ status \in {0, 200, 400, 404, 409, 500}
    /\ time \in [iso : Nat, synced : BOOLEAN, epoch : Nat]
    /\ net \in {"wait", "mdns", "names", "http", "done", "failed"}
    /\ up \in BOOLEAN /\ system \in Systems \cup {<<>>}
    /\ effect \in {"none", "ok", "invalid_state"} /\ touched \subseteq Leds
    /\ stepped \in BOOLEAN

(***************************************************************************)
(* What the documents say a request means (REQUIREMENTS.md, FR-3), without *)
(* a look at how it is parsed.                                             *)
(***************************************************************************)
One == hreq.uri = "/api/led/{id}"

\* n is the number v says, its fraction dropped.
Says(v, n) ==
    IsNumber(v) /\ IF v.halves < 0 THEN 2 * n - v.halves \in {0, 1}
                                   ELSE v.halves - 2 * n \in {0, 1}

Listed(items, i) == {k \in DOMAIN items : Says(Member(items[k], "id"), i)}

Ids == Member(hreq.body, "ids")

\* The LEDs a PUT or DELETE is about.
Named(i) ==
    CASE One -> hreq.id = i
      [] ~One /\ hreq.method = "PUT" /\ IsArray(hreq.body) -> Listed(hreq.body.items, i) # {}
      [] ~One /\ hreq.method = "DELETE" /\ hreq.size # 0 /\ IsArray(Ids) ->
             Ids.items = <<>> \/ \E k \in DOMAIN Ids.items : Says(Ids.items[k], i)
      [] OTHER -> TRUE

\* The part of the body that decides for LED i: the last entry that names it.
Command(i) ==
    IF IsArray(hreq.body) THEN hreq.body.items[Max(Listed(hreq.body.items, i))] ELSE hreq.body

Shows(o, v) ==
    /\ o.active
    /\ \A k \in 1 .. 3 : Says(Member(v, <<"r", "g", "b">>[k]), Rgb(o.color)[k])
    /\ IF IsAbsent(Member(v, "blink_ms")) THEN o.blink = 0 ELSE Says(Member(v, "blink_ms"), o.blink)

\* An accepted PUT or DELETE takes effect on every LED it names and on no
\* other, in one step, whatever the other tasks do meanwhile; a PUT only on a
\* connected device (FR-3, FR-10).
EffectAsAsked ==
    [][ans[Me] = "none" /\ ans'[Me] = "ok" =>
          /\ auto' = auto
          /\ hreq.method = "PUT" => auto = "connected"
          /\ \A i \in Leds :
                 IF ~Named(i) THEN over'[i] = over[i]
                 ELSE IF hreq.method = "PUT" THEN Shows(over'[i], Command(i))
                 ELSE ~over'[i].active]_vars

WholeIn(v, m) == IsNumber(v) /\ v.halves % 2 = 0 /\ v.halves \in 0 .. 2 * m

\* {"r":0-255,"g":0-255,"b":0-255,"blink_ms":0..CONFIG_APP_LED_MAX_BLINK_MS}.
ProperCommand(v) ==
    /\ \A name \in {"r", "g", "b"} : WholeIn(Member(v, name), 255)
    /\ IsAbsent(Member(v, "blink_ms")) \/ WholeIn(Member(v, "blink_ms"), MaxBlink)

\* A request that follows the documents and fits its buffer; api_json.h takes
\* API_JSON_MAX_LEDS entries at most.
Proper ==
    CASE hreq.method = "PUT" /\ ~IsArray(hreq.body) ->
             /\ ProperCommand(hreq.body) /\ IsAbsent(Member(hreq.body, "id"))
             /\ hreq.size \in 1 .. (IF One THEN BodyMax ELSE LedCount * BodyMax) - 1
      [] hreq.method = "PUT" /\ IsArray(hreq.body) ->
             /\ ~One /\ hreq.size \in 1 .. LedCount * BodyMax - 1
             /\ Len(hreq.body.items) <= MaxLeds
             /\ \A k \in DOMAIN hreq.body.items :
                    /\ ProperCommand(hreq.body.items[k])
                    /\ WholeIn(Member(hreq.body.items[k], "id"), LedCount - 1)
      [] hreq.method = "DELETE" /\ ~One /\ hreq.size # 0 ->
             /\ hreq.size < BodyMax /\ hreq.body.type = "object"
             /\ IsArray(Ids) /\ Len(Ids.items) <= MaxLeds
             /\ \A k \in DOMAIN Ids.items : WholeIn(Ids.items[k], LedCount - 1)
      [] OTHER -> TRUE

\* The status tells the client what happened: 200 and 409 are led_rgb's
\* answers, every other status means that nothing changed; 404 is for what no
\* route takes and for LEDs that do not exist, 400 never for a proper request,
\* 500 only for want of memory.
StatusTellsEffect ==
    http = "answered" =>
        /\ status = 200 => hreq.method = "GET" \/ effect = "ok"
        /\ status = 409 <=> effect = "invalid_state"
        /\ effect = "ok" => status = 200
        /\ status = 404 <=> ~Matched(hreq) \/ (One /\ hreq.id \notin Leds)
        /\ status = 400 => ~Proper \/ hreq.luck # "well"
        /\ status = 500 => NoMemory

\* "The wildcard matcher (httpd_uri_match_wildcard) routes "/api/led/{id}" to
\* the per-LED handlers" (http_server.c): no LED of the chain is unknown.
LedsAreRouted == http = "answered" /\ One /\ hreq.id \in Leds => status # 404

\* A GET of the LEDs shows each of them, in chain order, as it still is, but
\* for those somebody has changed since the request came.
LedsAsTheyAre ==
    http = "answered" /\ hreq.method = "GET" /\ status = 200 /\ hreq.uri # "/api/time" =>
        /\ Len(outs) = IF One THEN 1 ELSE LedCount
        /\ \A k \in DOMAIN outs :
               LET i == IF One THEN hreq.id ELSE k - 1
               IN  i \in touched \/ outs[k] = Resolved(auto, over[i], now)

\* "current synchronized time (ISO-8601 + epoch, if synced)": a time that is
\* said to be synchronised is a real one and both its forms agree, unless the
\* clock is stepped during the request.
SyncedTimeIsReal ==
    http = "answered" /\ time.synced /\ ~stepped =>
        time.epoch >= ValidEpoch /\ time.iso = time.epoch

\* mdns_name.h: the host label is a DNS label that cannot be made empty,
\* overlong or to begin or end with a dash, the name of a device that is a
\* label already is kept, and the other names fit their buffers.
NamesAsDocumented ==
    net = "names" =>
        LET label == Label(system)
        IN  /\ Len(label) \in 1 .. MaxLabel
            /\ \A k \in DOMAIN label : label[k] \in Lower \cup Digit \cup {Dash}
            /\ label[1] # Dash /\ label[Len(label)] # Dash
            /\ Sanitized(label) = label
            /\ Len(Hostname(system)) < HostnameSize
            /\ Len(ServiceName(system)) < ServiceSize /\ IsPrefix(Prefix, ServiceName(system))
            /\ Len(ServerName(system)) < SystemSize

\* SNTP or mDNS that cannot start never keep the HTTP server from starting.
ServerComesUp == up ~> http # "off" \/ net = "failed"

\* Every request is answered, whatever it says and whoever else uses the LEDs.
RequestsAnswered == http \in {"handle", "next", "called", "synced?", "epoch?"} ~> http = "answered"
=============================================================================
