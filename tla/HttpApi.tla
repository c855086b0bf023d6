------------------------------ MODULE HttpApi ------------------------------
(***************************************************************************)
(* The LED and time routes of components/http_server/http_server.c.  The   *)
(* server handles one request at a time; a handler computes on its own     *)
(* between its calls of led_rgb, which take effect at one instant          *)
(* (LedAtomic), and its reads of the clock, while the other tasks go on.   *)
(* The HTTP library is external: routing, receiving, sending.              *)
(***************************************************************************)
EXTENDS LedAtomic, ApiJson, TimeSync

CONSTANTS
    HttpRequests,   \* what clients send, and how the library and the heap
                    \* serve it: well, "cut" (the body comes in part or not
                    \* at all) or "nomem" (what the handler, the parser or
                    \* the formatter allocates for it is refused)
    NoRequest,      \* no request is being handled
    BracesMatch     \* whether the matcher takes "/api/led/{id}" for any id

Me == "http"

\* The range of CONFIG_APP_LED_COUNT, and what a request is: the JSON numbers
\* of its commands and ids have a value, its lists a length, and the colours
\* its commands spell are among those the callers ask for.
ASSUME HttpAssumption ==
    /\ LedCount <= MaxLeds /\ Me \in Callers
    /\ \A r \in HttpRequests :
          LET ids      == Member(r.body, "ids")
              lists    == {v \in {r.body, ids} : IsArray(v)}
              commands == {r.body} \cup UNION {{v.items[k] : k \in DOMAIN v.items} : v \in lists}
          IN  /\ r.id \in Int /\ r.size \in Nat
              /\ r.uri \in {"/api/led", "/api/led/{id}", "/api/time"}
              /\ r.method \in {"GET", "PUT", "DELETE"} /\ (r.uri = "/api/time" => r.method = "GET")
              /\ \A v \in lists : v.items \in Seq(commands)
              /\ \A v \in commands :
                    /\ IsNumber(v) => v.halves \in Int
                    /\ \A name \in {"id", "r", "g", "b", "blink_ms"} :
                          IsNumber(Member(v, name)) => Member(v, name).halves \in Int
                    /\ SingleValid(v) => \E c \in Colors : Rgb(c) = BytesOf(v)

BodyMax == 160                  \* HTTP_SERVER_BODY_MAX
JsonMax == 256                  \* HTTP_SERVER_JSON_MAX

VARIABLES
    http,       \* where the HTTP task is
    hreq,       \* the request it handles
    outs,       \* the LEDs a GET has resolved so far
    now,        \* the now_ms it resolves them for
    time,       \* the api_time_t of GET /api/time
    status,     \* the status of the answer
    effect,     \* history: what led_rgb answered to the request
    touched,    \* history: the LEDs changed since the request came
    stepped     \* history: the clock was stepped since then

hvars   == <<http, hreq, outs, now, time, status>>
history == <<effect, touched, stepped>>

NoTime == [iso |-> 0, synced |-> FALSE, epoch |-> 0]

Forgotten ==
    hreq' = NoRequest /\ outs' = <<>> /\ now' = 0 /\ time' = NoTime /\ status' = 0

HInit ==
    /\ http = "off" /\ hreq = NoRequest /\ outs = <<>> /\ now = 0
    /\ time = NoTime /\ status = 0
    /\ effect = "none" /\ touched = {} /\ stepped = FALSE

\* http_server_send_json and its callers: the handler ends with an answer.
Answer(code) == http' = "answered" /\ status' = code

\* A refusal before anything was called.
Refuse(code) == Answer(code) /\ UNCHANGED <<hreq, outs, now, time, avars>>

\* led_rgb is called; a bad argument comes back at once and is a 400.
CallLed(c) ==
    /\ IF ArgsValid(c) THEN AInvoke(Me, c) /\ http' = "called" /\ UNCHANGED status
       ELSE Answer(400) /\ UNCHANGED avars
    /\ UNCHANGED <<hreq, outs, now, time>>

\* httpd_uri_match_wildcard and the routes of http_server_start.
Matched(r) == r.uri = "/api/led/{id}" => BracesMatch

Accept(r) ==
    /\ http = "idle"
    /\ hreq' = r
    /\ IF Matched(r) THEN http' = "handle" /\ UNCHANGED status ELSE Answer(404)
    /\ UNCHANGED <<outs, now, time, avars>>

\* What cJSON makes of a text whose end is missing.
Beginning(body) == Broken(BodyIsArray(body))

\* http_server_read_body.  What it refuses is answered like a broken text.
ReadBody(size) ==
    IF hreq.size = 0 \/ hreq.size >= size \/ hreq.luck = "cut"
    THEN Beginning(hreq.body) ELSE hreq.body

\* Mutant of KnownLed: the range is tested after the cast to uint16_t.
KnownLedWraps == hreq.id >= 0 /\ hreq.id % 65536 < LedCount

\* http_server_led_id; an id that is not a number is a negative one.
KnownLed == hreq.id \in 0 .. MaxId /\ hreq.id < LedCount

LedId == hreq.id % 65536

At(method, uri) == http = "handle" /\ hreq.method = method /\ hreq.uri = uri

UnknownLed ==
    /\ http = "handle" /\ hreq.uri = "/api/led/{id}" /\ ~KnownLed
    /\ Refuse(404)

NoMemory == hreq.luck = "nomem"

\* http_server_led_put_one.  A text cJSON has no memory for is a broken one.
PutOne ==
    LET body == ReadBody(BodyMax)
    IN  /\ At("PUT", "/api/led/{id}") /\ KnownLed
        /\ IF LedValid(body) /\ ~NoMemory
           THEN CallLed(SetCustom(LedId, ColorOf(body), BlinkOf(body))) ELSE Refuse(400)

DeleteOne ==
    /\ At("DELETE", "/api/led/{id}") /\ KnownLed
    /\ CallLed(ClearCustom(LedId))

\* http_server_led_put_all: a list, or one command for the whole chain.  The
\* heap refuses the text's buffer, or what comes after it.
PutAll ==
    LET body == ReadBody(LedCount * BodyMax)
    IN  /\ At("PUT", "/api/led")
        /\ \/ NoMemory /\ Refuse(500)
           \/ BodyIsArray(body) /\ IF ManyValid(body) /\ ~NoMemory
                                   THEN CallLed(SetCustomMany(ManyOf(body))) ELSE Refuse(400)
           \/ ~BodyIsArray(body) /\ IF LedValid(body) /\ ~NoMemory
                                    THEN CallLed(SetCustomAll(ColorOf(body), BlinkOf(body)))
                                    ELSE Refuse(400)

\* No ids at all means every LED.
IdsCall(ids) == IF ids = <<>> THEN ClearCustomAll ELSE ClearCustomMany(ids)

\* http_server_led_delete_all: nothing is allocated for a text that was not read.
DeleteAll ==
    LET body == ReadBody(BodyMax)
    IN  /\ At("DELETE", "/api/led")
        /\ \/ hreq.size = 0 /\ CallLed(ClearCustomAll)
           \/ hreq.size # 0 /\ NoMemory /\ hreq.size < BodyMax /\ Refuse(500)
           \/ hreq.size # 0 /\ IF IdsValid(body) /\ ~NoMemory
                               THEN CallLed(IdsCall(IdsOf(body))) ELSE Refuse(400)

\* Mutant of LedStatus: invalid_state is an argument error like the others.
LedStatus400 == IF ans[Me] = "ok" THEN 200 ELSE 400

\* http_server_led_status.
LedStatus == CASE ans[Me] = "ok" -> 200
               [] ans[Me] = "invalid_state" -> 409
               [] OTHER -> 400

\* Mutant of Finished: the error path does not answer.
FinishedOk ==
    /\ http = "called" /\ hreq.method # "GET" /\ ans[Me] = "ok"
    /\ Return(Me)
    /\ Answer(LedStatus)
    /\ UNCHANGED <<hreq, outs, now, time>>

\* A setter or a clearer has returned.
Finished ==
    /\ http = "called" /\ hreq.method # "GET"
    /\ Return(Me)
    /\ Answer(LedStatus)
    /\ UNCHANGED <<hreq, outs, now, time>>

(***************************************************************************)
(* GET: one get_output per LED, all for the time read first.               *)
(***************************************************************************)
Collecting == hreq.uri = "/api/led"

\* Mutant of More: the loop goes one LED too far.
MoreInclusive(n) == n <= LedCount

\* The loop of http_server_led_get_all goes on after n LEDs.
More(n) == n < LedCount

\* Mutant of NextLed: ids are counted from 1.
NextLedFromOne == IF Collecting THEN Len(outs) + 1 ELSE LedId

NextLed == IF Collecting THEN Len(outs) ELSE LedId

GetLeds ==
    /\ http = "handle" /\ hreq.method = "GET"
    /\ \/ Collecting
       \/ hreq.uri = "/api/led/{id}" /\ KnownLed
    /\ now' \in Times
    /\ http' = "next"
    /\ UNCHANGED <<hreq, outs, time, status, avars>>

\* The buffers of http_server_led_get_all are refused, before any LED is read.
GetAllNoMemory == At("GET", "/api/led") /\ NoMemory /\ Refuse(500)

\* http_server_fill_led.
FillLed ==
    /\ http = "next" /\ http' = "called"
    /\ AInvoke(Me, GetOutput(NextLed, now))
    /\ UNCHANGED <<hreq, outs, now, time, status>>

\* The buffer of http_server_led_get_all.
ListSize == LedCount * LedJsonBudget + 64

\* Whether the answer fits, from api_json_format_led_list or api_json_format_led.
AnswerFits(leds) == IF Collecting THEN Fits(ListLength(leds), ListSize)
                    ELSE Fits(LedLength(LedId, leds[1]), JsonMax)

\* An LED has been read; after the last one the answer is formatted, unless
\* it does not fit or cJSON has no memory for it.
FilledLed ==
    /\ http = "called" /\ hreq.method = "GET"
    /\ outs' = Append(outs, seen[Me][1])
    /\ Return(Me)
    /\ IF Collecting /\ More(Len(outs'))
       THEN http' = "next" /\ UNCHANGED status
       ELSE Answer(IF AnswerFits(outs') /\ ~NoMemory THEN 200 ELSE 500)
    /\ UNCHANGED <<hreq, now, time>>

(***************************************************************************)
(* GET /api/time: time_sync_get, then the members of api_time_t in order.  *)
(***************************************************************************)
TimeIso ==
    /\ At("GET", "/api/time")
    /\ time' = [time EXCEPT !.iso = clock] /\ http' = "synced?"
    /\ UNCHANGED <<hreq, outs, now, status, avars>>

TimeSynced ==
    /\ http = "synced?" /\ http' = "epoch?"
    /\ time' = [time EXCEPT !.synced = IsSynced]
    /\ UNCHANGED <<hreq, outs, now, status, avars>>

TimeEpoch ==
    /\ http = "epoch?"
    /\ time' = [time EXCEPT !.epoch = clock]
    /\ Answer(IF NoMemory THEN 500 ELSE 200)
    /\ UNCHANGED <<hreq, outs, now, avars>>

Respond == http = "answered" /\ http' = "idle" /\ Forgotten /\ UNCHANGED avars

Handler ==
    \/ UnknownLed \/ PutOne \/ DeleteOne \/ PutAll \/ DeleteAll
    \/ Finished \/ GetLeds \/ GetAllNoMemory \/ FillLed \/ FilledLed
    \/ TimeIso \/ TimeSynced \/ TimeEpoch \/ Respond
=============================================================================
