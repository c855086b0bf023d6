------------------------------ MODULE ApiJson ------------------------------
(***************************************************************************)
(* components/http_server/api_json.c: which request bodies the REST API    *)
(* accepts and what commands it reads in them, and how long its LED        *)
(* answers are.  cJSON turns a text into a tree (external); a number of    *)
(* the tree is held in halves, so that the casts have fractions to drop.   *)
(***************************************************************************)
EXTENDS LedCalls, Integers

MaxLeds == 1024                 \* API_JSON_MAX_LEDS
LedJsonBudget == 96             \* HTTP_SERVER_LED_JSON_BUDGET
MaxId == 65535                  \* the greatest uint16_t

\* cJSON trees.  Broken is a text cJSON_Parse refuses; it may begin with '['.
Num(halves)     == [type |-> "number", halves |-> halves]
Int2(n)         == Num(2 * n)
Arr(items)      == [type |-> "array", items |-> items]
Obj(members)    == [type |-> "object", members |-> members]
Broken(bracket) == [type |-> "broken", bracket |-> bracket]
Absent          == [type |-> "absent"]

IsNumber(v) == v.type = "number"
IsArray(v)  == v.type = "array"
IsAbsent(v) == v.type = "absent"

\* cJSON_GetObjectItemCaseSensitive: anything but an object has no members.
Member(v, name) == IF v.type = "object" /\ name \in DOMAIN v.members
                   THEN v.members[name] ELSE Absent

\* cJSON's valueint drops the fraction towards zero.
ValueInt(v) == IF v.halves < 0 THEN -((-v.halves) \div 2) ELSE v.halves \div 2

\* valuedouble cast to an unsigned type, once it is known not to be negative.
Cast(v) == v.halves \div 2

\* api_json_read_channel.
ChannelValid(v, name) ==
    IsNumber(Member(v, name)) /\ ValueInt(Member(v, name)) \in 0 .. 255

\* api_json_read_blink.
BlinkValid(v) ==
    LET blink == Member(v, "blink_ms")
    IN  IsAbsent(blink) \/ (IsNumber(blink) /\ blink.halves \in 0 .. 2 * MaxBlink)

BlinkOf(v) == IF IsAbsent(Member(v, "blink_ms")) THEN 0 ELSE Cast(Member(v, "blink_ms"))

\* The bytes of a command.
BytesOf(v) == [k \in 1 .. 3 |-> ValueInt(Member(v, <<"r", "g", "b">>[k]))]

\* Their colour; callers ask for colours of Colors.
ColorOf(v) == CHOOSE c \in Colors : Rgb(c) = BytesOf(v)

\* api_json_parse_single.
SingleValid(v) == BlinkValid(v) /\ \A name \in {"r", "g", "b"} : ChannelValid(v, name)

\* The test of an id by api_json_parse_entry and api_json_parse_ids_array.
IdNumber(v) == IsNumber(v) /\ v.halves \in 0 .. 2 * MaxId

\* api_json_parse_entry: the command of one array entry.
EntryValid(v) == IdNumber(Member(v, "id")) /\ SingleValid(v)

EntryOf(v) == [id |-> Cast(Member(v, "id")), color |-> ColorOf(v), blink |-> BlinkOf(v)]

\* api_json_body_is_array: the first character that is not a blank.
BodyIsArray(body) == IsArray(body) \/ (body.type = "broken" /\ body.bracket)

\* api_json_parse_led: one command, which must not carry an id.
LedValid(body) ==
    /\ body.type \notin {"broken", "array"}
    /\ IsAbsent(Member(body, "id"))
    /\ SingleValid(body)

\* api_json_parse_led_many.
ManyValid(body) ==
    /\ IsArray(body)
    /\ Len(body.items) <= MaxLeds
    /\ \A k \in DOMAIN body.items : EntryValid(body.items[k])

ManyOf(body) == [k \in DOMAIN body.items |-> EntryOf(body.items[k])]

\* api_json_parse_ids: whatever has no ids, an array or a number too, is fine.
IdsValid(body) ==
    LET ids == Member(body, "ids")
    IN  /\ body.type # "broken"
        /\ \/ IsAbsent(ids)
           \/ /\ IsArray(ids) /\ Len(ids.items) <= MaxLeds
              /\ \A k \in DOMAIN ids.items : IdNumber(ids.items[k])

IdsOf(body) ==
    LET ids == Member(body, "ids")
    IN  IF IsAbsent(ids) THEN <<>> ELSE [k \in DOMAIN ids.items |-> Cast(ids.items[k])]

(***************************************************************************)
(* Formatting, by length.                                                  *)
(***************************************************************************)
\* A uint32_t has ten at most.
Digits(n) == IF n < 10 THEN 1 ELSE IF n < 100 THEN 2 ELSE IF n < 1000 THEN 3
             ELSE IF n < 10000 THEN 4 ELSE IF n < 100000 THEN 5
             ELSE IF n < 1000000 THEN 6 ELSE IF n < 10000000 THEN 7
             ELSE IF n < 100000000 THEN 8 ELSE IF n < 1000000000 THEN 9 ELSE 10

\* http_server_led_state_name.
NameLength(st) == CASE st = "provisioning" -> 12 [] st = "connecting" -> 10
                    [] st = "connected" -> 9 [] st = "error" -> 5 [] OTHER -> 6

\* {"id":,"state":"","r":,"g":,"b":,"blink_ms":,"on":} and the values.
LedLength(id, o) ==
    51 + Digits(id) + NameLength(o.state) + (IF o.on THEN 4 ELSE 5) + Digits(o.blink)
       + Digits(Rgb(o.color)[1]) + Digits(Rgb(o.color)[2]) + Digits(Rgb(o.color)[3])

\* api_json_format_led_list: {"leds":[],"count":}, the LEDs and their commas.
ListLength(outs) ==
    LET total[n \in 0 .. Len(outs)] ==
            IF n = 0 THEN 0 ELSE total[n - 1] + LedLength(n - 1, outs[n])
    IN  19 + Len(outs) + Digits(Len(outs)) + total[Len(outs)]

\* api_json_emit: the text and its NUL must fit the caller's buffer.
Fits(length, size) == length + 1 <= size
=============================================================================
