--------------------------- MODULE ServicesProofs ---------------------------
(***************************************************************************)
(* Proofs about http_server.c, api_json.c, time_sync.c and mdns_service.c, *)
(* together with the led_rgb and the tasks they share the device with: for *)
(* any number of LEDs and tasks, any requests of the shape HttpAssumption  *)
(* gives, any times and any names.  Loops are followed by induction on     *)
(* their length (Recursion).                                               *)
(***************************************************************************)
EXTENDS Services, Recursion, SequenceTheorems

-----------------------------------------------------------------------------
\* The state of led_rgb behind the server.

\* What led_rgb stores for an LED.
Override == [active : BOOLEAN, color : Colors, blink : 0 .. MaxBlink]

\* The part of led_rgb: what is stored is valid, and so is what is asked.
LedTyped ==
    /\ auto \in AutoStates
    /\ over \in [Leds -> Override]
    /\ stage \in [Tasks -> {"idle", "called", "served"}]
    /\ req \in [Tasks -> AnyCall \cup {NoCall}]
    /\ ans \in [Tasks -> {"none", "ok", "invalid_state"}]
    /\ seen \in [Tasks -> [1 .. LedCount -> Output]]
    /\ \A t \in Tasks : stage[t] # "idle" => req[t] \in AnyCall /\ ArgsValid(req[t])
    /\ \A t \in Tasks : stage[t] # "served" => ans[t] = "none"

\* The constants of the LEDs.
LEMMA ConstTypes ==
    /\ LedCount \in Nat \ {0} /\ Leds = 0 .. LedCount - 1 /\ 0 \in Leds
    /\ MaxBlink \in Nat /\ SlowBlink \in Nat /\ FastBlink \in Nat
    /\ Times \subseteq Nat
    /\ Dark \in Output
  BY LedAssumption DEF Leds, Dark, Output, AutoStates, Colors

\* The kind of each call tells the function it stands for.
LEMMA KindOf ==
  ASSUME NEW c \in AnyCall
  PROVE  /\ c.kind \in {"state", "set", "clear", "get", "render"}
         /\ c.kind = "state" => c.to \in AutoStates \cup {"custom", "out_of_range"}
         /\ c.kind = "set" => c.cmds \in Seq(Cmd)
         /\ c.kind = "clear" => c.ids \in Seq(Nat)
         /\ c.kind \in {"get", "render"} => c.ids \in Seq(Nat) /\ c.now \in Nat
         /\ c.kind = "get" => Len(c.ids) = 1
  <1>1. AllIds \in Seq(Nat)
    BY ConstTypes DEF AllIds
  <1> QED
    BY <1>1, ConstTypes DEF AnyCall, Call, Render

\* A batch leaves an override of the right type for every LED.
LEMMA OverriddenTyped ==
  ASSUME over \in [Leds -> Override], NEW cmds \in Seq(Cmd),
         \A k \in DOMAIN cmds : CommandValid(cmds[k])
  PROVE  Overridden(cmds) \in [Leds -> Override]
  <1> DEFINE ks(i) == {k \in DOMAIN cmds : cmds[k].id = i}
             last(i) == CHOOSE k \in ks(i) : \A j \in ks(i) : j <= k
             new(i) == IF ks(i) = {} THEN over[i]
                       ELSE [active |-> TRUE, color |-> cmds[last(i)].color,
                             blink |-> cmds[last(i)].blink]
  <1>1. ASSUME NEW i \in Leds, ks(i) # {} PROVE last(i) \in DOMAIN cmds
    <2>1. ks(i) \in SUBSET (0 .. Len(cmds)) /\ Len(cmds) \in Nat
      OBVIOUS
    <2>2. \E k \in ks(i) : \A j \in ks(i) : j <= k
      <3> HIDE DEF ks
      <3> QED BY <2>1, <1>1, Greatest
    <2>3. last(i) \in ks(i)
      <3> HIDE DEF ks
      <3> QED BY <2>2
    <2> QED
      BY <2>3
  <1>2. ASSUME NEW i \in Leds PROVE new(i) \in Override
    <2>1. CASE ks(i) = {}
      <3> HIDE DEF ks, last
      <3> QED BY <2>1
    <2>2. CASE ks(i) # {}
      <3>1. last(i) \in DOMAIN cmds
        BY <1>1, <2>2
      <3>2. cmds[last(i)] \in Cmd /\ cmds[last(i)].blink <= MaxBlink
        <4> HIDE DEF last
        <4> QED BY <3>1 DEF CommandValid
      <3> HIDE DEF last, ks
      <3>3. [active |-> TRUE, color |-> cmds[last(i)].color, blink |-> cmds[last(i)].blink] \in Override
        BY <3>2, ConstTypes DEF Cmd, Override
      <3> QED BY <3>3, <2>2
    <2> QED BY <2>1, <2>2
  <1>3. Overridden(cmds) = [i \in Leds |-> new(i)]
    BY DEF Overridden
  <1> HIDE DEF new
  <1> QED BY <1>2, <1>3

\* A clearing leaves an override of the right type for every LED.
LEMMA ClearedTyped ==
  ASSUME over \in [Leds -> Override], NEW ids
  PROVE  /\ Cleared(ids) \in [Leds -> Override]
         /\ \A i \in Leds : Cleared(ids)[i] =
              IF \E k \in DOMAIN ids : ids[k] = i THEN [over[i] EXCEPT !.active = FALSE] ELSE over[i]
  <1>1. \A i \in Leds : [over[i] EXCEPT !.active = FALSE] \in Override
    BY DEF Override
  <1> QED
    BY <1>1 DEF Cleared

\* What led_rgb_get_output shows of an LED has the right type.
LEMMA ResolvedTyped ==
  ASSUME NEW st \in AutoStates, NEW o \in Override, NEW now0
  PROVE  Resolved(st, o, now0) \in Output
  <1>1. Pattern[st].color \in Colors /\ Pattern[st].blink \in Nat
    BY ConstTypes DEF Pattern, AutoStates, Colors
  <1>2. o.color \in Colors /\ o.blink \in Nat
    BY ConstTypes DEF Override
  <1>3. \A b : BlinkOn(b, now0) \in BOOLEAN
    BY DEF BlinkOn
  <1> QED
    BY <1>1, <1>2, <1>3 DEF Resolved, Output, AutoStates

\* A call that is made.
LEMMA InvokeTyped ==
  ASSUME LedTyped, NEW t \in Tasks, NEW c \in AnyCall, AInvoke(t, c)
  PROVE  LedTyped'
  BY DEF LedTyped, AInvoke

\* A call that takes effect.
LEMMA ServeTyped ==
  ASSUME LedTyped, NEW t \in Tasks, Serve(t)
  PROVE  LedTyped'
  <1>1. stage[t] = "called" /\ req[t] \in AnyCall /\ ArgsValid(req[t])
    BY DEF LedTyped, Serve
  <1>2. stage' = [stage EXCEPT ![t] = "served"] /\ req' = req
    BY DEF Serve
  <1> SUFFICES /\ auto' \in AutoStates
               /\ over' \in [Leds -> Override]
               /\ ans' \in [Tasks -> {"none", "ok", "invalid_state"}]
               /\ seen' \in [Tasks -> [1 .. LedCount -> Output]]
               /\ \A u \in Tasks \ {t} : ans'[u] = ans[u]
    BY <1>1, <1>2 DEF LedTyped
  <1>3. CASE ServeState(t)
    <2>1. auto' \in AutoStates
      BY <1>1, <1>3 DEF ServeState, ArgsValid
    <2>2. over' \in [Leds -> Override]
      BY <1>3, ClearedTyped DEF ServeState, LedTyped
    <2> QED
      BY <1>3, <2>1, <2>2 DEF ServeState, LedTyped
  <1>4. CASE ServeSet(t)
    <2>1. req[t].cmds \in Seq(Cmd) /\ \A k \in DOMAIN req[t].cmds : CommandValid(req[t].cmds[k])
      BY <1>1, <1>4, KindOf DEF ServeSet, ArgsValid
    <2>2. over' \in [Leds -> Override]
      BY <1>4, <2>1, OverriddenTyped DEF ServeSet, LedTyped
    <2> QED
      BY <1>4, <2>2 DEF ServeSet, LedTyped
  <1>5. CASE ServeClear(t)
    <2>1. over' \in [Leds -> Override]
      BY <1>5, ClearedTyped DEF ServeClear, LedTyped
    <2> QED
      BY <1>5, <2>1 DEF ServeClear, LedTyped
  <1>6. CASE ServeRead(t)
    <2>1. req[t].ids \in Seq(Nat)
      BY <1>1, <1>6, KindOf DEF ServeRead
    <2> DEFINE result(k) == IF k > Len(req[t].ids) THEN seen[t][k]
                            ELSE IF ~IdValid(req[t].ids[k]) THEN Dark
                            ELSE Resolved(auto, over[req[t].ids[k]], req[t].now)
    <2>2. ASSUME NEW k \in 1 .. LedCount PROVE result(k) \in Output
      <3>1. CASE k > Len(req[t].ids)
        BY <3>1 DEF LedTyped
      <3>2. CASE k <= Len(req[t].ids) /\ IdValid(req[t].ids[k])
        <4>1. req[t].ids[k] \in Leds
          BY <2>1, <3>2, ConstTypes DEF IdValid
        <4>2. over[req[t].ids[k]] \in Override
          BY <4>1 DEF LedTyped
        <4>3. Resolved(auto, over[req[t].ids[k]], req[t].now) \in Output
          BY <4>2, ResolvedTyped DEF LedTyped
        <4>4. ~(k > Len(req[t].ids))
          BY <2>1, <3>2
        <4> QED
          BY <3>2, <4>3, <4>4
      <3>3. CASE k <= Len(req[t].ids) /\ ~IdValid(req[t].ids[k])
        <4>1. ~(k > Len(req[t].ids))
          BY <2>1, <3>3
        <4> QED
          BY <3>3, <4>1, ConstTypes
      <3> QED
        BY <2>1, <3>1, <3>2, <3>3
    <2>3. seen' = [seen EXCEPT ![t] = [k \in 1 .. LedCount |-> result(k)]]
      BY <1>6 DEF ServeRead
    <2> HIDE DEF result
    <2>4. seen' \in [Tasks -> [1 .. LedCount -> Output]]
      BY <2>2, <2>3 DEF LedTyped
    <2> QED
      BY <1>6, <2>4 DEF ServeRead, LedTyped
  <1> QED
    BY <1>3, <1>4, <1>5, <1>6 DEF Serve

\* A call that returns.
LEMMA ReturnTyped ==
  ASSUME LedTyped, NEW t \in Tasks, Return(t)
  PROVE  LedTyped'
  <1>1. NothingSeen \in [1 .. LedCount -> Output]
    BY ConstTypes DEF NothingSeen
  <1> QED
    BY <1>1 DEF LedTyped, Return

\* A step that leaves led_rgb alone keeps its types.
LEMMA LedSame ==
  ASSUME LedTyped, UNCHANGED avars
  PROVE  LedTyped'
  BY DEF LedTyped, avars

-----------------------------------------------------------------------------
\* Requests, and the calls of led_rgb they ask for.

\* Halving drops a half.
LEMMA Halved ==
  ASSUME NEW h \in Int
  PROVE  h \div 2 \in Int /\ (h = 2 * (h \div 2) \/ h = 2 * (h \div 2) + 1)
  OBVIOUS

\* Half of what is twice a bound at most is within the bound.
LEMMA HalfOf ==
  ASSUME NEW m \in Nat, NEW h \in 0 .. 2 * m
  PROVE  h \div 2 \in 0 .. m
  <1> DEFINE q == h \div 2
  <1>1. h \in Int /\ h >= 0 /\ h <= 2 * m
    OBVIOUS
  <1>2. q \in Int /\ (h = 2 * q \/ h = 2 * q + 1)
    BY <1>1, Halved
  <1>3. q \in 0 .. m
    <2> HIDE DEF q
    <2> QED
      BY <1>1, <1>2
  <1> QED
    BY <1>3

\* A value that may be read as a command, and a list.
IsCommand(v) ==
    /\ \A name \in {"id", "r", "g", "b", "blink_ms"} :
          IsNumber(Member(v, name)) => Member(v, name).halves \in Int
    /\ SingleValid(v) => \E c \in Colors : Rgb(c) = BytesOf(v)

\* A sequence, by what it holds.
IsList(s) == s \in Seq({s[k] : k \in DOMAIN s})

\* What a request may hold.
LEMMA RequestFacts ==
  ASSUME NEW r \in HttpRequests
  PROVE  /\ r.id \in Int /\ r.size \in Nat
         /\ r.uri \in {"/api/led", "/api/led/{id}", "/api/time"}
         /\ r.method \in {"GET", "PUT", "DELETE"} /\ (r.uri = "/api/time" => r.method = "GET")
         /\ IsCommand(r.body)
         /\ IsArray(r.body) => IsList(r.body.items)
                               /\ \A k \in DOMAIN r.body.items : IsCommand(r.body.items[k])
         /\ LET ids == Member(r.body, "ids")
            IN  IsArray(ids) => IsList(ids.items)
                                /\ \A k \in DOMAIN ids.items :
                                      IsNumber(ids.items[k]) => ids.items[k].halves \in Int
  <1> DEFINE ids      == Member(r.body, "ids")
             lists    == {v \in {r.body, ids} : IsArray(v)}
             commands == {r.body} \cup UNION {{v.items[k] : k \in DOMAIN v.items} : v \in lists}
  <1>1. /\ r.id \in Int /\ r.size \in Nat
        /\ r.uri \in {"/api/led", "/api/led/{id}", "/api/time"}
        /\ r.method \in {"GET", "PUT", "DELETE"} /\ (r.uri = "/api/time" => r.method = "GET")
        /\ \A v \in lists : v.items \in Seq(commands)
        /\ \A v \in commands :
              /\ IsNumber(v) => v.halves \in Int
              /\ \A name \in {"id", "r", "g", "b", "blink_ms"} :
                    IsNumber(Member(v, name)) => Member(v, name).halves \in Int
              /\ SingleValid(v) => \E c \in Colors : Rgb(c) = BytesOf(v)
    BY HttpAssumption
  <1>2. \A v \in commands : IsCommand(v) /\ (IsNumber(v) => v.halves \in Int)
    <2> HIDE DEF commands
    <2> QED
      BY <1>1 DEF IsCommand
  <1>3. ASSUME NEW v \in lists PROVE IsList(v.items) /\ \A k \in DOMAIN v.items : v.items[k] \in commands
    <2>1. v.items \in Seq(commands)
      BY <1>1
    <2>2. \A k \in DOMAIN v.items : v.items[k] \in commands
      OBVIOUS
    <2> HIDE DEF commands, lists
    <2> QED
      BY <2>1, <2>2 DEF IsList
  <1>4. r.body \in commands
    OBVIOUS
  <1>5. IsArray(r.body) => r.body \in lists
    OBVIOUS
  <1>6. IsArray(ids) => ids \in lists
    OBVIOUS
  <1> HIDE DEF commands, lists
  <1> QED
    BY <1>1, <1>2, <1>3, <1>4, <1>5, <1>6

\* A list has a length and may be gone through.
LEMMA ListFacts ==
  ASSUME NEW s, IsList(s)
  PROVE  /\ Len(s) \in Nat /\ DOMAIN s = 1 .. Len(s) /\ (s = <<>> <=> Len(s) = 0)
  BY DEF IsList

\* The colour and the period of a command that is accepted.
LEMMA CommandRead ==
  ASSUME NEW v, IsCommand(v), SingleValid(v)
  PROVE  /\ ColorOf(v) \in Colors /\ Rgb(ColorOf(v)) = BytesOf(v)
         /\ BlinkOf(v) \in 0 .. MaxBlink
  <1>1. ColorOf(v) \in Colors /\ Rgb(ColorOf(v)) = BytesOf(v)
    BY DEF ColorOf, IsCommand
  <1>2. BlinkOf(v) \in 0 .. MaxBlink
    BY HalfOf, ConstTypes DEF BlinkOf, SingleValid, BlinkValid, IsCommand, Cast
  <1> QED
    BY <1>1, <1>2

\* An id that is accepted.
LEMMA IdRead ==
  ASSUME NEW v, IdNumber(v)
  PROVE  Cast(v) \in 0 .. MaxId
  <1>1. MaxId \in Nat
    BY DEF MaxId
  <1> QED
    BY <1>1, HalfOf DEF IdNumber, Cast

\* The command of an entry that is accepted.
LEMMA EntryRead ==
  ASSUME NEW v, IsCommand(v), EntryValid(v)
  PROVE  EntryOf(v) \in Cmd /\ EntryOf(v).id \in 0 .. MaxId
  <1>1. Cast(Member(v, "id")) \in 0 .. MaxId
    BY IdRead DEF EntryValid
  <1>2. ColorOf(v) \in Colors /\ BlinkOf(v) \in Nat
    BY CommandRead, ConstTypes DEF EntryValid
  <1>3. EntryOf(v) = [id |-> Cast(Member(v, "id")), color |-> ColorOf(v), blink |-> BlinkOf(v)]
    BY DEF EntryOf
  <1>4. \A i, c, b : [id |-> i, color |-> c, blink |-> b].id = i
    OBVIOUS
  <1>5. \A i \in Nat, c \in Colors, b \in Nat : [id |-> i, color |-> c, blink |-> b] \in Cmd
    BY DEF Cmd
  <1> QED
    BY <1>1, <1>2, <1>3, <1>4, <1>5

\* The call that a PUT or DELETE of the LEDs makes.
Asked(r, c) ==
    \/ /\ r.uri = "/api/led/{id}" /\ r.id \in Leds
       /\ \/ /\ r.method = "PUT" /\ LedValid(r.body)
             /\ c = SetCustom(r.id, ColorOf(r.body), BlinkOf(r.body))
          \/ r.method = "DELETE" /\ c = ClearCustom(r.id)
    \/ /\ r.uri = "/api/led" /\ r.method = "PUT"
       /\ \/ ManyValid(r.body) /\ c = SetCustomMany(ManyOf(r.body))
          \/ LedValid(r.body) /\ c = SetCustomAll(ColorOf(r.body), BlinkOf(r.body))
    \/ /\ r.uri = "/api/led" /\ r.method = "DELETE"
       /\ \/ r.size = 0 /\ c = ClearCustomAll
          \/ r.size # 0 /\ IdsValid(r.body) /\ c = IdsCall(IdsOf(r.body))

\* The call a request asks for is one that led_rgb accepts.
LEMMA AskedTyped ==
  ASSUME NEW r \in HttpRequests, NEW c, Asked(r, c)
  PROVE  c \in AnyCall /\ c.kind \in {"set", "clear"} /\ (c.kind = "set" <=> r.method = "PUT")
  <1>1. \A cmds \in Seq(Cmd) : SetCustomMany(cmds) \in AnyCall
                               /\ SetCustomMany(cmds).kind = "set"
    BY DEF AnyCall, Call, SetCustomMany
  <1>2. \A ids \in Seq(Nat) : ClearCustomMany(ids) \in AnyCall
                              /\ ClearCustomMany(ids).kind = "clear"
    BY DEF AnyCall, Call, ClearCustomMany
  <1>3. AllIds \in Seq(Nat) /\ \A i \in Leds : i \in Nat /\ <<i>> \in Seq(Nat)
    BY ConstTypes DEF AllIds
  <1>4. CASE r.method = "PUT"
    <2>1. CASE LedValid(r.body) /\ \/ r.id \in Leds /\ c = SetCustom(r.id, ColorOf(r.body), BlinkOf(r.body))
                                   \/ c = SetCustomAll(ColorOf(r.body), BlinkOf(r.body))
      <3>1. ColorOf(r.body) \in Colors /\ BlinkOf(r.body) \in Nat
        <4>1. IsCommand(r.body) /\ SingleValid(r.body)
          BY <2>1, RequestFacts DEF LedValid
        <4> QED
          BY <4>1, CommandRead, ConstTypes
      <3>2. \A i \in Nat : [id |-> i, color |-> ColorOf(r.body), blink |-> BlinkOf(r.body)] \in Cmd
        BY <3>1 DEF Cmd
      <3>3. [k \in 1 .. LedCount |-> [id |-> k - 1, color |-> ColorOf(r.body), blink |-> BlinkOf(r.body)]] \in Seq(Cmd)
        <4>1. \A k \in 1 .. LedCount : k - 1 \in Nat
          BY ConstTypes
        <4> QED
          BY <3>2, <4>1, ConstTypes
      <3>4. r.id \in Leds => <<[id |-> r.id, color |-> ColorOf(r.body), blink |-> BlinkOf(r.body)]>> \in Seq(Cmd)
        BY <3>2, <1>3
      <3> QED
        BY <1>1, <1>4, <2>1, <3>3, <3>4 DEF SetCustom, SetCustomAll
    <2>2. CASE ManyValid(r.body) /\ c = SetCustomMany(ManyOf(r.body))
      <3> DEFINE items == r.body.items
      <3>1. Len(items) \in Nat /\ DOMAIN items = 1 .. Len(items)
        BY <2>2, RequestFacts, ListFacts DEF ManyValid
      <3>2. \A k \in DOMAIN items : EntryOf(items[k]) \in Cmd
        <4>1. \A k \in DOMAIN items : IsCommand(items[k]) /\ EntryValid(items[k])
          BY <2>2, RequestFacts DEF ManyValid
        <4> QED
          BY <4>1, EntryRead
      <3>3. ManyOf(r.body) \in Seq(Cmd)
        BY <3>1, <3>2 DEF ManyOf
      <3> QED
        BY <1>1, <1>4, <2>2, <3>3
    <2> QED
      BY <1>4, <2>1, <2>2 DEF Asked
  <1>5. CASE r.method = "DELETE"
    <2>1. IdsValid(r.body) => IdsOf(r.body) \in Seq(Nat)
      <3> SUFFICES ASSUME IdsValid(r.body), ~IsAbsent(Member(r.body, "ids"))
                   PROVE  IdsOf(r.body) \in Seq(Nat)
        BY DEF IdsOf
      <3> DEFINE items == Member(r.body, "ids").items
      <3>1. IsArray(Member(r.body, "ids")) /\ \A k \in DOMAIN items : IdNumber(items[k])
        BY DEF IdsValid
      <3>2. Len(items) \in Nat /\ DOMAIN items = 1 .. Len(items)
        BY <3>1, RequestFacts, ListFacts
      <3>3. \A k \in DOMAIN items : Cast(items[k]) \in Nat
        BY <3>1, IdRead
      <3>4. IdsOf(r.body) = [k \in DOMAIN items |-> Cast(items[k])]
        BY DEF IdsOf
      <3> HIDE DEF items
      <3> QED
        BY <3>2, <3>3, <3>4
    <2>2. \E ids \in Seq(Nat) : c = ClearCustomMany(ids)
      BY <1>3, <1>5, <2>1 DEF Asked, ClearCustom, ClearCustomAll, IdsCall
    <2> QED
      BY <1>2, <1>5, <2>2
  <1> QED
    BY <1>4, <1>5, RequestFacts DEF Asked

\* A body that was not read is broken.
LEMMA BodyRead ==
  ASSUME NEW size
  PROVE  \/ ReadBody(size) = hreq.body
         \/ /\ ReadBody(size) = Broken(BodyIsArray(hreq.body))
            /\ hreq.size = 0 \/ hreq.size >= size \/ hreq.luck = "cut"
  BY DEF ReadBody, Beginning

\* A body that was not read is refused by every parser.
LEMMA BrokenRefused ==
  ASSUME NEW b
  PROVE  /\ ~LedValid(Broken(b)) /\ ~ManyValid(Broken(b)) /\ ~IdsValid(Broken(b))
         /\ BodyIsArray(Broken(b)) <=> b
  BY DEF Broken, LedValid, ManyValid, IdsValid, IsArray, BodyIsArray

-----------------------------------------------------------------------------
\* The handler, and what it waits for.

\* The handler is at work on a request.
Busy == {"handle", "next", "called", "synced?", "epoch?", "answered"}

\* The LED that a GET reads after n others.
LedAfter(r, n) == IF r.uri = "/api/led" THEN n ELSE r.id

\* The handler's own variables, and what it can be doing before main has
\* started the server.
HttpTyped ==
    /\ http \in Busy \cup {"off", "idle"}
    /\ hreq \in HttpRequests \cup {NoRequest}
    /\ outs \in Seq(Output) /\ Len(outs) <= LedCount
    /\ now \in Times \cup {0} /\ status \in {0, 200, 400, 404, 409, 500}
    /\ time \in [iso : Nat, synced : BOOLEAN, epoch : Nat]
    /\ effect \in {"none", "ok", "invalid_state"}
    /\ net # "done" => http = "off"

\* A call of led_rgb is under way exactly while the handler waits for it, and
\* it is the one the request asks for.
HandlerInv ==
    /\ http \in Busy => hreq \in HttpRequests
    /\ http \in Busy \ {"answered"} => Matched(hreq) /\ effect = ans[Me]
    /\ http \notin Busy => effect = "none"
    /\ http = "called" <=> stage[Me] # "idle"
    /\ http \in {"off", "idle", "handle"} => outs = <<>>
    /\ http = "next" => hreq.method = "GET"
    /\ http \in {"next", "called"} /\ hreq.method = "GET" =>
          /\ now \in Times
          /\ IF hreq.uri = "/api/led" THEN Len(outs) < LedCount
             ELSE hreq.uri = "/api/led/{id}" /\ hreq.id \in Leds /\ outs = <<>>
    /\ http = "called" =>
          IF hreq.method = "GET" THEN req[Me] = GetOutput(LedAfter(hreq, Len(outs)), now)
          ELSE Asked(hreq, req[Me])
    /\ http = "called" /\ stage[Me] = "served" => (ans[Me] = "none" <=> hreq.method = "GET")
    /\ http \in {"synced?", "epoch?"} => hreq.uri = "/api/time"

\* led_rgb and the handler together.
HttpOK == LedTyped /\ HttpTyped /\ HandlerInv

\* The HTTP task is one of the callers of led_rgb, and an LED has an id.
LEMMA MeTask == Me \in Tasks /\ Me \in Callers /\ Leds \subseteq 0 .. MaxId
  <1>1. LedCount <= 1024
    BY HttpAssumption DEF MaxLeds
  <1>2. 1024 <= MaxId /\ MaxId \in Nat
    BY DEF MaxId
  <1>3. Me \in Callers
    BY HttpAssumption
  <1> QED
    BY <1>1, <1>2, <1>3, ConstTypes DEF Tasks

\* What the other tasks do leaves the handler where it is.
LEMMA OthersKeep ==
  ASSUME HttpOK, LedTyped', Observe,
         UNCHANGED <<hreq, outs, now, time, status>>,
         http' = http \/ (http = "off" /\ http' = "idle" /\ net' = "done"),
         net' # net => http = "off" \/ net = "done",
         net = "done" => net' = "done",
         stage'[Me] = stage[Me], req'[Me] = req[Me], ans'[Me] = ans[Me]
  PROVE  HttpOK'
  <1>1. effect' = IF http' \in {"off", "idle"} THEN "none" ELSE effect
    BY DEF Observe
  <1>2. HttpTyped'
    BY <1>1 DEF HttpOK, HttpTyped, Busy
  <1>3. CASE http \in Busy
    <2>1. http' = http /\ effect' = effect
      BY <1>1, <1>3 DEF Busy
    <2>2. HandlerInv'
      BY <2>1 DEF HttpOK, HandlerInv
    <2> QED
      BY <1>2, <2>2 DEF HttpOK
  <1>4. CASE http \in {"off", "idle"}
    <2>1. http' \in {"off", "idle"} /\ effect' = "none"
      BY <1>1, <1>4
    <2>2. outs' = <<>> /\ stage'[Me] = "idle"
      BY <1>4 DEF HttpOK, HandlerInv
    <2>3. HandlerInv'
      BY <2>1, <2>2 DEF HandlerInv, Busy
    <2> QED
      BY <1>2, <2>3 DEF HttpOK
  <1> QED
    BY <1>3, <1>4 DEF HttpOK, HttpTyped

\* led_rgb serves the handler's call.
LEMMA ServeKeeps ==
  ASSUME HttpOK, Serve(Me), Observe, UNCHANGED <<hvars, net>>
  PROVE  HttpOK'
  <1>1. LedTyped'
    BY ServeTyped, MeTask DEF HttpOK
  <1>2. /\ http = "called" /\ stage[Me] = "called" /\ stage'[Me] = "served"
        /\ req'[Me] = req[Me] /\ ans[Me] = "none" /\ effect = "none"
    BY MeTask DEF HttpOK, HandlerInv, LedTyped, Serve, Busy
  <1>3. UNCHANGED <<http, hreq, outs, now, time, status, net>>
    BY DEF hvars
  <1>4. effect' = ans'[Me]
    BY <1>2, <1>3 DEF Observe
  <1>5. ans'[Me] \in {"none", "ok", "invalid_state"}
    BY <1>1, MeTask DEF LedTyped
  <1>6. HttpTyped'
    BY <1>3, <1>4, <1>5 DEF HttpOK, HttpTyped
  <1>7. ans'[Me] = "none" <=> hreq.method = "GET"
    <2>1. CASE hreq.method = "GET"
      <3>1. req[Me].kind = "get"
        <4>1. req[Me] = GetOutput(LedAfter(hreq, Len(outs)), now)
          BY <1>2, <2>1 DEF HttpOK, HandlerInv
        <4>2. \A i, n : GetOutput(i, n).kind = "get"
          BY DEF GetOutput
        <4> QED
          BY <4>1, <4>2
      <3> QED
        BY <1>2, <2>1, <3>1 DEF Serve, ServeState, ServeSet, ServeClear, ServeRead
    <2>2. CASE hreq.method # "GET"
      <3>1. req[Me].kind \in {"set", "clear"}
        BY <1>2, <2>2, AskedTyped DEF HttpOK, HandlerInv, Busy
      <3>2. ans'[Me] \in {"ok", "invalid_state"}
        BY <3>1, MeTask DEF Serve, ServeState, ServeSet, ServeClear, ServeRead, HttpOK, LedTyped
      <3> QED
        BY <2>2, <3>2
    <2> QED
      BY <2>1, <2>2
  <1>8. HandlerInv'
    BY <1>2, <1>3, <1>4, <1>7 DEF HttpOK, HandlerInv, Busy
  <1> QED
    BY <1>1, <1>6, <1>8 DEF HttpOK

\* An answer without a call.
LEMMA AnswerKeeps ==
  ASSUME HttpOK, http \in Busy \ {"called"}, NEW code \in {200, 400, 404, 409, 500}, Answer(code),
         Observe, UNCHANGED <<hreq, outs, now, avars, net>>,
         time' \in [iso : Nat, synced : BOOLEAN, epoch : Nat]
  PROVE  HttpOK'
  <1>1. http' = "answered" /\ status' = code /\ UNCHANGED <<stage, ans, req>>
    BY DEF Answer, avars
  <1>2. effect' = effect
    BY <1>1 DEF Observe
  <1>3. LedTyped'
    BY LedSame DEF HttpOK
  <1>4. HttpTyped'
    BY <1>1, <1>2 DEF HttpOK, HttpTyped, Busy
  <1>5. HandlerInv'
    BY <1>1, <1>2 DEF HttpOK, HandlerInv, Busy
  <1> QED
    BY <1>3, <1>4, <1>5 DEF HttpOK

\* An error answer.
LEMMA RefuseKeeps ==
  ASSUME HttpOK, http = "handle", NEW code \in {200, 400, 404, 409, 500}, Refuse(code),
         Observe, UNCHANGED net
  PROVE  HttpOK'
  <1>1. time \in [iso : Nat, synced : BOOLEAN, epoch : Nat]
    BY DEF HttpOK, HttpTyped
  <1> QED
    BY <1>1, AnswerKeeps DEF Refuse, Busy

\* A call that the request asks for.
LEMMA CallKeeps ==
  ASSUME HttpOK, http = "handle", NEW c, Asked(hreq, c), hreq.method # "GET", CallLed(c),
         Observe, UNCHANGED net
  PROVE  HttpOK'
  <1>1. hreq \in HttpRequests /\ c \in AnyCall
    BY AskedTyped DEF HttpOK, HandlerInv, Busy
  <1>2. CASE ~ArgsValid(c)
    <2>1. Answer(400) /\ UNCHANGED <<hreq, outs, now, time, avars, net>>
      BY <1>2 DEF CallLed
    <2>2. time \in [iso : Nat, synced : BOOLEAN, epoch : Nat]
      BY DEF HttpOK, HttpTyped
    <2> QED
      BY <2>1, <2>2, AnswerKeeps DEF Busy
  <1>3. CASE ArgsValid(c)
    <2>1. /\ AInvoke(Me, c) /\ http' = "called"
          /\ UNCHANGED <<hreq, outs, now, time, status>>
      BY <1>3 DEF CallLed
    <2>2. LedTyped'
      BY <1>1, <2>1, InvokeTyped, MeTask DEF HttpOK
    <2>3. stage'[Me] = "called" /\ req'[Me] = c /\ ans' = ans
      BY <2>1, MeTask DEF AInvoke, HttpOK, LedTyped
    <2>4. effect' = effect
      BY <2>1, <2>3 DEF Observe
    <2>5. HttpTyped'
      BY <2>1, <2>4 DEF HttpOK, HttpTyped, Busy
    <2>6. HandlerInv'
      BY <2>1, <2>3, <2>4 DEF HttpOK, HandlerInv, Busy
    <2> QED
      BY <2>2, <2>5, <2>6 DEF HttpOK
  <1> QED
    BY <1>2, <1>3

-----------------------------------------------------------------------------
\* One step of each handler.

\* The numbers the handler and the documents know an LED by.
LEMMA Known ==
  ASSUME HttpOK, http \in Busy
  PROVE  /\ KnownLed <=> hreq.id \in Leds
         /\ KnownLed => LedId = hreq.id
  <1>1. hreq.id \in Int
    BY RequestFacts DEF HttpOK, HandlerInv
  <1>2. \A i \in Int : i \in 0 .. MaxId /\ i < LedCount <=> i \in Leds
    <2>1. MaxId \in Nat
      BY DEF MaxId
    <2> QED
      BY <2>1, ConstTypes, MeTask
  <1>3. \A i \in Leds : i % 65536 = i
    <2>1. \A i \in Int : 0 <= i /\ i < 1024 => i % 65536 = i
      OBVIOUS
    <2>2. LedCount <= 1024
      BY HttpAssumption DEF MaxLeds
    <2> QED
      BY <2>1, <2>2, ConstTypes
  <1> QED
    BY <1>1, <1>2, <1>3 DEF KnownLed, LedId

\* PUT /api/led/{id}.
LEMMA PutOneKeeps ==
  ASSUME HttpOK, PutOne, Observe, UNCHANGED net
  PROVE  HttpOK'
  <1>1. /\ http = "handle" /\ hreq.method = "PUT" /\ hreq.uri = "/api/led/{id}"
        /\ hreq.id \in Leds /\ LedId = hreq.id
    BY Known DEF PutOne, At, Busy
  <1> DEFINE body == ReadBody(BodyMax)
  <1>2. CASE LedValid(body) /\ ~NoMemory
    <2>1. body = hreq.body
      BY <1>2, BodyRead, BrokenRefused
    <2>2. CallLed(SetCustom(hreq.id, ColorOf(hreq.body), BlinkOf(hreq.body)))
      BY <1>1, <1>2, <2>1 DEF PutOne
    <2>3. Asked(hreq, SetCustom(hreq.id, ColorOf(hreq.body), BlinkOf(hreq.body)))
      BY <1>1, <1>2, <2>1 DEF Asked
    <2> QED
      BY <1>1, <2>2, <2>3, CallKeeps
  <1>3. CASE ~LedValid(body) \/ NoMemory
    <2>1. Refuse(400)
      BY <1>3 DEF PutOne
    <2>2. http = "handle"
      BY <1>1
    <2> HIDE DEF body
    <2> QED
      BY <2>1, <2>2, RefuseKeeps
  <1> QED
    BY <1>2, <1>3

\* DELETE /api/led/{id}.
LEMMA DeleteOneKeeps ==
  ASSUME HttpOK, DeleteOne, Observe, UNCHANGED net
  PROVE  HttpOK'
  <1>1. /\ http = "handle" /\ hreq.method = "DELETE" /\ hreq.uri = "/api/led/{id}"
        /\ hreq.id \in Leds /\ LedId = hreq.id
    BY Known DEF DeleteOne, At, Busy
  <1>2. CallLed(ClearCustom(hreq.id)) /\ Asked(hreq, ClearCustom(hreq.id))
    BY <1>1 DEF DeleteOne, Asked
  <1> QED
    BY <1>1, <1>2, CallKeeps

\* PUT /api/led.
LEMMA PutAllKeeps ==
  ASSUME HttpOK, PutAll, Observe, UNCHANGED net
  PROVE  HttpOK'
  <1> DEFINE body == ReadBody(LedCount * BodyMax)
  <1>1. http = "handle" /\ hreq.method = "PUT" /\ hreq.uri = "/api/led"
    BY DEF PutAll, At
  <1>2. \/ Refuse(500) \/ Refuse(400)
        \/ ManyValid(body) /\ CallLed(SetCustomMany(ManyOf(body)))
        \/ LedValid(body) /\ CallLed(SetCustomAll(ColorOf(body), BlinkOf(body)))
    BY DEF PutAll
  <1>3. ManyValid(body) \/ LedValid(body) => body = hreq.body
    BY BodyRead, BrokenRefused
  <1>4. ManyValid(body) => Asked(hreq, SetCustomMany(ManyOf(body)))
    BY <1>1, <1>3 DEF Asked
  <1>5. LedValid(body) => Asked(hreq, SetCustomAll(ColorOf(body), BlinkOf(body)))
    BY <1>1, <1>3 DEF Asked
  <1> HIDE DEF body
  <1> QED
    BY <1>1, <1>2, <1>4, <1>5, CallKeeps, RefuseKeeps

\* DELETE /api/led.
LEMMA DeleteAllKeeps ==
  ASSUME HttpOK, DeleteAll, Observe, UNCHANGED net
  PROVE  HttpOK'
  <1> DEFINE body == ReadBody(BodyMax)
  <1>1. http = "handle" /\ hreq.method = "DELETE" /\ hreq.uri = "/api/led"
    BY DEF DeleteAll, At
  <1>2. \/ Refuse(500) \/ Refuse(400)
        \/ hreq.size = 0 /\ CallLed(ClearCustomAll)
        \/ hreq.size # 0 /\ IdsValid(body) /\ CallLed(IdsCall(IdsOf(body)))
    BY DEF DeleteAll
  <1>3. IdsValid(body) => body = hreq.body
    BY BodyRead, BrokenRefused
  <1>4. hreq.size = 0 => Asked(hreq, ClearCustomAll)
    BY <1>1 DEF Asked
  <1>5. hreq.size # 0 /\ IdsValid(body) => Asked(hreq, IdsCall(IdsOf(body)))
    BY <1>1, <1>3 DEF Asked
  <1> HIDE DEF body
  <1> QED
    BY <1>1, <1>2, <1>4, <1>5, CallKeeps, RefuseKeeps

\* A setter or a clearer returns.
LEMMA FinishedKeeps ==
  ASSUME HttpOK, Finished, Observe, UNCHANGED net
  PROVE  HttpOK'
  <1>1. /\ http' = "answered" /\ status' = LedStatus /\ Return(Me)
        /\ UNCHANGED <<hreq, outs, now, time>>
    BY DEF Finished, Answer
  <1>2. LedTyped'
    BY <1>1, ReturnTyped, MeTask DEF HttpOK
  <1>3. stage'[Me] = "idle" /\ ans'[Me] = "none"
    BY <1>1, MeTask DEF Return, HttpOK, LedTyped
  <1>4. effect' = effect
    BY <1>1, <1>3 DEF Observe
  <1>5. LedStatus \in {200, 400, 409} /\ http = "called"
    BY DEF LedStatus, Finished
  <1>7. HttpTyped'
    BY <1>1, <1>4, <1>5 DEF HttpOK, HttpTyped, Busy
  <1>6. HandlerInv'
    BY <1>1, <1>3, <1>4 DEF HttpOK, HandlerInv, Finished, Busy
  <1> QED
    BY <1>2, <1>6, <1>7 DEF HttpOK

\* Nothing has been collected.
LEMMA NoneYet == ASSUME NEW s, s = <<>> PROVE Len(s) = 0
  OBVIOUS

\* A GET of LEDs starts with an empty answer and one reading of the clock.
LEMMA GetLedsKeeps ==
  ASSUME HttpOK, GetLeds, Observe, UNCHANGED net
  PROVE  HttpOK'
  <1>1. /\ http = "handle" /\ hreq.method = "GET" /\ http' = "next" /\ now' \in Times
        /\ UNCHANGED <<hreq, outs, time, status, avars>>
        /\ \/ hreq.uri = "/api/led"
           \/ hreq.uri = "/api/led/{id}" /\ hreq.id \in Leds
    BY Known DEF GetLeds, Collecting, Busy
  <1>2. outs = <<>> /\ Len(outs) < LedCount
    <2>1. outs = <<>>
      BY <1>1 DEF HttpOK, HandlerInv
    <2> QED
      BY <2>1, NoneYet, ConstTypes
  <1>3. effect' = effect
    BY <1>1 DEF Observe, avars
  <1>4. LedTyped'
    BY <1>1, LedSame DEF HttpOK
  <1>5. HttpTyped'
    <2>1. http' \in Busy /\ now' \in Times /\ net' = net /\ net = "done"
      BY <1>1 DEF HttpOK, HttpTyped, Busy
    <2>2. UNCHANGED <<hreq, outs, time, status>> /\ effect' = effect
      BY <1>1, <1>3
    <2> QED
      BY <2>1, <2>2 DEF HttpOK, HttpTyped
  <1>6. HandlerInv'
    BY <1>1, <1>2, <1>3 DEF HttpOK, HandlerInv, Busy, avars
  <1> QED
    BY <1>4, <1>5, <1>6 DEF HttpOK

\* The LED that is asked for.
LEMMA NextKnown ==
  ASSUME HttpOK, http \in {"next", "called"}, hreq.method = "GET"
  PROVE  LedAfter(hreq, Len(outs)) \in Leds
         /\ (NextLed = LedAfter(hreq, Len(outs)))
  <1>1. Len(outs) \in Nat
    BY DEF HttpOK, HttpTyped
  <1>2. LedAfter(hreq, Len(outs)) \in Leds
    <2>1. hreq.uri = "/api/led" => Len(outs) < LedCount
      BY DEF HttpOK, HandlerInv
    <2>2. hreq.uri # "/api/led" => hreq.id \in Leds
      BY DEF HttpOK, HandlerInv
    <2> QED
      BY <1>1, <2>1, <2>2, ConstTypes DEF LedAfter
  <1>3. NextLed = LedAfter(hreq, Len(outs))
    BY Known DEF LedAfter, NextLed, Collecting, HttpOK, HandlerInv, Busy
  <1> QED
    BY <1>2, <1>3

\* The next LED of a GET is asked for.
LEMMA FillLedKeeps ==
  ASSUME HttpOK, FillLed, Observe, UNCHANGED net
  PROVE  HttpOK'
  <1> DEFINE c == GetOutput(LedAfter(hreq, Len(outs)), now)
  <1>1. /\ http = "next" /\ hreq.method = "GET" /\ http' = "called"
        /\ UNCHANGED <<hreq, outs, now, time, status>>
        /\ AInvoke(Me, c)
    BY NextKnown DEF FillLed, HttpOK, HandlerInv
  <1>2. c \in AnyCall
    <2>1. now \in Nat /\ LedAfter(hreq, Len(outs)) \in Nat
      <3>1. LedAfter(hreq, Len(outs)) \in Leds /\ now \in Times
        BY <1>1, NextKnown DEF HttpOK, HandlerInv
      <3> QED
        BY <3>1, ConstTypes
    <2>2. \A i \in Nat, n \in Nat : GetOutput(i, n) \in AnyCall
      BY DEF GetOutput, AnyCall, Call
    <2> QED
      BY <2>1, <2>2
  <1> HIDE DEF c
  <1>3. LedTyped'
    BY <1>1, <1>2, InvokeTyped, MeTask DEF HttpOK
  <1>4. stage'[Me] = "called" /\ req'[Me] = c /\ ans' = ans
    BY <1>1, MeTask DEF AInvoke, HttpOK, LedTyped
  <1>5. effect' = effect
    BY <1>1, <1>4 DEF Observe
  <1>6. HttpTyped'
    BY <1>1, <1>5 DEF HttpOK, HttpTyped, Busy
  <1>7. HandlerInv'
    <2>1. req'[Me] = GetOutput(LedAfter(hreq, Len(outs)), now)
      BY <1>4 DEF c
    <2> QED
      BY <1>1, <2>1, <1>4, <1>5 DEF HttpOK, HandlerInv, Busy
  <1> QED
    BY <1>3, <1>6, <1>7 DEF HttpOK

\* The next LED of a GET has been resolved.
LEMMA FilledLedKeeps ==
  ASSUME HttpOK, FilledLed, Observe, UNCHANGED net
  PROVE  HttpOK'
  <1>1. /\ http = "called" /\ hreq.method = "GET" /\ Return(Me)
        /\ outs' = Append(outs, seen[Me][1])
        /\ UNCHANGED <<hreq, now, time>>
    BY DEF FilledLed
  <1>2. \/ http' = "next" /\ status' = status /\ hreq.uri = "/api/led" /\ Len(outs') < LedCount
        \/ http' = "answered" /\ status' \in {200, 500}
    BY DEF FilledLed, Answer, Collecting, More
  <1>3. LedTyped'
    BY <1>1, ReturnTyped, MeTask DEF HttpOK
  <1>4. stage'[Me] = "idle" /\ ans'[Me] = "none"
    BY <1>1, MeTask DEF Return, HttpOK, LedTyped
  <1>5. ans[Me] = "none" /\ effect = "none"
    BY <1>1 DEF HttpOK, HandlerInv, Return, Busy
  <1>6. effect' = effect
    BY <1>2, <1>4 DEF Observe
  <1>7. outs' \in Seq(Output) /\ Len(outs') = Len(outs) + 1 /\ Len(outs) < LedCount
    <2>1. seen[Me][1] \in Output
      BY MeTask, ConstTypes DEF HttpOK, LedTyped
    <2>2. Len(outs) < LedCount
      <3>1. CASE hreq.uri = "/api/led"
        BY <1>1, <3>1 DEF HttpOK, HandlerInv
      <3>2. CASE hreq.uri # "/api/led"
        <4>1. outs = <<>>
          BY <1>1, <3>2 DEF HttpOK, HandlerInv
        <4> QED
          BY <4>1, NoneYet, ConstTypes
      <3> QED
        BY <3>1, <3>2
    <2> QED
      BY <1>1, <2>1, <2>2 DEF HttpOK, HttpTyped
  <1>8. HttpTyped'
    <2>1. Len(outs') <= LedCount
      BY <1>7, ConstTypes DEF HttpOK, HttpTyped
    <2> QED
      BY <1>1, <1>2, <1>6, <1>7, <2>1 DEF HttpOK, HttpTyped, Busy
  <1>9. HandlerInv'
    BY <1>1, <1>2, <1>4, <1>5, <1>6 DEF HttpOK, HandlerInv, Busy
  <1> QED
    BY <1>3, <1>8, <1>9 DEF HttpOK

-----------------------------------------------------------------------------
\* The types.

\* A 404 for an LED that does not exist.
LEMMA UnknownLedKeeps ==
  ASSUME HttpOK, UnknownLed, Observe, UNCHANGED net
  PROVE  HttpOK'
  <1>1. http = "handle" /\ Refuse(404)
    BY DEF UnknownLed
  <1> QED
    BY <1>1, RefuseKeeps

\* A GET of all the LEDs finds no memory for them.
LEMMA GetAllNoMemoryKeeps ==
  ASSUME HttpOK, GetAllNoMemory, Observe, UNCHANGED net
  PROVE  HttpOK'
  BY RefuseKeeps DEF GetAllNoMemory, At

\* The steps of GET /api/time.
LEMMA TimeKeeps ==
  ASSUME HttpOK, clock \in Nat, synced \in BOOLEAN, TimeIso \/ TimeSynced \/ TimeEpoch,
         Observe, UNCHANGED net
  PROVE  HttpOK'
  <1>1. time' \in [iso : Nat, synced : BOOLEAN, epoch : Nat]
    <2>1. IsSynced \in BOOLEAN
      BY DEF IsSynced
    <2> QED
      BY <2>1 DEF HttpOK, HttpTyped, TimeIso, TimeSynced, TimeEpoch
  <1>2. CASE TimeEpoch
    <2>1. /\ http = "epoch?" /\ UNCHANGED <<hreq, outs, now, avars>>
          /\ Answer(200) \/ Answer(500)
      BY <1>2 DEF TimeEpoch
    <2> QED
      BY <1>1, <2>1, AnswerKeeps DEF Busy
  <1>3. CASE TimeIso \/ TimeSynced
    <2>1. /\ http \in {"handle", "synced?"} /\ http' \in {"synced?", "epoch?"}
          /\ hreq.uri = "/api/time" /\ UNCHANGED <<hreq, outs, now, status, avars>>
      BY <1>3 DEF TimeIso, TimeSynced, At, HttpOK, HandlerInv
    <2>2. LedTyped' /\ effect' = effect
      BY <2>1, LedSame DEF HttpOK, Observe, avars
    <2>3. HttpTyped'
      BY <1>1, <2>1, <2>2 DEF HttpOK, HttpTyped, Busy
    <2>4. HandlerInv'
      BY <2>1, <2>2 DEF HttpOK, HandlerInv, Busy, avars
    <2> QED
      BY <2>2, <2>3, <2>4 DEF HttpOK
  <1> QED
    BY <1>2, <1>3

\* The answer goes out.
LEMMA RespondKeeps ==
  ASSUME HttpOK, Respond, Observe, UNCHANGED net
  PROVE  HttpOK'
  <1>1. http = "answered" /\ http' = "idle" /\ Forgotten /\ UNCHANGED avars
    BY DEF Respond
  <1>2. LedTyped' /\ effect' = "none"
    BY <1>1, LedSame DEF HttpOK, Observe
  <1>3. outs' = <<>> /\ outs' \in Seq(Output) /\ Len(outs') = 0
    BY <1>1 DEF Forgotten
  <1>4. HttpTyped'
    BY <1>1, <1>2, <1>3, ConstTypes DEF Forgotten, NoTime, HttpOK, HttpTyped, Busy
  <1>5. HandlerInv'
    BY <1>1, <1>2, <1>3 DEF HttpOK, HandlerInv, Busy, avars
  <1> QED
    BY <1>2, <1>4, <1>5 DEF HttpOK

\* The server takes the next request.
LEMMA AcceptKeeps ==
  ASSUME HttpOK, NEW r \in HttpRequests, Accept(r), Observe, UNCHANGED net
  PROVE  HttpOK'
  <1>1. /\ http = "idle" /\ hreq' = r /\ UNCHANGED <<outs, now, time, avars>>
        /\ \/ Matched(r) /\ http' = "handle" /\ UNCHANGED status
           \/ http' = "answered" /\ status' = 404
    BY DEF Accept, Answer
  <1>2. effect = "none" /\ stage[Me] = "idle" /\ ans[Me] = "none" /\ outs = <<>>
    BY <1>1, MeTask DEF HttpOK, HandlerInv, LedTyped, Busy
  <1>3. LedTyped' /\ effect' = effect
    BY <1>1, LedSame DEF HttpOK, Observe, avars
  <1>4. HttpTyped'
    BY <1>1, <1>3 DEF HttpOK, HttpTyped, Busy
  <1>5. HandlerInv'
    BY <1>1, <1>2, <1>3 DEF HttpOK, HandlerInv, Busy, avars
  <1> QED
    BY <1>3, <1>4, <1>5 DEF HttpOK

\* The variables that the handler shares with the rest of the device.
RestTyped ==
    /\ clock \in {0} \cup ServerTimes /\ synced \in BOOLEAN /\ started \in BOOLEAN
    /\ sntp \in {"off", "running", "replied"}
    /\ net \in {"wait", "mdns", "names", "http", "done", "failed"}
    /\ up \in BOOLEAN /\ system \in Systems \cup {<<>>}
    /\ net = "names" => system \in Systems
    /\ touched \subseteq Leds /\ stepped \in BOOLEAN

\* The inductive invariant of the types.
TypeInv == HttpOK /\ RestTyped

\* A step of the HTTP task.
LEMMA HandlerKeeps ==
  ASSUME TypeInv, Handler, Observe, UNCHANGED net
  PROVE  HttpOK'
  <1>1. HttpOK /\ clock \in Nat /\ synced \in BOOLEAN
    BY TimeAssumption DEF TypeInv, RestTyped
  <1> QED
    BY <1>1, UnknownLedKeeps, PutOneKeeps, DeleteOneKeeps, PutAllKeeps, DeleteAllKeeps,
       FinishedKeeps, GetLedsKeeps, GetAllNoMemoryKeeps, FillLedKeeps, FilledLedKeeps,
       TimeKeeps, RespondKeeps DEF Handler

\* A step of another task, for led_rgb.
LEMMA ElsewhereKeeps ==
  ASSUME HttpOK, Observe, UNCHANGED <<hvars, net>>, NEW t \in Tasks, t # Me,
         \/ \E c \in AnyCall : AInvoke(t, c)
         \/ Serve(t)
         \/ Return(t)
  PROVE  HttpOK'
  <1>1. LedTyped'
    BY InvokeTyped, ServeTyped, ReturnTyped DEF HttpOK
  <1>2. stage'[Me] = stage[Me] /\ req'[Me] = req[Me] /\ ans'[Me] = ans[Me]
    <2>1. /\ stage \in [Tasks -> {"idle", "called", "served"}]
          /\ DOMAIN req = Tasks /\ DOMAIN ans = Tasks
      BY DEF HttpOK, LedTyped
    <2>2. CASE \E c \in AnyCall : AInvoke(t, c)
      BY <2>1, <2>2, MeTask DEF AInvoke, HttpOK, LedTyped
    <2>3. CASE Serve(t)
      BY <2>1, <2>3, MeTask DEF Serve, ServeState, ServeSet, ServeClear, ServeRead, HttpOK, LedTyped
    <2>4. CASE Return(t)
      BY <2>1, <2>4, MeTask DEF Return, HttpOK, LedTyped
    <2> QED
      BY <2>2, <2>3, <2>4
  <1>3. UNCHANGED <<http, hreq, outs, now, time, status>>
    BY DEF hvars
  <1> QED
    BY <1>1, <1>2, <1>3, OthersKeep

\* The kinds of steps, for led_rgb and for the handler.
LEMMA HttpOKStep ==
  ASSUME TypeInv, Next
  PROVE  HttpOK'
  <1>1. HttpOK /\ Observe
    BY DEF TypeInv, Next
  <1>2. CASE NetStep
    <2>1. UNCHANGED <<hreq, outs, now, time, status, avars>>
      BY <1>2 DEF NetStep, StartTime, StartMdns, MdnsStarted, StartHttp, NetRest
    <2>2. http' = http \/ (http = "off" /\ http' = "idle" /\ net' = "done")
      BY <1>1, <1>2 DEF NetStep, StartTime, StartMdns, MdnsStarted, StartHttp, HttpOK, HttpTyped
    <2>3. net # "done" /\ http = "off"
      BY <1>1, <1>2 DEF NetStep, StartTime, StartMdns, MdnsStarted, StartHttp, HttpOK, HttpTyped
    <2>4. LedTyped' /\ UNCHANGED <<stage, req, ans>>
      BY <1>1, <2>1, LedSame DEF HttpOK, avars
    <2> QED
      BY <1>1, <2>1, <2>2, <2>3, <2>4, OthersKeep
  <1>3. CASE Clients
    BY <1>1, <1>3, AcceptKeeps DEF Clients
  <1>4. CASE HttpStep
    BY <1>1, <1>4, HandlerKeeps DEF HttpStep
  <1>5. CASE SntpStep
    <2>1. UNCHANGED <<avars, hvars, net>>
      BY <1>5 DEF SntpStep
    <2>2. LedTyped' /\ UNCHANGED <<stage, req, ans>>
      BY <1>1, <2>1, LedSame DEF HttpOK, avars
    <2>3. UNCHANGED <<http, hreq, outs, now, time, status>>
      BY <2>1 DEF hvars
    <2> QED
      BY <1>1, <2>1, <2>2, <2>3, OthersKeep
  <1>6. ASSUME NEW t \in Callers, OtherCalls(t) PROVE HttpOK'
    <2>1. t # Me /\ UNCHANGED <<hvars, net>> /\ \E c \in Requests[t] : AInvoke(t, c)
      BY <1>6 DEF OtherCalls, Around
    <2>2. Requests[t] \subseteq AnyCall /\ t \in Tasks
      BY LedAssumption DEF AnyCall, Tasks
    <2> QED
      BY <1>1, <2>1, <2>2, ElsewhereKeeps
  <1>7. ASSUME NEW t \in Callers, LedStep(t) PROVE HttpOK'
    <2>1. Serve(t) /\ UNCHANGED <<hvars, net>> /\ t \in Tasks
      BY <1>7 DEF LedStep, Around, Tasks
    <2> QED
      BY <1>1, <2>1, ElsewhereKeeps, ServeKeeps
  <1>8. ASSUME NEW t \in Callers, OtherReturns(t) PROVE HttpOK'
    <2>1. t # Me /\ Return(t) /\ UNCHANGED <<hvars, net>> /\ t \in Tasks
      BY <1>8 DEF OtherReturns, Around, Tasks
    <2> QED
      BY <1>1, <2>1, ElsewhereKeeps
  <1> QED
    BY <1>2, <1>3, <1>4, <1>5, <1>6, <1>7, <1>8 DEF Next

\* The rest of the state.
LEMMA RestStep ==
  ASSUME TypeInv, Next
  PROVE  RestTyped'
  <1>1. touched' \subseteq Leds /\ stepped' \in BOOLEAN
    BY DEF TypeInv, RestTyped, Next, Observe, Changes
  <1>2. CASE NetStep
    BY <1>1, <1>2 DEF TypeInv, RestTyped, NetStep, StartTime, StartMdns, MdnsStarted, StartHttp,
                      NetRest, TimeSyncStart, tvars
  <1>3. CASE Clients \/ HttpStep
    BY <1>1, <1>3 DEF TypeInv, RestTyped, Clients, HttpStep, tvars
  <1>4. CASE SntpStep
    BY <1>1, <1>4 DEF TypeInv, RestTyped, SntpStep, SntpReply, OnSync
  <1>5. CASE \E t \in Callers : OtherCalls(t) \/ LedStep(t) \/ OtherReturns(t)
    <2>1. UNCHANGED <<tvars, net, system>> /\ up' \in BOOLEAN
      BY <1>5 DEF OtherCalls, LedStep, OtherReturns, Around, TypeInv, RestTyped
    <2> QED
      BY <1>1, <2>1 DEF TypeInv, RestTyped, tvars
  <1> QED
    BY <1>2, <1>3, <1>4, <1>5 DEF Next

\* Every step keeps the types.
LEMMA TypeStep ==
  ASSUME TypeInv, [Next]_vars
  PROVE  TypeInv'
  <1>1. CASE Next
    BY <1>1, HttpOKStep, RestStep DEF TypeInv
  <1>2. CASE UNCHANGED vars
    <2>1. UNCHANGED <<avars, tvars, hvars, history, net, up, system>>
      BY <1>2 DEF vars
    <2>2. LedTyped'
      BY <2>1, LedSame DEF TypeInv, HttpOK
    <2>3. HttpTyped'
      BY <2>1 DEF TypeInv, HttpOK, HttpTyped, hvars, history
    <2>4. HandlerInv'
      BY <2>1 DEF TypeInv, HttpOK, HandlerInv, hvars, history, avars
    <2>5. RestTyped'
      BY <2>1 DEF TypeInv, RestTyped, tvars, history
    <2> QED
      BY <2>2, <2>3, <2>4, <2>5 DEF TypeInv, HttpOK
  <1> QED
    BY <1>1, <1>2

\* The types hold when the device starts.
LEMMA TypeInit == Init => TypeInv
  <1> SUFFICES ASSUME Init PROVE TypeInv
    OBVIOUS
  <1>1. LedTyped
    <2>1. over \in [Leds -> Override] /\ auto \in AutoStates
      BY ConstTypes DEF Init, AInit, Override, Colors, AutoStates
    <2>2. NothingSeen \in [1 .. LedCount -> Output]
      BY ConstTypes DEF NothingSeen
    <2> QED
      BY <2>1, <2>2 DEF Init, AInit, LedTyped
  <1>2. HttpTyped
    <2>1. <<>> \in Seq(Output) /\ Len(<<>>) = 0
      OBVIOUS
    <2> QED
      BY <2>1, ConstTypes DEF Init, HInit, NoTime, HttpTyped, Busy
  <1>3. HandlerInv
    BY MeTask DEF Init, AInit, HInit, HandlerInv, Busy
  <1>4. RestTyped
    BY DEF Init, TInit, HInit, RestTyped
  <1> QED
    BY <1>1, <1>2, <1>3, <1>4 DEF TypeInv, HttpOK

\* The invariant is about all that TypeOK types.
LEMMA TypeImplies == TypeInv => TypeOK
  <1> SUFFICES ASSUME TypeInv PROVE TypeOK
    OBVIOUS
  <1>1. \A k \in DOMAIN outs : outs[k] \in Output
    BY DEF TypeInv, HttpOK, HttpTyped
  <1> QED
    BY <1>1 DEF TypeInv, HttpOK, LedTyped, HttpTyped, RestTyped, TypeOK, Override, Busy

\* The types and what the handler is waiting for, for every value of the
\* constants.
LEMMA TypeInvariance == Spec => []TypeInv
  BY TypeInit, TypeStep, PTL DEF Spec

\* Every variable of the server, of the clock and of led_rgb behind it keeps
\* its type, whatever is asked of the server.
THEOREM ServicesTypes == Spec => []TypeOK
  BY TypeInvariance, TypeImplies, PTL

-----------------------------------------------------------------------------
\* What a command does.

\* What cJSON's casts make of a number is what it says.
LEMMA CastSays ==
  ASSUME NEW v, IsNumber(v), v.halves \in Int
  PROVE  /\ Says(v, ValueInt(v))
         /\ v.halves >= 0 => \A n \in Int : Says(v, n) <=> Cast(v) = n
  <1> DEFINE h == v.halves
             q == h \div 2
             p == (-h) \div 2
  <1>1. q \in Int /\ (h = 2 * q \/ h = 2 * q + 1)
    BY Halved
  <1>2. p \in Int /\ (-h = 2 * p \/ -h = 2 * p + 1)
    <2>1. -h \in Int
      OBVIOUS
    <2> QED
      BY <2>1, Halved
  <1>3. ValueInt(v) = IF h < 0 THEN -p ELSE q
    BY DEF ValueInt
  <1>4. Cast(v) = q
    BY DEF Cast
  <1>5. \A n : Says(v, n) <=> IF h < 0 THEN 2 * n - h \in {0, 1} ELSE h - 2 * n \in {0, 1}
    BY DEF Says
  <1>6. h \in Int
    OBVIOUS
  <1> HIDE DEF h, p, q
  <1>7. h < 0 => 2 * (-p) - h \in {0, 1}
    BY <1>2, <1>6
  <1>8. h - 2 * q \in {0, 1} /\ \A n \in Int : h - 2 * n \in {0, 1} => q = n
    BY <1>1, <1>6
  <1>9. Says(v, ValueInt(v))
    BY <1>3, <1>5, <1>7, <1>8
  <1>10. ASSUME h >= 0, NEW n \in Int PROVE Says(v, n) <=> Cast(v) = n
    <2>1. ~(h < 0)
      BY <1>6, <1>10
    <2> QED
      BY <2>1, <1>4, <1>5, <1>8
  <1> QED
    BY <1>9, <1>10 DEF h

\* An LED that has taken a command shows it.
LEMMA CommandShown ==
  ASSUME NEW v, IsCommand(v), SingleValid(v)
  PROVE  Shows([active |-> TRUE, color |-> ColorOf(v), blink |-> BlinkOf(v)], v)
  <1> DEFINE o == [active |-> TRUE, color |-> ColorOf(v), blink |-> BlinkOf(v)]
  <1>1. o.active = TRUE /\ o.color = ColorOf(v) /\ o.blink = BlinkOf(v)
    OBVIOUS
  <1>2. ASSUME NEW k \in 1 .. 3
        PROVE  Says(Member(v, <<"r", "g", "b">>[k]), Rgb(o.color)[k])
    <2> DEFINE m == Member(v, <<"r", "g", "b">>[k])
    <2>1. <<"r", "g", "b">>[k] \in {"r", "g", "b"}
      OBVIOUS
    <2>2. IsNumber(m) /\ m.halves \in Int
      BY <2>1 DEF SingleValid, ChannelValid, IsCommand
    <2>3. Rgb(o.color)[k] = ValueInt(m)
      BY <1>1, CommandRead DEF BytesOf
    <2> HIDE DEF m, o
    <2>4. Says(m, Rgb(o.color)[k])
      BY <2>2, <2>3, CastSays
    <2> QED
      BY <2>4 DEF m
  <1>3. IF IsAbsent(Member(v, "blink_ms")) THEN o.blink = 0 ELSE Says(Member(v, "blink_ms"), o.blink)
    <2> DEFINE m == Member(v, "blink_ms")
    <2>1. CASE IsAbsent(m)
      BY <2>1, <1>1 DEF BlinkOf
    <2>2. CASE ~IsAbsent(m)
      <3>1. IsNumber(m) /\ m.halves \in Int /\ m.halves >= 0
        BY <2>2, ConstTypes DEF SingleValid, BlinkValid
      <3>2. o.blink = Cast(m) /\ Cast(m) \in Int
        BY <2>2, <1>1, CommandRead, ConstTypes DEF BlinkOf
      <3> HIDE DEF m, o
      <3>3. Says(m, o.blink)
        BY <3>1, <3>2, CastSays
      <3> QED
        BY <2>2, <3>3 DEF m
    <2> QED
      BY <2>1, <2>2
  <1> HIDE DEF o
  <1>4. Shows(o, v)
    BY <1>1, <1>2, <1>3 DEF Shows
  <1> QED
    BY <1>4 DEF o

\* The last command for an LED decides.
LEMMA OverriddenAt ==
  ASSUME NEW cmds, NEW n \in Nat, DOMAIN cmds = 1 .. n, NEW i \in Leds
  PROVE  LET ks == {k \in 1 .. n : cmds[k].id = i}
         IN  /\ ks = {} => Overridden(cmds)[i] = over[i]
             /\ \A m \in ks : (\A j \in ks : j <= m) =>
                   Overridden(cmds)[i] = [active |-> TRUE, color |-> cmds[m].color, blink |-> cmds[m].blink]
  <1> DEFINE ks == {k \in DOMAIN cmds : cmds[k].id = i}
             last == CHOOSE k \in ks : \A j \in ks : j <= k
  <1>1. Overridden(cmds)[i] =
          IF ks = {} THEN over[i]
          ELSE [active |-> TRUE, color |-> cmds[last].color, blink |-> cmds[last].blink]
    BY DEF Overridden
  <1>2. ASSUME NEW m \in ks, \A j \in ks : j <= m PROVE last = m
    <2>1. last \in ks /\ m <= last
      <3> HIDE DEF ks
      <3> QED
        BY <1>2
    <2>2. last <= m
      <3> HIDE DEF ks, last
      <3> QED
        BY <1>2, <2>1
    <2>3. last \in Int /\ m \in Int
      <3> HIDE DEF last
      <3> QED
        BY <2>1
    <2> HIDE DEF last, ks
    <2> QED
      BY <2>1, <2>2, <2>3
  <1>3. ks = {k \in 1 .. n : cmds[k].id = i}
    OBVIOUS
  <1> HIDE DEF last, ks
  <1> QED
    BY <1>1, <1>2, <1>3

\* The greatest of some of the first n naturals.
LEMMA MaxOf ==
  ASSUME NEW n \in Nat, NEW S \in SUBSET (0 .. n), S # {}
  PROVE  Max(S) \in S /\ \A k \in S : k <= Max(S)
  <1>1. PICK m \in S : \A k \in S : k <= m
    BY Greatest
  <1>2. \A k \in S : m >= k
    BY <1>1
  <1>3. Max(S) \in S /\ \A k \in S : Max(S) >= k
    BY <1>2 DEF Max
  <1> QED
    BY <1>3

\* Only led_rgb answers the handler.
LEMMA OnlyServed ==
  ASSUME TypeInv, Next, ans[Me] = "none", ans'[Me] = "ok"
  PROVE  Serve(Me) /\ UNCHANGED hvars
  <1>1. ans \in [Tasks -> {"none", "ok", "invalid_state"}]
    BY DEF TypeInv, HttpOK, LedTyped
  <1>2. ASSUME NEW t \in Tasks, Return(t) PROVE FALSE
    BY <1>1, <1>2, MeTask DEF Return
  <1>3. CASE NetStep \/ Clients \/ SntpStep
    BY <1>3 DEF NetStep, StartTime, StartMdns, MdnsStarted, StartHttp, NetRest, Clients, Accept,
                SntpStep, avars
  <1>4. CASE HttpStep
    <2>1. UNCHANGED ans \/ Return(Me)
      BY <1>4 DEF HttpStep, Handler, UnknownLed, PutOne, DeleteOne, PutAll, DeleteAll, Finished,
                  GetLeds, GetAllNoMemory, FillLed, FilledLed, TimeIso, TimeSynced, TimeEpoch,
                  Respond, Refuse, CallLed, AInvoke, avars
    <2> QED
      BY <2>1, <1>2, MeTask
  <1>5. ASSUME NEW t \in Callers, OtherCalls(t) \/ LedStep(t) \/ OtherReturns(t)
        PROVE  Serve(Me) /\ UNCHANGED hvars
    <2>1. t \in Tasks
      BY DEF Tasks
    <2>2. CASE OtherCalls(t)
      BY <2>2 DEF OtherCalls, AInvoke
    <2>3. CASE OtherReturns(t)
      BY <2>1, <2>3, <1>2 DEF OtherReturns
    <2>4. CASE LedStep(t)
      <3>1. Serve(t) /\ UNCHANGED hvars
        BY <2>4 DEF LedStep, Around
      <3>2. t = Me
        BY <1>1, <2>1, <3>1, MeTask DEF Serve, ServeState, ServeSet, ServeClear, ServeRead
      <3> QED
        BY <3>1, <3>2
    <2> QED
      BY <1>5, <2>2, <2>3, <2>4
  <1> QED
    BY <1>3, <1>4, <1>5 DEF Next

-----------------------------------------------------------------------------
\* The effect of a request.

\* What the call of an accepted request does to LED i.
Done(i) ==
    IF ~Named(i) THEN over'[i] = over[i]
    ELSE IF hreq.method = "PUT" THEN Shows(over'[i], Command(i))
    ELSE ~over'[i].active

\* The ids of a list are what its numbers say.
LEMMA IdSays ==
  ASSUME NEW v, IdNumber(v), NEW i \in Leds
  PROVE  Says(v, i) <=> Cast(v) = i
  <1>1. IsNumber(v) /\ v.halves \in Int /\ v.halves >= 0 /\ i \in Int
    <2>1. MaxId \in Nat
      BY DEF MaxId
    <2> QED
      BY <2>1, ConstTypes DEF IdNumber
  <1> QED
    BY <1>1, CastSays

\* A batch of one command.
LEMMA OneOverridden ==
  ASSUME NEW cmds, DOMAIN cmds = {1}, NEW i \in Leds
  PROVE  Overridden(cmds)[i] =
           IF cmds[1].id = i
           THEN [active |-> TRUE, color |-> cmds[1].color, blink |-> cmds[1].blink] ELSE over[i]
  <1> DEFINE ks == {k \in DOMAIN cmds : cmds[k].id = i}
             last == CHOOSE k \in ks : \A j \in ks : j <= k
  <1>1. Overridden(cmds)[i] =
          IF ks = {} THEN over[i]
          ELSE [active |-> TRUE, color |-> cmds[last].color, blink |-> cmds[last].blink]
    BY DEF Overridden
  <1>2. CASE cmds[1].id = i
    <2>1. ks = {1}
      BY <1>2
    <2>2. last = 1
      <3> HIDE DEF ks
      <3> QED
        BY <2>1
    <2> HIDE DEF ks, last
    <2> QED
      BY <1>1, <1>2, <2>1, <2>2
  <1>3. CASE cmds[1].id # i
    <2>1. ks = {}
      BY <1>3
    <2> HIDE DEF ks, last
    <2> QED
      BY <1>1, <1>3, <2>1
  <1> QED
    BY <1>2, <1>3

\* A command for one LED.
LEMMA PutOneDone ==
  ASSUME hreq \in HttpRequests, One, hreq.method = "PUT", hreq.id \in Leds, LedValid(hreq.body),
         over' = Overridden(SetCustom(hreq.id, ColorOf(hreq.body), BlinkOf(hreq.body)).cmds),
         NEW i \in Leds
  PROVE  Done(i)
  <1> DEFINE cmd == [id |-> hreq.id, color |-> ColorOf(hreq.body), blink |-> BlinkOf(hreq.body)]
             cmds == <<cmd>>
  <1>1. over' = Overridden(cmds) /\ DOMAIN cmds = {1} /\ cmds[1] = cmd
    BY DEF SetCustom, SetCustomMany
  <1>2. cmd.id = hreq.id /\ cmd.color = ColorOf(hreq.body) /\ cmd.blink = BlinkOf(hreq.body)
    OBVIOUS
  <1> HIDE DEF cmd, cmds
  <1>3. Named(i) <=> hreq.id = i
    BY DEF Named
  <1>4. over'[i] = IF hreq.id = i
                   THEN [active |-> TRUE, color |-> ColorOf(hreq.body), blink |-> BlinkOf(hreq.body)]
                   ELSE over[i]
    BY <1>1, <1>2, OneOverridden
  <1>5. Command(i) = hreq.body
    BY DEF Command, LedValid, IsArray
  <1>6. IsCommand(hreq.body) /\ SingleValid(hreq.body)
    BY RequestFacts DEF LedValid
  <1> QED
    BY <1>3, <1>4, <1>5, <1>6, CommandShown DEF Done

\* One command for the whole chain.
LEMMA PutChainDone ==
  ASSUME hreq \in HttpRequests, ~One, hreq.method = "PUT", LedValid(hreq.body),
         over' = Overridden(SetCustomAll(ColorOf(hreq.body), BlinkOf(hreq.body)).cmds),
         NEW i \in Leds
  PROVE  Done(i)
  <1> DEFINE cmds == [k \in 1 .. LedCount |->
                        [id |-> k - 1, color |-> ColorOf(hreq.body), blink |-> BlinkOf(hreq.body)]]
  <1>1. over' = Overridden(cmds) /\ DOMAIN cmds = 1 .. LedCount
    BY DEF SetCustomAll, SetCustomMany
  <1>2. \A k \in 1 .. LedCount : /\ cmds[k].id = k - 1 /\ cmds[k].color = ColorOf(hreq.body)
                                 /\ cmds[k].blink = BlinkOf(hreq.body)
    OBVIOUS
  <1> HIDE DEF cmds
  <1>3. i + 1 \in 1 .. LedCount /\ (i + 1) - 1 = i
    BY ConstTypes
  <1>4. {k \in 1 .. LedCount : cmds[k].id = i} = {i + 1}
    <2>1. \A k \in 1 .. LedCount : k - 1 = i <=> k = i + 1
      BY ConstTypes
    <2> QED
      BY <1>2, <1>3, <2>1
  <1>5. Overridden(cmds)[i] = [active |-> TRUE, color |-> cmds[i + 1].color, blink |-> cmds[i + 1].blink]
    <2>1. i + 1 <= i + 1 /\ LedCount \in Nat
      BY ConstTypes
    <2> QED
      BY <2>1, <1>1, <1>4, OverriddenAt
  <1>6. over'[i] = [active |-> TRUE, color |-> ColorOf(hreq.body), blink |-> BlinkOf(hreq.body)]
    BY <1>1, <1>2, <1>3, <1>5
  <1>7. ~IsArray(hreq.body)
    BY DEF LedValid, IsArray
  <1>8. Named(i) /\ Command(i) = hreq.body
    BY <1>7 DEF Named, Command
  <1>9. IsCommand(hreq.body) /\ SingleValid(hreq.body)
    BY RequestFacts DEF LedValid
  <1> QED
    BY <1>6, <1>8, <1>9, CommandShown DEF Done

\* A list of commands: the last entry that names the LED.
LEMMA PutListDone ==
  ASSUME hreq \in HttpRequests, ~One, hreq.method = "PUT", ManyValid(hreq.body),
         over' = Overridden(SetCustomMany(ManyOf(hreq.body)).cmds), NEW i \in Leds
  PROVE  Done(i)
  <1> DEFINE items == hreq.body.items
             cmds == ManyOf(hreq.body)
             n == Len(items)
             ks == {k \in 1 .. n : cmds[k].id = i}
  <1>1. /\ IsArray(hreq.body) /\ n \in Nat /\ DOMAIN items = 1 .. n
        /\ \A k \in 1 .. n : IsCommand(items[k]) /\ EntryValid(items[k])
    <2>1. IsArray(hreq.body) /\ IsList(items)
      BY RequestFacts DEF ManyValid
    <2>2. n \in Nat /\ DOMAIN items = 1 .. n
      BY <2>1, ListFacts
    <2> QED
      BY <2>1, <2>2, RequestFacts DEF ManyValid
  <1>2. over' = Overridden(cmds) /\ DOMAIN cmds = 1 .. n
    BY <1>1 DEF ManyOf, SetCustomMany
  <1>3. ASSUME NEW k \in 1 .. n
        PROVE  /\ cmds[k].id = Cast(Member(items[k], "id")) /\ cmds[k].color = ColorOf(items[k])
               /\ cmds[k].blink = BlinkOf(items[k])
               /\ Says(Member(items[k], "id"), i) <=> cmds[k].id = i
    <2>1. cmds[k] = EntryOf(items[k])
      BY <1>1 DEF ManyOf
    <2>2. /\ cmds[k].id = Cast(Member(items[k], "id")) /\ cmds[k].color = ColorOf(items[k])
          /\ cmds[k].blink = BlinkOf(items[k])
      BY <2>1 DEF EntryOf
    <2>3. IdNumber(Member(items[k], "id"))
      BY <1>1 DEF EntryValid
    <2> QED
      BY <2>2, <2>3, IdSays
  <1> HIDE DEF cmds, items, n
  <1>4. Listed(items, i) = ks
    BY <1>1, <1>3 DEF Listed
  <1>5. Named(i) <=> ks # {}
    BY <1>1, <1>4 DEF Named, items
  <1>6. CASE ks = {}
    <2>1. over'[i] = over[i]
      BY <1>1, <1>2, <1>6, OverriddenAt
    <2> QED
      BY <2>1, <1>5, <1>6 DEF Done
  <1>7. CASE ks # {}
    <2>1. Max(ks) \in ks /\ \A k \in ks : k <= Max(ks)
      <3>1. ks \in SUBSET (0 .. n)
        BY <1>1
      <3> HIDE DEF ks
      <3> QED
        BY <1>1, <1>7, <3>1, MaxOf
    <2> DEFINE last == Max(ks)
    <2>2. Overridden(cmds)[i] = [active |-> TRUE, color |-> cmds[last].color, blink |-> cmds[last].blink]
      <3> HIDE DEF last
      <3> QED
        BY <1>1, <1>2, <2>1, OverriddenAt DEF last
    <2>3. last \in 1 .. n
      BY <2>1
    <2>4. over'[i] = [active |-> TRUE, color |-> ColorOf(items[last]), blink |-> BlinkOf(items[last])]
      BY <2>2, <2>3, <1>2, <1>3
    <2>5. Command(i) = items[last]
      BY <1>1, <1>4 DEF Command, items
    <2>6. IsCommand(items[last]) /\ SingleValid(items[last])
      BY <1>1, <2>3 DEF EntryValid
    <2> HIDE DEF last
    <2>7. Shows(over'[i], items[last])
      BY <2>4, <2>6, CommandShown
    <2> QED
      BY <2>5, <2>7, <1>5, <1>7 DEF Done
  <1> QED
    BY <1>6, <1>7

\* A clearing touches the LEDs it lists.
LEMMA ClearedDone ==
  ASSUME over \in [Leds -> Override], hreq.method = "DELETE", NEW ids, over' = Cleared(ids),
         NEW i \in Leds, Named(i) <=> \E k \in DOMAIN ids : ids[k] = i
  PROVE  Done(i)
  <1>1. over'[i] = IF Named(i) THEN [over[i] EXCEPT !.active = FALSE] ELSE over[i]
    BY ClearedTyped
  <1>2. ~[over[i] EXCEPT !.active = FALSE].active
    BY DEF Override
  <1> QED
    BY <1>1, <1>2 DEF Done

\* Every LED is among all of them.
LEMMA AllNamed ==
  ASSUME NEW i \in Leds
  PROVE  \E k \in DOMAIN AllIds : AllIds[k] = i
  <1>1. i + 1 \in 1 .. LedCount /\ (i + 1) - 1 = i
    BY ConstTypes
  <1> QED
    BY <1>1 DEF AllIds

\* The three ways to clear.
LEMMA DeleteDone ==
  ASSUME hreq \in HttpRequests, hreq.method = "DELETE", Asked(hreq, req[Me]),
         over \in [Leds -> Override], over' = Cleared(req[Me].ids), NEW i \in Leds
  PROVE  Done(i)
  <1>1. CASE One /\ req[Me] = ClearCustom(hreq.id)
    <2>1. req[Me].ids = <<hreq.id>>
      BY <1>1 DEF ClearCustom, ClearCustomMany
    <2>2. DOMAIN <<hreq.id>> = {1} /\ <<hreq.id>>[1] = hreq.id
      OBVIOUS
    <2>3. Named(i) <=> hreq.id = i
      BY <1>1 DEF Named
    <2> QED
      BY <2>1, <2>2, <2>3, ClearedDone
  <1>2. CASE ~One /\ hreq.size = 0 /\ req[Me] = ClearCustomAll
    <2>1. req[Me].ids = AllIds
      BY <1>2 DEF ClearCustomAll, ClearCustomMany
    <2>2. Named(i)
      BY <1>2 DEF Named
    <2> QED
      BY <2>1, <2>2, AllNamed, ClearedDone
  <1>3. CASE ~One /\ hreq.size # 0 /\ IdsValid(hreq.body) /\ req[Me] = IdsCall(IdsOf(hreq.body))
    <2>1. CASE IsAbsent(Ids)
      <3>1. IdsOf(hreq.body) = <<>>
        BY <2>1 DEF IdsOf, Ids
      <3>2. req[Me].ids = AllIds
        BY <1>3, <3>1 DEF IdsCall, ClearCustomAll, ClearCustomMany
      <3>3. Named(i)
        BY <1>3, <2>1 DEF Named, IsAbsent, IsArray
      <3> QED
        BY <3>2, <3>3, AllNamed, ClearedDone
    <2>2. CASE ~IsAbsent(Ids)
      <3> DEFINE items == Ids.items
                 n == Len(items)
                 ids == IdsOf(hreq.body)
      <3>1. IsArray(Ids) /\ \A k \in DOMAIN items : IdNumber(items[k])
        BY <1>3, <2>2 DEF IdsValid, Ids
      <3>2. n \in Nat /\ DOMAIN items = 1 .. n /\ (items = <<>> <=> n = 0)
        <4>1. IsList(items)
          BY <3>1, RequestFacts DEF Ids
        <4> QED
          BY <4>1, ListFacts
      <3>3. ids = [k \in DOMAIN items |-> Cast(items[k])]
        BY <2>2 DEF IdsOf, Ids
      <3>4. Named(i) <=> items = <<>> \/ \E k \in DOMAIN items : Says(items[k], i)
        BY <1>3, <3>1 DEF Named
      <3>5. \A k \in DOMAIN items : Says(items[k], i) <=> Cast(items[k]) = i
        BY <3>1, IdSays
      <3> HIDE DEF items, n, ids
      <3>6. CASE items = <<>>
        <4>1. ids = <<>>
          BY <3>2, <3>3, <3>6
        <4>2. req[Me].ids = AllIds
          BY <1>3, <4>1 DEF ids, IdsCall, ClearCustomAll, ClearCustomMany
        <4> QED
          BY <4>2, <3>4, <3>6, AllNamed, ClearedDone
      <3>7. CASE items # <<>>
        <4>1. 1 \in DOMAIN ids
          BY <3>2, <3>3, <3>7
        <4>2. ids # <<>>
          BY <4>1
        <4>3. req[Me].ids = ids
          BY <1>3, <4>2 DEF ids, IdsCall, ClearCustomMany
        <4>4. Named(i) <=> \E k \in DOMAIN ids : ids[k] = i
          BY <3>3, <3>4, <3>5, <3>7
        <4> QED
          BY <4>3, <4>4, ClearedDone
      <3> QED
        BY <3>6, <3>7
    <2> QED
      BY <2>1, <2>2
  <1> QED
    BY <1>1, <1>2, <1>3 DEF Asked, One

\* A step that answers 200 to a PUT or DELETE has done what the request says.
LEMMA EffectStep ==
  ASSUME TypeInv, Next, ans[Me] = "none", ans'[Me] = "ok"
  PROVE  /\ auto' = auto
         /\ hreq.method = "PUT" => auto = "connected"
         /\ \A i \in Leds : Done(i)
  <1>1. Serve(Me) /\ UNCHANGED hvars
    BY OnlyServed
  <1>2. http = "called" /\ hreq \in HttpRequests /\ over \in [Leds -> Override]
    BY <1>1, MeTask DEF TypeInv, HttpOK, HandlerInv, LedTyped, Serve, Busy
  <1>3. hreq.method # "GET"
    <2>1. ASSUME hreq.method = "GET" PROVE FALSE
      <3>1. req[Me] = GetOutput(LedAfter(hreq, Len(outs)), now)
        BY <1>2, <2>1 DEF TypeInv, HttpOK, HandlerInv
      <3>2. \A j, m : GetOutput(j, m).kind = "get"
        BY DEF GetOutput
      <3>3. req[Me].kind = "get"
        BY <3>1, <3>2
      <3> QED
        BY <1>1, <3>3 DEF Serve, ServeState, ServeSet, ServeClear, ServeRead
    <2> QED
      BY <2>1
  <1>4. Asked(hreq, req[Me])
    BY <1>2, <1>3 DEF TypeInv, HttpOK, HandlerInv
  <1>5. req[Me].kind \in {"set", "clear"} /\ (req[Me].kind = "set" <=> hreq.method = "PUT")
    BY <1>2, <1>4, AskedTyped
  <1>6. CASE hreq.method = "PUT"
    <2>1. ServeSet(Me)
      BY <1>1, <1>5, <1>6 DEF Serve, ServeState, ServeClear, ServeRead
    <2>2. auto = "connected"
      BY <2>1, MeTask DEF ServeSet, TypeInv, HttpOK, LedTyped
    <2>3. over' = Overridden(req[Me].cmds) /\ auto' = auto
      BY <2>1, <2>2 DEF ServeSet
    <2>4. ASSUME NEW i \in Leds PROVE Done(i)
      BY <1>2, <1>4, <1>6, <2>3, PutOneDone, PutChainDone, PutListDone DEF Asked, One
    <2> QED
      BY <1>6, <2>2, <2>3, <2>4
  <1>7. CASE hreq.method # "PUT"
    <2>1. ServeClear(Me) /\ hreq.method = "DELETE"
      BY <1>1, <1>2, <1>3, <1>5, <1>7, RequestFacts DEF Serve, ServeState, ServeSet, ServeRead
    <2>2. over' = Cleared(req[Me].ids) /\ auto' = auto
      BY <2>1 DEF ServeClear
    <2> QED
      BY <1>2, <1>4, <1>7, <2>1, <2>2, DeleteDone
  <1> QED
    BY <1>6, <1>7

\* A PUT or DELETE that led_rgb accepts changes exactly the overrides that the
\* request names, to what its numbers say.
THEOREM ServicesEffect == Spec => EffectAsAsked
  <1>1. TypeInv /\ [Next]_vars =>
          [ans[Me] = "none" /\ ans'[Me] = "ok" =>
              /\ auto' = auto
              /\ hreq.method = "PUT" => auto = "connected"
              /\ \A i \in Leds :
                     IF ~Named(i) THEN over'[i] = over[i]
                     ELSE IF hreq.method = "PUT" THEN Shows(over'[i], Command(i))
                     ELSE ~over'[i].active]_vars
    BY EffectStep DEF Done
  <1> QED
    BY <1>1, TypeInvariance, PTL DEF Spec, EffectAsAsked

-----------------------------------------------------------------------------
\* The time answer.

\* The time answer, as far as it is filled: its first form is the clock's time
\* unless that has been stepped, and the flag is only set for a real time.
TimeInv ==
    /\ http \notin {"epoch?", "answered"} => ~time.synced
    /\ http \in {"synced?", "epoch?"} /\ ~stepped => time.iso = clock
    /\ http = "epoch?" /\ time.synced /\ ~stepped => clock >= ValidEpoch
    /\ SyncedTimeIsReal

\* Every step but those of GET /api/time and SNTP's.
LEMMA TimeApart ==
  ASSUME TypeInv, TimeInv, Observe, UNCHANGED <<clock, time>>,
         http' = http \/ (http \notin {"epoch?", "answered"} /\ http' \notin {"synced?", "epoch?"})
  PROVE  TimeInv'
  <1>1. stepped' = (http' \notin {"off", "idle"} /\ stepped)
    BY DEF Observe, TypeInv, RestTyped
  <1>2. CASE http' = http
    BY <1>1, <1>2 DEF TimeInv, SyncedTimeIsReal
  <1>3. CASE http \notin {"epoch?", "answered"} /\ http' \notin {"synced?", "epoch?"}
    BY <1>1, <1>3 DEF TimeInv, SyncedTimeIsReal
  <1> QED
    BY <1>2, <1>3

\* The steps of GET /api/time and the answer's end.
LEMMA TimeRead ==
  ASSUME TypeInv, TimeInv, Observe, UNCHANGED clock,
         TimeIso \/ TimeSynced \/ TimeEpoch \/ Respond
  PROVE  TimeInv'
  <1>1. stepped' = (http' \notin {"off", "idle"} /\ stepped)
    BY DEF Observe, TypeInv, RestTyped
  <1>2. time \in [iso : Nat, synced : BOOLEAN, epoch : Nat] /\ clock \in Nat
    BY TimeAssumption DEF TypeInv, HttpOK, HttpTyped, RestTyped
  <1>3. CASE TimeIso
    BY <1>1, <1>2, <1>3 DEF TimeIso, At, TimeInv, SyncedTimeIsReal
  <1>4. CASE TimeSynced
    BY <1>1, <1>2, <1>4 DEF TimeSynced, IsSynced, TimeInv, SyncedTimeIsReal
  <1>5. CASE TimeEpoch
    BY <1>1, <1>2, <1>5 DEF TimeEpoch, Answer, TimeInv, SyncedTimeIsReal
  <1>6. CASE Respond
    BY <1>1, <1>6 DEF Respond, Forgotten, NoTime, TimeInv, SyncedTimeIsReal
  <1> QED
    BY <1>3, <1>4, <1>5, <1>6

\* SNTP steps the clock, which the history notes while a request is handled.
LEMMA TimeStepped ==
  ASSUME TypeInv, TimeInv, Observe, SntpStep
  PROVE  TimeInv'
  <1>1. UNCHANGED <<http, time>>
    BY DEF SntpStep, hvars
  <1>2. stepped' = (http \notin {"off", "idle"} /\ (stepped \/ clock' # clock))
    BY <1>1 DEF Observe, TypeInv, RestTyped
  <1> QED
    BY <1>1, <1>2 DEF TimeInv, SyncedTimeIsReal

\* Every step keeps the time invariant.
LEMMA TimeStep ==
  ASSUME TypeInv, TimeInv, [Next]_vars
  PROVE  TimeInv'
  <1>1. CASE UNCHANGED vars
    BY <1>1 DEF vars, hvars, tvars, history, TimeInv, SyncedTimeIsReal
  <1>2. ASSUME Observe, UNCHANGED <<clock, time>>,
               http' = http \/ (http \notin {"epoch?", "answered"} /\ http' \notin {"synced?", "epoch?"})
        PROVE  TimeInv'
    BY <1>2, TimeApart
  <1>3. CASE Next /\ NetStep
    <2>1. http = "off" \/ http' = http
      BY <1>3 DEF NetStep, StartTime, StartMdns, MdnsStarted, StartHttp, TypeInv, HttpOK, HttpTyped
    <2>2. http' = http \/ http' \in {"off", "idle"}
      BY <1>3 DEF NetStep, StartTime, StartMdns, MdnsStarted, StartHttp
    <2>3. UNCHANGED <<clock, time>>
      BY <1>3 DEF NetStep, StartTime, StartMdns, MdnsStarted, StartHttp, NetRest, TimeSyncStart, tvars
    <2> QED
      BY <1>2, <1>3, <2>1, <2>2, <2>3 DEF Next
  <1>4. CASE Next /\ Clients
    BY <1>2, <1>4 DEF Clients, Accept, Answer, tvars, Next
  <1>5. CASE Next /\ HttpStep
    <2>1. CASE TimeIso \/ TimeSynced \/ TimeEpoch \/ Respond
      BY <1>5, <2>1, TimeRead DEF HttpStep, tvars, Next
    <2>2. CASE ~(TimeIso \/ TimeSynced \/ TimeEpoch \/ Respond)
      <3>1. /\ UNCHANGED time /\ http \notin {"epoch?", "answered"}
            /\ http' \notin {"synced?", "epoch?"}
        BY <1>5, <2>2 DEF HttpStep, Handler, UnknownLed, PutOne, DeleteOne, PutAll, DeleteAll,
             Finished, GetLeds, GetAllNoMemory, FillLed, FilledLed, At, Refuse, Answer, CallLed
      <3> QED
        BY <1>2, <1>5, <3>1 DEF HttpStep, tvars, Next
    <2> QED
      BY <2>1, <2>2
  <1>6. CASE Next /\ SntpStep
    BY <1>6, TimeStepped DEF Next
  <1>7. CASE Next /\ \E t \in Callers : OtherCalls(t) \/ LedStep(t) \/ OtherReturns(t)
    <2>1. UNCHANGED <<tvars, hvars>>
      BY <1>7 DEF OtherCalls, LedStep, OtherReturns, Around
    <2> QED
      BY <1>2, <1>7, <2>1 DEF Next, tvars, hvars
  <1> QED
    BY <1>1, <1>3, <1>4, <1>5, <1>6, <1>7 DEF Next

\* No time has been answered yet.
LEMMA TimeInit == Init => TimeInv
  BY DEF Init, HInit, NoTime, TimeInv, SyncedTimeIsReal

\* GET /api/time never says synchronized with a time from before SNTP's step.
THEOREM ServicesTime == Spec => []SyncedTimeIsReal
  <1>1. TimeInv => SyncedTimeIsReal
    BY DEF TimeInv
  <1> QED
    BY <1>1, TimeInit, TimeStep, TypeInvariance, PTL DEF Spec

-----------------------------------------------------------------------------
\* The answer to a GET of the LEDs.

\* The output shown for an LED is what it is now, unless a task has since
\* changed it.
AsItIs(i, o) == i \in touched \/ o = Resolved(auto, over[i], now)

\* A GET is collecting LEDs.
Reading == http \in {"next", "called"} /\ hreq.method = "GET"

\* A GET of LEDs has its answer.
Read == /\ http = "answered" /\ hreq.method = "GET" /\ status = 200 /\ hreq.uri # "/api/time"

\* The LEDs that a GET has resolved so far, and the one that led_rgb has just
\* resolved for it, are as they are.
ShownInv ==
    /\ Reading \/ Read => \A k \in DOMAIN outs : /\ LedAfter(hreq, k - 1) \in Leds
                                                 /\ AsItIs(LedAfter(hreq, k - 1), outs[k])
    /\ Reading /\ stage[Me] = "served" => AsItIs(LedAfter(hreq, Len(outs)), seen[Me][1])
    /\ Read => Len(outs) = IF One THEN 1 ELSE LedCount

\* What is collected when the answer is complete is the answer.
LEMMA ShownImplies == TypeInv /\ ShownInv => LedsAsTheyAre
  <1> SUFFICES ASSUME TypeInv, ShownInv, Read
               PROVE  /\ Len(outs) = IF One THEN 1 ELSE LedCount
                      /\ \A k \in DOMAIN outs :
                           LET i == IF One THEN hreq.id ELSE k - 1
                           IN  i \in touched \/ outs[k] = Resolved(auto, over[i], now)
    BY DEF LedsAsTheyAre, Read
  <1>1. hreq.uri \in {"/api/led", "/api/led/{id}"}
    BY RequestFacts DEF TypeInv, HttpOK, HandlerInv, Busy, Read
  <1>2. \A k : LedAfter(hreq, k - 1) = IF One THEN hreq.id ELSE k - 1
    BY <1>1 DEF LedAfter, One
  <1> QED
    BY <1>2 DEF ShownInv, AsItIs

\* What was as it is stays so, or is noted as changed.
LEMMA StaysAsItIs ==
  ASSUME Observe, http' \notin {"off", "idle"}, now' = now, NEW i \in Leds, NEW o, AsItIs(i, o)
  PROVE  i \in touched' \/ o = Resolved(auto', over'[i], now')
  BY DEF AsItIs, Observe, Changes

\* A step that leaves the handler where it is.
LEMMA ShownApart ==
  ASSUME TypeInv, ShownInv, Observe, UNCHANGED <<hreq, outs, now, status>>,
         http' = http \/ http' \in {"off", "idle"},
         stage'[Me] = stage[Me], seen'[Me] = seen[Me]
  PROVE  ShownInv'
  <1>1. CASE http' \in {"off", "idle"}
    BY <1>1 DEF ShownInv, Reading, Read
  <1>2. CASE http' = http /\ http \notin {"off", "idle"}
    <2>1. ASSUME Reading \/ Read, NEW k \in DOMAIN outs
          PROVE  /\ LedAfter(hreq, k - 1) \in Leds
                 /\ \/ LedAfter(hreq, k - 1) \in touched'
                    \/ outs[k] = Resolved(auto', over'[LedAfter(hreq, k - 1)], now')
      BY <1>2, <2>1, StaysAsItIs DEF ShownInv
    <2>2. ASSUME Reading, stage[Me] = "served"
          PROVE  \/ LedAfter(hreq, Len(outs)) \in touched'
                 \/ seen[Me][1] = Resolved(auto', over'[LedAfter(hreq, Len(outs))], now')
      <3>1. LedAfter(hreq, Len(outs)) \in Leds
        BY <2>2, NextKnown DEF TypeInv, Reading
      <3> QED
        BY <1>2, <2>2, <3>1, StaysAsItIs DEF ShownInv
    <2> QED
      BY <1>2, <2>1, <2>2 DEF ShownInv, AsItIs, Reading, Read, One
  <1> QED
    BY <1>1, <1>2

\* led_rgb resolves the LED for the handler.
LEMMA ShownServed ==
  ASSUME TypeInv, ShownInv, Observe, Serve(Me), UNCHANGED hvars
  PROVE  ShownInv'
  <1>1. UNCHANGED <<http, hreq, outs, now, status>>
    BY DEF hvars
  <1>2. http = "called"
    BY MeTask DEF TypeInv, HttpOK, HandlerInv, LedTyped, Serve, Busy
  <1>3. CASE hreq.method # "GET"
    BY <1>1, <1>2, <1>3 DEF ShownInv, Reading, Read
  <1>4. CASE hreq.method = "GET"
    <2> DEFINE id == LedAfter(hreq, Len(outs))
    <2>1. id \in Leds /\ req[Me] = GetOutput(id, now)
      BY <1>2, <1>4, NextKnown DEF TypeInv, HttpOK, HandlerInv
    <2> HIDE DEF id
    <2>2. /\ req[Me].kind = "get" /\ req[Me].ids = <<id>> /\ req[Me].now = now
          /\ Len(req[Me].ids) = 1 /\ req[Me].ids[1] = id
      BY <2>1 DEF GetOutput
    <2>3. UNCHANGED <<auto, over>> /\ seen'[Me][1] = Resolved(auto, over[id], now)
      <3>1. ServeRead(Me)
        BY <2>2 DEF Serve, ServeState, ServeSet, ServeClear
      <3>2. IdValid(id) /\ 1 \in 1 .. LedCount /\ ~(1 > Len(req[Me].ids))
        BY <2>1, <2>2, ConstTypes DEF IdValid
      <3>3. Me \in DOMAIN seen
        BY MeTask DEF TypeInv, HttpOK, LedTyped
      <3> QED
        BY <2>2, <3>1, <3>2, <3>3 DEF ServeRead
    <2>4. touched \subseteq touched'
      BY <1>1, <1>2 DEF Observe
    <2> QED
      BY <1>1, <1>2, <1>4, <2>3, <2>4 DEF ShownInv, Reading, Read, AsItIs, id
  <1> QED
    BY <1>3, <1>4

\* The handler takes the LED over.
LEMMA ShownFilled ==
  ASSUME TypeInv, ShownInv, Observe, FilledLed
  PROVE  ShownInv'
  <1>1. /\ http = "called" /\ hreq.method = "GET" /\ stage[Me] = "served"
        /\ UNCHANGED <<hreq, now, auto, over>> /\ outs' = Append(outs, seen[Me][1])
        /\ http' \in {"next", "answered"} /\ touched \subseteq touched'
    BY DEF FilledLed, Return, Answer, Observe
  <1>2. outs \in Seq(Output) /\ seen[Me][1] \in Output /\ Len(outs) \in Nat
    BY MeTask, ConstTypes DEF TypeInv, HttpOK, HttpTyped, LedTyped
  <1> DEFINE n == Len(outs)
  <1>3. /\ Len(outs') = n + 1 /\ DOMAIN outs' = 1 .. n + 1
        /\ \A k \in 1 .. n : k \in DOMAIN outs /\ outs'[k] = outs[k]
        /\ outs'[n + 1] = seen[Me][1]
    BY <1>1, <1>2
  <1>4. LedAfter(hreq, n) \in Leds
    BY <1>1, NextKnown DEF TypeInv
  <1>5. stage'[Me] = "idle"
    BY MeTask DEF FilledLed, Return, TypeInv, HttpOK, LedTyped
  <1>6. ASSUME NEW k \in DOMAIN outs'
        PROVE  /\ LedAfter(hreq, k - 1) \in Leds
               /\ AsItIs(LedAfter(hreq, k - 1), outs'[k])
    <2>1. CASE k = n + 1
      <3>1. k - 1 = n
        BY <1>2, <2>1
      <3> QED
        BY <1>1, <1>3, <1>4, <2>1, <3>1 DEF ShownInv, Reading
    <2>2. CASE k # n + 1
      <3>1. k \in 1 .. n
        BY <1>2, <1>3, <2>2
      <3> QED
        BY <1>1, <1>3, <3>1 DEF ShownInv, Reading
    <2> QED
      BY <2>1, <2>2
  <1>7. Read' => n + 1 = IF One THEN 1 ELSE LedCount
    <2>1. CASE hreq.uri = "/api/led"
      <3>1. http' = "answered" => ~(Len(outs') < LedCount)
        BY <2>1 DEF FilledLed, Collecting, More
      <3>2. n < LedCount
        BY <1>1, <2>1 DEF TypeInv, HttpOK, HandlerInv
      <3>3. http' = "answered" => n + 1 = LedCount
        BY <1>2, <1>3, <3>1, <3>2, ConstTypes
      <3> QED
        BY <2>1, <3>3 DEF Read, One
    <2>2. CASE hreq.uri # "/api/led"
      <3>1. outs = <<>> /\ One
        BY <1>1, <2>2 DEF TypeInv, HttpOK, HandlerInv, One
      <3>2. n = 0
        BY <3>1, NoneYet
      <3> QED
        BY <3>1, <3>2
    <2> QED
      BY <2>1, <2>2
  <1> HIDE DEF n
  <1> QED
    BY <1>1, <1>3, <1>5, <1>6, <1>7 DEF ShownInv, AsItIs, Reading, Read, One

\* The other steps of the HTTP task and the requests that come in.
LEMMA ShownHandled ==
  ASSUME TypeInv, ShownInv, Observe, Handler \/ \E r \in HttpRequests : Accept(r), ~FilledLed
  PROVE  ShownInv'
  <1>1. CASE FillLed
    <2>1. /\ http = "next" /\ http' = "called" /\ stage'[Me] = "called"
          /\ UNCHANGED <<hreq, outs, now, status, auto, over>>
      BY <1>1, MeTask DEF FillLed, AInvoke, TypeInv, HttpOK, LedTyped
    <2>2. touched \subseteq touched'
      BY <2>1 DEF Observe
    <2> QED
      BY <2>1, <2>2 DEF ShownInv, Reading, Read, AsItIs
  <1>2. CASE GetLeds
    <2>1. /\ http = "handle" /\ http' = "next" /\ outs' = outs /\ UNCHANGED stage
      BY <1>2 DEF GetLeds, avars
    <2>2. outs' = <<>>
      BY <2>1 DEF TypeInv, HttpOK, HandlerInv
    <2>3. DOMAIN outs' = {} /\ stage'[Me] # "served"
      BY <2>1, <2>2, MeTask DEF TypeInv, HttpOK, HandlerInv, LedTyped
    <2> QED
      BY <2>1, <2>3 DEF ShownInv, Reading, Read
  <1>3. CASE ~FillLed /\ ~GetLeds
    <2>1. CASE \E r \in HttpRequests : Accept(r)
      BY <2>1 DEF Accept, Answer, ShownInv, Reading, Read
    <2>2. CASE UnknownLed \/ PutOne \/ DeleteOne \/ PutAll \/ DeleteAll \/ GetAllNoMemory
      <3> DEFINE goal == /\ http' \in {"answered", "called"} /\ hreq' = hreq
                         /\ (http' = "called" => hreq.method # "GET")
                         /\ (http' = "answered" => status' # 200)
      <3>1. ASSUME NEW code \in {400, 404, 500}, Refuse(code) PROVE goal
        BY <3>1 DEF Refuse, Answer
      <3>2. ASSUME NEW c, CallLed(c), hreq.method # "GET" PROVE goal
        BY <3>2 DEF CallLed, Answer
      <3> HIDE DEF goal
      <3>3. goal
        <4>1. CASE UnknownLed \/ GetAllNoMemory
          <5>1. Refuse(404) \/ Refuse(500)
            BY <4>1 DEF UnknownLed, GetAllNoMemory
          <5> QED
            BY <3>1, <5>1
        <4>2. CASE PutOne \/ DeleteOne
          <5>1. hreq.method # "GET" /\ (Refuse(400) \/ \E c : CallLed(c))
            BY <4>2 DEF PutOne, DeleteOne, At
          <5> QED
            BY <3>1, <3>2, <5>1
        <4>3. CASE PutAll
          BY <3>1, <3>2, <4>3 DEF PutAll, At
        <4>4. CASE DeleteAll
          BY <3>1, <3>2, <4>4 DEF DeleteAll, At
        <4> QED
          BY <2>2, <4>1, <4>2, <4>3, <4>4
      <3> USE DEF goal
      <3>4. goal
        BY <3>3
      <3> QED
        BY <3>4 DEF ShownInv, Reading, Read
    <2>3. CASE Finished
      BY <2>3 DEF Finished, Answer, ShownInv, Reading, Read
    <2>4. CASE TimeIso \/ TimeSynced \/ TimeEpoch \/ Respond
      BY <2>4 DEF TimeIso, TimeSynced, TimeEpoch, Respond, Answer, ShownInv, Reading, Read,
                  TypeInv, HttpOK, HandlerInv
    <2> QED
      BY <1>3, <2>1, <2>2, <2>3, <2>4 DEF Handler
  <1> QED
    BY <1>1, <1>2, <1>3

\* Another task's call does not concern the handler's.
LEMMA CallsApart ==
  ASSUME TypeInv, NEW t \in Tasks, t # Me,
         \/ \E c \in AnyCall : AInvoke(t, c)
         \/ Serve(t)
         \/ Return(t)
  PROVE  stage'[Me] = stage[Me] /\ seen'[Me] = seen[Me]
  <1>1. DOMAIN stage = Tasks /\ DOMAIN seen = Tasks
    BY DEF TypeInv, HttpOK, LedTyped
  <1>2. CASE \E c \in AnyCall : AInvoke(t, c)
    BY <1>1, <1>2, MeTask DEF AInvoke
  <1>3. CASE Serve(t)
    BY <1>1, <1>3, MeTask DEF Serve, ServeState, ServeSet, ServeClear, ServeRead
  <1>4. CASE Return(t)
    BY <1>1, <1>4, MeTask DEF Return
  <1> QED
    BY <1>2, <1>3, <1>4

\* Every step keeps what has been collected true.
LEMMA ShownStep ==
  ASSUME TypeInv, ShownInv, [Next]_vars
  PROVE  ShownInv'
  <1>1. CASE UNCHANGED vars
    BY <1>1 DEF vars, avars, hvars, history, ShownInv, Reading, Read, AsItIs, One
  <1>2. CASE Next /\ (NetStep \/ SntpStep)
    <2>1. UNCHANGED <<hreq, outs, now, status, stage, seen>>
      BY <1>2 DEF NetStep, StartTime, StartMdns, MdnsStarted, StartHttp, NetRest, SntpStep, avars, hvars
    <2>2. http' = http \/ http' \in {"off", "idle"}
      BY <1>2 DEF NetStep, StartTime, StartMdns, MdnsStarted, StartHttp, SntpStep, hvars
    <2> QED
      BY <1>2, <2>1, <2>2, ShownApart DEF Next
  <1>3. CASE Next /\ (Clients \/ HttpStep)
    BY <1>3, ShownFilled, ShownHandled DEF Next, Clients, HttpStep
  <1>4. ASSUME Next, NEW t \in Callers, OtherCalls(t) \/ LedStep(t) \/ OtherReturns(t)
        PROVE  ShownInv'
    <2>1. UNCHANGED hvars /\ t \in Tasks
      BY <1>4 DEF OtherCalls, LedStep, OtherReturns, Around, Tasks
    <2>2. CASE t = Me
      BY <1>4, <2>1, <2>2, ShownServed DEF Next, OtherCalls, LedStep, OtherReturns
    <2>3. CASE t # Me
      <3>1. Requests[t] \subseteq AnyCall
        BY <1>4, LedAssumption DEF AnyCall
      <3>2. stage'[Me] = stage[Me] /\ seen'[Me] = seen[Me]
        BY <1>4, <2>1, <2>3, <3>1, CallsApart DEF OtherCalls, LedStep, OtherReturns
      <3> QED
        BY <1>4, <2>1, <3>2, ShownApart DEF Next, hvars
    <2> QED
      BY <2>2, <2>3
  <1> QED
    BY <1>1, <1>2, <1>3, <1>4 DEF Next

\* Nothing has been collected yet.
LEMMA ShownInit == Init => ShownInv
  BY DEF Init, HInit, ShownInv, Reading, Read

\* A GET of the LEDs shows each LED as it is, but for those that another task
\* has changed since the request was taken.
THEOREM ServicesReads == Spec => []LedsAsTheyAre
  BY ShownInit, ShownStep, ShownImplies, TypeInvariance, PTL DEF Spec

-----------------------------------------------------------------------------
\* The length of an answer.

\* The printed lengths of a number, an id and a byte.
LEMMA DigitsBound ==
  ASSUME NEW n \in Nat
  PROVE  /\ Digits(n) \in 1 .. 10
         /\ n <= 1024 => Digits(n) <= 4
         /\ n <= 255 => Digits(n) <= 3
  BY DEF Digits

\* A byte takes three digits at most.
LEMMA ByteBound ==
  ASSUME NEW c \in Colors, NEW k \in 1 .. 3
  PROVE  Rgb(c)[k] \in 0 .. 255
  <1>1. CASE c \in {"black", "blue", "amber", "green", "red"}
    BY <1>1 DEF Rgb
  <1>2. CASE c \notin {"black", "blue", "amber", "green", "red"}
    <2>1. c \in CustomColors /\ Rgb(c) = CustomRgb[c]
      BY <1>2 DEF Rgb, Colors
    <2> QED
      BY <2>1, LedAssumption
  <1> QED
    BY <1>1, <1>2

\* One LED of an answer takes 91 characters at most.
LEMMA LedLengthBound ==
  ASSUME NEW id \in Nat, id <= 1024, NEW o \in Output
  PROVE  LedLength(id, o) \in 0 .. 91
  <1>1. Digits(id) \in 1 .. 4 /\ Digits(o.blink) \in 1 .. 10
    BY DigitsBound DEF Output
  <1>2. ASSUME NEW k \in 1 .. 3 PROVE Digits(Rgb(o.color)[k]) \in 1 .. 3
    <2>1. Rgb(o.color)[k] \in 0 .. 255
      BY ByteBound DEF Output
    <2> QED
      BY <2>1, DigitsBound
  <1>3. NameLength(o.state) \in 5 .. 12
    BY DEF NameLength, Output, AutoStates
  <1>4. (IF o.on THEN 4 ELSE 5) \in 4 .. 5
    OBVIOUS
  <1> DEFINE a == Digits(id)
             b == NameLength(o.state)
             c == IF o.on THEN 4 ELSE 5
             d == Digits(o.blink)
             r(k) == Digits(Rgb(o.color)[k])
  <1>5. LedLength(id, o) = 51 + a + b + c + d + r(1) + r(2) + r(3)
    BY DEF LedLength
  <1>6. r(1) \in 1 .. 3 /\ r(2) \in 1 .. 3 /\ r(3) \in 1 .. 3
    BY <1>2
  <1> HIDE DEF a, b, c, d, r
  <1>7. a \in 1 .. 4 /\ b \in 5 .. 12 /\ c \in 4 .. 5 /\ d \in 1 .. 10
    BY <1>1, <1>3, <1>4 DEF a, b, c, d
  <1> QED
    BY <1>5, <1>6, <1>7

\* The sum that the loop over a list computes.
LEMMA Summed ==
  ASSUME NEW size \in Nat, NEW part, \A n \in 1 .. size : part[n] \in 0 .. 91
  PROVE  LET total == CHOOSE f : f = [n \in 0 .. size |-> IF n = 0 THEN 0 ELSE f[n - 1] + part[n]]
         IN  total[size] \in 0 .. 91 * size
  <1> DEFINE step == [n \in 1 .. size |-> [x \in Nat |-> x + part[n]]]
  <1>1. \A n \in 1 .. size : \A x \in Nat : step[n][x] = x + part[n]
    OBVIOUS
  <1> HIDE DEF step
  <1>2. StaysIn(Nat, size, step)
    <2>1. \A n \in 1 .. size : part[n] \in Nat
      OBVIOUS
    <2> QED
      BY <1>1, <2>1 DEF StaysIn
  <1>3. PICK h : Loops(h, size, 0, step) /\ \A n \in 0 .. size : h[n] \in Nat
    BY <1>2, RecursiveFunction
  <1> DEFINE Sums(g) == g = [n \in 0 .. size |-> IF n = 0 THEN 0 ELSE g[n - 1] + part[n]]
             total == CHOOSE f : Sums(f)
             Small == {n \in Nat : n <= size => total[n] \in 0 .. 91 * n}
  <1>6. Sums(h)
    <2>1. \A n \in 0 .. size : n # 0 => n \in 1 .. size /\ n - 1 \in 0 .. size
      OBVIOUS
    <2> HIDE DEF Small, total
    <2> QED
      BY <1>1, <1>3, <2>1 DEF Loops
  <1>7. Sums(total)
    <2> HIDE DEF Sums
    <2> QED
      BY <1>6
  <1>8. \A n \in 0 .. size : total[n] = IF n = 0 THEN 0 ELSE total[n - 1] + part[n]
    <2> HIDE DEF total
    <2> QED
      BY <1>7
  <1> HIDE DEF total, Sums
  <1>9. 0 \in Small
    BY <1>8
  <1>10. ASSUME NEW n \in Nat, n \in Small PROVE n + 1 \in Small
    <2> SUFFICES ASSUME n + 1 <= size PROVE total[n + 1] \in 0 .. 91 * (n + 1)
      OBVIOUS
    <2> DEFINE t == total[n]
               p == part[n + 1]
    <2>1. t \in 0 .. 91 * n
      <3>1. n <= size
        OBVIOUS
      <3> QED
        BY <1>10, <3>1
    <2>2. total[n + 1] = t + p /\ p \in 0 .. 91
      <3>1. n + 1 \in 0 .. size /\ n + 1 \in 1 .. size /\ n + 1 # 0 /\ (n + 1) - 1 = n
        OBVIOUS
      <3> QED
        BY <1>8, <3>1
    <2> HIDE DEF t, p, Small
    <2> QED
      BY <2>1, <2>2
  <1>11. size \in Small
    <2> HIDE DEF Small
    <2> QED
      BY <1>9, <1>10, Induction
  <1>12. total[size] \in 0 .. 91 * size
    BY <1>11
  <1> QED
    BY <1>12 DEF total, Sums

\* The answer to a GET of all the LEDs fits its buffer.
LEMMA ListLengthBound ==
  ASSUME NEW leds \in Seq(Output), Len(leds) <= LedCount
  PROVE  ListLength(leds) + 1 <= LedCount * LedJsonBudget + 64
  <1> DEFINE size == Len(leds)
             part == [n \in 1 .. size |-> LedLength(n - 1, leds[n])]
             total == CHOOSE f : f = [n \in 0 .. size |-> IF n = 0 THEN 0 ELSE f[n - 1] + part[n]]
             d == Digits(size)
             t == total[size]
  <1>1. size \in Nat /\ size <= 1024 /\ size <= LedCount /\ LedCount \in Nat
    <2>1. LedCount <= 1024
      BY HttpAssumption DEF MaxLeds
    <2>2. LedCount \in Nat /\ Len(leds) \in Nat
      BY ConstTypes
    <2> QED
      BY <2>1, <2>2
  <1>2. part \in [1 .. size -> 0 .. 91]
    <2>1. ASSUME NEW n \in 1 .. size PROVE LedLength(n - 1, leds[n]) \in 0 .. 91
      <3>1. n - 1 \in Nat /\ n - 1 <= 1024 /\ leds[n] \in Output
        BY <1>1
      <3> QED
        BY <3>1, LedLengthBound
    <2> QED
      BY <2>1
  <1>3. \A n \in 0 .. size : n # 0 => part[n] = LedLength(n - 1, leds[n])
    BY <1>1
  <1>4. ListLength(leds) = 19 + size + d + t
    <2>1. ASSUME NEW f
          PROVE  [n \in 0 .. size |-> IF n = 0 THEN 0 ELSE f[n - 1] + part[n]]
                   = [n \in 0 .. size |-> IF n = 0 THEN 0 ELSE f[n - 1] + LedLength(n - 1, leds[n])]
      <3> HIDE DEF part, size
      <3> QED
        BY <1>3
    <2>2. total = CHOOSE f : f = [n \in 0 .. size |->
                                    IF n = 0 THEN 0 ELSE f[n - 1] + LedLength(n - 1, leds[n])]
      <3> HIDE DEF part, size
      <3> QED
        BY <2>1
    <2> HIDE DEF total
    <2> QED
      BY <2>2 DEF ListLength
  <1>5. d \in 1 .. 10
    BY <1>1, DigitsBound
  <1>6. t \in 0 .. 91 * size
    <2> HIDE DEF part, size
    <2> QED
      BY <1>1, <1>2, Summed
  <1> HIDE DEF size, d, t
  <1>7. 19 + size + d + t + 1 <= LedCount * 96 + 64
    BY <1>1, <1>5, <1>6
  <1> QED
    BY <1>4, <1>7 DEF LedJsonBudget

-----------------------------------------------------------------------------
\* Requests that are well formed.

\* A proper command is read as one.
LEMMA ProperRead ==
  ASSUME NEW v, IsCommand(v), ProperCommand(v)
  PROVE  v.type = "object" /\ SingleValid(v) /\ BlinkOf(v) <= MaxBlink
  <1>1. ASSUME NEW name \in {"r", "g", "b"} PROVE ChannelValid(v, name) /\ v.type = "object"
    <2> DEFINE m == Member(v, name)
               h == m.halves
    <2>1. IsNumber(m) /\ h \in Int /\ h \in 0 .. 2 * 255
      BY DEF ProperCommand, WholeIn, IsCommand
    <2>2. h \div 2 \in 0 .. 255 /\ ~(h < 0)
      <3>1. 255 \in Nat
        OBVIOUS
      <3> HIDE DEF h
      <3> QED
        BY <2>1, <3>1, HalfOf
    <2>3. ValueInt(m) \in 0 .. 255
      BY <2>2 DEF ValueInt
    <2>4. v.type = "object"
      BY <2>1 DEF Member, IsNumber, Absent
    <2> QED
      BY <2>1, <2>3, <2>4 DEF ChannelValid
  <1>2. BlinkValid(v)
    BY DEF BlinkValid, ProperCommand, WholeIn
  <1>3. SingleValid(v)
    BY <1>1, <1>2 DEF SingleValid
  <1>4. BlinkOf(v) <= MaxBlink
    BY <1>3, CommandRead, ConstTypes
  <1> QED
    BY <1>1, <1>3, <1>4

\* A whole number in the range of the ids is an id.
LEMMA ProperId ==
  ASSUME NEW v, WholeIn(v, LedCount - 1)
  PROVE  IdNumber(v) /\ Cast(v) < LedCount
  <1> DEFINE h == v.halves
             last == LedCount - 1
  <1>1. last \in Nat /\ last <= MaxId /\ MaxId \in Nat /\ last < LedCount
    <2>1. last \in Nat /\ last < LedCount /\ last \in Leds
      BY ConstTypes
    <2>2. MaxId \in Nat
      BY DEF MaxId
    <2>3. last \in 0 .. MaxId
      BY <2>1, MeTask
    <2> HIDE DEF last
    <2> QED
      BY <2>1, <2>2, <2>3
  <1>2. IsNumber(v) /\ h \in 0 .. 2 * last
    BY DEF WholeIn
  <1>3. h \div 2 \in 0 .. last /\ h \in 0 .. 2 * MaxId
    <2> HIDE DEF h, last
    <2> QED
      BY <1>1, <1>2, HalfOf
  <1>4. h \div 2 < LedCount
    <2> DEFINE q == h \div 2
    <2>1. q \in 0 .. last
      BY <1>3
    <2> HIDE DEF q, last, h
    <2>2. q < LedCount
      BY <1>1, <2>1, ConstTypes
    <2> QED
      BY <2>2 DEF q
  <1> QED
    BY <1>2, <1>3, <1>4 DEF IdNumber, Cast

\* What is proper and comes well is never a 400.
LEMMA ProperPut ==
  ASSUME hreq \in HttpRequests, hreq.method = "PUT", Proper, hreq.luck = "well", ~IsArray(hreq.body)
  PROVE  /\ LedValid(hreq.body) /\ ~BodyIsArray(hreq.body)
         /\ ReadBody(IF One THEN BodyMax ELSE LedCount * BodyMax) = hreq.body
         /\ \A i \in Leds : ArgsValid(SetCustom(i, ColorOf(hreq.body), BlinkOf(hreq.body)))
         /\ ArgsValid(SetCustomAll(ColorOf(hreq.body), BlinkOf(hreq.body)))
  <1> DEFINE max == IF One THEN BodyMax ELSE LedCount * BodyMax
  <1>1. /\ ProperCommand(hreq.body) /\ IsAbsent(Member(hreq.body, "id"))
        /\ hreq.size \in 1 .. max - 1
    BY DEF Proper
  <1>2. /\ hreq.body.type = "object" /\ SingleValid(hreq.body) /\ BlinkOf(hreq.body) <= MaxBlink
    BY <1>1, ProperRead, RequestFacts
  <1>3. LedValid(hreq.body) /\ ~BodyIsArray(hreq.body)
    BY <1>1, <1>2 DEF LedValid, BodyIsArray, IsArray
  <1>4. ReadBody(max) = hreq.body
    <2>1. max \in Int
      BY ConstTypes DEF BodyMax
    <2>2. hreq.size # 0 /\ ~(hreq.size >= max)
      <3> HIDE DEF max
      <3> QED
        BY <1>1, <2>1
    <2> HIDE DEF max
    <2> QED
      BY <2>2 DEF ReadBody
  <1>5. ASSUME NEW i \in Leds PROVE ArgsValid(SetCustom(i, ColorOf(hreq.body), BlinkOf(hreq.body)))
    <2> DEFINE cmd == [id |-> i, color |-> ColorOf(hreq.body), blink |-> BlinkOf(hreq.body)]
               call == SetCustom(i, ColorOf(hreq.body), BlinkOf(hreq.body))
    <2>1. cmd.id = i /\ cmd.blink = BlinkOf(hreq.body)
      OBVIOUS
    <2>2. i < LedCount
      BY ConstTypes
    <2> HIDE DEF cmd
    <2>3. CommandValid(cmd)
      BY <1>2, <2>1, <2>2 DEF CommandValid, IdValid
    <2>4. call.kind = "set" /\ call.cmds = <<cmd>>
      BY DEF SetCustom, SetCustomMany, cmd
    <2> HIDE DEF call
    <2>5. ArgsValid(call)
      BY <2>3, <2>4 DEF ArgsValid
    <2> QED
      BY <2>5 DEF call
  <1>6. ArgsValid(SetCustomAll(ColorOf(hreq.body), BlinkOf(hreq.body)))
    <2> DEFINE cmds == [k \in 1 .. LedCount |->
                          [id |-> k - 1, color |-> ColorOf(hreq.body), blink |-> BlinkOf(hreq.body)]]
               call == SetCustomAll(ColorOf(hreq.body), BlinkOf(hreq.body))
    <2>1. DOMAIN cmds = 1 .. LedCount
          /\ \A k \in 1 .. LedCount : cmds[k].id = k - 1 /\ cmds[k].blink = BlinkOf(hreq.body)
      OBVIOUS
    <2>2. call.kind = "set" /\ call.cmds = cmds
      BY DEF SetCustomAll, SetCustomMany
    <2> HIDE DEF cmds, call
    <2>3. \A k \in 1 .. LedCount : k - 1 < LedCount
      BY ConstTypes
    <2>4. \A k \in DOMAIN cmds : CommandValid(cmds[k])
      BY <1>2, <2>1, <2>3 DEF CommandValid, IdValid
    <2>5. ArgsValid(call)
      BY <2>2, <2>4 DEF ArgsValid
    <2> QED
      BY <2>5 DEF call
  <1> QED
    BY <1>3, <1>4, <1>5, <1>6

\* A list of proper commands is read as one.
LEMMA ProperPutMany ==
  ASSUME hreq \in HttpRequests, hreq.method = "PUT", Proper, hreq.luck = "well", IsArray(hreq.body)
  PROVE  /\ ~One /\ ManyValid(hreq.body)
         /\ ReadBody(LedCount * BodyMax) = hreq.body
         /\ ArgsValid(SetCustomMany(ManyOf(hreq.body)))
  <1> DEFINE max == LedCount * BodyMax
             items == hreq.body.items
             cmds == ManyOf(hreq.body)
             call == SetCustomMany(cmds)
  <1>1. /\ ~One /\ hreq.size \in 1 .. max - 1 /\ Len(items) <= MaxLeds
        /\ \A k \in DOMAIN items : /\ ProperCommand(items[k])
                                   /\ WholeIn(Member(items[k], "id"), LedCount - 1)
    BY DEF Proper
  <1>2. ReadBody(max) = hreq.body
    <2>1. max \in Int
      BY ConstTypes DEF BodyMax
    <2>2. hreq.size # 0 /\ ~(hreq.size >= max)
      <3> HIDE DEF max
      <3> QED
        BY <1>1, <2>1
    <2> HIDE DEF max
    <2> QED
      BY <2>2 DEF ReadBody
  <1>3. ASSUME NEW k \in DOMAIN items
        PROVE  /\ EntryValid(items[k]) /\ BlinkOf(items[k]) <= MaxBlink
               /\ Cast(Member(items[k], "id")) < LedCount
    BY <1>1, ProperRead, ProperId, RequestFacts DEF EntryValid
  <1>4. ManyValid(hreq.body)
    BY <1>1, <1>3 DEF ManyValid
  <1>5. ArgsValid(call)
    <2>1. DOMAIN cmds = DOMAIN items /\ \A k \in DOMAIN items : cmds[k] = EntryOf(items[k])
      BY DEF ManyOf
    <2>2. \A v : EntryOf(v).id = Cast(Member(v, "id")) /\ EntryOf(v).blink = BlinkOf(v)
      BY DEF EntryOf
    <2>3. call.kind = "set" /\ call.cmds = cmds
      BY DEF SetCustomMany
    <2> HIDE DEF call, cmds, items
    <2>4. \A k \in DOMAIN cmds : CommandValid(cmds[k])
      BY <1>3, <2>1, <2>2 DEF CommandValid, IdValid
    <2> QED
      BY <2>3, <2>4 DEF ArgsValid
  <1> QED
    BY <1>1, <1>2, <1>4, <1>5

\* A list of proper ids is read as one.
LEMMA ProperDelete ==
  ASSUME hreq \in HttpRequests, hreq.method = "DELETE", Proper, hreq.luck = "well", ~One, hreq.size # 0
  PROVE  /\ IdsValid(hreq.body) /\ ReadBody(BodyMax) = hreq.body
         /\ ArgsValid(IdsCall(IdsOf(hreq.body)))
  <1> DEFINE items == Ids.items
             ids == IdsOf(hreq.body)
             call == IdsCall(ids)
  <1>1. /\ hreq.size < BodyMax /\ hreq.body.type = "object"
        /\ IsArray(Ids) /\ Len(items) <= MaxLeds
        /\ \A k \in DOMAIN items : WholeIn(items[k], LedCount - 1)
    BY DEF Proper
  <1>2. \A k \in DOMAIN items : IdNumber(items[k]) /\ Cast(items[k]) < LedCount
    BY <1>1, ProperId
  <1>3. IdsValid(hreq.body)
    BY <1>1, <1>2 DEF IdsValid, Ids
  <1>4. ReadBody(BodyMax) = hreq.body
    <2>1. hreq.size \in Nat /\ BodyMax \in Nat
      <3>1. BodyMax \in Nat
        BY DEF BodyMax
      <3> QED
        BY <3>1, RequestFacts
    <2>2. ~(hreq.size >= BodyMax)
      BY <1>1, <2>1
    <2> QED
      BY <2>2 DEF ReadBody
  <1>5. ArgsValid(call)
    <2>1. ids = [k \in DOMAIN items |-> Cast(items[k])]
      BY <1>1 DEF IdsOf, Ids, IsArray, IsAbsent
    <2> HIDE DEF ids, items
    <2>2. \A k \in DOMAIN ids : ids[k] < LedCount
      BY <1>2, <2>1
    <2>3. \A k \in DOMAIN AllIds : AllIds[k] < LedCount
      BY ConstTypes DEF AllIds
    <2>4. call.kind = "clear" /\ call.ids \in {ids, AllIds}
      BY DEF IdsCall, ClearCustomAll, ClearCustomMany
    <2> HIDE DEF call
    <2> QED
      BY <2>2, <2>3, <2>4 DEF ArgsValid, IdValid
  <1> QED
    BY <1>3, <1>4, <1>5

\* A clearing by the server's own ids is never a bad argument.
LEMMA ClearArgs ==
  ArgsValid(ClearCustomAll) /\ \A i \in Leds : ArgsValid(ClearCustom(i))
  <1>1. \A k \in DOMAIN AllIds : IdValid(AllIds[k])
    BY ConstTypes DEF AllIds, IdValid
  <1>2. ClearCustomAll.kind = "clear" /\ ClearCustomAll.ids = AllIds
    BY DEF ClearCustomAll, ClearCustomMany
  <1>3. \A i : ClearCustom(i).kind = "clear" /\ ClearCustom(i).ids = <<i>>
    BY DEF ClearCustom, ClearCustomMany
  <1>4. \A i \in Leds : IdValid(i)
    BY ConstTypes DEF IdValid
  <1>5. ArgsValid(ClearCustomAll)
    BY <1>1, <1>2 DEF ArgsValid
  <1>6. ASSUME NEW i \in Leds PROVE ArgsValid(ClearCustom(i))
    <2> DEFINE ids == <<i>>
    <2>1. \A k \in DOMAIN ids : IdValid(ids[k])
      BY <1>4
    <2>2. ClearCustom(i).kind = "clear" /\ ClearCustom(i).ids = ids
      BY <1>3
    <2> HIDE DEF ids
    <2> QED
      BY <2>1, <2>2 DEF ArgsValid
  <1> QED
    BY <1>5, <1>6

-----------------------------------------------------------------------------
\* The status of an answer.

\* What an answer has to say, but for a 400, as a fact about the request, the
\* status and what led_rgb answered.
Tells(r, code, eff) ==
    /\ code = 200 => r.method = "GET" \/ eff = "ok"
    /\ code = 409 <=> eff = "invalid_state"
    /\ eff = "ok" => code = 200
    /\ code = 404 <=> ~Matched(r) \/ (r.uri = "/api/led/{id}" /\ r.id \notin Leds)
    /\ code = 500 => r.luck = "nomem"

\* The status codes differ.
LEMMA Codes ==
    /\ 200 # 400 /\ 200 # 404 /\ 200 # 409 /\ 200 # 500
    /\ 404 # 400 /\ 404 # 409 /\ 404 # 500 /\ 409 # 400 /\ 409 # 500 /\ 400 # 500
  OBVIOUS

\* A request that has a handler and an LED, if it is for one.
Routed(r) == Matched(r) /\ (r.uri = "/api/led/{id}" => r.id \in Leds)

\* The answers that tell what happened: a 200 to a GET or to a call that took
\* effect, a 409 to one that did not, a 404 to a request that has no handler, a
\* 500 to one that the heap refuses.
LEMMA TellsWhen ==
  ASSUME NEW r
  PROVE  /\ Routed(r) /\ r.method = "GET" => Tells(r, 200, "none")
         /\ Routed(r) => Tells(r, 200, "ok") /\ Tells(r, 409, "invalid_state")
         /\ ~Matched(r) => Tells(r, 404, "none")
         /\ Routed(r) /\ r.luck = "nomem" => Tells(r, 500, "none")
  <1> DEFINE lost == ~Matched(r) \/ (r.uri = "/api/led/{id}" /\ r.id \notin Leds)
  <1>1. Routed(r) <=> ~lost
    BY DEF Routed
  <1>2. ~Matched(r) => lost
    OBVIOUS
  <1>3. \A code, eff : Tells(r, code, eff) <=>
            /\ code = 200 => r.method = "GET" \/ eff = "ok"
            /\ code = 409 <=> eff = "invalid_state"
            /\ eff = "ok" => code = 200
            /\ code = 404 <=> lost
            /\ code = 500 => r.luck = "nomem"
    BY DEF Tells
  <1> HIDE DEF lost
  <1>4. Routed(r) /\ r.method = "GET" => Tells(r, 200, "none")
    BY <1>1, <1>3, Codes
  <1>5. Routed(r) => Tells(r, 200, "ok")
    BY <1>1, <1>3, Codes
  <1>6. Routed(r) => Tells(r, 409, "invalid_state")
    BY <1>1, <1>3, Codes
  <1>7. ~Matched(r) => Tells(r, 404, "none")
    BY <1>2, <1>3, Codes
  <1>8. Routed(r) /\ r.luck = "nomem" => Tells(r, 500, "none")
    BY <1>1, <1>3, Codes
  <1> QED
    BY <1>4, <1>5, <1>6, <1>7, <1>8

\* StatusTellsEffect from its parts.
LEMMA TellsIt ==
    StatusTellsEffect <=> (http = "answered" => /\ Tells(hreq, status, effect)
                                                /\ status = 400 => ~Proper \/ hreq.luck # "well")
  BY DEF StatusTellsEffect, Tells, One, NoMemory

\* ...and in the next state.
LEMMA TellsNext ==
    StatusTellsEffect' <=> (http' = "answered" => /\ Tells(hreq', status', effect')
                                                  /\ status' = 400 => ~Proper' \/ hreq'.luck # "well")
  BY DEF StatusTellsEffect, Tells, One, NoMemory, Matched, Proper

\* What a request says does not depend on the state.
LEMMA SameRequest ==
  ASSUME hreq' = hreq
  PROVE  Proper' <=> Proper
  BY DEF Proper, One, Ids

\* While no call is under way there is no answer of led_rgb.
LEMMA NoAnswer ==
  ASSUME TypeInv, http \in Busy, stage[Me] # "served"
  PROVE  ans[Me] = "none" /\ (http # "answered" => effect = "none")
  BY MeTask DEF TypeInv, HttpOK, LedTyped, HandlerInv

\* A step that leaves the handler where it is.
LEMMA StatusRests ==
  ASSUME TypeInv', Observe, StatusTellsEffect, http' = http, UNCHANGED <<hreq, status>>
  PROVE  StatusTellsEffect'
  <1>1. CASE http # "answered"
    BY <1>1, TellsNext
  <1>2. CASE http = "answered"
    <2>1. ans'[Me] = "none"
      BY <1>2, MeTask DEF TypeInv, HttpOK, LedTyped, HandlerInv
    <2>2. effect' = effect
      BY <1>2, <2>1 DEF Observe
    <2> QED
      BY <1>2, <2>2, TellsIt, TellsNext, SameRequest
  <1> QED
    BY <1>1, <1>2

\* A refusal before anything was called.
LEMMA RefusedTells ==
  ASSUME TypeInv, Observe, http = "handle", NEW code \in {400, 404, 500}, Answer(code),
         UNCHANGED <<hreq, ans>>,
         code = 404 <=> One /\ hreq.id \notin Leds,
         code = 400 => ~Proper \/ hreq.luck # "well",
         code = 500 => NoMemory
  PROVE  StatusTellsEffect'
  <1>1. http' = "answered" /\ status' = code
    BY DEF Answer
  <1>2. effect = "none" /\ Matched(hreq)
    BY NoAnswer DEF TypeInv, HttpOK, HandlerInv, Busy
  <1>3. effect' = "none"
    BY <1>1, <1>2 DEF Observe
  <1>4. Tells(hreq, code, "none")
    <2>1. hreq.uri = "/api/led/{id}" /\ hreq.id \notin Leds <=> code = 404
      BY DEF One
    <2>2. code = 500 => hreq.luck = "nomem"
      BY DEF NoMemory
    <2>3. code # 200 /\ code # 409
      BY Codes
    <2>4. code = 404 <=> ~Matched(hreq) \/ (hreq.uri = "/api/led/{id}" /\ hreq.id \notin Leds)
      BY <1>2, <2>1
    <2> QED
      BY <2>2, <2>3, <2>4 DEF Tells
  <1> QED
    BY <1>1, <1>3, <1>4, TellsNext, SameRequest

\* A call that is made, unless its arguments are bad.
LEMMA CalledTells ==
  ASSUME TypeInv, Observe, http = "handle", NEW c, CallLed(c),
         ~One \/ hreq.id \in Leds,
         Proper /\ hreq.luck = "well" => ArgsValid(c)
  PROVE  StatusTellsEffect'
  <1>1. CASE ArgsValid(c)
    BY <1>1, TellsNext DEF CallLed
  <1>2. CASE ~ArgsValid(c)
    <2>1. Answer(400) /\ UNCHANGED <<hreq, ans>>
      BY <1>2 DEF CallLed, avars
    <2> QED
      BY <1>2, <2>1, RefusedTells
  <1> QED
    BY <1>1, <1>2

\* PUT /api/led/{id}.
LEMMA PutOneTells ==
  ASSUME TypeInv, Observe, PutOne
  PROVE  StatusTellsEffect'
  <1> DEFINE body == ReadBody(BodyMax)
  <1>1. /\ http = "handle" /\ hreq.method = "PUT" /\ One /\ hreq.id \in Leds
        /\ LedId = hreq.id /\ hreq \in HttpRequests
    BY Known DEF PutOne, At, Busy, One, TypeInv, HttpOK, HandlerInv
  <1>2. Proper => ~IsArray(hreq.body)
    BY <1>1 DEF Proper
  <1>3. Proper /\ hreq.luck = "well" =>
          /\ LedValid(body)
          /\ ArgsValid(SetCustom(LedId, ColorOf(body), BlinkOf(body)))
    BY <1>1, <1>2, ProperPut
  <1>4. CASE LedValid(body) /\ ~NoMemory
    <2>1. CallLed(SetCustom(LedId, ColorOf(body), BlinkOf(body)))
      BY <1>4 DEF PutOne
    <2> HIDE DEF body
    <2> QED
      BY <1>1, <1>3, <2>1, CalledTells
  <1>5. CASE ~LedValid(body) \/ NoMemory
    <2>1. Refuse(400)
      BY <1>5 DEF PutOne
    <2>2. ~Proper \/ hreq.luck # "well"
      BY <1>3, <1>5 DEF NoMemory
    <2> HIDE DEF body
    <2> QED
      BY <1>1, <2>1, <2>2, RefusedTells DEF Refuse, avars
  <1> QED
    BY <1>4, <1>5

\* DELETE /api/led/{id}.
LEMMA DeleteOneTells ==
  ASSUME TypeInv, Observe, DeleteOne
  PROVE  StatusTellsEffect'
  <1>1. http = "handle" /\ hreq.id \in Leds /\ LedId = hreq.id
    BY Known DEF DeleteOne, At, Busy, TypeInv
  <1> QED
    BY <1>1, ClearArgs, CalledTells DEF DeleteOne

\* PUT /api/led.
LEMMA PutAllTells ==
  ASSUME TypeInv, Observe, PutAll
  PROVE  StatusTellsEffect'
  <1> DEFINE body == ReadBody(LedCount * BodyMax)
  <1>1. http = "handle" /\ hreq.method = "PUT" /\ ~One /\ hreq \in HttpRequests
    BY DEF PutAll, At, Busy, One, TypeInv, HttpOK, HandlerInv
  <1>2. CASE Proper /\ hreq.luck = "well" /\ IsArray(hreq.body)
    <2>1. body = hreq.body /\ ManyValid(body) /\ ArgsValid(SetCustomMany(ManyOf(body)))
      BY <1>1, <1>2, ProperPutMany
    <2>2. BodyIsArray(body) /\ ~NoMemory
      BY <1>2, <2>1 DEF BodyIsArray, NoMemory
    <2>3. CallLed(SetCustomMany(ManyOf(body)))
      BY <2>1, <2>2 DEF PutAll
    <2> HIDE DEF body
    <2> QED
      BY <1>1, <2>1, <2>3, CalledTells
  <1>3. CASE Proper /\ hreq.luck = "well" /\ ~IsArray(hreq.body)
    <2>1. /\ body = hreq.body /\ LedValid(body) /\ ~BodyIsArray(body)
          /\ ArgsValid(SetCustomAll(ColorOf(body), BlinkOf(body)))
      BY <1>1, <1>3, ProperPut
    <2>2. CallLed(SetCustomAll(ColorOf(body), BlinkOf(body)))
      BY <1>3, <2>1 DEF PutAll, NoMemory
    <2> HIDE DEF body
    <2> QED
      BY <1>1, <2>1, <2>2, CalledTells
  <1>4. CASE ~Proper \/ hreq.luck # "well"
    <2>1. \/ Refuse(500) /\ NoMemory
          \/ Refuse(400)
          \/ CallLed(SetCustomMany(ManyOf(body)))
          \/ CallLed(SetCustomAll(ColorOf(body), BlinkOf(body)))
      BY DEF PutAll
    <2> HIDE DEF body
    <2> QED
      BY <1>1, <1>4, <2>1, CalledTells, RefusedTells DEF Refuse, avars
  <1> QED
    BY <1>2, <1>3, <1>4

\* DELETE /api/led.
LEMMA DeleteAllTells ==
  ASSUME TypeInv, Observe, DeleteAll
  PROVE  StatusTellsEffect'
  <1> DEFINE body == ReadBody(BodyMax)
  <1>1. http = "handle" /\ hreq.method = "DELETE" /\ ~One /\ hreq \in HttpRequests
    BY DEF DeleteAll, At, Busy, One, TypeInv, HttpOK, HandlerInv
  <1>2. CASE hreq.size = 0
    <2>1. CallLed(ClearCustomAll)
      BY <1>2 DEF DeleteAll
    <2> QED
      BY <1>1, <2>1, ClearArgs, CalledTells
  <1>3. CASE hreq.size # 0 /\ Proper /\ hreq.luck = "well"
    <2>1. body = hreq.body /\ IdsValid(body) /\ ArgsValid(IdsCall(IdsOf(body)))
      BY <1>1, <1>3, ProperDelete
    <2>2. CallLed(IdsCall(IdsOf(body)))
      BY <1>3, <2>1 DEF DeleteAll, NoMemory
    <2> HIDE DEF body
    <2> QED
      BY <1>1, <2>1, <2>2, CalledTells
  <1>4. CASE hreq.size # 0 /\ (~Proper \/ hreq.luck # "well")
    <2>1. \/ Refuse(500) /\ NoMemory
          \/ Refuse(400)
          \/ CallLed(IdsCall(IdsOf(body)))
      BY <1>4 DEF DeleteAll
    <2> HIDE DEF body
    <2> QED
      BY <1>1, <1>4, <2>1, CalledTells, RefusedTells DEF Refuse, avars
  <1> QED
    BY <1>2, <1>3, <1>4

\* A setter or a clearer returns.
LEMMA FinishedTells ==
  ASSUME TypeInv, Observe, Finished
  PROVE  StatusTellsEffect'
  <1>1. /\ http = "called" /\ hreq.method # "GET" /\ stage[Me] = "served"
        /\ http' = "answered" /\ status' = LedStatus /\ hreq' = hreq
    BY DEF Finished, Return, Answer
  <1>2. ans'[Me] = "none"
    BY MeTask DEF Finished, Return, TypeInv, HttpOK, LedTyped
  <1>3. /\ ans[Me] \in {"ok", "invalid_state"} /\ effect = ans[Me]
        /\ Matched(hreq) /\ Asked(hreq, req[Me])
    <2>1. ans[Me] \in {"none", "ok", "invalid_state"}
      BY MeTask DEF TypeInv, HttpOK, LedTyped
    <2> QED
      BY <1>1, <2>1 DEF TypeInv, HttpOK, HandlerInv, Busy
  <1>4. effect' = ans[Me]
    BY <1>1, <1>2, <1>3 DEF Observe
  <1>5. hreq.uri = "/api/led/{id}" => hreq.id \in Leds
    BY <1>3 DEF Asked
  <1>8. Routed(hreq)
    BY <1>3, <1>5 DEF Routed
  <1>6. LedStatus # 400
    BY <1>3, Codes DEF LedStatus
  <1>7. Tells(hreq, LedStatus, ans[Me])
    <2>1. /\ ans[Me] = "ok" => LedStatus = 200
          /\ ans[Me] = "invalid_state" => LedStatus = 409
      BY DEF LedStatus
    <2>2. CASE ans[Me] = "ok"
      <3>1. Tells(hreq, 200, "ok")
        BY <1>8, TellsWhen
      <3> QED
        BY <2>1, <2>2, <3>1
    <2>3. CASE ans[Me] = "invalid_state"
      <3>1. Tells(hreq, 409, "invalid_state")
        BY <1>8, TellsWhen
      <3> QED
        BY <2>1, <2>3, <3>1
    <2> QED
      BY <1>3, <2>2, <2>3
  <1> QED
    BY <1>1, <1>4, <1>6, <1>7, TellsNext, SameRequest

\* A GET is answered, or refused for want of memory.
LEMMA GetTells ==
  ASSUME Routed(hreq), hreq.method = "GET", hreq' = hreq, effect' = "none",
         status' = IF NoMemory THEN 500 ELSE 200
  PROVE  StatusTellsEffect'
  <1>1. CASE NoMemory
    <2>1. status' = 500 /\ Tells(hreq, 500, "none")
      BY <1>1, TellsWhen DEF NoMemory
    <2>2. status' # 400
      BY <2>1, Codes
    <2> QED
      BY <2>1, <2>2, TellsNext
  <1>2. CASE ~NoMemory
    <2>1. status' = 200 /\ Tells(hreq, 200, "none")
      BY <1>2, TellsWhen
    <2>2. status' # 400
      BY <2>1, Codes
    <2> QED
      BY <2>1, <2>2, TellsNext
  <1> QED
    BY <1>1, <1>2

\* The last LED of a GET has been resolved: the answer fits, if cJSON has the
\* memory for it.
LEMMA FilledLedTells ==
  ASSUME TypeInv, TypeInv', Observe, FilledLed
  PROVE  StatusTellsEffect'
  <1>1. /\ http = "called" /\ hreq.method = "GET" /\ stage[Me] = "served"
        /\ hreq' = hreq /\ outs' = Append(outs, seen[Me][1])
    BY DEF FilledLed, Return
  <1>2. CASE http' # "answered"
    BY <1>2, TellsNext
  <1>3. CASE http' = "answered"
    <2>1. Matched(hreq) /\ effect = "none"
          /\ (hreq.uri = "/api/led/{id}" => hreq.id \in Leds)
      BY <1>1 DEF TypeInv, HttpOK, HandlerInv, Busy
    <2>2. effect' = "none"
      <3>1. ans'[Me] = "none"
        BY MeTask DEF FilledLed, Return, TypeInv, HttpOK, LedTyped
      <3> QED
        BY <1>3, <2>1, <3>1 DEF Observe
    <2>3. outs' \in Seq(Output) /\ Len(outs') <= LedCount /\ outs'[1] \in Output
      <3>1. outs' \in Seq(Output) /\ Len(outs') <= LedCount
        BY DEF TypeInv, HttpOK, HttpTyped
      <3>2. 1 \in 1 .. Len(outs')
        <4>1. outs \in Seq(Output) /\ seen[Me][1] \in Output
          BY MeTask, ConstTypes DEF TypeInv, HttpOK, HttpTyped, LedTyped
        <4> QED
          BY <1>1, <4>1
      <3> QED
        BY <3>1, <3>2
    <2>4. AnswerFits(outs')
      <3>1. CASE Collecting
        <4>1. ListLength(outs') + 1 <= LedCount * LedJsonBudget + 64
          BY <2>3, ListLengthBound
        <4> QED
          BY <3>1, <4>1 DEF AnswerFits, Fits, ListSize
      <3>2. CASE ~Collecting
        <4>1. hreq.id \in Leds /\ LedId = hreq.id
          BY <1>1, <3>2, Known DEF Collecting, TypeInv, HttpOK, HandlerInv, Busy
        <4>2. hreq.id \in Nat /\ hreq.id <= 1024
          <5>1. LedCount <= 1024
            BY HttpAssumption DEF MaxLeds
          <5> QED
            BY <4>1, <5>1, ConstTypes
        <4>3. LedLength(LedId, outs'[1]) \in 0 .. 91
          BY <4>1, <4>2, <2>3, LedLengthBound
        <4>4. LedLength(LedId, outs'[1]) + 1 <= 256
          <5> DEFINE l == LedLength(LedId, outs'[1])
          <5>1. l \in 0 .. 91
            BY <4>3
          <5> HIDE DEF l
          <5>2. l + 1 <= 256
            BY <5>1
          <5> QED
            BY <5>2 DEF l
        <4> QED
          BY <3>2, <4>4 DEF AnswerFits, Fits, JsonMax
      <3> QED
        BY <3>1, <3>2
    <2>5. status' = IF NoMemory THEN 500 ELSE 200
      <3>1. ~(Collecting /\ More(Len(outs')))
        BY <1>3 DEF FilledLed
      <3> QED
        BY <2>4, <3>1 DEF FilledLed, Answer
    <2>6. Routed(hreq)
      BY <2>1 DEF Routed
    <2> QED
      BY <1>1, <2>2, <2>5, <2>6, GetTells
  <1> QED
    BY <1>2, <1>3

\* The time is read.
LEMMA TimeEpochTells ==
  ASSUME TypeInv, Observe, TimeEpoch
  PROVE  StatusTellsEffect'
  <1>1. /\ http = "epoch?" /\ http' = "answered" /\ UNCHANGED <<hreq, ans>>
        /\ status' = IF NoMemory THEN 500 ELSE 200
    BY DEF TimeEpoch, Answer, avars
  <1>2. /\ effect = "none" /\ Matched(hreq) /\ hreq.uri = "/api/time" /\ hreq.method = "GET"
    <2>1. stage[Me] # "served"
      BY <1>1, MeTask DEF TypeInv, HttpOK, HandlerInv, LedTyped
    <2> QED
      BY <1>1, <2>1, NoAnswer, RequestFacts DEF TypeInv, HttpOK, HandlerInv, Busy
  <1>3. effect' = "none"
    BY <1>1, <1>2 DEF Observe
  <1>4. Routed(hreq)
    BY <1>2 DEF Routed
  <1> QED
    BY <1>1, <1>2, <1>3, <1>4, GetTells

\* A request that no route takes.
LEMMA AcceptTells ==
  ASSUME TypeInv, Observe, NEW r \in HttpRequests, Accept(r)
  PROVE  StatusTellsEffect'
  <1>1. CASE Matched(r)
    BY <1>1, TellsNext DEF Accept
  <1>2. CASE ~Matched(r)
    <2>1. http = "idle" /\ http' = "answered" /\ status' = 404 /\ hreq' = r /\ UNCHANGED ans
      BY <1>2 DEF Accept, Answer, avars
    <2>2. effect' = "none"
      BY <2>1 DEF Observe, TypeInv, HttpOK, HandlerInv, Busy
    <2>3. Tells(r, 404, "none")
      BY <1>2, TellsWhen
    <2> QED
      BY <2>1, <2>2, <2>3, TellsNext
  <1> QED
    BY <1>1, <1>2

\* Every step of the HTTP task.
LEMMA HandlerTells ==
  ASSUME TypeInv, TypeInv', Observe, Handler
  PROVE  StatusTellsEffect'
  <1>1. CASE UnknownLed
    <2>1. http = "handle" /\ One /\ hreq.id \notin Leds /\ Refuse(404)
      BY <1>1, Known DEF UnknownLed, One, Busy, TypeInv
    <2> QED
      BY <2>1, RefusedTells DEF Refuse, avars
  <1>2. CASE GetAllNoMemory
    <2>1. http = "handle" /\ ~One /\ NoMemory /\ Refuse(500)
      BY <1>2 DEF GetAllNoMemory, At, One
    <2> QED
      BY <2>1, RefusedTells DEF Refuse, avars
  <1>3. CASE GetLeds \/ FillLed \/ TimeIso \/ TimeSynced \/ Respond
    <2>1. http' # "answered"
      BY <1>3 DEF GetLeds, FillLed, TimeIso, TimeSynced, Respond
    <2> QED
      BY <2>1, TellsNext
  <1> QED
    BY <1>1, <1>2, <1>3, PutOneTells, DeleteOneTells, PutAllTells, DeleteAllTells,
       FinishedTells, FilledLedTells, TimeEpochTells DEF Handler

\* Every step keeps the answers true.
LEMMA StatusStep ==
  ASSUME TypeInv, TypeInv', StatusTellsEffect, [Next]_vars
  PROVE  StatusTellsEffect'
  <1>1. CASE UNCHANGED vars
    <2>1. UNCHANGED <<http, hreq, status, effect>>
      BY <1>1 DEF vars, hvars, history
    <2> QED
      BY <2>1, TellsIt, TellsNext, SameRequest
  <1>2. CASE Next /\ NetStep
    <2>1. http' = http \/ http' # "answered"
      BY <1>2 DEF NetStep, StartTime, StartMdns, MdnsStarted, StartHttp
    <2>2. UNCHANGED <<hreq, status>>
      BY <1>2 DEF NetStep, StartTime, StartMdns, MdnsStarted, StartHttp, NetRest
    <2> QED
      BY <1>2, <2>1, <2>2, StatusRests, TellsNext DEF Next
  <1>3. CASE Next /\ (Clients \/ HttpStep)
    BY <1>3, AcceptTells, HandlerTells DEF Next, Clients, HttpStep
  <1>4. CASE Next /\ (SntpStep \/ \E t \in Callers : OtherCalls(t) \/ LedStep(t) \/ OtherReturns(t))
    <2>1. UNCHANGED hvars
      BY <1>4 DEF SntpStep, OtherCalls, LedStep, OtherReturns, Around
    <2> QED
      BY <1>4, <2>1, StatusRests DEF Next, hvars
  <1> QED
    BY <1>1, <1>2, <1>3, <1>4 DEF Next

\* Nothing has been answered yet.
LEMMA StatusInit == Init => StatusTellsEffect
  BY DEF Init, HInit, StatusTellsEffect

\* The status of an answer tells the client what happened to its request: 400,
\* 404, 409, 500 or 200, each exactly for its cause.
THEOREM ServicesStatus == Spec => []StatusTellsEffect
  <1>1. TypeInv /\ TypeInv' /\ StatusTellsEffect /\ [Next]_vars => StatusTellsEffect'
    BY StatusStep
  <1> QED
    BY <1>1, StatusInit, TypeInvariance, PTL DEF Spec

-----------------------------------------------------------------------------
\* The mDNS names: the loop of mdns_sanitize.

\* The characters of a label.
Chars == Lower \cup Digit \cup {Dash}

\* What the loop of mdns_sanitize keeps true of the label.
Started(l) == l \in Seq(Chars) /\ Len(l) <= MaxLabel /\ (l # <<>> => l[1] # Dash)

\* What DNS asks of a label.
IsLabel(l) == l \in Seq(Chars) /\ Len(l) \in 1 .. MaxLabel /\ l[1] # Dash /\ l[Len(l)] # Dash

\* Letters and digits.
IsAlnum(c) == c \in Upper \cup Lower \cup Digit

\* A letter or digit becomes one of the label.
LEMMA NormalizedFacts ==
  ASSUME NEW c \in Nat
  PROVE  /\ Normalized(c) \in Chars
         /\ IsAlnum(c) => Normalized(c) # Dash
         /\ c \in Chars => Normalized(c) = c
  BY DEF Normalized, Chars, Upper, Lower, Digit, Dash, IsAlnum

\* One character more.
LEMMA ExtendedFacts ==
  ASSUME NEW l \in Seq(Chars), NEW c \in Nat
  PROVE  /\ Extended(l, c) \in Seq(Chars)
         /\ Started(l) => Started(Extended(l, c))
         /\ l # <<>> \/ IsAlnum(c) => Extended(l, c) # <<>>
         /\ c \in Chars /\ Len(l) < MaxLabel /\ (l = <<>> => c # Dash) =>
               Extended(l, c) = Append(l, c)
  <1> DEFINE x == Normalized(c)
  <1>1. x \in Chars /\ (IsAlnum(c) => x # Dash) /\ (c \in Chars => x = c)
    BY NormalizedFacts
  <1>2. MaxLabel \in Nat \ {0}
    BY NamesAssumption
  <1>3. Extended(l, c) = IF Len(l) = MaxLabel \/ (x = Dash /\ l = <<>>) THEN l ELSE Append(l, x)
    BY DEF Extended
  <1> HIDE DEF x
  <1>4. /\ Append(l, x) \in Seq(Chars) /\ Len(Append(l, x)) = Len(l) + 1
        /\ Append(l, x) # <<>>
        /\ l = <<>> => Append(l, x)[1] = x
        /\ l # <<>> => Append(l, x)[1] = l[1]
    <2>1. Len(l) \in Nat
      OBVIOUS
    <2>2. Append(l, x) \in Seq(Chars) /\ Len(Append(l, x)) = Len(l) + 1
      BY <1>1
    <2>3. Append(l, x) # <<>>
      BY <2>1, <2>2
    <2>4. \A k \in 1 .. Len(l) : Append(l, x)[k] = l[k]
      BY <1>1
    <2>5. Append(l, x)[Len(l) + 1] = x
      BY <1>1
    <2>6. l = <<>> => Len(l) = 0
      BY NoneYet
    <2>7. l # <<>> => 1 \in 1 .. Len(l)
      OBVIOUS
    <2> QED
      BY <2>1, <2>2, <2>3, <2>4, <2>5, <2>6, <2>7
  <1>5. l = <<>> => Len(l) = 0
    BY NoneYet
  <1>6. Len(l) \in Nat
    OBVIOUS
  <1>7. Extended(l, c) \in Seq(Chars)
    BY <1>3, <1>4
  <1>8. ASSUME Started(l) PROVE Started(Extended(l, c))
    <2>1. CASE Len(l) = MaxLabel \/ (x = Dash /\ l = <<>>)
      BY <1>3, <1>8, <2>1
    <2>2. CASE ~(Len(l) = MaxLabel \/ (x = Dash /\ l = <<>>))
      <3>1. Extended(l, c) = Append(l, x)
        BY <1>3, <2>2
      <3>2. Len(l) + 1 <= MaxLabel
        BY <1>2, <1>6, <1>8, <2>2 DEF Started
      <3>3. Append(l, x)[1] # Dash
        BY <1>4, <1>8, <2>2 DEF Started
      <3> QED
        BY <1>4, <3>1, <3>2, <3>3 DEF Started
    <2> QED
      BY <2>1, <2>2
  <1>9. ASSUME l # <<>> \/ IsAlnum(c) PROVE Extended(l, c) # <<>>
    <2>1. CASE l # <<>>
      BY <1>3, <1>4, <2>1
    <2>2. CASE l = <<>>
      BY <1>1, <1>2, <1>3, <1>4, <1>5, <1>9, <2>2
    <2> QED
      BY <2>1, <2>2
  <1>10. ASSUME c \in Chars, Len(l) < MaxLabel, l = <<>> => c # Dash
         PROVE  Extended(l, c) = Append(l, c)
    <2>1. x = c /\ Len(l) # MaxLabel
      BY <1>1, <1>2, <1>6, <1>10
    <2> QED
      BY <1>3, <1>10, <2>1
  <1> QED
    BY <1>7, <1>8, <1>9, <1>10

\* The loop goes through the name character by character.
LEMMA MappedSteps ==
  ASSUME NEW src \in Seq(Nat)
  PROVE  \E label : /\ Mapped(src) = label[Len(src)] /\ label[0] = <<>>
                    /\ \A n \in 0 .. Len(src) : label[n] \in Seq(Chars)
                    /\ \A n \in 1 .. Len(src) : label[n] = Extended(label[n - 1], src[n])
  <1> DEFINE size == Len(src)
             step == [n \in 1 .. size |-> [l \in Seq(Chars) |-> Extended(l, src[n])]]
             none == <<>>
  <1>1. \A n \in 1 .. size : \A l \in Seq(Chars) : step[n][l] = Extended(l, src[n])
    OBVIOUS
  <1>2. \A n \in 1 .. size : src[n] \in Nat
    OBVIOUS
  <1>3. size \in Nat /\ none \in Seq(Chars)
    OBVIOUS
  <1>4. none = <<>>
    OBVIOUS
  <1> HIDE DEF step, size, none
  <1>5. StaysIn(Seq(Chars), size, step)
    BY <1>1, <1>2, ExtendedFacts DEF StaysIn
  <1>6. PICK h : Loops(h, size, none, step) /\ \A n \in 0 .. size : h[n] \in Seq(Chars)
    BY <1>3, <1>5, RecursiveFunction
  <1> DEFINE Loop(g) == g = [n \in 0 .. size |-> IF n = 0 THEN <<>> ELSE Extended(g[n - 1], src[n])]
             label == CHOOSE g : Loop(g)
  <1>7. \A n \in 1 .. size : n \in 0 .. size /\ n # 0 /\ n - 1 \in 0 .. size
    BY <1>3
  <1>8. \A n \in 0 .. size : n # 0 => n \in 1 .. size
    BY <1>3
  <1>9. Loop(h)
    BY <1>1, <1>4, <1>6, <1>7, <1>8 DEF Loops
  <1>10. Loop(label)
    <2> HIDE DEF Loop
    <2> QED
      BY <1>9
  <1>11. /\ label[0] = <<>> /\ h[0] = <<>>
         /\ \A n \in 1 .. size : /\ label[n] = Extended(label[n - 1], src[n])
                                /\ h[n] = Extended(h[n - 1], src[n])
    <2>1. \A g : Loop(g) => g[0] = <<>> /\ \A n \in 1 .. size : g[n] = Extended(g[n - 1], src[n])
      <3>1. 0 \in 0 .. size
        BY <1>3
      <3> HIDE DEF label
      <3> QED
        BY <1>7, <3>1
    <2> HIDE DEF label, Loop
    <2> QED
      BY <1>9, <1>10, <2>1
  <1>12. Mapped(src) = label[size]
    BY DEF Mapped, size
  <1> HIDE DEF label, Loop
  <1> DEFINE Same == {n \in Nat : n <= size => label[n] = h[n]}
  <1>13. 0 \in Same
    BY <1>11
  <1>14. ASSUME NEW n \in Nat, n \in Same PROVE n + 1 \in Same
    <2> SUFFICES ASSUME n + 1 <= size PROVE label[n + 1] = h[n + 1]
      OBVIOUS
    <2>1. n + 1 \in 1 .. size /\ (n + 1) - 1 = n /\ n <= size
      BY <1>3
    <2>2. label[n] = h[n]
      BY <1>14, <2>1
    <2> QED
      BY <1>11, <2>1, <2>2
  <1>15. \A n \in Nat : n \in Same
    <2> HIDE DEF Same
    <2> QED
      BY <1>13, <1>14, Induction
  <1>16. \A n \in 0 .. size : label[n] \in Seq(Chars)
    BY <1>3, <1>6, <1>15
  <1> QED
    BY <1>11, <1>12, <1>16 DEF size

\* What mdns_sanitize has kept at the end of its loop.
LEMMA MappedFacts ==
  ASSUME NEW src \in Seq(Nat)
  PROVE  /\ Started(Mapped(src))
         /\ (\E k \in DOMAIN src : IsAlnum(src[k])) => Mapped(src) # <<>>
         /\ IsLabel(src) => Mapped(src) = src
  <1> DEFINE size == Len(src)
  <1>1. PICK label : /\ Mapped(src) = label[size] /\ label[0] = <<>>
                     /\ \A n \in 0 .. size : label[n] \in Seq(Chars)
                     /\ \A n \in 1 .. size : label[n] = Extended(label[n - 1], src[n])
    BY MappedSteps
  <1>2. size \in Nat /\ DOMAIN src = 1 .. size /\ \A n \in 1 .. size : src[n] \in Nat
    OBVIOUS
  <1> HIDE DEF size
  <1>3. \A n \in Nat : n + 1 <= size =>
           /\ n + 1 \in 1 .. size /\ n <= size /\ src[n + 1] \in Nat /\ label[n] \in Seq(Chars)
           /\ label[n + 1] = Extended(label[n], src[n + 1])
    <2> TAKE n \in Nat
    <2> HAVE n + 1 <= size
    <2>1. n + 1 \in 1 .. size /\ (n + 1) - 1 = n /\ n <= size /\ n \in 0 .. size
      BY <1>2
    <2> QED
      BY <1>1, <1>2, <2>1
  <1>4. Started(Mapped(src))
    <2> DEFINE Good == {n \in Nat : n <= size => Started(label[n])}
    <2>1. 0 \in Good
      <3>1. Started(<<>>)
        BY NamesAssumption DEF Started
      <3> QED
        BY <1>1, <3>1
    <2>2. ASSUME NEW n \in Nat, n \in Good PROVE n + 1 \in Good
      <3> SUFFICES ASSUME n + 1 <= size PROVE Started(label[n + 1])
        OBVIOUS
      <3>1. Started(label[n])
        BY <1>3, <2>2
      <3> QED
        BY <1>3, <3>1, ExtendedFacts
    <2>3. size \in Good
      <3> HIDE DEF Good
      <3> QED
        BY <1>2, <2>1, <2>2, Induction
    <2> QED
      BY <1>1, <1>2, <2>3
  <1>5. ASSUME NEW k \in DOMAIN src, IsAlnum(src[k]) PROVE Mapped(src) # <<>>
    <2> DEFINE Good == {n \in Nat : k <= n /\ n <= size => label[n] # <<>>}
    <2>1. k \in 1 .. size
      BY <1>2
    <2>2. 0 \in Good
      BY <2>1
    <2>3. ASSUME NEW n \in Nat, n \in Good PROVE n + 1 \in Good
      <3> SUFFICES ASSUME k <= n + 1, n + 1 <= size PROVE label[n + 1] # <<>>
        OBVIOUS
      <3>1. CASE k = n + 1
        <4>1. /\ label[n] \in Seq(Chars) /\ src[n + 1] \in Nat
              /\ label[n + 1] = Extended(label[n], src[n + 1])
          BY <1>3
        <4>2. IsAlnum(src[n + 1])
          BY <1>5, <3>1
        <4> HIDE DEF Good
        <4> QED
          BY <4>1, <4>2, ExtendedFacts
      <3>2. CASE k # n + 1
        <4>1. k <= n
          BY <2>1, <3>2
        <4>2. label[n] # <<>>
          BY <1>3, <2>3, <4>1
        <4> QED
          BY <1>3, <4>2, ExtendedFacts
      <3> QED
        BY <3>1, <3>2
    <2>4. size \in Good
      <3> HIDE DEF Good
      <3> QED
        BY <1>2, <2>2, <2>3, Induction
    <2>5. k <= size /\ size <= size
      BY <1>2, <2>1
    <2> QED
      BY <1>1, <2>4, <2>5
  <1>6. ASSUME IsLabel(src) PROVE Mapped(src) = src
    <2>1. /\ src \in Seq(Chars) /\ size <= MaxLabel /\ MaxLabel \in Nat /\ src[1] # Dash
      BY <1>6, NamesAssumption DEF IsLabel, size
    <2> DEFINE Good == {n \in Nat : n <= size => /\ Len(label[n]) = n
                                                 /\ \A j \in 1 .. n : label[n][j] = src[j]}
    <2>2. 0 \in Good
      <3>1. Len(label[0]) = 0
        BY <1>1, NoneYet
      <3> QED
        BY <3>1
    <2>3. ASSUME NEW n \in Nat, n \in Good PROVE n + 1 \in Good
      <3> SUFFICES ASSUME n + 1 <= size
                   PROVE  /\ Len(label[n + 1]) = n + 1
                          /\ \A j \in 1 .. n + 1 : label[n + 1][j] = src[j]
        OBVIOUS
      <3> DEFINE l == label[n]
                 c == src[n + 1]
      <3>1. /\ l \in Seq(Chars) /\ Len(l) = n /\ \A j \in 1 .. n : l[j] = src[j]
            /\ c \in Nat /\ c \in Chars /\ label[n + 1] = Extended(l, c)
        <4>1. c \in Chars
          BY <1>3, <2>1 DEF size
        <4> QED
          BY <1>3, <2>3, <4>1
      <3>2. l = <<>> => c # Dash
        <4>1. l = <<>> => n = 0
          BY <3>1, NoneYet
        <4>2. n = 0 => c = src[1]
          OBVIOUS
        <4> QED
          BY <2>1, <4>1, <4>2
      <3>3. Len(l) < MaxLabel
        BY <1>2, <2>1, <3>1
      <3> HIDE DEF l, c
      <3>4. label[n + 1] = Append(l, c)
        BY <3>1, <3>2, <3>3, ExtendedFacts
      <3>5. /\ Len(Append(l, c)) = n + 1 /\ Append(l, c)[n + 1] = c
            /\ \A j \in 1 .. n : Append(l, c)[j] = l[j]
        BY <3>1
      <3>6. \A j \in 1 .. n + 1 : j = n + 1 \/ j \in 1 .. n
        OBVIOUS
      <3> QED
        BY <3>1, <3>4, <3>5, <3>6 DEF c
    <2>4. size \in Good
      <3> HIDE DEF Good
      <3> QED
        BY <1>2, <2>2, <2>3, Induction
    <2>5. /\ label[size] \in Seq(Chars) /\ Len(label[size]) = size
          /\ \A j \in 1 .. size : label[size][j] = src[j]
      <3>1. size \in 0 .. size /\ size <= size
        BY <1>2
      <3>2. label[size] \in Seq(Chars)
        BY <1>1, <3>1
      <3> QED
        BY <2>4, <3>1, <3>2
    <2>6. label[size] = src
      <3> DEFINE l == label[size]
      <3> HIDE DEF l
      <3>1. l \in Seq(Chars) /\ Len(l) = Len(src) /\ \A j \in 1 .. Len(src) : l[j] = src[j]
        BY <2>5 DEF l, size
      <3>2. l = src
        BY <2>1, <3>1
      <3> QED
        BY <3>2 DEF l
    <2> QED
      BY <1>1, <2>6
  <1> QED
    BY <1>4, <1>5, <1>6

-----------------------------------------------------------------------------
\* The mDNS names: the end of the label, and the buffers.

\* Taking the trailing dashes off.
LEMMA UntrailedFacts ==
  ASSUME NEW s \in Seq(Chars)
  PROVE  /\ Untrailed(s) \in Seq(Chars) /\ Len(Untrailed(s)) <= Len(s)
         /\ s # <<>> /\ s[1] # Dash =>
               /\ Untrailed(s) # <<>> /\ Untrailed(s)[1] # Dash
               /\ Untrailed(s)[Len(Untrailed(s))] # Dash
         /\ s # <<>> /\ s[Len(s)] # Dash => Untrailed(s) = s
  <1> DEFINE size == Len(s)
             ks == {k \in DOMAIN s : s[k] # Dash}
             all == {0} \cup ks
             m == Max(all)
             t == SubSeq(s, 1, m)
  <1>1. size \in Nat /\ DOMAIN s = 1 .. size /\ (s # <<>> => size >= 1)
    OBVIOUS
  <1>2. ks \subseteq 1 .. size /\ \A k \in ks : s[k] # Dash
    OBVIOUS
  <1>3. m \in all /\ \A k \in all : k <= m
    <2>1. all \in SUBSET (0 .. size) /\ all # {}
      <3> HIDE DEF ks
      <3> QED
        BY <1>1, <1>2
    <2> HIDE DEF all
    <2> QED
      BY <1>1, <2>1, MaxOf
  <1>4. m \in 0 .. size /\ (m # 0 => s[m] # Dash) /\ \A k \in ks : k <= m
    <2> HIDE DEF m, ks
    <2> QED
      BY <1>1, <1>2, <1>3
  <1>5. \A k \in 1 .. size : s[k] # Dash => k <= m
    BY <1>1, <1>4
  <1>6. Untrailed(s) = t
    BY DEF Untrailed
  <1>7. t \in Seq(Chars) /\ Len(t) = m /\ \A k \in 1 .. m : t[k] = s[k]
    <2> HIDE DEF m, size
    <2>1. m \in Int /\ \A k \in 1 .. m : s[k] \in Chars
      BY <1>1, <1>4 DEF size
    <2>2. /\ t \in Seq(Chars) /\ Len(t) = IF 1 <= m THEN m - 1 + 1 ELSE 0
          /\ \A i \in 1 .. m - 1 + 1 : t[i] = s[1 + i - 1]
      BY <2>1, SubSeqProperties
    <2>3. m - 1 + 1 = m /\ m \in Nat /\ \A i \in 1 .. m : 1 + i - 1 = i
      BY <1>1, <1>4
    <2> QED
      BY <2>2, <2>3
  <1> HIDE DEF m, ks, t
  <1>8. t # <<>> <=> m # 0
    BY <1>4, <1>7, NoneYet
  <1>9. ASSUME s # <<>>, s[1] # Dash
        PROVE  t # <<>> /\ t[1] # Dash /\ t[Len(t)] # Dash
    <2>1. 1 \in 1 .. size
      BY <1>1, <1>9
    <2>2. 1 <= m
      BY <1>5, <1>9, <2>1
    <2>3. 1 \in 1 .. m /\ m \in 1 .. m /\ m # 0
      BY <1>1, <1>4, <2>2
    <2> QED
      BY <1>4, <1>7, <1>8, <1>9, <2>3
  <1>10. ASSUME s # <<>>, s[Len(s)] # Dash PROVE t = s
    <2>1. size \in 1 .. size /\ s[size] # Dash
      BY <1>1, <1>10
    <2>2. m = size
      <3> HIDE DEF size, all
      <3> QED
        BY <1>1, <1>4, <1>5, <2>1
    <2> QED
      BY <1>7, <2>2
  <1>11. Len(t) <= size
    BY <1>1, <1>4, <1>7
  <1> QED
    BY <1>6, <1>7, <1>9, <1>10, <1>11

\* mdns_sanitize makes a label of every name with a letter or a digit, and
\* nothing of the others.
LEMMA SanitizedFacts ==
  ASSUME NEW src \in Seq(Nat)
  PROVE  /\ Sanitized(src) # <<>> => IsLabel(Sanitized(src))
         /\ (\E k \in DOMAIN src : IsAlnum(src[k])) => Sanitized(src) # <<>>
         /\ IsLabel(src) => Sanitized(src) = src
  <1> DEFINE l == Mapped(src)
             u == Untrailed(l)
  <1>1. Started(l) /\ ((\E k \in DOMAIN src : IsAlnum(src[k])) => l # <<>>)
        /\ (IsLabel(src) => l = src)
    BY MappedFacts
  <1>2. Sanitized(src) = u
    BY DEF Sanitized
  <1> HIDE DEF l
  <1>3. /\ u \in Seq(Chars) /\ Len(u) <= Len(l)
        /\ l # <<>> => u # <<>> /\ u[1] # Dash /\ u[Len(u)] # Dash
        /\ l # <<>> /\ l[Len(l)] # Dash => u = l
    BY <1>1, UntrailedFacts DEF Started
  <1>4. l = <<>> => u = <<>>
    <2>1. l = <<>> => Len(l) = 0
      BY NoneYet
    <2>2. Len(u) \in Nat
      BY <1>3
    <2> HIDE DEF u
    <2> QED
      BY <1>3, <2>1, <2>2
  <1> HIDE DEF u
  <1>5. ASSUME u # <<>> PROVE IsLabel(u)
    <2>1. u[1] # Dash /\ u[Len(u)] # Dash
      BY <1>3, <1>4, <1>5
    <2>2. Len(u) \in 1 .. MaxLabel
      <3>1. Len(u) \in Nat /\ Len(u) # 0 /\ Len(l) \in Nat /\ MaxLabel \in Nat
        BY <1>1, <1>3, <1>5, NamesAssumption DEF Started
      <3> QED
        BY <1>1, <1>3, <3>1 DEF Started
    <2> QED
      BY <1>3, <2>1, <2>2 DEF IsLabel
  <1>6. ASSUME IsLabel(src) PROVE u = src
    <2>1. src # <<>> /\ src[Len(src)] # Dash
      BY <1>6, NoneYet DEF IsLabel
    <2> QED
      BY <1>1, <1>3, <1>6, <2>1
  <1> QED
    BY <1>1, <1>2, <1>3, <1>5, <1>6

\* What a buffer holds of a string.
LEMMA CutFacts ==
  ASSUME NEW s \in Seq(Nat), NEW size \in Nat \ {0}
  PROVE  /\ Cut(s, size) \in Seq(Nat) /\ Len(Cut(s, size)) < size
         /\ Len(Cut(s, size)) = IF Len(s) < size THEN Len(s) ELSE size - 1
         /\ \A k \in 1 .. Len(Cut(s, size)) : Cut(s, size)[k] = s[k]
  <1> DEFINE m == IF Len(s) < size THEN Len(s) ELSE size - 1
             t == SubSeq(s, 1, m)
  <1>1. m \in 0 .. Len(s) /\ Len(s) \in Nat /\ m < size
    OBVIOUS
  <1>2. Cut(s, size) = t
    BY DEF Cut
  <1>3. t \in Seq(Nat) /\ Len(t) = m /\ \A k \in 1 .. m : t[k] = s[k]
    <2> HIDE DEF m
    <2>1. m \in Int /\ \A k \in 1 .. m : s[k] \in Nat
      BY <1>1
    <2>2. /\ t \in Seq(Nat) /\ Len(t) = IF 1 <= m THEN m - 1 + 1 ELSE 0
          /\ \A i \in 1 .. m - 1 + 1 : t[i] = s[1 + i - 1]
      BY <2>1, SubSeqProperties
    <2>3. m - 1 + 1 = m /\ m \in Nat /\ \A i \in 1 .. m : 1 + i - 1 = i
      BY <1>1
    <2> QED
      BY <2>2, <2>3
  <1> HIDE DEF t
  <1> QED
    BY <1>1, <1>2, <1>3

\* The names of a device.
LEMMA NamesOf ==
  ASSUME NEW name \in Seq(Nat)
  PROVE  /\ IsLabel(Label(name)) /\ Sanitized(Label(name)) = Label(name)
         /\ Len(Hostname(name)) < HostnameSize
         /\ Len(ServiceName(name)) < ServiceSize /\ IsPrefix(Prefix, ServiceName(name))
         /\ Len(ServerName(name)) < SystemSize
  <1>1. Source(name) \in Seq(Nat) /\ DefaultName \in Seq(Nat)
    BY NamesAssumption DEF Source
  <1>2. Sanitized(DefaultName) # <<>>
    <2>1. \E k \in DOMAIN DefaultName : IsAlnum(DefaultName[k])
      BY NamesAssumption DEF IsAlnum, Upper, Lower, Digit
    <2> QED
      BY <1>1, <2>1, SanitizedFacts
  <1>3. IsLabel(Label(name))
    BY <1>1, <1>2, SanitizedFacts DEF Label
  <1>4. Label(name) \in Seq(Nat)
    <2>1. \A c \in Chars : c \in Nat
      BY DEF Chars, Lower, Digit, Dash
    <2> DEFINE l == Label(name)
    <2>2. l \in Seq(Chars)
      BY <1>3 DEF IsLabel
    <2> HIDE DEF l
    <2>3. \A k \in 1 .. Len(l) : l[k] \in Nat
      <3>1. \A k \in 1 .. Len(l) : l[k] \in Chars
        BY <2>2
      <3> QED
        BY <2>1, <3>1
    <2>4. l \in Seq(Nat)
      BY <2>2, <2>3
    <2> QED
      BY <2>4 DEF l
  <1>5. Sanitized(Label(name)) = Label(name)
    BY <1>3, <1>4, SanitizedFacts
  <1>6. Len(Hostname(name)) < HostnameSize
    <2> DEFINE l == Label(name)
    <2>1. l \in Seq(Nat) /\ Suffix \in Seq(Nat) /\ Len(l) <= MaxLabel /\ MaxLabel \in Nat
      BY <1>3, <1>4, NamesAssumption DEF IsLabel
    <2> HIDE DEF l
    <2>2. Len(l \o Suffix) = Len(l) + Len(Suffix) /\ Len(l) \in Nat /\ Len(Suffix) \in Nat
      BY <2>1
    <2>3. Len(l \o Suffix) < MaxLabel + Len(Suffix) + 1
      BY <2>1, <2>2
    <2> QED
      BY <2>3 DEF Hostname, HostnameSize, l
  <1>7. Len(ServiceName(name)) < ServiceSize /\ IsPrefix(Prefix, ServiceName(name))
    <2> DEFINE src == Source(name)
               s == Prefix \o src
               t == Cut(s, ServiceSize)
               p == Len(Prefix)
    <2>1. /\ Prefix \in Seq(Nat) /\ p \in Nat /\ p < ServiceSize /\ ServiceSize \in Nat \ {0}
      <3>1. Prefix \in Seq(Nat) /\ ServiceSize \in Nat /\ p < ServiceSize
        BY NamesAssumption
      <3> QED
        BY <3>1
    <2> HIDE DEF src
    <2>2. s \in Seq(Nat) /\ Len(s) = p + Len(src) /\ Len(src) \in Nat
          /\ \A k \in 1 .. p : s[k] = Prefix[k]
      BY <1>1, <2>1 DEF src
    <2> HIDE DEF s
    <2>3. /\ t \in Seq(Nat) /\ Len(t) < ServiceSize
          /\ Len(t) = IF Len(s) < ServiceSize THEN Len(s) ELSE ServiceSize - 1
          /\ \A k \in 1 .. Len(t) : t[k] = s[k]
      BY <2>1, <2>2, CutFacts
    <2> HIDE DEF t
    <2>4. p <= Len(t) /\ Len(t) \in Nat
      <3> HIDE DEF p
      <3> QED
        BY <2>1, <2>2, <2>3
    <2>5. SubSeq(Prefix, 1, p) = SubSeq(t, 1, p)
      <3>1. \A k \in 1 .. p : k \in 1 .. Len(t) /\ Prefix[k] \in Nat /\ t[k] = Prefix[k]
        <4>1. \A k \in 1 .. p : Prefix[k] \in Nat
          BY <2>1
        <4>2. \A k \in 1 .. p : k \in 1 .. Len(t)
          <5> HIDE DEF p
          <5> QED
            BY <2>1, <2>4
        <4> QED
          BY <2>2, <2>3, <4>1, <4>2
      <3> DEFINE a == SubSeq(Prefix, 1, p)
                 b == SubSeq(t, 1, p)
      <3> HIDE DEF p
      <3>2. p \in Int /\ p - 1 + 1 = p /\ (IF 1 <= p THEN p - 1 + 1 ELSE 0) = p
            /\ \A i \in 1 .. p : 1 + i - 1 = i
        BY <2>1
      <3>3. /\ \A k \in 1 .. p : Prefix[k] \in Nat
            /\ \A k \in 1 .. p : t[k] \in Nat
        BY <3>1
      <3>4. a \in Seq(Nat) /\ Len(a) = p /\ \A k \in 1 .. p : a[k] = Prefix[k]
        <4>1. /\ a \in Seq(Nat) /\ Len(a) = IF 1 <= p THEN p - 1 + 1 ELSE 0
              /\ \A i \in 1 .. p - 1 + 1 : a[i] = Prefix[1 + i - 1]
          BY <3>2, <3>3, SubSeqProperties
        <4> QED
          BY <3>2, <4>1
      <3>5. b \in Seq(Nat) /\ Len(b) = p /\ \A k \in 1 .. p : b[k] = t[k]
        <4>1. /\ b \in Seq(Nat) /\ Len(b) = IF 1 <= p THEN p - 1 + 1 ELSE 0
              /\ \A i \in 1 .. p - 1 + 1 : b[i] = t[1 + i - 1]
          BY <3>2, <3>3, SubSeqProperties
        <4> QED
          BY <3>2, <4>1
      <3> HIDE DEF a, b
      <3>6. a = b
        <4>1. \A k \in 1 .. p : a[k] = b[k]
          BY <3>1, <3>4, <3>5
        <4>2. DOMAIN a = 1 .. p /\ DOMAIN b = 1 .. p
          BY <3>4, <3>5
        <4>3. a = [k \in 1 .. p |-> a[k]] /\ b = [k \in 1 .. p |-> b[k]]
          BY <3>4, <3>5, <4>2
        <4> QED
          BY <4>1, <4>3
      <3> QED
        BY <3>6 DEF a, b
    <2>6. IsPrefix(Prefix, t)
      BY <2>4, <2>5 DEF IsPrefix
    <2> QED
      BY <2>3, <2>6 DEF ServiceName, src, s, t
  <1>8. Len(ServerName(name)) < SystemSize
    BY CutFacts, NamesAssumption DEF ServerName
  <1> QED
    BY <1>3, <1>5, <1>6, <1>7, <1>8

\* The mDNS names of a device are labels that keep the configured name's letters
\* and digits as far as they fit.
THEOREM ServicesNames == Spec => []NamesAsDocumented
  <1>1. TypeInv => NamesAsDocumented
    <2> SUFFICES ASSUME TypeInv, net = "names" PROVE NamesAsDocumented
      BY DEF NamesAsDocumented
    <2>1. system \in Seq(Nat)
      BY SystemsAssumption DEF TypeInv, RestTyped
    <2>2. /\ Len(Label(system)) \in 1 .. MaxLabel
          /\ \A k \in DOMAIN Label(system) : Label(system)[k] \in Lower \cup Digit \cup {Dash}
          /\ Label(system)[1] # Dash /\ Label(system)[Len(Label(system))] # Dash
      BY <2>1, NamesOf DEF IsLabel, Chars
    <2> QED
      BY <2>1, <2>2, NamesOf DEF NamesAsDocumented
  <1> QED
    BY <1>1, TypeInvariance, PTL
=============================================================================
