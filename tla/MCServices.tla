----------------------------- MODULE MCServices -----------------------------
(***************************************************************************)
(* Two LEDs and the defaults of Kconfig.  The bodies hold what the parsers *)
(* and the handlers tell apart: fractions, values on both sides of every   *)
(* limit, missing and extra members, lists that name an LED twice, not at  *)
(* all or beyond the chain, texts that are no JSON or do not fit.  The     *)
(* system names are all those of up to four characters that sanitizing     *)
(* tells apart, with labels of three, and one that fits nowhere.           *)
(***************************************************************************)
EXTENDS Services

MCTimes == {1}
MCServerTimes == {5, 10}

MCCustomRgb == [c1 |-> <<1, 128, 255>>, c2 |-> <<0, 0, 9>>]

\* The event task's states and the button's clear, one call at a time.
MCCallRequests ==
    [http   |-> {},
     others |-> {SetState("connected"), SetState("error"), ClearCustomAll}]

C1 == [r |-> Int2(1), g |-> Int2(128), b |-> Num(511)]
C2 == [r |-> Num(-1), g |-> Int2(0), b |-> Int2(9), blink_ms |-> Int2(60000)]
With(c, n, v) == [x \in DOMAIN c \cup {n} |-> IF x = n THEN v ELSE c[x]]
Entry(i, c) == Obj(With(c, "id", i))

BadCommands ==
    {Obj(With(C1, "blink_ms", Num(120001))), Obj(With(C1, "g", Int2(-1))),
     Obj([r |-> Int2(1)]), Broken(FALSE)}

ChainBodies ==
    {Obj(C1), Entry(Int2(0), C1), Arr(<<Entry(Int2(1), C1), Entry(Num(3), C2)>>),
     Arr(<<Entry(Int2(0), C1), Entry(Int2(2), C1)>>), Arr(<<>>)}

IdBodies ==
    {Obj([ids |-> Arr(<<Int2(1)>>)]), Obj([ids |-> Arr(<<>>)]), Obj([ids |-> Int2(1)]),
     Obj([ids |-> Arr(<<Num(1), Int2(2)>>)]), Arr(<<Int2(1)>>), Broken(TRUE)}

Req(method, uri, id, size, body) ==
    [method |-> method, uri |-> uri, id |-> id, size |-> size, body |-> body, luck |-> "well"]

Bodies(method, uri, id, bodies) == {Req(method, uri, id, 50, b) : b \in bodies}

OneUri == "/api/led/{id}"
AllUri == "/api/led"

Well ==
    {Req(m, OneUri, i, 0, Absent) : m \in {"GET", "DELETE"}, i \in {1, 2}}
        \cup Bodies("PUT", OneUri, 1, {Obj(C1)} \cup BadCommands)
        \cup Bodies("PUT", OneUri, 65536, {Obj(C1)})
        \cup Bodies("PUT", AllUri, 0, ChainBodies)
        \cup Bodies("DELETE", AllUri, 0, IdBodies)
        \cup {Req("GET", "/api/time", 0, 0, Absent), Req("GET", AllUri, 0, 0, Absent),
              Req("PUT", OneUri, 0, 160, Obj(C1)), Req("PUT", AllUri, 0, 160, Obj(C1)),
              Req("DELETE", AllUri, 0, 160, Obj([ids |-> Arr(<<Int2(1)>>)])),
              Req("DELETE", AllUri, 0, 0, Absent)}

Unlucky ==
    {r \in Well : r.size = 50
        /\ r.body \in {Obj(C1), Arr(<<Entry(Int2(1), C1), Entry(Num(3), C2)>>),
                       Obj([ids |-> Arr(<<Int2(1)>>)])}}

MCHttpRequests ==
    Well \cup {[r EXCEPT !.luck = l] : r \in Unlucky, l \in {"cut", "nomem"}}
         \cup {[r EXCEPT !.luck = "nomem"] : r \in {w \in Well : w.method = "GET"}}

MCSystems == UNION {[1 .. n -> {65, 57, 45, 64}] : n \in 0 .. 4} \cup {[k \in 1 .. 12 |-> 97]}
MCDefaultName == <<101, 115, 112>>
MCSuffix == <<46, 108, 111, 99, 97, 108>>
MCPrefix == <<80, 82, 79, 86, 95>>
=============================================================================
