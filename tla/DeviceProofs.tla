---------------------------- MODULE DeviceProofs ----------------------------
(***************************************************************************)
(* Proofs about the whole firmware, for any builds, any capacity of the    *)
(* event loop, any number of resets, and writes that fail or do not.       *)
(***************************************************************************)
EXTENDS Device, TLAPS

Kinds == {"prov_start", "cred_recv", "cred_success", "cred_fail", "got_ip", "disconnected"}

Events == {e \in [kind : Kinds, creds : Creds \cup {None}] :
              e.kind = "cred_recv" => e.creds \in Creds}

Saving == {"cred_recv", "save_ssid", "save_password"}

\* What the event task and the event loop hold, beside TypeOK.
TInv ==
    /\ TypeOK
    /\ queue \in Seq(Events)
    /\ ev \in {"idle", "credentials", "mgr_reset", "connected", "connected_bit"} \cup Kinds \cup Saving
    /\ cur \in [kind : Kinds \cup {"none"}, creds : Creds \cup {None}]
    /\ ev \in Saving => cur.creds \in Creds

\* Before the station has been told to connect, or while the device waits for
\* credentials, nothing has happened that an event could tell.
Early == mgr = "off" /\ (net \notin {"wait", "done"} \/ "start_prov" \in bits)

\* The network task has found no complete pair.
Asked == net \in {"ask", "ask_prov"} \/ "start_prov" \in bits

\* How far the boot has come.
BootInv ==
    /\ prov \notin {"none", "wait"} => "start_prov" \in bits
    /\ "start_prov" \in bits => net \in {"wait", "done"}
    /\ mgr # "off" => prov = "done"
    /\ net \in {"has", "load"} => config = None
    /\ mgr \in {"advertising", "failed"} => config # Good
    /\ mgr = "off" /\ Asked => config = None /\ Missing \in {flash.ssid, flash.password}
    /\ Early => /\ queue = <<>> /\ ev = "idle" /\ ~link /\ ~wifi
                /\ "connected" \notin bits /\ http = "off"

SilentInv == TInv /\ BootInv /\ SilentOnlyWhenTorn

\* Events that end in another colour than green.
Turning == {"prov_start", "cred_recv", "cred_fail"}

\* No more of them will come.
Final == mgr = "ended" \/ (mgr = "off" /\ net \in {"wait", "done"} /\ "start_prov" \notin bits)

\* None of them is waiting or being handled.
StaysGreen ==
    /\ Final
    /\ \A k \in 1 .. Len(queue) : queue[k].kind \notin Turning
    /\ ev \notin Turning \cup Saving \cup {"credentials"}

\* The LEDs turn green after an address and stay so.
GreenInv ==
    /\ wifi => StaysGreen /\ (led = "connected" \/ ev = "connected")
    /\ ev \in {"got_ip", "connected", "connected_bit", "cred_success"} => StaysGreen
    /\ \A k \in 1 .. Len(queue) : queue[k].kind \in {"got_ip", "cred_success"} =>
          Final /\ \A j \in k .. Len(queue) : queue[j].kind \notin Turning
    /\ link => Final
    /\ link => \/ led = "connected" /\ StaysGreen
               \/ ev \in {"got_ip", "connected"}
               \/ \E k \in 1 .. Len(queue) : queue[k].kind = "got_ip"

\* The inductive invariant.
IInv == TInv /\ BootInv /\ SilentOnlyWhenTorn /\ GreenInv

-----------------------------------------------------------------------------
\* What app_main leaves behind satisfies everything.
LEMMA InitIInv == Init => IInv
  <1> SUFFICES ASSUME Init PROVE IInv
    OBVIOUS
  <1>1. TInv
    <2>1. flash \in [ssid : Creds \cup {Missing}, password : Creds \cup {Missing}]
      BY DEF Init
    <2>2. queue \in Seq(Events) /\ Len(queue) = 0
      BY DEF Init
    <2>3. cur \in [kind : Kinds \cup {"none"}, creds : Creds \cup {None}]
      BY DEF Init, NoEvent, Event
    <2>4. prov \in {"none", "wait"}
      BY DEF Init, FirstProv
    <2>5. Len(queue) <= QueueBound /\ resets \in 0 .. MaxResets
      BY <2>2, DeviceAssumption DEF Init
    <2>6. TypeOK
      BY <2>1, <2>4, <2>5 DEF Init, TInv, TypeOK
    <2> QED
      BY <2>2, <2>3, <2>6 DEF Init, TInv, Saving
  <1>2. BootInv
    BY DEF Init, BootInv, Early, Asked, FirstProv
  <1>3. SilentOnlyWhenTorn
    BY DEF Init, SilentOnlyWhenTorn, Silent, FirstProv
  <1>4. GreenInv
    BY DEF Init, GreenInv
  <1> QED
    BY <1>1, <1>2, <1>3, <1>4 DEF IInv

\* So does a restart.
LEMMA RebootIInv ==
  ASSUME TInv, Reboot, resets' \in 0 .. MaxResets
  PROVE  IInv'
  <1>1. TInv'
    <2>1. flash' \in [ssid : Creds \cup {Missing}, password : Creds \cup {Missing}]
      BY DEF Reboot, TInv, TypeOK, Wiped
    <2>2. queue' \in Seq(Events) /\ Len(queue') = 0
      BY DEF Reboot
    <2>3. cur' \in [kind : Kinds \cup {"none"}, creds : Creds \cup {None}]
      BY DEF Reboot, NoEvent, Event
    <2>4. prov' \in {"none", "wait"}
      BY DEF Reboot, FirstProv
    <2>5. Len(queue') <= QueueBound /\ resets' \in 0 .. MaxResets
      BY <2>2, DeviceAssumption DEF Reboot
    <2>6. TypeOK'
      BY <2>1, <2>4, <2>5 DEF Reboot, TInv, TypeOK
    <2> QED
      BY <2>2, <2>3, <2>6 DEF Reboot, TInv, Saving
  <1>2. BootInv'
    BY DEF Reboot, BootInv, Early, Asked, FirstProv
  <1>3. SilentOnlyWhenTorn'
    BY DEF Reboot, SilentOnlyWhenTorn, Silent, FirstProv
  <1>4. GreenInv'
    BY DEF Reboot, GreenInv
  <1> QED
    BY <1>1, <1>2, <1>3, <1>4 DEF IInv

\* app_net_task colours the LEDs only before it waits for the address.
LEMMA NetIInv ==
  ASSUME IInv, NetStep
  PROVE  IInv'
  <1> USE DEF IInv
  <1>1. TInv'
    <2>1. config' \in Creds \cup {None}
      BY DeviceAssumption DEF TInv, TypeOK, NetStep, NetRest, NetStart, NetHas, NetLoad,
         NetConnecting, NetConnect, NetAsk, NetAskProv, NetServices, Creds
    <2>2. /\ bits' \subseteq {"start_prov", "connected"} /\ custom' \in BOOLEAN
          /\ led' \in {"provisioning", "connecting", "connected", "error"}
          /\ net' \in {"start", "has", "load", "connecting", "connect", "ask", "ask_prov",
                       "wait", "done"}
          /\ http' \in {"off", "idle", "erase", "erase_password", "restart"}
      BY DEF TInv, TypeOK, NetStep, NetRest, NetStart, NetHas, NetLoad,
         NetConnecting, NetConnect, NetAsk, NetAskProv, NetServices, SetState
    <2>3. UNCHANGED <<flash, locker, prov, ev, cur, queue, wifi, link, mgr, btn, resets, static>>
      BY DEF NetStep, NetRest, NetStart, NetHas, NetLoad,
         NetConnecting, NetConnect, NetAsk, NetAskProv, NetServices
    <2> QED
      BY <2>1, <2>2, <2>3 DEF TInv, TypeOK
  <1>2. BootInv'
    BY DeviceAssumption DEF BootInv, Early, Asked, NetStep, NetRest, NetStart, NetHas, NetLoad,
       NetConnecting, NetConnect, NetAsk, NetAskProv, NetServices, SetState
  <1>3. SilentOnlyWhenTorn'
    BY DEF SilentOnlyWhenTorn, Silent, NetStep, NetRest, NetStart, NetHas, NetLoad,
       NetConnecting, NetConnect, NetAsk, NetAskProv, NetServices, SetState
  <1>4. GreenInv'
    BY DEF BootInv, Early, Asked, GreenInv, Final, StaysGreen, NetStep, NetRest, NetStart, NetHas, NetLoad,
       NetConnecting, NetConnect, NetAsk, NetAskProv, NetServices, SetState
  <1> QED
    BY <1>1, <1>2, <1>3, <1>4

\* What posting does to the event loop.
LEMMA Posted ==
  ASSUME NEW q \in Seq(Events), NEW s \in Seq(Events)
  PROVE  /\ q \o s \in Seq(Events)
         /\ Len(q \o s) = Len(q) + Len(s)
         /\ \A k \in 1 .. Len(q) : (q \o s)[k] = q[k]
         /\ \A k \in 1 .. Len(s) : (q \o s)[Len(q) + k] = s[k]
         /\ \A k \in 1 .. Len(q \o s) :
               k \in 1 .. Len(q) \/ \E j \in 1 .. Len(s) : k = Len(q) + j /\ (q \o s)[k] = s[j]
  OBVIOUS

\* app_prov_task acts only while nothing can have turned the LEDs green.
LEMMA ProvIInv ==
  ASSUME IInv, ProvStep
  PROVE  IInv'
  <1> USE DEF IInv
  <1> DEFINE start == <<Event("prov_start", None)>>
  <1>0. start \in Seq(Events) /\ Len(start) = 1 /\ start[1].kind = "prov_start"
    BY DEF Event, Events, Kinds
  <1>1. CASE ~ProvBegin
    <2>1. TInv'
      <3>1. /\ prov' \in {"check", "done", "publish", "begin"} /\ custom' \in BOOLEAN
            /\ led' \in {"provisioning", "connecting", "connected", "error"}
        BY <1>1 DEF TInv, TypeOK, ProvStep, ProvWake, ProvCheck, ProvPublish, SetState
      <3>2. UNCHANGED <<flash, locker, bits, net, ev, cur, queue, wifi, config, link, mgr, btn,
                        http, resets, static>>
        BY <1>1 DEF ProvStep, ProvRest, ProvWake, ProvCheck, ProvPublish
      <3> QED
        BY <3>1, <3>2 DEF TInv, TypeOK
    <2>2. BootInv'
      BY <1>1 DEF BootInv, Early, Asked, ProvStep, ProvRest, ProvWake, ProvCheck, ProvPublish, SetState
    <2>3. SilentOnlyWhenTorn'
      BY <1>1 DEF BootInv, Early, Asked, SilentOnlyWhenTorn, Silent, ProvStep, ProvRest, ProvWake,
         ProvCheck, ProvPublish, SetState
    <2>4. GreenInv'
      BY <1>1 DEF BootInv, Early, Asked, GreenInv, Final, StaysGreen, ProvStep, ProvRest,
         ProvWake, ProvCheck, ProvPublish, SetState
    <2> QED
      BY <2>1, <2>2, <2>3, <2>4
  <1>2. CASE ProvBegin
    <2> USE DEF ProvBegin
    <2>1. queue' = start /\ Len(queue') <= QueueBound
      <3>1. queue = <<>>
        BY <1>2 DEF BootInv, Early
      <3> QED
        BY <1>2, <1>0, <3>1 DEF Post
    <2>2. TInv'
      BY <1>0, <1>2, <2>1 DEF TInv, TypeOK, ProvRest
    <2>3. BootInv'
      BY <1>2, DeviceAssumption DEF BootInv, Early, Asked, ProvRest, Creds
    <2>4. SilentOnlyWhenTorn'
      BY <1>2 DEF SilentOnlyWhenTorn, Silent
    <2>5. GreenInv'
      <3>1. ~wifi' /\ ~link' /\ ev' = "idle"
        BY <1>2 DEF BootInv, Early, ProvRest
      <3> QED
        BY <1>0, <2>1, <3>1 DEF GreenInv
    <2> QED
      BY <2>2, <2>3, <2>4, <2>5
  <1> QED
    BY <1>1, <1>2

\* What users ask for touches neither the events nor, unless it is held, a key.
LEMMA UsersIInv ==
  ASSUME IInv, Users
  PROVE  IInv'
  <1> USE DEF IInv
  <1> USE DEF Users, UserRest, ShortPress, LongPress, PostWifi, PostReset, PutLed, DeleteLed
  <1>1. TInv'
    <2>1. /\ custom' \in BOOLEAN /\ btn' \in {"idle", "erase", "erase_password", "restart"}
          /\ http' \in {"off", "idle", "erase", "erase_password", "restart"}
      BY DEF TInv, TypeOK
    <2>2. resets' \in 0 .. MaxResets
      BY DeviceAssumption DEF TInv, TypeOK
    <2>3. UNCHANGED <<flash, locker, led, UserRest>>
      OBVIOUS
    <2> QED
      BY <2>1, <2>2, <2>3 DEF TInv, TypeOK
  <1>2. BootInv'
    BY DEF BootInv, Early, Asked
  <1>3. SilentOnlyWhenTorn'
    BY DEF SilentOnlyWhenTorn, Silent
  <1>4. GreenInv'
    BY DEF GreenInv, Final, StaysGreen
  <1> QED
    BY <1>1, <1>2, <1>3, <1>4

\* An erase, failed or not, leaves keys of the right type and completes no pair.
LEMMA Erased ==
  ASSUME TypeOK, NEW key \in {"ssid", "password"}, NEW ok \in BOOLEAN, EraseKey(key, ok)
  PROVE  /\ flash' \in [ssid : Creds \cup {Missing}, password : Creds \cup {Missing}]
         /\ Missing \in {flash.ssid, flash.password} => Missing \in {flash'.ssid, flash'.password}
  <1>1. flash' \in {flash, Written(key, Missing)}
    BY DEF EraseKey, SetKey
  <1>2. CASE flash' = flash
    BY <1>2 DEF TypeOK
  <1>3. CASE flash' = Written(key, Missing)
    BY <1>3 DEF TypeOK, Written
  <1> QED
    BY <1>1, <1>2, <1>3

\* A long press: the button task is at work until it restarts the chip.
LEMMA ButtonIInv ==
  ASSUME IInv, ButtonStep
  PROVE  IInv'
  <1> USE DEF IInv
  <1>1. CASE ButtonErase /\ UNCHANGED <<led, custom, http, resets, UserRest>>
    <2>1. /\ flash' \in [ssid : Creds \cup {Missing}, password : Creds \cup {Missing}]
          /\ Missing \in {flash.ssid, flash.password} => Missing \in {flash'.ssid, flash'.password}
      BY <1>1, Erased DEF ButtonErase, TInv
    <2>2. btn' \in {"erase_password", "restart"} /\ locker' \in {None, "event", "button", "http"}
      BY <1>1 DEF ButtonErase, TInv, TypeOK
    <2>3. TInv'
      BY <1>1, <2>1, <2>2 DEF TInv, TypeOK, UserRest
    <2>4. BootInv'
      BY <1>1, <2>1 DEF BootInv, Early, Asked, UserRest
    <2>5. SilentOnlyWhenTorn'
      BY <2>2 DEF SilentOnlyWhenTorn
    <2>6. GreenInv'
      BY <1>1 DEF GreenInv, Final, StaysGreen, UserRest
    <2> QED
      BY <2>3, <2>4, <2>5, <2>6
  <1>2. CASE Reboot /\ UNCHANGED resets
    BY <1>2, RebootIInv DEF TInv, TypeOK
  <1> QED
    BY <1>1, <1>2 DEF ButtonStep

\* POST /api/wifi needs a server, so it never meets a device that waits for
\* credentials.
LEMMA HttpIInv ==
  ASSUME IInv, HttpStep
  PROVE  IInv'
  <1> USE DEF IInv
  <1>1. CASE HttpErase /\ UNCHANGED <<led, custom, btn, resets, UserRest>>
    <2>1. flash' \in [ssid : Creds \cup {Missing}, password : Creds \cup {Missing}]
      BY <1>1, Erased DEF HttpErase, TInv
    <2>2. /\ http' \in {"erase_password", "restart"} /\ http # "off"
          /\ locker' \in {None, "event", "button", "http"}
      BY <1>1 DEF HttpErase, TInv, TypeOK
    <2>3. TInv'
      BY <1>1, <2>1, <2>2 DEF TInv, TypeOK, UserRest
    <2>4. ~Early
      BY <2>2 DEF BootInv
    <2>5. BootInv'
      BY <1>1, <2>4 DEF BootInv, Early, Asked, UserRest
    <2>6. SilentOnlyWhenTorn'
      BY <1>1, <2>4 DEF SilentOnlyWhenTorn, Silent, BootInv, Early, UserRest
    <2>7. GreenInv'
      BY <1>1 DEF GreenInv, Final, StaysGreen, UserRest
    <2> QED
      BY <2>3, <2>5, <2>6, <2>7
  <1>2. CASE Reboot /\ UNCHANGED resets
    BY <1>2, RebootIInv DEF TInv, TypeOK
  <1> QED
    BY <1>1, <1>2 DEF HttpStep

\* A client delivers credentials: the device is not on the network.
LEMMA ClientIInv ==
  ASSUME IInv, NEW c \in Creds, ClientSends(c)
  PROVE  IInv'
  <1> USE DEF IInv
  <1> DEFINE new == <<Event("cred_recv", c)>>
  <1>0. new \in Seq(Events) /\ Len(new) = 1 /\ new[1].kind = "cred_recv"
    BY DEF Event, Events, Kinds
  <1>1. /\ queue' = queue \o new /\ queue \in Seq(Events) /\ Len(queue) + Len(new) <= QueueBound
        /\ mgr = "advertising" /\ mgr' = "verifying" /\ config' = c
        /\ UNCHANGED <<flash, locker, bits, led, custom, net, prov, ev, cur, wifi, link, btn,
                       http, resets, static>>
    BY DEF ClientSends, Post, OutsideRest, TInv
  <1>2. /\ queue' \in Seq(Events) /\ Len(queue') <= QueueBound
        /\ \A k \in 1 .. Len(queue') :
              \/ k \in 1 .. Len(queue) /\ queue'[k] = queue[k]
              \/ queue'[k].kind = "cred_recv"
    BY <1>0, <1>1, Posted
  <1>3. TInv'
    BY <1>1, <1>2 DEF TInv, TypeOK
  <1>4. BootInv'
    BY <1>1 DEF BootInv, Early, Asked
  <1>5. SilentOnlyWhenTorn'
    BY <1>1 DEF SilentOnlyWhenTorn, Silent
  <1>6. GreenInv'
    <2>1. ~Final /\ ~wifi /\ ~link
      BY <1>1 DEF Final, GreenInv, StaysGreen
    <2>2. \A k \in 1 .. Len(queue) : queue[k].kind \notin {"got_ip", "cred_success"}
      BY <2>1 DEF GreenInv
    <2> QED
      BY <1>1, <1>2, <2>1, <2>2 DEF GreenInv, StaysGreen
  <1> QED
    BY <1>3, <1>4, <1>5, <1>6

\* The manager gives the credentials up.
LEMMA RejectedIInv ==
  ASSUME IInv, Rejected
  PROVE  IInv'
  <1> USE DEF IInv
  <1> DEFINE new == <<Event("disconnected", None), Event("cred_fail", None)>>
  <1>0. /\ new \in Seq(Events) /\ Len(new) = 2
        /\ new[1].kind = "disconnected" /\ new[2].kind = "cred_fail"
    BY DEF Event, Events, Kinds
  <1>1. /\ queue' = queue \o new /\ queue \in Seq(Events) /\ Len(queue) + Len(new) <= QueueBound
        /\ mgr = "verifying" /\ mgr' = "failed" /\ config = Bad
        /\ UNCHANGED <<flash, locker, bits, led, custom, net, prov, ev, cur, wifi, config, link,
                       btn, http, resets, static>>
    BY DEF Rejected, Post, OutsideRest, TInv
  <1>2. /\ queue' \in Seq(Events) /\ Len(queue') <= QueueBound
        /\ \A k \in 1 .. Len(queue') :
              \/ k \in 1 .. Len(queue) /\ queue'[k] = queue[k]
              \/ queue'[k].kind \in {"disconnected", "cred_fail"}
    BY <1>0, <1>1, Posted
  <1>3. TInv'
    BY <1>1, <1>2 DEF TInv, TypeOK
  <1>4. BootInv'
    BY <1>1, DeviceAssumption DEF BootInv, Early, Asked
  <1>5. SilentOnlyWhenTorn'
    BY <1>1 DEF SilentOnlyWhenTorn, Silent
  <1>6. GreenInv'
    <2>1. ~Final /\ ~wifi /\ ~link
      BY <1>1 DEF Final, GreenInv, StaysGreen
    <2>2. \A k \in 1 .. Len(queue) : queue[k].kind \notin {"got_ip", "cred_success"}
      BY <2>1 DEF GreenInv
    <2> QED
      BY <1>1, <1>2, <2>1, <2>2 DEF GreenInv, StaysGreen
  <1> QED
    BY <1>3, <1>4, <1>5, <1>6

\* A lost link changes no colour, now or later.
LEMMA LoseLinkIInv ==
  ASSUME IInv, LoseLink
  PROVE  IInv'
  <1> USE DEF IInv
  <1> DEFINE new == <<Event("disconnected", None)>>
  <1>0. new \in Seq(Events) /\ Len(new) = 1 /\ new[1].kind = "disconnected"
    BY DEF Event, Events, Kinds
  <1>1. /\ queue' = queue \o new /\ queue \in Seq(Events) /\ Len(queue) + Len(new) <= QueueBound
        /\ link /\ link' = FALSE
        /\ UNCHANGED <<flash, locker, bits, led, custom, net, prov, ev, cur, wifi, config, mgr,
                       btn, http, resets, static>>
    BY DEF LoseLink, Post, OutsideRest, TInv
  <1>2. /\ queue' \in Seq(Events) /\ Len(queue') <= QueueBound
        /\ \A k \in 1 .. Len(queue') :
              \/ k \in 1 .. Len(queue) /\ queue'[k] = queue[k]
              \/ queue'[k].kind = "disconnected"
    BY <1>0, <1>1, Posted
  <1>3. TInv'
    <2>1. link' \in BOOLEAN
      BY <1>1
    <2>2. TypeOK'
      BY <1>1, <1>2, <2>1 DEF TInv, TypeOK
    <2> QED
      BY <1>1, <1>2, <2>2 DEF TInv
  <1>4. BootInv'
    BY <1>1 DEF BootInv, Early, Asked
  <1>5. SilentOnlyWhenTorn'
    BY <1>1 DEF SilentOnlyWhenTorn, Silent
  <1>6. GreenInv'
    BY <1>1, <1>2 DEF GreenInv, StaysGreen, Final, Turning
  <1> QED
    BY <1>3, <1>4, <1>5, <1>6

\* An address comes only when nothing will change the colour any more.
LEMMA AddressIInv ==
  ASSUME IInv, Address
  PROVE  IInv'
  <1> USE DEF IInv
  <1> DEFINE new == IF mgr = "verifying"
                    THEN <<Event("got_ip", None), Event("cred_success", None)>>
                    ELSE <<Event("got_ip", None)>>
  <1>0. /\ new \in Seq(Events) /\ Len(new) \in {1, 2} /\ new[1].kind = "got_ip"
        /\ \A j \in 1 .. Len(new) : new[j].kind \in {"got_ip", "cred_success"}
    <2>1. Event("got_ip", None) \in Events /\ Event("cred_success", None) \in Events
      BY DEF Event, Events, Kinds
    <2>2. Event("got_ip", None).kind = "got_ip" /\ Event("cred_success", None).kind = "cred_success"
      BY DEF Event
    <2> QED
      BY <2>1, <2>2
  <1>1. /\ queue' = queue \o new /\ queue \in Seq(Events) /\ Len(queue) + Len(new) <= QueueBound
        /\ config = Good /\ (mgr = "off" => net \in {"wait", "done"}) /\ link'
        /\ mgr' = IF mgr = "verifying" THEN "ended" ELSE mgr
        /\ UNCHANGED <<flash, locker, bits, led, custom, net, prov, ev, cur, wifi, config,
                       btn, http, resets, static>>
    BY DEF Address, Post, OutsideRest, TInv
  <1> HIDE DEF new
  <1>2. /\ queue' \in Seq(Events) /\ Len(queue') <= QueueBound
        /\ Len(queue') = Len(queue) + Len(new) /\ queue'[Len(queue) + 1].kind = "got_ip"
        /\ \A k \in 1 .. Len(queue') :
              \/ k \in 1 .. Len(queue) /\ queue'[k] = queue[k]
              \/ k > Len(queue) /\ queue'[k].kind \in {"got_ip", "cred_success"}
    <2>1. 1 \in 1 .. Len(new)
      BY <1>0
    <2> QED
      BY <1>0, <1>1, <2>1, Posted
  <1>3. Final'
    <2>1. CASE mgr = "off"
      <3>1. config # None
        BY <1>1, DeviceAssumption DEF Creds
      <3> QED
        BY <1>1, <2>1, <3>1 DEF BootInv, Asked, Final
    <2>2. CASE mgr # "off"
      BY <1>1, <2>2 DEF BootInv, Final, TInv, TypeOK
    <2> QED
      BY <2>1, <2>2
  <1>4. TInv'
    BY <1>1, <1>2 DEF TInv, TypeOK
  <1>5. BootInv'
    <2>1. ~Early
      BY <1>1, <1>3 DEF Early, Final
    <2> QED
      BY <1>1, <2>1 DEF BootInv, Early, Asked
  <1>6. SilentOnlyWhenTorn'
    BY <1>1 DEF SilentOnlyWhenTorn, Silent
  <1>7. GreenInv'
    <2>1. Len(queue) + 1 \in 1 .. Len(queue')
      BY <1>0, <1>2
    <2>2. wifi' => StaysGreen' /\ (led' = "connected" \/ ev' = "connected")
      BY <1>1, <1>2, <1>3 DEF GreenInv, StaysGreen, Turning
    <2>3. ev' \in {"got_ip", "connected", "connected_bit", "cred_success"} => StaysGreen'
      BY <1>1, <1>2, <1>3 DEF GreenInv, StaysGreen, Turning
    <2>4. ASSUME NEW k \in 1 .. Len(queue'), queue'[k].kind \in {"got_ip", "cred_success"},
                 NEW j \in k .. Len(queue')
          PROVE  queue'[j].kind \notin Turning
      <3>1. CASE j > Len(queue)
        BY <1>2, <2>4, <3>1 DEF Turning
      <3>2. CASE j <= Len(queue)
        <4>1. k \in 1 .. Len(queue) /\ j \in k .. Len(queue)
          BY <1>1, <2>4, <3>2
        <4>2. queue'[k] = queue[k] /\ queue'[j] = queue[j]
          BY <1>2, <2>4, <4>1
        <4> QED
          BY <2>4, <4>1, <4>2 DEF GreenInv
      <3> QED
        BY <1>1, <2>4, <3>1, <3>2
    <2> QED
      BY <1>2, <1>3, <2>1, <2>2, <2>3, <2>4 DEF GreenInv
  <1> QED
    BY <1>4, <1>5, <1>6, <1>7

\* The event task turns to the next event.
LEMMA TakeIInv ==
  ASSUME IInv, Take
  PROVE  IInv'
  <1> USE DEF IInv
  <1>1. /\ ev = "idle" /\ queue # <<>> /\ queue \in Seq(Events)
        /\ cur' = queue[1] /\ queue' = Tail(queue) /\ ev' = queue[1].kind
        /\ UNCHANGED <<flash, locker, bits, led, custom, wifi, mgr, EvRest>>
    BY DEF Take, TInv
  <1>2. /\ 1 \in 1 .. Len(queue) /\ queue[1] \in Events
        /\ queue' \in Seq(Events) /\ Len(queue') = Len(queue) - 1
        /\ \A k \in 1 .. Len(queue') : k + 1 \in 1 .. Len(queue) /\ queue'[k] = queue[k + 1]
        /\ \A k \in 2 .. Len(queue) : k - 1 \in 1 .. Len(queue') /\ queue'[k - 1] = queue[k]
    BY <1>1
  <1>3. TInv'
    <2>1. ev' \in Kinds /\ cur' \in [kind : Kinds, creds : Creds \cup {None}]
          /\ (ev' \in Saving => cur'.creds \in Creds)
      BY <1>1, <1>2 DEF Events, Saving, Kinds
    <2>2. Len(queue') <= QueueBound
      BY <1>1, <1>2, DeviceAssumption DEF TInv, TypeOK
    <2> QED
      BY <1>1, <1>2, <2>1, <2>2 DEF TInv, TypeOK, EvRest
  <1>4. ~Early
    BY <1>1 DEF BootInv
  <1>5. BootInv'
    BY <1>1, <1>4 DEF BootInv, Early, Asked, EvRest
  <1>6. SilentOnlyWhenTorn'
    BY <1>1 DEF SilentOnlyWhenTorn, Silent, EvRest
  <1>7. GreenInv'
    <2>1. Final' = Final
      BY <1>1 DEF Final, EvRest
    <2>2. StaysGreen => StaysGreen'
      BY <1>1, <1>2, <2>1 DEF StaysGreen, Turning, Saving, Events, Kinds
    <2>3. ev' \in {"got_ip", "cred_success"} => StaysGreen'
      <3>1. ASSUME ev' \in {"got_ip", "cred_success"}, NEW k \in 1 .. Len(queue')
            PROVE  queue'[k].kind \notin Turning
        <4>1. k + 1 \in 1 .. Len(queue) /\ queue'[k] = queue[k + 1]
          BY <1>2
        <4> QED
          BY <1>1, <1>2, <3>1, <4>1 DEF GreenInv
      <3>2. ev' \in {"got_ip", "cred_success"} => Final
        BY <1>1, <1>2 DEF GreenInv
      <3> QED
        BY <2>1, <3>1, <3>2 DEF StaysGreen, Turning, Saving
    <2>4. ev' \notin {"connected", "connected_bit"}
      BY <1>1, <1>2 DEF Events, Kinds
    <2>5. ASSUME NEW k \in 1 .. Len(queue'), queue'[k].kind \in {"got_ip", "cred_success"}
          PROVE  Final /\ \A j \in k .. Len(queue') : queue'[j].kind \notin Turning
      <3>1. k + 1 \in 1 .. Len(queue) /\ queue[k + 1].kind \in {"got_ip", "cred_success"}
        BY <1>2, <2>5
      <3>2. Final /\ \A j \in k + 1 .. Len(queue) : queue[j].kind \notin Turning
        BY <3>1 DEF GreenInv
      <3>3. ASSUME NEW j \in k .. Len(queue')
            PROVE  queue'[j].kind \notin Turning
        <4>1. j \in 1 .. Len(queue') /\ j + 1 \in k + 1 .. Len(queue)
          BY <1>1, <1>2
        <4> QED
          BY <1>2, <3>2, <4>1
      <3> QED
        BY <3>2, <3>3
    <2>6. link => \/ led = "connected" /\ StaysGreen'
                  \/ ev' = "got_ip"
                  \/ \E k \in 1 .. Len(queue') : queue'[k].kind = "got_ip"
      <3>1. CASE \E k \in 1 .. Len(queue) : queue[k].kind = "got_ip"
        <4>1. PICK k \in 1 .. Len(queue) : queue[k].kind = "got_ip"
          BY <3>1
        <4>2. CASE k = 1
          BY <1>1, <4>1, <4>2
        <4>3. CASE k # 1
          <5>1. k \in 2 .. Len(queue)
            BY <4>3
          <5> QED
            BY <1>2, <4>1, <5>1
        <4> QED
          BY <4>2, <4>3
      <3>2. CASE ~\E k \in 1 .. Len(queue) : queue[k].kind = "got_ip"
        BY <1>1, <2>2, <3>2 DEF GreenInv
      <3> QED
        BY <3>1, <3>2
    <2>7. link' = link /\ wifi' = wifi /\ led' = led
      BY <1>1 DEF EvRest
    <2> QED
      BY <1>1, <2>1, <2>2, <2>3, <2>4, <2>5, <2>6, <2>7 DEF GreenInv
  <1> QED
    BY <1>3, <1>5, <1>6, <1>7

\* The event task saves what it has received, key by key.
LEMMA SaveIInv ==
  ASSUME IInv, EvSaveLock \/ EvSaveSsid \/ EvSavePassword
  PROVE  IInv'
  <1> USE DEF IInv
  <1>1. /\ flash' \in [ssid : Creds \cup {Missing}, password : Creds \cup {Missing}]
        /\ locker' \in {None, "event", "button", "http"}
        /\ ev \in Saving /\ ev' \in {"save_ssid", "save_password", "credentials"}
        /\ UNCHANGED <<bits, led, custom, cur, queue, wifi, mgr, EvRest>>
    <2>1. CASE EvSaveLock
      BY <2>1 DEF EvSaveLock, Saving, TInv, TypeOK
    <2>2. CASE EvSaveSsid
      <3>1. cur.creds \in Creds
        BY <2>2 DEF EvSaveSsid, Saving, TInv
      <3>2. flash' \in {flash, Written("ssid", cur.creds)}
        BY <2>2 DEF EvSaveSsid, SetKey
      <3> QED
        BY <2>2, <3>1, <3>2 DEF EvSaveSsid, Saving, TInv, TypeOK, Written
    <2>3. CASE EvSavePassword
      <3>1. cur.creds \in Creds
        BY <2>3 DEF EvSavePassword, Saving, TInv
      <3>2. flash' \in {flash, Written("password", cur.creds)}
        BY <2>3 DEF EvSavePassword, SetKey
      <3> QED
        BY <2>3, <3>1, <3>2 DEF EvSavePassword, Saving, TInv, TypeOK, Written
    <2> QED
      BY <2>1, <2>2, <2>3
  <1>2. TInv'
    BY <1>1 DEF TInv, TypeOK, EvRest, Saving
  <1>3. ~Early
    BY <1>1 DEF BootInv, Saving, Kinds
  <1>4. BootInv'
    BY <1>1, <1>3 DEF BootInv, Early, Asked, EvRest
  <1>5. SilentOnlyWhenTorn'
    BY <1>1, <1>3 DEF SilentOnlyWhenTorn, Silent, BootInv, Early, EvRest
  <1>6. GreenInv'
    BY <1>1 DEF GreenInv, StaysGreen, Final, EvRest, Saving
  <1> QED
    BY <1>2, <1>4, <1>5, <1>6

\* It publishes the state of an event, or sets the manager back.
LEMMA PublishIInv ==
  ASSUME IInv, EvPublish \/ EvManagerReset
  PROVE  IInv'
  <1> USE DEF IInv
  <1>0. ev # "idle" /\ ~Early
    BY DEF EvPublish, EvManagerReset, BootInv
  <1>1. CASE EvPublish
    <2>1. /\ led' \in {"provisioning", "connecting", "connected", "error"} /\ custom' \in BOOLEAN
          /\ ev = "cred_success" => led' = "connected"
          /\ ev \in {"prov_start", "credentials", "cred_success", "cred_fail"}
          /\ ev' \in {"idle", "mgr_reset"}
          /\ UNCHANGED <<flash, locker, bits, cur, queue, wifi, mgr, EvRest>>
      BY <1>1 DEF EvPublish, SetState, ProvLed, ProvState
    <2>2. TInv'
      <3>1. TypeOK'
        BY <2>1 DEF TInv, TypeOK, EvRest
      <3> QED
        BY <2>1, <3>1 DEF TInv, Saving, Kinds
    <2>3. BootInv'
      BY <1>0, <2>1 DEF BootInv, Early, Asked, EvRest
    <2>4. SilentOnlyWhenTorn'
      BY <2>1 DEF SilentOnlyWhenTorn, Silent, EvRest
    <2>5. GreenInv'
      BY <2>1 DEF GreenInv, StaysGreen, Final, EvRest, Saving, Turning
    <2> QED
      BY <2>2, <2>3, <2>4, <2>5
  <1>2. CASE EvManagerReset
    <2>1. /\ ev' = "idle" /\ mgr' = (IF mgr = "failed" THEN "advertising" ELSE mgr)
          /\ UNCHANGED <<flash, locker, bits, led, custom, cur, queue, wifi, EvRest>>
      BY <1>2 DEF EvManagerReset
    <2>2. TInv'
      BY <2>1 DEF TInv, TypeOK, EvRest, Saving, Kinds
    <2>3. BootInv'
      BY <1>0, <2>1 DEF BootInv, Early, Asked, EvRest
    <2>4. SilentOnlyWhenTorn'
      BY <2>1 DEF SilentOnlyWhenTorn, Silent, EvRest
    <2>5. GreenInv'
      BY <1>2, <2>1 DEF EvManagerReset, GreenInv, StaysGreen, Final, EvRest, Saving, Turning
    <2> QED
      BY <2>2, <2>3, <2>4, <2>5
  <1> QED
    BY <1>1, <1>2

\* It follows the link.
LEMMA LinkIInv ==
  ASSUME IInv, EvGotIp \/ EvConnected \/ EvConnectedBit \/ EvDisconnected
  PROVE  IInv'
  <1> USE DEF IInv
  <1> USE DEF EvGotIp, EvConnected, EvConnectedBit, EvDisconnected
  <1>0. ev # "idle" /\ ~Early
    BY DEF BootInv
  <1>1. TInv'
    <2>1. /\ led' \in {"provisioning", "connecting", "connected", "error"}
          /\ custom' \in BOOLEAN /\ wifi' \in BOOLEAN
          /\ bits' \subseteq {"start_prov", "connected"}
          /\ ev' \in {"idle", "connected", "connected_bit"}
      BY DEF TInv, TypeOK, SetState
    <2>2. UNCHANGED <<flash, locker, cur, queue, mgr, EvRest>>
      OBVIOUS
    <2> QED
      BY <2>1, <2>2 DEF TInv, TypeOK, EvRest, Saving
  <1>2. BootInv'
    BY <1>0 DEF BootInv, Early, Asked, EvRest
  <1>3. SilentOnlyWhenTorn'
    BY DEF SilentOnlyWhenTorn, Silent, EvRest
  <1>4. GreenInv'
    BY DEF GreenInv, StaysGreen, Final, EvRest, Saving, Turning, SetState
  <1> QED
    BY <1>1, <1>2, <1>3, <1>4

\* Every step keeps the invariant.
LEMMA NextIInv == IInv /\ [Next]_vars => IInv'
  <1> SUFFICES ASSUME IInv, [Next]_vars PROVE IInv'
    OBVIOUS
  <1>1. CASE PowerCut
    <2>1. TInv /\ resets' \in 0 .. MaxResets
      BY <1>1, DeviceAssumption DEF IInv, TInv, TypeOK, PowerCut
    <2> QED
      BY <1>1, <2>1, RebootIInv DEF PowerCut
  <1>2. CASE Outside
    BY <1>2, ClientIInv, RejectedIInv, LoseLinkIInv, AddressIInv DEF Outside
  <1>3. CASE EventStep
    BY <1>3, TakeIInv, SaveIInv, PublishIInv, LinkIInv DEF EventStep
  <1>4. CASE UNCHANGED vars
    <2> USE DEF IInv, vars, ram
    <2>1. TInv'
      BY <1>4 DEF TInv, TypeOK
    <2>2. BootInv'
      BY <1>4 DEF BootInv, Early, Asked
    <2>3. SilentOnlyWhenTorn'
      BY <1>4 DEF SilentOnlyWhenTorn, Silent
    <2>4. GreenInv'
      BY <1>4 DEF GreenInv, StaysGreen, Final
    <2> QED
      BY <2>1, <2>2, <2>3, <2>4
  <1> QED
    BY <1>1, <1>2, <1>3, <1>4, NetIInv, ProvIInv, UsersIInv, ButtonIInv, HttpIInv DEF Next

LEMMA AlwaysIInv == Spec => []IInv
  BY InitIInv, NextIInv, PTL DEF Spec
-----------------------------------------------------------------------------

\* Every variable of the firmware keeps its type across boots, resets,
\* provisioning and lost links.
THEOREM TypeCorrect == Spec => []TypeOK
  <1>1. IInv => TypeOK
    BY DEF IInv, TInv
  <1> QED
    BY <1>1, AlwaysIInv, PTL

\* A device that neither connects nor provisions has an SSID without a
\* password in flash: no order of the tasks' steps leads there otherwise.
THEOREM SilentOnlyWhenTornHolds == Spec => []SilentOnlyWhenTorn
  <1>1. IInv => SilentOnlyWhenTorn
    BY DEF IInv
  <1> QED
    BY <1>1, AlwaysIInv, PTL

\* With every event handled a device on the network is green, whichever of the
\* four writers of the LED state ran last.
THEOREM OnlineIsGreenHolds == Spec => []OnlineIsGreen
  <1>1. IInv => OnlineIsGreen
    BY DEF IInv, GreenInv, OnlineIsGreen
  <1> QED
    BY <1>1, AlwaysIInv, PTL
=============================================================================
