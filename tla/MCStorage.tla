----------------------------- MODULE MCStorage -----------------------------
(***************************************************************************)
(* The tasks that reach storage in the firmware: the event task saves what *)
(* provisioning delivers (two networks, one of them open, and an empty     *)
(* name), the network task asks and loads, the button task erases.         *)
(***************************************************************************)
EXTENDS Storage

Home == [ssid |-> "home", password |-> "p1"]
Cafe == [ssid |-> "cafe", password |-> Empty]

MCRequests ==
    [event  |-> {Save(Home), Save(Cafe), Save([Home EXCEPT !.ssid = Empty])},
     net    |-> {Has, Load},
     button |-> {Erase}]
=============================================================================
