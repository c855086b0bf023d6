----------------------------- MODULE MCLedRgb -----------------------------
(***************************************************************************)
(* Two chained LEDs and every task that calls led_rgb in the firmware: the *)
(* HTTP server sets, clears and reads, the event task reports connection   *)
(* states, the button clears.  The HTTP requests hold one of each kind: a  *)
(* broadcast, a batch that names an LED twice, a bad id and a bad period   *)
(* among them.                                                             *)
(***************************************************************************)
EXTENDS LedRgb

MCTimes == {1}

MCCustomRgb == [c1 |-> <<1, 128, 200>>, c2 |-> <<77, 0, 254>>]

MCRequests ==
    [http   |-> {SetCustomAll("c1", 2),
                 SetCustomMany(<<[id |-> 1, color |-> "c2", blink |-> 0],
                                 [id |-> 1, color |-> "c1", blink |-> 2]>>),
                 SetCustom(2, "c1", 0), SetCustom(0, "c2", 4), SetCustom(0, "c2", 3),
                 ClearCustom(1), ClearCustomMany(<<0, 2>>),
                 GetOutput(1, 1), GetOutput(2, 1)},
     event  |-> {SetState("connected"), SetState("connecting"), SetState("custom")},
     button |-> {ClearCustomAll}]
=============================================================================
