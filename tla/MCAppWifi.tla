----------------------------- MODULE MCAppWifi -----------------------------
(***************************************************************************)
(* The firmware's unlimited retries and a budget of two; delays of 2, 4, 8 *)
(* and then the ceiling of 10, or no delay at all; four events may wait.   *)
(***************************************************************************)
EXTENDS AppWifi
=============================================================================
