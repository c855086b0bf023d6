------------------------------ MODULE MCDevice ------------------------------
(***************************************************************************)
(* Three resets (power cuts, long presses or requests), and room for four  *)
(* events to wait: enough to lose power in the middle of a save, boot      *)
(* again, and provision again.  The build stores its credentials, or has   *)
(* good or bad ones compiled in.                                           *)
(***************************************************************************)
EXTENDS Device

MCBuilds == Creds \cup {None}
=============================================================================
