---------------------------- MODULE MCButtonSm ----------------------------
(***************************************************************************)
(* A clock that wraps every 16 ticks, about twice the long-press time, and *)
(* samples that come one or three ticks apart, so that they step over both *)
(* thresholds.                                                             *)
(***************************************************************************)
EXTENDS ButtonSm
=============================================================================
