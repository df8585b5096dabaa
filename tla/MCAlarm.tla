------------------------------- MODULE MCAlarm -------------------------------
(***************************************************************************)
(* Alarm on a clock of two 2-bit halves.                                   *)
(***************************************************************************)
EXTENDS Alarm
=============================================================================
