------------------------------ MODULE MCHostLink ------------------------------
(***************************************************************************)
(* HostLink on a clock of four seconds of three milliseconds each.         *)
(***************************************************************************)
EXTENDS HostLink
=============================================================================
