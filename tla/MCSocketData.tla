---------------------------- MODULE MCSocketData ----------------------------
(***************************************************************************)
(* SocketData with buffers of eight bytes and registers of two digits of   *)
(* base four, opened just below the end of the pointer's range.            *)
(***************************************************************************)
EXTENDS SocketData

MCKinds == {"TCP", "UDP"}
=============================================================================
