----------------------------- MODULE MCDhcpRequest -----------------------------
(***************************************************************************)
(* DhcpRequest with two servers and two calls that may use the same ids.   *)
(***************************************************************************)
EXTENDS DhcpRequest
=============================================================================
