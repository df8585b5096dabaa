---------------------------- MODULE MCSocketPool ----------------------------
(***************************************************************************)
(* SocketPool with a few sockets and a host address that may be refused.   *)
(***************************************************************************)
EXTENDS SocketPool

Any == BOOLEAN
=============================================================================
