--------------------------- MODULE MCCommandReply ---------------------------
(***************************************************************************)
(* CommandReply with two hosts on a clock of a few milliseconds.           *)
(***************************************************************************)
EXTENDS CommandReply

Hosts2 == {"h1", "h2"}
=============================================================================
