------------------------------ MODULE MCDhcpLease ------------------------------
(***************************************************************************)
(* DhcpLease on a clock of seconds of two milliseconds, with leases that   *)
(* are short, longer, and infinite (the largest number of seconds).        *)
(***************************************************************************)
EXTENDS DhcpLease

MCOptions ==
  {[lease |-> 0, t1 |-> 0, t2 |-> 0], [lease |-> 4, t1 |-> 0, t2 |-> 0],
   [lease |-> 15, t1 |-> 0, t2 |-> 0], [lease |-> 7, t1 |-> 5, t2 |-> 7],
   [lease |-> 6, t1 |-> 5, t2 |-> 2]}

MCGarbage == {0, 3}
=============================================================================
