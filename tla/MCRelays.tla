------------------------------ MODULE MCRelays ------------------------------
(***************************************************************************)
(* Relays on a clock of a few milliseconds, and what a comment of the      *)
(* sketch says of the hold time, which the code does not keep.             *)
(***************************************************************************)
EXTENDS Relays

\* Nano_Wiz550io.ino:157 calls 500 ms the hold time of the gate-up relay.
\* This asks that no pulse outlasts it by more than a pass of loop().
UpAlwaysBounded == flag["up"] => age["up"] <= Delay + MaxGap + 2
=============================================================================
