------------------------------- MODULE LeaseCall -------------------------------
(***************************************************************************)
(* What the rest of the DHCP client sees of request_DHCP_lease: a call that*)
(* returns, with a lease or in one of two ways without.  From the second,  *)
(* any state but START, checkLease makes no call any more.  DhcpRequest    *)
(* implements it, and DhcpLease is built on it.                            *)
(***************************************************************************)

VARIABLE call

CallTypeOK == call \in {"none", "busy", "leased", "retry", "stuck"}

CallInit == call = "none"

Calls ==
  /\ call \in {"none", "leased", "retry"}
  /\ call' = "busy"

CallReturns ==
  /\ call = "busy"
  /\ call' \in {"leased", "retry", "stuck"}

CallNext == Calls \/ CallReturns

\* What a caller may rely on at any moment, and that the call ends.
CallSafety == CallInit /\ [][CallNext]_call

CallSpec == CallSafety /\ WF_call(CallReturns)
=============================================================================
