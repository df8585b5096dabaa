------------------------------- MODULE DhcpLease -------------------------------
(***************************************************************************)
(* The lease timers of the DHCP client: Ethernet.maintain(), which an      *)
(* application calls now and then, counts the seconds to the renewal and to*)
(* the restart and calls request_DHCP_lease when one of them is over.      *)
(***************************************************************************)
EXTENDS Millis, LeaseCall

CONSTANTS
  Second,         \* 1000
  SecRange,       \* 2^32, the range of a number of seconds in a packet
  Options,        \* lease time, T1 and T2 of an answer; 0 is none
  DEFAULT_LEASE,
  Garbage,        \* what a new DhcpClass has in its counters
  MaxPoll,        \* most milliseconds between two calls of maintain()
  MaxCall,        \* most milliseconds of request_DHCP_lease
  AgeCap,         \* bounds of the ghosts age
  SkipCap         \* and skips: they saturate there

Seconds == 0 .. SecRange - 1
Counter == -SecRange .. SecRange

ASSUME DhcpLeaseAssumption ==
  /\ Second \in Nat \ {0}
  /\ SecRange \in Nat /\ SecRange % 2 = 0 /\ MillisRange % 2 = 0
  /\ \A o \in Options : o.lease \in Seconds /\ o.t1 \in Seconds /\ o.t2 \in Seconds
  /\ DEFAULT_LEASE \in Seconds \ {0}
  /\ Garbage \subseteq Counter
  /\ MaxPoll \in Nat \ {0} /\ MaxCall \in Nat
  /\ Second + 2 * (MaxPoll + MaxCall) < MillisRange \div 2
  /\ AgeCap \in Nat /\ SkipCap \in Nat \ {0}

VARIABLES
  now,          \* millis()
  place,        \* "idle" in the sketch, "request", "after" a renewal
  why,          \* who calls request_DHCP_lease
  lastCheck,    \* _lastCheck
  secTimeout,   \* _secTimeout
  renew,        \* _renewInSec
  rebind,       \* _rebindInSec
  leaseTime,    \* _dhcpLeaseTime
  t1,           \* _dhcpT1
  t2,           \* _dhcpT2
  pause,        \* ghost: milliseconds since the last look, or in the call
  age,          \* ghost: milliseconds since the lease was granted
  took,         \* ghost: milliseconds from the look that led to it
  skips         \* ghost: looks since then that found _lastCheck = 0

counters == <<renew, rebind>>
times == <<leaseTime, t1, t2>>
leaseVars == <<now, place, why, call, lastCheck, secTimeout, counters, times,
               pause, age, took, skips>>

LeaseTypeOK ==
  /\ CallTypeOK
  /\ now \in Ticks
  /\ place \in {"idle", "request", "after"}
  /\ why \in {"begin", "renew", "rebind"}
  /\ lastCheck \in Ticks
  /\ secTimeout \in Ticks
  /\ renew \in Counter
  /\ rebind \in Counter
  /\ leaseTime \in Seconds
  /\ t1 \in Seconds
  /\ t2 \in Seconds
  /\ pause \in 0 .. MaxPoll + MaxCall
  /\ age \in 0 .. AgeCap
  /\ took \in 0 .. 2 * MaxCall
  /\ skips \in 0 .. SkipCap

LeaseInit ==
  /\ CallInit
  /\ now = 0
  /\ place = "idle"
  /\ why = "begin"
  /\ lastCheck = 0
  /\ secTimeout = 0
  /\ renew \in Garbage
  /\ rebind \in Garbage
  /\ leaseTime = 0
  /\ t1 = 0
  /\ t2 = 0
  /\ pause = 0
  /\ age = 0
  /\ took = 0
  /\ skips = 0

\* checkLease is done at once, but for the calls it makes.
Tick ==
  /\ place # "after"
  /\ pause < IF place = "request" THEN MaxCall ELSE MaxPoll
  /\ now' = Wrap(now + 1)
  /\ pause' = pause + 1
  /\ age' = IF call = "leased" /\ age < AgeCap THEN age + 1 ELSE age
  /\ UNCHANGED <<place, why, call, lastCheck, secTimeout, counters, times, took, skips>>

-----------------------------------------------------------------------------
\* The calls of request_DHCP_lease, which DhcpRequest has in full.

RequestLease(for) ==
  /\ Calls
  /\ why' = for
  /\ place' = "request"
  /\ pause' = 0

BeginLease ==
  /\ call = "none"
  /\ RequestLease("begin")
  /\ UNCHANGED <<now, lastCheck, secTimeout, counters, times, age, took, skips>>

\* An unsigned number of seconds in a signed long.
SignedSec(n) == IF n >= SecRange \div 2 THEN n - SecRange ELSE n

\* Fields an answer does not have keep the value of an earlier one.
Parsed(field, option) == IF option = 0 THEN field ELSE option

\* What is missing when the lease is granted is worked out from the rest.
GrantedLease(o) ==
  LET l == Parsed(leaseTime, o.lease) IN IF l = 0 THEN DEFAULT_LEASE ELSE l
GrantedT1(o) ==
  LET t == Parsed(t1, o.t1) IN IF t = 0 THEN GrantedLease(o) \div 2 ELSE t
GrantedT2(o) ==
  LET t == Parsed(t2, o.t2) IN IF t = 0 THEN (2 * GrantedT1(o)) % SecRange ELSE t

AfterCall == IF why = "renew" THEN "after" ELSE "idle"

Granted ==
  /\ CallReturns
  /\ call' = "leased"
  /\ \E o \in Options :
       /\ leaseTime' = GrantedLease(o)
       /\ t1' = GrantedT1(o)
       /\ t2' = GrantedT2(o)
  /\ renew' = SignedSec(t1')
  /\ rebind' = SignedSec(t2')
  /\ place' = AfterCall
  /\ took' = IF why = "begin" THEN 0 ELSE Wrap(now - lastCheck)
  /\ age' = 0
  /\ skips' = 0
  /\ pause' = 0
  /\ UNCHANGED <<now, why, lastCheck, secTimeout>>

\* Answers that are not the last may have been parsed, too.
Failed ==
  /\ CallReturns
  /\ call' # "leased"
  /\ \/ UNCHANGED <<renew, times>>
     \/ \E o \in Options :
          /\ leaseTime' = Parsed(leaseTime, o.lease)
          /\ t1' = Parsed(t1, o.t1)
          /\ t2' = Parsed(t2, o.t2)
          /\ renew' = IF o.lease = 0 THEN renew ELSE SignedSec(o.lease)
  /\ place' = AfterCall
  /\ age' = 0
  /\ took' = 0
  /\ skips' = 0
  /\ pause' = 0
  /\ UNCHANGED <<now, why, lastCheck, secTimeout, rebind>>

-----------------------------------------------------------------------------
\* checkLease.

\* The difference of two times in a signed long.
Late == LET d == Wrap(now - secTimeout)
        IN IF d >= MillisRange \div 2 THEN d - MillisRange ELSE d

\* Seconds to count off: none before _secTimeout, one at least from there on.
FactorOne == 1
FactorTwo == Late \div Second + 2
Factor == Late \div Second + 1

\* The last seconds are counted off early rather than late.
Counted(n) == IF Late < 0 THEN n ELSE IF n < 2 * Factor THEN 0 ELSE n - Factor

NextSecond == Wrap(now + Second - (Late % Second))

RenewDue(r) == call = "leased" /\ r <= 0

\* A client without a lease starts again in the state START only.
RestartDueLeased(r) == call = "leased" /\ r <= 0
RestartDue(r) == call \in {"leased", "retry"} /\ r <= 0

\* The first look, or one after a look when millis() was 0.
FirstCheck ==
  /\ place = "idle"
  /\ call # "none"
  /\ lastCheck = 0
  /\ secTimeout' = Wrap(now + Second)
  /\ lastCheck' = now
  /\ pause' = 0
  /\ skips' = IF skips < SkipCap THEN skips + 1 ELSE skips
  /\ UNCHANGED <<now, place, why, call, counters, times, age, took>>

CheckLease ==
  /\ place = "idle"
  /\ call # "none"
  /\ lastCheck # 0
  /\ lastCheck' = now
  /\ secTimeout' = IF Late < 0 THEN secTimeout ELSE NextSecond
  /\ renew' = Counted(renew)
  /\ rebind' = Counted(rebind)
  /\ IF RenewDue(renew') THEN RequestLease("renew")
     ELSE IF RestartDue(rebind') THEN RequestLease("rebind")
     ELSE pause' = 0 /\ UNCHANGED <<place, why, call>>
  /\ UNCHANGED <<now, times, age, took, skips>>

\* The second test of checkLease when the first has made a call.
CheckAfterRenewal ==
  /\ place = "after"
  /\ IF RestartDue(rebind) THEN RequestLease("rebind")
     ELSE place' = "idle" /\ pause' = 0 /\ UNCHANGED <<why, call>>
  /\ UNCHANGED <<now, lastCheck, secTimeout, counters, times, age, took, skips>>

Maintain == FirstCheck \/ CheckLease \/ CheckAfterRenewal

LeaseNext == Tick \/ BeginLease \/ Granted \/ Failed \/ Maintain

LeaseSpec == LeaseInit /\ [][LeaseNext]_leaseVars

\* The application calls maintain() again and again, and a call returns.
LeaseFairSpec ==
  /\ LeaseSpec
  /\ WF_leaseVars(Tick) /\ WF_leaseVars(Maintain) /\ WF_leaseVars(Granted \/ Failed)

-----------------------------------------------------------------------------
\* Properties.

Positive(n) == n < SecRange \div 2

\* A lease is renewed in time: the countdown never falls behind the clock by
\* more than a second and a call of maintain(), across the rollover of millis()
\* and however irregular the calls are.  A look that finds _lastCheck = 0, the
\* first one or one after millis() was 0, costs as much again.
RenewedInTime ==
  (call = "leased" /\ Positive(t1) /\ skips < SkipCap) =>
    age <= (t1 + 1 + skips) * Second + (1 + skips) * MaxPoll

\* A renewal starts no earlier than its rounding explains: a second and a
\* call of maintain(), and twice the time it took to get the lease, which is
\* counted off the new lease.
NotRenewedEarly ==
  [][(call = "leased" /\ call' = "busy" /\ why' = "renew" /\ Positive(t1) /\ age < AgeCap) =>
       age > (t1 - 1) * Second - MaxPoll - 2 * took]_leaseVars

\* A client left in the state START calls again, whatever its counters held.
TriesAgain == (call = "retry") ~> (call = "busy")
=============================================================================
