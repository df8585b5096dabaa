---------------------------- MODULE RelaysProofs ----------------------------
(***************************************************************************)
(* Proofs about Relays, for every hold time, clock range and poll gap.     *)
(***************************************************************************)
EXTENDS Relays, TLAPS

\* A timer that is not running is cleared.
IdleInv == \A r \in Relay : ~flag[r] => timer[r] = Idle

\* What start and offset of a running timer stand for: either start is the
\* moment of the command, or the rollover was found and offset holds the
\* milliseconds before it (2 fewer, as the source computes it).
Fresh(r) ==
  /\ timer[r].start = Wrap(now - age[r])
  /\ again[r] \/ timer[r].offset = 0

Carried(r) ==
  /\ timer[r].start = 0
  /\ now < age[r]
  /\ timer[r].offset = Wrap(age[r] - 2 - now)

RunInv == \A r \in Relay :
            (flag[r] /\ age[r] < AgeCap) => (Fresh(r) \/ Carried(r))

\* The gate-up pulse was not overdue when RelayProc last looked at it.
UpInv ==
  (flag["up"] /\ ~late["up"]) =>
    /\ age["up"] <= Delay + 2 + gap
    /\ timer["up"].offset <= Delay \/ timer["up"].offset = MillisRange - 1

IInv == TypeOK /\ IdleInv /\ RunInv /\ UpInv

-----------------------------------------------------------------------------
\* Type correctness.

LEMMA InitType == Init => TypeOK
  BY MillisRangeAssumption, RelaysAssumption
     DEF Init, TypeOK, Idle, Ticks, Timer, Relay

LEMMA StepType == TypeOK /\ [Next]_vars => TypeOK'
<1> SUFFICES ASSUME TypeOK, [Next]_vars
             PROVE  TypeOK'
  OBVIOUS
<1> USE MillisRangeAssumption, RelaysAssumption DEF TypeOK
<1>1. CASE Tick
  <2>1. now' \in Ticks
    BY <1>1, MillisRangeAssumption DEF Tick, Ticks, Wrap
  <2> QED
    BY <1>1, <2>1 DEF Tick
<1>2. ASSUME NEW r \in Commanded, Command(r)
      PROVE  TypeOK'
  <2>1. r \in Relay
    OBVIOUS
  <2>2. Armed(r) \in Timer
    BY <2>1 DEF Armed, Timer
  <2> QED
    BY <1>2, <2>1, <2>2 DEF Command, AfterPhase
<1>3. CASE NoCommand
  BY <1>3 DEF NoCommand, AfterPhase
<1>4. CASE SkipRelays
  BY <1>4 DEF SkipRelays
<1>5. ASSUME NEW r \in Relay, Hold(r)
      PROVE  TypeOK'
  <2>1. Rolled(now, timer[r]) \in Timer
    BY MillisRangeAssumption DEF Rolled, Timer, Ticks, Wrap
  <2>2. late' \in [Relay -> BOOLEAN]
    <3>1. (age[r] > Delay + 2) \in BOOLEAN
      OBVIOUS
    <3> QED
      BY <1>5, <3>1, Zenon DEF Hold
  <2>3. timer' \in [Relay -> Timer]
    BY <1>5, <2>1 DEF Hold
  <2> QED
    BY <1>5, <2>2, <2>3 DEF Hold
<1>6. ASSUME NEW r \in Relay, Release(r)
      PROVE  TypeOK'
  <2>1. \A t : Released(t) \in Timer
    BY DEF Released, Timer, Ticks
  <2> QED
    BY <1>6, <2>1 DEF Release
<1>7. CASE UNCHANGED vars
  BY <1>7 DEF vars
<1> QED
  BY <1>1, <1>2, <1>3, <1>4, <1>5, <1>6, <1>7 DEF Next, Loop, RelayProc

\* Every variable stays in its type: no step of the timer idiom leaves the
\* range of an unsigned long.
THEOREM TypeCorrect == Spec => []TypeOK
<1>1. Init => TypeOK
  BY InitType
<1>2. TypeOK /\ [Next]_vars => TypeOK'
  BY StepType
<1> QED
  BY <1>1, <1>2, PTL DEF Spec
-----------------------------------------------------------------------------
\* The inductive invariant.

LEMMA InitInv == Init => IInv
<1> SUFFICES ASSUME Init PROVE IInv
  OBVIOUS
<1>1. TypeOK
  BY InitType
<1> QED
  BY <1>1 DEF Init, IInv, IdleInv, RunInv, UpInv, Relay

\* What a poll that does not end the pulse leaves behind.
LEMMA HoldRun ==
  ASSUME TypeOK, RunInv, NEW r \in Relay, Hold(r), age[r] < AgeCap
  PROVE  (Fresh(r) \/ Carried(r))'
<1> USE MillisRangeAssumption, RelaysAssumption
<1>1. /\ now \in Ticks /\ timer[r] \in Timer /\ age[r] \in Nat /\ age[r] < MillisRange
      /\ flag[r]
      /\ timer'[r] = Rolled(now, timer[r])
      /\ now' = now /\ age' = age /\ again' = again
  BY DEF TypeOK, Hold, Served
<1>2. Fresh(r) \/ Carried(r)
  BY <1>1 DEF RunInv
<1>3. CASE now < timer[r].start
  <2>1. Fresh(r)
    BY <1>1, <1>2, <1>3 DEF Carried, Ticks
  <2> QED
    BY <1>1, <1>3, <2>1, MillisRangeAssumption
       DEF Fresh, Carried, Rolled, Timer, Ticks, Wrap
<1>4. CASE ~(now < timer[r].start)
  <2>1. timer'[r] = timer[r]
    BY <1>1, <1>4 DEF Rolled
  <2> QED
    BY <1>1, <1>2, <2>1 DEF Fresh, Carried
<1> QED
  BY <1>3, <1>4

LEMMA StepRun == TypeOK /\ IdleInv /\ RunInv /\ [Next]_vars => IdleInv' /\ RunInv'
<1> SUFFICES ASSUME TypeOK, IdleInv, RunInv, [Next]_vars
             PROVE  IdleInv' /\ RunInv'
  OBVIOUS
<1> USE MillisRangeAssumption, RelaysAssumption
<1>1. CASE Tick
  <2>1. IdleInv'
    BY <1>1 DEF Tick, IdleInv
  <2>2. ASSUME NEW r \in Relay, flag'[r], age'[r] < AgeCap
        PROVE  (Fresh(r) \/ Carried(r))'
    <3>1. /\ flag[r] /\ age[r] < AgeCap /\ age'[r] = age[r] + 1
          /\ now' = Wrap(now + 1) /\ timer' = timer /\ again' = again
          /\ now \in Ticks /\ age[r] \in Nat /\ timer[r] \in Timer
      BY <1>1, <2>2 DEF Tick, TypeOK
    <3>2. CASE Fresh(r)
      <4>1. Wrap(now' - age'[r]) = Wrap(now - age[r])
        BY <3>1, <2>2 DEF Wrap, Ticks
      <4> QED
        BY <3>1, <3>2, <4>1 DEF Fresh
    <3>3. CASE Carried(r)
      <4>1. now' = now + 1
        BY <3>1, <3>3, <2>2 DEF Carried, Wrap, Ticks
      <4> QED
        BY <3>1, <3>3, <4>1 DEF Carried, Ticks
    <3> QED
      BY <3>1, <3>2, <3>3 DEF RunInv
  <2> QED
    BY <2>1, <2>2 DEF RunInv
<1>2. ASSUME NEW r \in Commanded, Command(r)
      PROVE  IdleInv' /\ RunInv'
  <2>1. r \in Relay
    OBVIOUS
  <2>2. /\ timer'[r] = [timer[r] EXCEPT !.start = now]
        /\ timer[r] \in Timer /\ now \in Ticks /\ now' = now
        /\ flag'[r] /\ age'[r] = 0 /\ again'[r] = flag[r]
    BY <1>2, <2>1 DEF Command, Armed, TypeOK
  <2>3. Fresh(r)'
    <3>1. timer'[r].start = Wrap(now' - age'[r])
      BY <2>2 DEF Timer, Ticks, Wrap
    <3>2. again'[r] \/ timer'[r].offset = 0
      <4>1. CASE flag[r]
        BY <2>2, <4>1
      <4>2. CASE ~flag[r]
        BY <2>1, <2>2, <4>2 DEF IdleInv, Idle, Timer
      <4> QED
        BY <4>1, <4>2
    <3> QED
      BY <3>1, <3>2 DEF Fresh
  <2>4. ASSUME NEW q \in Relay, q # r
        PROVE  /\ timer'[q] = timer[q] /\ flag'[q] = flag[q]
               /\ age'[q] = age[q] /\ again'[q] = again[q]
    BY <1>2, <2>1, <2>4 DEF Command, TypeOK
  <2>5. IdleInv'
    BY <2>2, <2>4 DEF IdleInv, Idle
  <2>6. ASSUME NEW q \in Relay, flag'[q], age'[q] < AgeCap
        PROVE  (Fresh(q) \/ Carried(q))'
    <3>1. CASE q = r
      BY <2>3, <3>1
    <3>2. CASE q # r
      BY <2>2, <2>4, <2>6, <3>2 DEF RunInv, Fresh, Carried
    <3> QED
      BY <3>1, <3>2
  <2> QED
    BY <2>5, <2>6 DEF RunInv
<1>3. CASE NoCommand \/ SkipRelays
  BY <1>3 DEF NoCommand, SkipRelays, IdleInv, Idle, RunInv, Fresh, Carried
<1>4. ASSUME NEW r \in Relay, Hold(r)
      PROVE  IdleInv' /\ RunInv'
  <2>1. ASSUME NEW q \in Relay, q # r
        PROVE  timer'[q] = timer[q]
    BY <1>4, <2>1 DEF Hold, TypeOK
  <2>2. flag[r] /\ UNCHANGED <<now, flag, age, again>>
    BY <1>4 DEF Hold, Served
  <2>3. IdleInv'
    BY <2>1, <2>2 DEF IdleInv, Idle
  <2>4. ASSUME NEW q \in Relay, flag'[q], age'[q] < AgeCap
        PROVE  (Fresh(q) \/ Carried(q))'
    <3>1. CASE q = r
      BY <1>4, <2>2, <2>4, <3>1, HoldRun
    <3>2. CASE q # r
      BY <2>1, <2>2, <2>4, <3>2 DEF RunInv, Fresh, Carried
    <3> QED
      BY <3>1, <3>2
  <2> QED
    BY <2>3, <2>4 DEF RunInv
<1>5. ASSUME NEW r \in Relay, Release(r)
      PROVE  IdleInv' /\ RunInv'
  <2>1. ASSUME NEW q \in Relay, q # r
        PROVE  /\ timer'[q] = timer[q] /\ flag'[q] = flag[q]
               /\ age'[q] = age[q] /\ again'[q] = again[q]
    BY <1>5, <2>1 DEF Release, TypeOK
  <2>2. ~flag'[r] /\ timer'[r] = Idle /\ now' = now
    BY <1>5 DEF Release, TypeOK, Released, Idle
  <2> QED
    BY <2>1, <2>2 DEF IdleInv, Idle, RunInv, Fresh, Carried
<1>6. CASE UNCHANGED vars
  BY <1>6 DEF vars, IdleInv, Idle, RunInv, Fresh, Carried
<1> QED
  BY <1>1, <1>2, <1>3, <1>4, <1>5, <1>6 DEF Next, Loop, RelayProc
-----------------------------------------------------------------------------
\* The gate-up pulse.

\* A poll that does not end a gate-up pulse leaves it at most Delay + 2 old.
LEMMA HoldUp ==
  ASSUME IInv, Hold("up")
  PROVE  UpInv'
<1> SUFFICES ASSUME ~late'["up"]
             PROVE  /\ age["up"] <= Delay + 2
                    /\ \/ timer'["up"].offset <= Delay
                       \/ timer'["up"].offset = MillisRange - 1
  <2>1. age' = age /\ gap' = 0 /\ age["up"] \in Nat
    BY DEF Hold, IInv, TypeOK, Relay
  <2> QED
    BY <2>1, RelaysAssumption DEF UpInv
<1> USE MillisRangeAssumption, RelaysAssumption
<1> DEFINE n == now
           t == timer["up"]
           a == age["up"]
<1>1. /\ n \in Ticks /\ t \in Timer /\ a \in Nat /\ gap \in 0 .. MaxGap
      /\ flag["up"] /\ ~Expired(n, Rolled(n, t), Delay)
      /\ timer'["up"] = Rolled(n, t)
      /\ late'["up"] = IF n < t.start THEN a > Delay + 2 ELSE late["up"]
  BY DEF IInv, TypeOK, Hold, Served, Relay
<1>2. CASE n < t.start
  <2>1. a <= Delay + 2
    <3>1. ~(a > Delay + 2)
      BY <1>1, <1>2
    <3> QED
      BY <1>1, <3>1
  <2>2. Fresh("up")
    BY <1>1, <1>2, <2>1 DEF IInv, RunInv, Relay, Carried, Ticks
  <2>3. n < a /\ timer'["up"].offset = Wrap(a - 2 - n)
    BY <1>1, <1>2, <2>1, <2>2, MillisRangeAssumption
       DEF Fresh, Rolled, Timer, Ticks, Wrap
  <2> QED
    BY <1>1, <2>1, <2>3 DEF Wrap, Ticks
<1>3. CASE ~(n < t.start)
  <2>1. Rolled(n, t) = t
    BY <1>3 DEF Rolled
  <2>2. ~late["up"]
    BY <1>1, <1>3
  <2>3. /\ a < AgeCap
        /\ t.offset <= Delay \/ t.offset = MillisRange - 1
    BY <1>1, <2>2 DEF IInv, UpInv
  <2>4. Fresh("up") \/ Carried("up")
    BY <1>1, <2>3 DEF IInv, RunInv, Relay
  <2>5. a <= Delay + 2
    <3>1. Wrap(n - t.start) <= Wrap(Delay - t.offset)
      BY <1>1, <2>1, MillisRangeAssumption DEF Expired, Timer, Ticks, Wrap
    <3>2. CASE Fresh("up")
      <4>1. Wrap(n - t.start) = a
        BY <1>1, <1>3, <2>3, <3>2, MillisRangeAssumption
           DEF Fresh, Expired, Timer, Ticks, Wrap
      <4> QED
        BY <1>1, <2>3, <3>1, <4>1 DEF Wrap, Timer, Ticks
    <3>3. CASE Carried("up")
      BY <1>1, <2>3, <3>1, <3>3 DEF Carried, Wrap, Timer, Ticks
    <3> QED
      BY <2>4, <3>2, <3>3
  <2> QED
    BY <1>1, <2>1, <2>3, <2>5
<1> QED
  BY <1>2, <1>3

LEMMA StepUp == IInv /\ [Next]_vars => UpInv'
<1> SUFFICES ASSUME IInv, [Next]_vars
             PROVE  UpInv'
  OBVIOUS
<1> USE MillisRangeAssumption, RelaysAssumption DEF IInv
<1>1. CASE Tick
  BY <1>1 DEF Tick, UpInv, TypeOK, Relay
<1>2. ASSUME NEW r \in Commanded, Command(r)
      PROVE  UpInv'
  <2>1. r \in Relay
    OBVIOUS
  <2>2. CASE r = "up"
    <3>1. /\ timer'["up"].offset = timer["up"].offset
          /\ age'["up"] = 0 /\ gap' = gap /\ gap \in 0 .. MaxGap /\ late' = late
      BY <1>2, <2>1, <2>2 DEF Command, Armed, TypeOK, Timer
    <3>2. flag["up"] \/ timer["up"].offset = 0
      BY DEF IdleInv, Idle, Relay
    <3> QED
      BY <3>1, <3>2 DEF UpInv
  <2>3. CASE r # "up"
    BY <1>2, <2>1, <2>3 DEF Command, UpInv, TypeOK, Relay
  <2> QED
    BY <2>2, <2>3
<1>3. CASE NoCommand
  BY <1>3 DEF NoCommand, UpInv
<1>4. CASE SkipRelays
  BY <1>4 DEF SkipRelays, UpInv, Relay
<1>5. ASSUME NEW r \in Relay, Hold(r)
      PROVE  UpInv'
  <2>1. CASE r = "up"
    BY <1>5, <2>1, HoldUp
  <2>2. CASE r # "up"
    BY <1>5, <2>2 DEF Hold, Served, Above, Relay, UpInv
  <2> QED
    BY <2>1, <2>2
<1>6. ASSUME NEW r \in Relay, Release(r)
      PROVE  UpInv'
  <2>1. ~flag'["up"]
    BY <1>6 DEF Release, Served, Above, Relay, TypeOK
  <2> QED
    BY <2>1 DEF UpInv
<1>7. CASE UNCHANGED vars
  BY <1>7 DEF vars, UpInv
<1> QED
  BY <1>1, <1>2, <1>3, <1>4, <1>5, <1>6, <1>7 DEF Next, Loop, RelayProc

LEMMA Inductive == Spec => []IInv
<1>1. Init => IInv
  BY InitInv
<1>2. IInv /\ [Next]_vars => IInv'
  BY StepType, StepRun, StepUp DEF IInv
<1> QED
  BY <1>1, <1>2, PTL DEF Spec

\* The gate-up relay is energised at most one pass of loop() and 2 ms longer
\* than its hold time, unless an overdue poll found the rollover of millis().
THEOREM UpHeld == Spec => []UpHeldBounded
<1>1. IInv => UpHeldBounded
  BY RelaysAssumption DEF IInv, TypeOK, UpInv, UpHeldBounded, Relay
<1> QED
  BY <1>1, Inductive, PTL

\* No poll, however late, and no rollover of millis() ends a pulse before its
\* hold time is over, unless the relay was commanded again meanwhile.
THEOREM NoPulseCutShort == Spec => NotEarly
<1> USE MillisRangeAssumption, RelaysAssumption
<1>1. IInv /\ [Next]_vars =>
        [\A r \in Relay : (flag[r] /\ ~flag'[r] /\ ~again[r]) => age[r] > Delay]_vars
  <2> SUFFICES ASSUME IInv, [Next]_vars, NEW r \in Relay,
                      flag[r], ~flag'[r], ~again[r]
               PROVE  age[r] > Delay
    OBVIOUS
  <2>1. Release(r)
    BY DEF IInv, TypeOK, Next, Loop, RelayProc, Tick, Command, NoCommand,
           SkipRelays, Hold, Release, vars
  <2>2. /\ now \in Ticks /\ timer[r] \in Timer /\ age[r] \in Nat /\ age[r] <= AgeCap
        /\ Expired(now, Rolled(now, timer[r]), Delay)
    BY <2>1 DEF IInv, TypeOK, Release
  <2>3. CASE age[r] < AgeCap
    <3>1. Fresh(r) \/ Carried(r)
      BY <2>3 DEF IInv, RunInv
    <3>2. /\ Delay + 1 < MillisRange
          /\ age[r] < MillisRange
      BY <2>2
    <3> QED
      BY <2>2, <3>1, <3>2, MillisRangeAssumption
         DEF Fresh, Carried, Rolled, Expired, Timer, Ticks, Wrap
  <2>4. CASE ~(age[r] < AgeCap)
    BY <2>2, <2>4
  <2> QED
    BY <2>3, <2>4
<1> QED
  BY <1>1, Inductive, PTL DEF Spec, NotEarly
=============================================================================
