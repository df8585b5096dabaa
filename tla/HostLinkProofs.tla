---------------------------- MODULE HostLinkProofs ----------------------------
(***************************************************************************)
(* Proofs about HostLink, for every clock range, period and time limit, and*)
(* for every time the steps of the sketch may take.                        *)
(***************************************************************************)
EXTENDS HostLink, TLAPS

\* What a timer that was started a milliseconds before n holds: the moment it
\* was started, or, after a rollover, the milliseconds before the rollover
\* (2 fewer, as the source computes them).
Tracks(n, t, a) ==
  \/ t.start = Wrap(n - a) /\ t.offset = 0
  \/ t.start = 0 /\ n < a /\ t.offset = Wrap(a - 2 - n)

CDSInv == cdsAge < CDSCap => Tracks(now, cds, cdsAge)

SessInv == (pc \in Session /\ sessAge < SessCap) => Tracks(now, host, sessAge)

\* The counters have room where they move.
PlaceInv ==
  /\ pc \in {"send", "println"} => reqCount < maxSendCount
  /\ (pc = "connect" /\ who = "shock") => retry > 0

IInv == TypeOK /\ PlaceInv /\ CDSInv /\ SessInv

-----------------------------------------------------------------------------
\* Facts about Tracks.

LEMMA TracksStart ==
  ASSUME NEW n \in Ticks
  PROVE  Tracks(n, [start |-> n, offset |-> 0], 0)
  BY MillisRangeAssumption DEF Tracks, Wrap, Ticks

LEMMA TracksTick ==
  ASSUME NEW n \in Ticks, NEW a \in Nat, a + 1 < MillisRange,
         NEW t \in Timer, Tracks(n, t, a)
  PROVE  Tracks(Wrap(n + 1), t, a + 1)
<1> USE MillisRangeAssumption
<1>1. CASE t.start = Wrap(n - a) /\ t.offset = 0
  <2>1. Wrap(Wrap(n + 1) - (a + 1)) = Wrap(n - a)
    BY DEF Wrap, Ticks
  <2> QED
    BY <1>1, <2>1 DEF Tracks
<1>2. CASE t.start = 0 /\ n < a /\ t.offset = Wrap(a - 2 - n)
  <2>1. Wrap(n + 1) = n + 1
    BY <1>2 DEF Wrap, Ticks
  <2>2. (a + 1) - 2 - (n + 1) = a - 2 - n
    BY DEF Ticks
  <2> QED
    BY <1>2, <2>1, <2>2 DEF Tracks, Ticks
<1> QED
  BY <1>1, <1>2 DEF Tracks

LEMMA TracksRolled ==
  ASSUME NEW n \in Ticks, NEW a \in Nat, a < MillisRange,
         NEW t \in Timer, Tracks(n, t, a)
  PROVE  Tracks(n, Rolled(n, t), a)
<1>1. CASE n < t.start
  <2>1. t.start = Wrap(n - a)
    BY <1>1 DEF Tracks, Ticks
  <2> QED
    BY <1>1, <2>1, MillisRangeAssumption DEF Tracks, Rolled, Timer, Ticks, Wrap
<1>2. CASE ~(n < t.start)
  BY <1>2 DEF Rolled
<1> QED
  BY <1>1, <1>2

LEMMA TracksExpires ==
  ASSUME NEW d \in Nat, d + 1 < MillisRange,
         NEW n \in Ticks, NEW a \in Nat, a < MillisRange, NEW t \in Timer,
         Tracks(n, t, a), Expired(n, Rolled(n, t), d)
  PROVE  a > d
  BY MillisRangeAssumption DEF Tracks, Rolled, Expired, Timer, Ticks, Wrap

\* The time limit is within the caps.
LEMMA PeriodType ==
  hostPeriod \in Nat /\ hostPeriod < SessCap /\ hostPeriod + 1 < MillisRange
  BY HostLinkAssumption, MillisRangeAssumption DEF hostPeriod, maxSendCount

-----------------------------------------------------------------------------
\* Type correctness.

LEMMA ZeroType == 0 \in Ticks /\ Zero \in Timer
  BY MillisRangeAssumption DEF Zero, Ticks, Timer

\* The caps are numbers.
LEMMA CapTypes ==
  MaxGap \in Nat /\ MaxBlock \in Nat /\ SessCap \in Nat /\ CDSCap \in Nat
  BY HostLinkAssumption

\* What the variables of the wait hold after it.
LEMMA LeaveLoopType ==
  LeaveLoop => /\ host' \in Timer /\ quotient' \in Ticks /\ reqCount' = 0
               /\ sessAge' \in 0 .. SessCap /\ overdue' \in BOOLEAN
<1> SUFFICES ASSUME LeaveLoop
             PROVE  /\ host' \in Timer /\ quotient' \in Ticks /\ reqCount' = 0
                    /\ sessAge' \in 0 .. SessCap /\ overdue' \in BOOLEAN
  OBVIOUS
<1>1. overdue' \in BOOLEAN
  BY Zenon DEF LeaveLoop
<1> QED
  BY <1>1, CapTypes, ZeroType DEF LeaveLoop

LEMMA InitType == Init => TypeOK /\ PlaceInv
<1> SUFFICES ASSUME Init PROVE TypeOK /\ PlaceInv
  OBVIOUS
<1>1. TypeOK
  <2>1. interrupt_F \in BOOLEAN /\ unread \in BOOLEAN /\ overdue \in BOOLEAN /\ cdsLate \in BOOLEAN
    BY Zenon DEF Init
  <2> QED
    BY <2>1, CapTypes, ZeroType DEF Init, TypeOK, Places
<1>2. PlaceInv
  BY DEF Init, PlaceInv
<1> QED
  BY <1>1, <1>2

LEMMA SecondType == TypeOK => ThisSecond \in Ticks
<1> SUFFICES ASSUME TypeOK PROVE ThisSecond \in Ticks
  OBVIOUS
<1>1. now \in Nat /\ Second \in Nat \ {0}
  BY MillisRangeAssumption, HostLinkAssumption DEF TypeOK, Ticks
<1>2. now \div Second \in Nat /\ now \div Second <= now
  BY <1>1, SMTT(30)
<1> QED
  BY <1>2, MillisRangeAssumption DEF ThisSecond, Ticks, TypeOK

LEMMA StepType == TypeOK /\ PlaceInv /\ [Next]_vars => TypeOK' /\ PlaceInv'
<1> SUFFICES ASSUME TypeOK, PlaceInv, [Next]_vars
             PROVE  TypeOK' /\ PlaceInv'
  OBVIOUS
<1> USE DEF TypeOK, PlaceInv, Places, maxSendCount
<1>1. 0 \in 0 .. MaxGap + MaxBlock /\ 0 \in 0 .. SessCap /\ 0 \in 0 .. CDSCap
  BY HostLinkAssumption
<1>2. CASE Tick
  <2>1. now' \in Ticks
    BY <1>2, MillisRangeAssumption DEF Tick, Ticks, Wrap
  <2>2. gap' \in 0 .. MaxGap + MaxBlock
    BY <1>2, HostLinkAssumption DEF Tick
  <2>3. sessAge' \in 0 .. SessCap /\ cdsAge' \in 0 .. CDSCap
    BY <1>2, HostLinkAssumption DEF Tick, Older
  <2> QED
    BY <1>2, <2>1, <2>2, <2>3 DEF Tick, session
<1>3. CASE Shock
  BY <1>3 DEF Shock, session, ghosts
<1>4. CASE HostSends
  BY <1>4, HostLinkAssumption DEF HostSends, session, ghosts
<1>5. CASE NoCDS
  <2>1. cds' \in Timer
    BY <1>5, MillisRangeAssumption DEF NoCDS, CDSRolled, Rolled, Timer, Ticks, Wrap
  <2>2. cdsLate' \in BOOLEAN
    <3>1. (cdsAge > CDSPeriod + 2) \in BOOLEAN
      OBVIOUS
    <3> QED
      BY <1>5, <3>1, Zenon DEF NoCDS
  <2> QED
    BY <1>1, <1>5, <2>1, <2>2 DEF NoCDS, Goto, session, ghosts
<1>6. CASE CDSProc
  <2>1. cds' \in Timer
    <3>1. cds' = [start |-> now, offset |-> 0]
      BY <1>6 DEF CDSProc, CDSAgain
    <3> QED
      BY <3>1, ZeroType DEF Timer
  <2>2. cdsLate' \in BOOLEAN
    BY <1>6, Zenon DEF CDSProc
  <2> QED
    BY <1>6, <2>1, <2>2, CapTypes DEF CDSProc, Goto, session
<1>7. CASE NoShock
  BY <1>1, <1>7 DEF NoShock, Goto, session, ghosts
<1>8. CASE ShockProc
  BY <1>1, <1>8 DEF ShockProc, Goto, session, ghosts
<1>9. CASE Connected
  <2>1. host' \in Timer
    BY <1>9, ZeroType DEF Connected, Timer
  <2>2. unread' \in BOOLEAN /\ overdue' \in BOOLEAN
    BY <1>9, Zenon DEF Connected
  <2> QED
    BY <1>9, <2>1, <2>2, CapTypes, ZeroType DEF Connected, Goto
<1>10. CASE ConnectFailed
  <2>1. CASE who = "cds"
    BY <1>10, <2>1, CapTypes DEF ConnectFailed, Goto, session, ghosts
  <2>2. CASE who = "shock"
    <3>1. retry' = retry - 1 /\ retry' \in 0 .. 3
      BY <1>10, <2>2 DEF ConnectFailed, Retry
    <3>2. CASE retry' > 0
      BY <1>10, <2>2, <3>1, <3>2, CapTypes DEF ConnectFailed, Goto, session, ghosts
    <3>3. CASE ~(retry' > 0)
      <4>1. interrupt_F' \in BOOLEAN
        BY <1>10, <2>2, <3>3, Zenon DEF ConnectFailed
      <4> QED
        BY <4>1, <1>10, <2>2, <3>1, <3>3, CapTypes DEF ConnectFailed, Goto, session, ghosts
    <3> QED
      BY <3>2, <3>3
  <2> QED
    BY <2>1, <2>2
<1>11. CASE Answered
  <2>1. UNCHANGED <<now, interrupt_F, cds, who, retry, unread, cdsAge, cdsLate>>
    BY <1>11 DEF Answered
  <2>2. pc' = "drain" /\ gap' = 0
    BY <1>11 DEF Answered, Goto
  <2>3. LeaveLoop
    BY <1>11 DEF Answered
  <2> QED
    BY <2>1, <2>2, <2>3, CapTypes, LeaveLoopType
<1>12. CASE GiveUp
  <2>1. UNCHANGED <<now, interrupt_F, cds, who, retry, unread, cdsAge, cdsLate>>
    BY <1>12 DEF GiveUp
  <2>2. pc' = "stop" /\ gap' = 0
    BY <1>12 DEF GiveUp, Goto
  <2>3. LeaveLoop
    BY <1>12 DEF GiveUp
  <2> QED
    BY <2>1, <2>2, <2>3, CapTypes, LeaveLoopType
<1>13. CASE GoOn
  <2>1. host' \in Timer
    BY <1>13, MillisRangeAssumption DEF GoOn, HostRolled, Rolled, Timer, Ticks, Wrap
  <2>2. overdue' \in BOOLEAN
    <3>1. (sessAge > hostPeriod + 2) \in BOOLEAN
      OBVIOUS
    <3> QED
      BY <1>13, <3>1, Zenon DEF GoOn
  <2> QED
    BY <1>1, <1>13, <2>1, <2>2 DEF GoOn, Goto, ghosts
<1>14. CASE Ask
  BY <1>1, <1>14 DEF Ask, DueToSend, Goto, session, ghosts
<1>15. CASE Send
  BY <1>1, <1>15, SecondType DEF Send, Goto, ghosts
<1>16. CASE Sent
  BY <1>1, <1>16 DEF Sent, Goto, ghosts
<1>17. CASE Drain
  BY <1>1, <1>17 DEF Drain, Goto, session, ghosts
<1>18. CASE Stop
  <2>1. unread' \in BOOLEAN
    BY <1>18, Zenon DEF Stop
  <2>2. interrupt_F' \in BOOLEAN
    BY <1>18, Zenon DEF Stop
  <2> QED
    BY <1>18, <2>1, <2>2, CapTypes, ZeroType DEF Stop, Goto, session, ghosts
<1>19. CASE UNCHANGED vars
  BY <1>19 DEF vars, session, ghosts
<1> QED
  BY <1>2, <1>3, <1>4, <1>5, <1>6, <1>7, <1>8, <1>9, <1>10, <1>11, <1>12, <1>13,
     <1>14, <1>15, <1>16, <1>17, <1>18, <1>19 DEF Next, Loop, HostProc

-----------------------------------------------------------------------------
\* The timers hold the true times.

LEMMA StepTimers == TypeOK /\ CDSInv /\ SessInv /\ [Next]_vars => CDSInv' /\ SessInv'
<1> SUFFICES ASSUME TypeOK, CDSInv, SessInv, [Next]_vars
             PROVE  CDSInv' /\ SessInv'
  OBVIOUS
<1> USE DEF CDSInv, SessInv
<1>1. /\ now \in Ticks /\ cds \in Timer /\ host \in Timer
      /\ cdsAge \in Nat /\ sessAge \in Nat
      /\ CDSCap \in Nat /\ CDSCap < MillisRange
      /\ SessCap \in Nat /\ SessCap < MillisRange /\ 0 < SessCap /\ 0 < CDSCap
  BY HostLinkAssumption DEF TypeOK
<1>2. CASE Tick
  <2>1. CDSInv'
    <3> SUFFICES ASSUME cdsAge' < CDSCap
                 PROVE  Tracks(now, cds, cdsAge)'
      OBVIOUS
    <3>1. /\ cdsAge' = cdsAge + 1 /\ cdsAge < CDSCap
          /\ now' = Wrap(now + 1) /\ cds' = cds
      BY <1>1, <1>2 DEF Tick, Older
    <3>2. cdsAge + 1 < MillisRange
      BY <1>1, <3>1, MillisRangeAssumption
    <3>3. Tracks(Wrap(now + 1), cds, cdsAge + 1)
      BY <1>1, <3>1, <3>2, TracksTick
    <3> QED
      BY <3>1, <3>3 DEF Tracks
  <2>2. SessInv'
    <3> SUFFICES ASSUME pc' \in Session, sessAge' < SessCap
                 PROVE  Tracks(now, host, sessAge)'
      OBVIOUS
    <3>1. /\ pc \in Session /\ sessAge' = sessAge + 1 /\ sessAge < SessCap
          /\ now' = Wrap(now + 1) /\ host' = host
      BY <1>1, <1>2 DEF Tick, Older, session
    <3>2. sessAge + 1 < MillisRange
      BY <1>1, <3>1, MillisRangeAssumption
    <3>3. Tracks(Wrap(now + 1), host, sessAge + 1)
      BY <1>1, <3>1, <3>2, TracksTick
    <3> QED
      BY <3>1, <3>3 DEF Tracks
  <2> QED
    BY <2>1, <2>2
<1>3. CASE Shock \/ HostSends \/ ShockProc \/ NoShock \/ Ask \/ Send \/ Sent \/ Drain
  BY <1>3 DEF Shock, HostSends, ShockProc, NoShock, Ask, Send, Sent, Drain,
              Goto, session, ghosts, Tracks, Session
<1>4. CASE NoCDS
  <2>1. UNCHANGED <<now, host, sessAge, cdsAge>> /\ cds' = Rolled(now, cds) /\ pc' = "shock"
    BY <1>4 DEF NoCDS, CDSRolled, Goto, session, ghosts
  <2>2. cdsAge < CDSCap => Tracks(now, Rolled(now, cds), cdsAge)
    BY <1>1, TracksRolled, MillisRangeAssumption
  <2> QED
    BY <2>1, <2>2 DEF Tracks, Session
<1>5. CASE CDSProc
  <2>1. now' = now /\ cds' = [start |-> now, offset |-> 0] /\ cdsAge' = 0 /\ pc' = "connect"
    BY <1>5 DEF CDSProc, CDSAgain, Goto
  <2>2. Tracks(now, [start |-> now, offset |-> 0], 0)
    BY <1>1, TracksStart
  <2> QED
    BY <2>1, <2>2 DEF Tracks, Session
<1>6. CASE Connected
  <2>1. /\ UNCHANGED <<now, cds, cdsAge>> /\ host' = [start |-> now, offset |-> 0]
        /\ sessAge' = 0
    BY <1>6 DEF Connected
  <2>2. Tracks(now, [start |-> now, offset |-> 0], 0)
    BY <1>1, TracksStart
  <2> QED
    BY <2>1, <2>2 DEF Tracks
<1>7. CASE ConnectFailed
  BY <1>7 DEF ConnectFailed, Goto, session, ghosts, Tracks, Session
<1>8. CASE GoOn
  <2>1. /\ UNCHANGED <<now, cds, sessAge, cdsAge>> /\ host' = Rolled(now, host)
        /\ pc \in Session
    BY <1>8 DEF GoOn, HostRolled, ghosts, Session
  <2>2. sessAge < SessCap => Tracks(now, Rolled(now, host), sessAge)
    BY <1>1, <2>1, TracksRolled, MillisRangeAssumption
  <2> QED
    BY <2>1, <2>2 DEF Tracks
<1>9. CASE Stop
  BY <1>9 DEF Stop, Goto, Tracks, Session, ghosts
<1>10. CASE UNCHANGED vars
  BY <1>10 DEF vars, session, ghosts, Tracks
<1>11. CASE Answered \/ GiveUp
  BY <1>11 DEF Answered, GiveUp, Goto, Tracks, Session
<1> QED
  BY <1>2, <1>3, <1>4, <1>5, <1>6, <1>7, <1>8, <1>9, <1>10, <1>11 DEF Next, Loop, HostProc

LEMMA Inductive == Spec => []IInv
<1>1. Init => IInv
  <2> SUFFICES ASSUME Init PROVE IInv
    OBVIOUS
  <2>1. CDSInv
    BY TracksStart, ZeroType DEF Init, CDSInv, Zero
  <2>2. SessInv
    BY DEF Init, SessInv, Session
  <2> QED
    BY <2>1, <2>2, InitType DEF IInv
<1>2. IInv /\ [Next]_vars => IInv'
  BY StepType, StepTimers DEF IInv
<1> QED
  BY <1>1, <1>2, PTL DEF Spec

-----------------------------------------------------------------------------
\* Theorems.

\* Every variable stays in its type; the counters of HostProc and ShockProc
\* stay within 3, whatever the clock and the host do.
THEOREM TypeCorrect == Spec => []TypeOK
<1>1. IInv => TypeOK
  BY DEF IInv
<1> QED
  BY <1>1, Inductive, PTL

\* A step that gives up comes after the time limit.
LEMMA StepWaits ==
  ASSUME IInv, [Next]_vars, pc = "wait", pc' = "stop"
  PROVE  sessAge > hostPeriod
<1>1. GiveUp
  BY DEF Next, Loop, HostProc, Tick, Shock, HostSends, NoCDS, CDSProc, NoShock, ShockProc,
         Connected, ConnectFailed, Answered, GoOn, Ask, Send, Sent, Drain, Stop, Goto, vars
<1>2. /\ now \in Ticks /\ host \in Timer /\ sessAge \in Nat
      /\ Expired(now, Rolled(now, host), hostPeriod)
  BY <1>1 DEF IInv, TypeOK, GiveUp, TimedOut, HostRolled
<1>3. CASE sessAge < SessCap
  <2>1. Tracks(now, host, sessAge) /\ sessAge < MillisRange
    BY <1>2, <1>3, HostLinkAssumption, MillisRangeAssumption DEF IInv, SessInv, Session
  <2> QED
    BY <1>2, <2>1, PeriodType, TracksExpires
<1>4. CASE ~(sessAge < SessCap)
  BY <1>2, <1>4, PeriodType, HostLinkAssumption
<1> QED
  BY <1>3, <1>4

\* HostProc hangs up on a silent host only after its full time, wherever the
\* rollover of millis() falls and however long its steps take.
THEOREM HostHasItsTime == Spec => FullWait
<1>1. IInv /\ [Next]_vars => [(pc = "wait" /\ pc' = "stop") => sessAge > hostPeriod]_vars
  BY StepWaits
<1> QED
  BY <1>1, Inductive, PTL DEF Spec, FullWait

\* CDS reports begin more than CDSPeriod apart, however long HostProc keeps
\* loop() and wherever the rollover of millis() falls.
THEOREM ReportsAreApart == Spec => CDSPaced
<1>1. IInv /\ [Next]_vars => [(cdsAge' = 0 /\ cdsAge # 0) => cdsAge > CDSPeriod]_vars
  <2> SUFFICES ASSUME IInv, [Next]_vars, cdsAge' = 0, cdsAge # 0
               PROVE  cdsAge > CDSPeriod
    OBVIOUS
  <2>1. cdsAge \in Nat /\ now \in Ticks /\ cds \in Timer
    BY DEF IInv, TypeOK
  <2>2. ~Tick
    BY <2>1 DEF Tick, Older
  <2>3. CDSProc
    BY <2>2 DEF Next, Loop, HostProc, Shock, HostSends, NoCDS, NoShock, ShockProc, Connected,
                ConnectFailed, Answered, GiveUp, GoOn, Ask, Send, Sent, Drain, Stop, ghosts, vars
  <2>4. Expired(now, Rolled(now, cds), CDSPeriod)
    BY <2>3 DEF CDSProc, CDSDue, CDSRolled
  <2>5. CDSPeriod \in Nat /\ CDSPeriod < CDSCap /\ CDSCap \in Nat
        /\ CDSCap < MillisRange /\ CDSPeriod + 1 < MillisRange
    BY HostLinkAssumption, MillisRangeAssumption
  <2>6. CASE cdsAge < CDSCap
    <3>1. Tracks(now, cds, cdsAge) /\ cdsAge < MillisRange
      BY <2>1, <2>5, <2>6, MillisRangeAssumption DEF IInv, CDSInv
    <3> QED
      BY <2>1, <2>4, <2>5, <3>1, TracksExpires
  <2>7. CASE ~(cdsAge < CDSCap)
    BY <2>1, <2>5, <2>7
  <2> QED
    BY <2>6, <2>7
<1> QED
  BY <1>1, Inductive, PTL DEF Spec, CDSPaced

-----------------------------------------------------------------------------
\* The seconds of the clock.

LEMMA DivRange ==
  ASSUME NEW S \in Nat \ {0}, NEW x \in Nat
  PROVE  x \div S \in Nat /\ S * (x \div S) <= x /\ x < S * (x \div S) + S
  BY SMTT(30)

LEMMA TimesMonotone ==
  ASSUME NEW S \in Nat \ {0}, NEW a \in Nat, NEW b \in Nat, a + 1 <= b
  PROVE  S * a + S <= S * b
  BY SMTT(30)

LEMMA DivMonotone ==
  ASSUME NEW S \in Nat \ {0}, NEW x \in Nat, NEW y \in Nat, x <= y
  PROVE  x \div S <= y \div S
<1> DEFINE a == x \div S
           b == y \div S
<1>1. a \in Nat /\ b \in Nat /\ S * a <= x /\ y < S * b + S /\ S * b \in Nat
  BY DivRange
<1> HIDE DEF a, b
<1>2. ASSUME b + 1 <= a PROVE FALSE
  <2>1. S * b + S <= S * a
    BY <1>1, <1>2, TimesMonotone
  <2> QED
    BY <1>1, <2>1
<1>3. a <= b
  BY <1>1, <1>2
<1> QED
  BY <1>3 DEF a, b

\* Moments two seconds of the clock apart are more than a second apart.
LEMMA DivGap ==
  ASSUME NEW S \in Nat \ {0}, NEW x \in Nat, NEW y \in Nat, x \div S + 2 <= y \div S
  PROVE  y - x > S
<1> DEFINE a == x \div S
           b == y \div S
<1>1. a \in Nat /\ b \in Nat /\ x < S * a + S /\ S * b <= y /\ a + 2 <= b
  BY DivRange
<1> HIDE DEF a, b
<1>2. S * a + S <= S * (a + 1) /\ S * (a + 1) + S <= S * b
  BY <1>1, TimesMonotone
<1> QED
  BY <1>1, <1>2

\* The second the connection was made in.
FirstSecond == (now - sessAge) \div Second

\* While the clock has not rolled over in a connection, each message took a
\* second of its own.
SpreadInv ==
  (pc \in Session /\ sessAge < SessCap /\ sessAge <= now) =>
    /\ quotient <= ThisSecond
    /\ (pc # "println" /\ reqCount > 0) => FirstSecond + reqCount - 1 <= quotient
    /\ pc = "println" => FirstSecond + reqCount <= quotient
    /\ pc = "send" => quotient < ThisSecond

LEMMA StepSpread == TypeOK /\ SpreadInv /\ [Next]_vars => SpreadInv'
<1> SUFFICES ASSUME TypeOK, SpreadInv, [Next]_vars,
                    pc' \in Session, sessAge' < SessCap, sessAge' <= now'
             PROVE  /\ quotient' <= ThisSecond'
                    /\ (pc' # "println" /\ reqCount' > 0) =>
                         FirstSecond' + reqCount' - 1 <= quotient'
                    /\ pc' = "println" => FirstSecond' + reqCount' <= quotient'
                    /\ pc' = "send" => quotient' < ThisSecond'
  BY DEF SpreadInv
<1>1. /\ now \in Nat /\ sessAge \in Nat /\ quotient \in Nat /\ reqCount \in Nat
      /\ Second \in Nat \ {0} /\ SessCap \in Nat /\ ThisSecond \in Nat
  BY HostLinkAssumption, MillisRangeAssumption, SecondType DEF TypeOK, Ticks
<1>2. sessAge <= now => FirstSecond \in Nat /\ FirstSecond <= ThisSecond
  <2> SUFFICES ASSUME sessAge <= now
               PROVE  FirstSecond \in Nat /\ FirstSecond <= ThisSecond
    OBVIOUS
  <2>1. now - sessAge \in Nat /\ now - sessAge <= now
    BY <1>1
  <2> QED
    BY <1>1, <2>1, DivRange, DivMonotone DEF FirstSecond, ThisSecond
<1>3. CASE Tick
  <2>1. /\ pc \in Session /\ sessAge' = sessAge + 1 /\ sessAge < SessCap
        /\ UNCHANGED <<pc, quotient, reqCount>> /\ now' = Wrap(now + 1)
    BY <1>1, <1>3 DEF Tick, Older, session
  <2>2. now' = now + 1 /\ sessAge <= now
    BY <1>1, <2>1, MillisRangeAssumption DEF Wrap, TypeOK, Ticks
  <2>3. FirstSecond' = FirstSecond
    <3>1. now' - sessAge' = now - sessAge
      BY <1>1, <2>1, <2>2
    <3> QED
      BY <3>1 DEF FirstSecond
  <2>4. ThisSecond <= ThisSecond' /\ ThisSecond' \in Nat
    BY <1>1, <2>2, DivMonotone, DivRange DEF ThisSecond
  <2> QED
    BY <1>1, <1>2, <2>1, <2>2, <2>3, <2>4 DEF SpreadInv
<1>4. CASE Shock \/ HostSends \/ Answered \/ Drain \/ GiveUp \/ GoOn
  <2>1. /\ UNCHANGED <<now, quotient, reqCount, sessAge>>
        /\ pc \in Session /\ (pc' = pc \/ pc' \notin {"send", "println"})
        /\ pc = "println" => pc' = "println"
    BY <1>4 DEF Shock, HostSends, Answered, Drain, GiveUp, GoOn, Goto, session, ghosts, Session
  <2> QED
    BY <1>1, <1>2, <2>1 DEF SpreadInv, FirstSecond, ThisSecond
<1>5. CASE NoCDS \/ CDSProc \/ NoShock \/ ShockProc \/ ConnectFailed \/ Stop
  BY <1>5 DEF NoCDS, CDSProc, NoShock, ShockProc, ConnectFailed, Stop, Goto, Session
<1>6. CASE Connected
  <2>1. quotient' = 0 /\ reqCount' = 0 /\ pc' = "wait" /\ now' = now
    BY <1>6 DEF Connected, Goto
  <2> QED
    BY <1>1, <2>1 DEF ThisSecond
<1>7. CASE Ask
  <2>1. /\ UNCHANGED <<now, quotient, reqCount, sessAge>> /\ pc = "ask"
        /\ pc' = "send" => quotient # ThisSecond
        /\ pc' \in {"send", "wait"}
    BY <1>7 DEF Ask, DueToSend, Goto, session, ghosts
  <2> QED
    BY <1>1, <1>2, <2>1 DEF SpreadInv, FirstSecond, ThisSecond, Session
<1>8. CASE Send
  <2>1. /\ UNCHANGED <<now, reqCount, sessAge>> /\ pc = "send" /\ pc' = "println"
        /\ quotient' = ThisSecond
    BY <1>8 DEF Send, Goto, ghosts
  <2>2. FirstSecond' = FirstSecond /\ ThisSecond' = ThisSecond
    BY <2>1 DEF FirstSecond, ThisSecond
  <2> QED
    BY <1>1, <1>2, <2>1, <2>2 DEF SpreadInv, Session
<1>9. CASE Sent
  <2>1. /\ UNCHANGED <<now, quotient, sessAge>> /\ pc = "println" /\ pc' = "wait"
        /\ reqCount' = reqCount + 1
    BY <1>9 DEF Sent, Goto, ghosts
  <2>2. FirstSecond' = FirstSecond /\ ThisSecond' = ThisSecond
    BY <2>1 DEF FirstSecond, ThisSecond
  <2> QED
    BY <1>1, <1>2, <2>1, <2>2 DEF SpreadInv, Session
<1>10. CASE UNCHANGED vars
  BY <1>1, <1>2, <1>10 DEF vars, session, ghosts, SpreadInv, FirstSecond, ThisSecond
<1> QED
  BY <1>3, <1>4, <1>5, <1>6, <1>7, <1>8, <1>9, <1>10 DEF Next, Loop, HostProc

\* The copies of a report do not leave in one burst: the third begins more than
\* a second after the connection, unless the clock rolled over meanwhile.
THEOREM ReportsAreSpread == Spec => Spread
<1>1. Init => SpreadInv
  BY DEF Init, SpreadInv, Session
<1>2. IInv /\ SpreadInv /\ [Next]_vars => SpreadInv'
  BY StepSpread DEF IInv
<1>3. IInv /\ SpreadInv /\ [Next]_vars =>
        [(pc = "send" /\ pc' = "println" /\ reqCount = 2) =>
           (sessAge > Second \/ RolledOver)]_vars
  <2> SUFFICES ASSUME IInv, SpreadInv, pc = "send", reqCount = 2, ~RolledOver
               PROVE  sessAge > Second
    OBVIOUS
  <2>1. /\ now \in Nat /\ sessAge \in Nat /\ quotient \in Nat
        /\ Second \in Nat \ {0} /\ SessCap \in Nat /\ Second < SessCap
        /\ sessAge <= SessCap /\ sessAge <= now /\ now - sessAge \in Nat
    BY HostLinkAssumption, MillisRangeAssumption DEF IInv, TypeOK, Ticks, RolledOver
  <2>2. CASE sessAge < SessCap
    <3>1. FirstSecond + 1 <= quotient /\ quotient < ThisSecond
      BY <2>1, <2>2 DEF SpreadInv, Session
    <3>2. FirstSecond \in Nat /\ ThisSecond \in Nat
      BY <2>1, DivRange DEF FirstSecond, ThisSecond
    <3>3. FirstSecond + 2 <= ThisSecond
      BY <2>1, <3>1, <3>2
    <3>4. now - (now - sessAge) > Second
      BY <2>1, <3>3, DivGap DEF FirstSecond, ThisSecond
    <3> QED
      BY <2>1, <3>4
  <2>3. CASE ~(sessAge < SessCap)
    BY <2>1, <2>3
  <2> QED
    BY <2>2, <2>3
<1> QED
  BY <1>1, <1>2, <1>3, Inductive, PTL DEF Spec, Spread
-----------------------------------------------------------------------------
\* No connection of a shock ends without a message.

\* How long after its last look at the second of the clock HostProc can be.
SinceAsk == IF pc = "wait" THEN gap ELSE MaxGap + gap

\* As long as nothing was sent, the connection is new or the clock has only
\* just left its first second; the connection was made after the rollover or
\* within two steps before it.
UnsentInv ==
  (pc \in {"wait", "ask"} /\ reqCount = 0) =>
    /\ quotient = 0
    /\ gap <= MaxGap
    /\ \/ sessAge <= SinceAsk
       \/ now < Second + SinceAsk /\ sessAge <= now + 2 * MaxGap

LEMMA StepUnsent == TypeOK /\ UnsentInv /\ [Next]_vars => UnsentInv'
<1> SUFFICES ASSUME TypeOK, UnsentInv, [Next]_vars, pc' \in {"wait", "ask"}, reqCount' = 0
             PROVE  /\ quotient' = 0
                    /\ gap' <= MaxGap
                    /\ \/ sessAge' <= SinceAsk'
                       \/ now' < Second + SinceAsk' /\ sessAge' <= now' + 2 * MaxGap
  BY DEF UnsentInv
<1>1. /\ now \in Nat /\ sessAge \in Nat /\ gap \in Nat /\ reqCount \in Nat /\ MaxGap \in Nat
      /\ Second \in Nat \ {0} /\ 3 * MaxGap <= 2 * Second
      /\ MillisRange \in Nat /\ 3 * Second + 3 < MillisRange
  BY HostLinkAssumption, MillisRangeAssumption DEF TypeOK, Ticks
<1>2. CASE Tick
  <2>1. /\ pc \in {"wait", "ask"} /\ UNCHANGED <<pc, quotient, reqCount>>
        /\ gap < MaxGap /\ gap' = gap + 1 /\ now' = Wrap(now + 1)
        /\ sessAge' <= sessAge + 1
    BY <1>1, <1>2 DEF Tick, Older, session, Blocking, Session, TypeOK
  <2>2. SinceAsk' = SinceAsk + 1 /\ SinceAsk \in Nat /\ SinceAsk < 2 * MaxGap
    BY <1>1, <2>1 DEF SinceAsk
  <2>3. CASE sessAge <= SinceAsk
    <3>1. sessAge' <= SinceAsk'
      BY <1>1, <1>2, <2>1, <2>2, <2>3 DEF Tick, Older, TypeOK
    <3> QED
      BY <1>1, <2>1, <3>1 DEF UnsentInv
  <2>4. CASE now < Second + SinceAsk /\ sessAge <= now + 2 * MaxGap
    <3>1. now' = now + 1
      BY <1>1, <2>1, <2>2, <2>4 DEF Wrap
    <3>2. sessAge' \in Nat
      BY <1>1, <1>2 DEF Tick, Older, TypeOK
    <3> QED
      BY <1>1, <2>1, <2>2, <2>4, <3>1, <3>2 DEF UnsentInv
  <2> QED
    BY <2>1, <2>3, <2>4 DEF UnsentInv
<1>3. CASE Shock \/ HostSends \/ UNCHANGED vars
  BY <1>3 DEF Shock, HostSends, vars, session, ghosts, UnsentInv, SinceAsk
<1>4. CASE \/ NoCDS \/ CDSProc \/ NoShock \/ ShockProc \/ ConnectFailed \/ Answered
           \/ GiveUp \/ Send \/ Drain \/ Stop
  BY <1>4 DEF NoCDS, CDSProc, NoShock, ShockProc, ConnectFailed, Answered, GiveUp, Send,
              Drain, Stop, Goto
<1>5. CASE Connected
  BY <1>1, <1>5 DEF Connected, Goto, SinceAsk
<1>6. CASE GoOn
  <2>1. /\ pc = "wait" /\ pc' = "ask" /\ gap' = 0
        /\ UNCHANGED <<now, quotient, reqCount, sessAge>>
    BY <1>6 DEF GoOn, Goto, ghosts
  <2>2. SinceAsk = gap /\ SinceAsk' = MaxGap
    BY <1>1, <2>1 DEF SinceAsk
  <2> QED
    BY <1>1, <2>1, <2>2 DEF UnsentInv
<1>7. CASE Ask
  <2>1. /\ pc = "ask" /\ pc' = "wait" /\ gap' = 0 /\ ~DueToSend
        /\ UNCHANGED <<now, quotient, reqCount, sessAge>>
    BY <1>7 DEF Ask, Goto, session, ghosts
  <2>2. ThisSecond = 0
    BY <2>1 DEF DueToSend, maxSendCount, UnsentInv
  <2>3. now < Second
    BY <1>1, <2>2, DivRange DEF ThisSecond
  <2>4. SinceAsk = MaxGap + gap /\ SinceAsk' = 0
    BY <2>1 DEF SinceAsk
  <2> QED
    BY <1>1, <2>1, <2>3, <2>4 DEF UnsentInv
<1>8. CASE Sent
  BY <1>1, <1>8 DEF Sent
<1> QED
  BY <1>2, <1>3, <1>4, <1>5, <1>6, <1>7, <1>8 DEF Next, Loop, HostProc

\* A shock whose report connects is told to the host, and the report of a
\* reading is lost only when the clock has just left its first second: the
\* test of hostQuotient leaves no other connection without a message.
THEOREM ReportsReachTheHost == Spec => Reported
<1>1. Init => UnsentInv
  BY DEF Init, UnsentInv
<1>2. IInv /\ UnsentInv /\ [Next]_vars => UnsentInv'
  BY StepUnsent DEF IInv
<1>3. IInv /\ UnsentInv /\ [Next]_vars =>
        [(pc = "wait" /\ pc' = "stop" /\ reqCount = 0) =>
           (who = "cds" /\ now < Second + MaxGap)]_vars
  <2> SUFFICES ASSUME IInv, UnsentInv, [Next]_vars, pc = "wait", pc' = "stop", reqCount = 0
               PROVE  who = "cds" /\ now < Second + MaxGap
    OBVIOUS
  <2>1. sessAge > hostPeriod
    BY StepWaits
  <2>2. /\ now \in Nat /\ sessAge \in Nat /\ gap \in Nat /\ MaxGap \in Nat
        /\ Second \in Nat \ {0} /\ 3 * MaxGap <= 2 * Second /\ who \in {"cds", "shock"}
    BY HostLinkAssumption, MillisRangeAssumption DEF IInv, TypeOK, Ticks
  <2>3. hostPeriod = (IF who = "cds" THEN Second ELSE 3 * Second)
    BY <2>2 DEF hostPeriod, maxSendCount
  <2>4. now < Second + gap /\ sessAge <= now + 2 * MaxGap /\ gap <= MaxGap
    BY <2>1, <2>2, <2>3 DEF UnsentInv, SinceAsk
  <2> QED
    BY <2>1, <2>2, <2>3, <2>4
<1> QED
  BY <1>1, <1>2, <1>3, Inductive, PTL DEF Spec, Reported
=============================================================================
