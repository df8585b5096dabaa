----------------------------- MODULE AlarmProofs -----------------------------
(***************************************************************************)
(* Proofs about Alarm, for every clock range, hold time and pass of loop().*)
(***************************************************************************)
EXTENDS Alarm, TLAPS

\* The buzzer flag: set while BuzzerProc looks at the time.
FlagInv == pc \in {"roll", "zero", "millis", "due"} => Buzzer_F

\* No report is sent of a shock that waits for the next one.
ReportInv == pc = "report" => shock # "waiting"

SafeInv == FlagInv /\ ReportInv /\ NeverStuckOn /\ ShockKept

-----------------------------------------------------------------------------
\* The flags.

LEMMA InitSafe == Init => SafeInv
  BY DEF Init, SafeInv, FlagInv, ReportInv, NeverStuckOn, ShockKept

LEMMA StepSafe == SafeInv /\ [Next]_vars => SafeInv'
<1> SUFFICES ASSUME SafeInv, [Next]_vars PROVE SafeInv'
  OBVIOUS
<1> USE DEF SafeInv, FlagInv, ReportInv, NeverStuckOn, ShockKept, Goto, buzzer, Ghosts
<1>1. CASE Tick
  BY <1>1 DEF Tick
<1>2. CASE Interrupt
  BY <1>2 DEF Interrupt, Noted
<1>3. CASE Report \/ NoReport \/ Reported
  BY <1>3 DEF Report, NoReport, Reported
<1>4. CASE NoBuzzer \/ BuzzerProc
  BY <1>4 DEF NoBuzzer, BuzzerProc
<1>5. CASE RollTest
  <2>1. pc = "roll" /\ pc' \in {"zero", "millis"}
    BY <1>5 DEF RollTest
  <2> QED
    BY <1>5, <2>1 DEF RollTest
<1>6. CASE Zero \/ CallMillis
  BY <1>6 DEF Zero, CallMillis
<1>7. CASE DueTest
  <2>1. pc = "due" /\ pc' \in {"off_flag", "top"}
    BY <1>7 DEF DueTest
  <2> QED
    BY <1>7, <2>1 DEF DueTest
<1>8. CASE SwitchOff
  BY <1>8 DEF SwitchOff, OffFlag, OffPin
<1>9. CASE UNCHANGED vars
  BY <1>9 DEF vars
<1> QED
  BY <1>1, <1>2, <1>3, <1>4, <1>5, <1>6, <1>7, <1>8, <1>9 DEF Next, Loop

LEMMA SafeInductive == Spec => []SafeInv
<1>1. Init => SafeInv
  BY InitSafe
<1>2. SafeInv /\ [Next]_vars => SafeInv'
  BY StepSafe
<1> QED
  BY <1>1, <1>2, PTL DEF Spec

\* The buzzer is never left on with nothing to switch it off, between whatever
\* two accesses of BuzzerProc a shock strikes.
THEOREM BuzzerNeverStuckOn == Spec => []NeverStuckOn
  BY SafeInductive, PTL DEF SafeInv

\* A shock that strikes while no report is being sent is not forgotten.
THEOREM ShockIsKept == Spec => []ShockKept
  BY SafeInductive, PTL DEF SafeInv

-----------------------------------------------------------------------------
\* Type correctness.

\* Halves of two clock values make a clock value.
LEMMA MixedType ==
  ASSUME NEW x \in Ticks, NEW y \in Ticks
  PROVE  Mixed(x, y) \in Ticks
<1> USE AlarmAssumption, MillisRangeAssumption
<1>1. Word > 0
  OBVIOUS
<1>2. ASSUME NEW z \in Ticks
      PROVE  /\ z % Word \in 0 .. Word - 1
             /\ z \div Word \in Int
             /\ z = Word * (z \div Word) + (z % Word)
  <2>1. z \in Int /\ Word \in Int /\ Word > 0
    BY <1>1 DEF Ticks
  <2>2. z % Word \in 0 .. Word - 1
    BY <2>1, SMT
  <2>3. z \div Word \in Int
    BY <2>1, SMT
  <2>4. z = Word * (z \div Word) + (z % Word)
    BY <2>1, SMT
  <2> QED
    BY <2>2, <2>3, <2>4
<1>3. PICK q \in Int : q = x \div Word
  BY <1>2
<1>4. Word * q >= 0 - (Word - 1) /\ Word * q < Word * Word
  BY <1>2, <1>3 DEF Ticks
<1>5. q <= Word - 1 /\ q >= 0
  BY <1>1, <1>4
<1>6. Word * q <= Word * (Word - 1) /\ Word * q >= 0
  BY <1>1, <1>5
<1>7. Word * (Word - 1) = Word * Word - Word
  OBVIOUS
<1>8. x - (x % Word) = Word * q
  BY <1>2, <1>3 DEF Ticks
<1> QED
  BY <1>2, <1>6, <1>7, <1>8 DEF Mixed, High, Low, Ticks
LEMMA InitType == Init => TypeOK
<1> USE AlarmAssumption, MillisRangeAssumption
<1>1. 0 \in Ticks /\ 0 \in 0 .. MaxGap /\ 0 \in 0 .. RangCap
  BY DEF Ticks
<1> QED
  BY <1>1 DEF Init, TypeOK, Steps, Shocks

LEMMA StepType == TypeOK /\ [Next]_vars => TypeOK'
<1> SUFFICES ASSUME TypeOK, [Next]_vars PROVE TypeOK'
  OBVIOUS
<1> USE AlarmAssumption, MillisRangeAssumption
        DEF TypeOK, Steps, Shocks, Goto, buzzer, Ghosts
<1>1. CASE Tick
  <2>1. now' \in Ticks
    BY <1>1, MillisRangeAssumption DEF Tick, Ticks, Wrap
  <2>2. gap' \in 0 .. MaxGap /\ rang' \in 0 .. RangCap
    BY <1>1 DEF Tick
  <2> QED
    BY <1>1, <2>1, <2>2 DEF Tick
<1>2. CASE Interrupt
  <2>1. (Buzzer_F \/ InBuzzerProc) \in BOOLEAN
    BY DEF InBuzzerProc
  <2>2. raced' \in BOOLEAN
    BY <1>2, <2>1 DEF Interrupt
  <2> QED
    BY <1>2, <2>2 DEF Interrupt, Noted
<1>3. CASE Report \/ NoReport \/ Reported
  BY <1>3 DEF Report, NoReport, Reported
<1>4. CASE NoBuzzer \/ BuzzerProc
  <2>1. 0 \in 0 .. MaxGap
    OBVIOUS
  <2>2. CASE NoBuzzer
    BY <2>1, <2>2, Zenon DEF NoBuzzer
  <2>3. CASE BuzzerProc
    BY <2>1, <2>3, Zenon DEF BuzzerProc
  <2> QED
    BY <1>4, <2>2, <2>3
<1>5. CASE RollTest
  <2>1. \A s \in Reads : Wrap(MillisRange - 2 - s) \in Ticks
    <3>1. ASSUME NEW s \in Reads
          PROVE  s \in Ticks
      BY MixedType DEF Reads
    <3> QED
      BY <3>1, MillisRangeAssumption DEF Ticks, Wrap
  <2> QED
    <3>1. PICK s \in Reads :
            IF seen < s
            THEN offset' = Wrap(MillisRange - 2 - s) /\ Goto("zero")
            ELSE Goto("millis") /\ UNCHANGED offset
      BY <1>5, Zenon DEF RollTest
    <3>2. offset' \in Ticks
      BY <2>1, <3>1
    <3>3. pc' \in {"zero", "millis"} /\ struck' = FALSE /\ before' = start'
      BY <3>1
    <3>4. UNCHANGED <<now, interrupt_F, Buzzer_F, start, pin, seen, Ghosts>>
      BY <1>5 DEF RollTest
    <3> QED
      BY <3>2, <3>3, <3>4
<1>6. CASE Zero
  <2>1. \A s \in Zeroed : s \in Ticks
    <3>1. 0 \in Ticks
      BY DEF Ticks
    <3> QED
      BY <3>1, MixedType DEF Zeroed
  <2> QED
    BY <1>6, <2>1 DEF Zero
<1>7. CASE CallMillis
  BY <1>7 DEF CallMillis
<1>8. CASE DueTest
  <2>1. OffsetWhenDue \in Ticks
    BY DEF OffsetWhenDue, Ticks
  <2> QED
    BY <1>8, <2>1 DEF DueTest
<1>9. CASE SwitchOff
  BY <1>9 DEF SwitchOff, OffFlag, OffPin
<1>10. CASE UNCHANGED vars
  BY <1>10 DEF vars
<1> QED
  BY <1>1, <1>2, <1>3, <1>4, <1>5, <1>6, <1>7, <1>8, <1>9, <1>10 DEF Next, Loop

\* Torn reads and writes of Buzzer_StartTime stay within an unsigned long.
THEOREM TypeCorrect == Spec => []TypeOK
<1>1. Init => TypeOK
  BY InitType
<1>2. TypeOK /\ [Next]_vars => TypeOK'
  BY StepType
<1> QED
  BY <1>1, <1>2, PTL DEF Spec
-----------------------------------------------------------------------------
\* The full time.

\* No offset is left over when the buzzer is off.
OffsetInv ==
  /\ (~Buzzer_F /\ ~InBuzzerProc) => offset = 0
  /\ pc \in {"off_flag", "off_pin"} => offset = 0

\* Nothing was torn in a pulse no shock disturbs.
CalmInv == (~raced /\ InBuzzerProc) => (~struck /\ before = start)

\* BuzzerProc compares with a time after the shock.
SeenInv ==
  (~raced /\ pc \in {"roll", "zero", "due"} /\ rang < RangCap) => Wrap(now - seen) <= rang

\* The timer tells the moment of the shock, or the rollover was found and the
\* offset holds the milliseconds before it.
Fresh == start = Wrap(now - rang) /\ offset = 0

Carried ==
  /\ start = 0
  /\ now < rang
  /\ offset = Wrap(rang - 2 - now)
  /\ pc = "due" => seen <= now

RunInv ==
  (Buzzer_F /\ ~raced /\ rang < RangCap /\ pc \notin {"zero", "off_flag", "off_pin"})
    => (Fresh \/ Carried)

ZeroInv ==
  (pc = "zero" /\ ~raced /\ rang < RangCap)
    => (now < rang /\ offset = Wrap(rang - 2 - now))

DoneInv ==
  (pc \in {"off_flag", "off_pin"} /\ ~raced)
    => (rang > Buzzer_DELAYTIME /\ (pc = "off_pin" => ~Buzzer_F))

FullInv ==
  /\ TypeOK /\ FlagInv /\ OffsetInv /\ CalmInv
  /\ SeenInv /\ RunInv /\ ZeroInv /\ DoneInv

\* AlarmAssumption without the halves of an unsigned long.
LEMMA Bounds ==
  /\ Buzzer_DELAYTIME \in Nat /\ RangCap \in Nat
  /\ Buzzer_DELAYTIME + 1 < RangCap /\ RangCap < MillisRange
  /\ MillisRange \in Nat /\ MillisRange > 4
  BY AlarmAssumption, MillisRangeAssumption

LEMMA ReadsCalm ==
  ASSUME TypeOK, before = start, NEW s \in Reads
  PROVE  s = start
<1>1. start \in Int /\ Low(start) \in Int
  BY AlarmAssumption, MillisRangeAssumption DEF TypeOK, Ticks, Low
<1>2. Mixed(start, start) = start
  BY <1>1 DEF Mixed, High
<1> QED
  BY <1>2 DEF Reads

LEMMA InitFull == Init => FullInv
  BY InitType DEF Init, FullInv, FlagInv, OffsetInv, CalmInv, SeenInv, RunInv,
                  ZeroInv, DoneInv, InBuzzerProc

LEMMA TickFull == FullInv /\ Tick => FullInv'
<1> SUFFICES ASSUME FullInv, Tick PROVE FullInv'
  OBVIOUS
<1> USE Bounds
<1>1. TypeOK'
  BY StepType DEF FullInv, Next
<1>2. /\ UNCHANGED <<pc, Buzzer_F, start, offset, seen, struck, before, raced>>
      /\ now' = Wrap(now + 1) /\ now \in Ticks /\ seen \in Ticks
      /\ rang \in 0 .. RangCap
      /\ rang' = IF Buzzer_F /\ rang < RangCap THEN rang + 1 ELSE rang
      /\ FlagInv /\ OffsetInv /\ CalmInv /\ SeenInv /\ RunInv /\ ZeroInv /\ DoneInv
  BY DEF Tick, buzzer, FullInv, TypeOK
<1>3. FlagInv' /\ OffsetInv' /\ CalmInv' /\ DoneInv'
  BY <1>2 DEF FlagInv, OffsetInv, CalmInv, DoneInv, InBuzzerProc
<1>4. ASSUME Buzzer_F, rang' < RangCap
      PROVE  rang' = rang + 1 /\ rang < RangCap
  BY <1>2, <1>4
<1>5. SeenInv'
  BY <1>2, <1>4 DEF SeenInv, FlagInv, Wrap, Ticks
<1>6. RunInv'
  <2> SUFFICES ASSUME Buzzer_F, ~raced, rang' < RangCap,
                      pc \notin {"zero", "off_flag", "off_pin"}
               PROVE  (Fresh \/ Carried)'
    BY <1>2 DEF RunInv
  <2>1. CASE Fresh
    <3>1. Wrap(now' - rang') = Wrap(now - rang)
      BY <1>2, <1>4 DEF Wrap, Ticks
    <3> QED
      BY <1>2, <2>1, <3>1 DEF Fresh
  <2>2. CASE Carried
    <3>1. now' = now + 1
      BY <1>2, <1>4, <2>2 DEF Carried, Wrap, Ticks
    <3> QED
      BY <1>2, <1>4, <2>2, <3>1 DEF Carried, Ticks
  <2> QED
    BY <1>2, <1>4, <2>1, <2>2 DEF RunInv
<1>7. ZeroInv'
  BY <1>2, <1>4 DEF ZeroInv, FlagInv, Wrap, Ticks
<1> QED
  BY <1>1, <1>3, <1>5, <1>6, <1>7 DEF FullInv

LEMMA InterruptFull == FullInv /\ Interrupt => FullInv'
<1> SUFFICES ASSUME FullInv, Interrupt PROVE FullInv'
  OBVIOUS
<1> USE Bounds DEF FullInv
<1>1. TypeOK'
  BY StepType DEF Next
<1>2. /\ now' = now /\ pc' = pc /\ offset' = offset /\ now \in Ticks
      /\ start' = now /\ rang' = 0 /\ Buzzer_F'
      /\ raced' = (Buzzer_F \/ InBuzzerProc)
  BY DEF Interrupt, TypeOK
<1>3. ~raced' => offset = 0 /\ ~InBuzzerProc
  BY <1>2 DEF OffsetInv
<1>4. Wrap(now' - rang') = now'
  BY <1>2 DEF Wrap, Ticks
<1>5. RunInv'
  BY <1>2, <1>3, <1>4 DEF RunInv, Fresh
<1> QED
  BY <1>1, <1>2, <1>3, <1>5 DEF FlagInv, OffsetInv, CalmInv, SeenInv, ZeroInv,
                                DoneInv, InBuzzerProc

\* The steps of loop() before and after BuzzerProc looks at the time.
LEMMA PassFull ==
  FullInv /\ (Report \/ NoReport \/ Reported \/ NoBuzzer \/ BuzzerProc) => FullInv'
<1> SUFFICES ASSUME FullInv, Report \/ NoReport \/ Reported \/ NoBuzzer \/ BuzzerProc
             PROVE  FullInv'
  OBVIOUS
<1> USE Bounds DEF FullInv
<1>1. TypeOK'
  BY StepType DEF Next, Loop
<1>2. CASE Report \/ NoReport \/ Reported \/ NoBuzzer
  <2>1. /\ UNCHANGED <<now, Buzzer_F, start, offset, rang, raced>>
        /\ pc' \in {"top", "report", "buzzer"}
        /\ pc \in {"top", "report", "buzzer"}
    BY <1>2 DEF Report, NoReport, Reported, NoBuzzer, buzzer, Goto
  <2>2. RunInv'
    BY <2>1 DEF RunInv, Fresh, Carried
  <2> QED
    BY <1>1, <2>1, <2>2 DEF FlagInv, OffsetInv, CalmInv, SeenInv, ZeroInv, DoneInv,
                            InBuzzerProc
<1>3. CASE BuzzerProc
  <2>1. /\ UNCHANGED <<now, Buzzer_F, start, offset, rang, raced>>
        /\ pc = "buzzer" /\ pc' = "roll" /\ seen' = now /\ Buzzer_F
        /\ struck' = FALSE /\ before' = start'
        /\ now \in Ticks /\ rang \in 0 .. RangCap
    BY <1>3 DEF BuzzerProc, Goto, TypeOK
  <2>2. RunInv'
    BY <2>1 DEF RunInv, Fresh, Carried
  <2>3. SeenInv'
    BY <2>1 DEF SeenInv, Wrap, Ticks
  <2> QED
    BY <1>1, <2>1, <2>2, <2>3 DEF FlagInv, OffsetInv, CalmInv, ZeroInv, DoneInv,
                                  InBuzzerProc
<1> QED
  BY <1>2, <1>3

LEMMA RollTestFull == FullInv /\ RollTest => FullInv'
<1> SUFFICES ASSUME FullInv, RollTest PROVE FullInv'
  OBVIOUS
<1> USE Bounds DEF FullInv
<1>1. TypeOK'
  BY StepType DEF Next, Loop
<1>2. PICK s \in Reads :
        IF seen < s
        THEN offset' = Wrap(MillisRange - 2 - s) /\ Goto("zero")
        ELSE Goto("millis") /\ UNCHANGED offset
  BY Zenon DEF RollTest
<1>3. /\ UNCHANGED <<now, Buzzer_F, start, seen, rang, raced>>
      /\ pc = "roll" /\ pc' \in {"zero", "millis"} /\ Buzzer_F
      /\ struck' = FALSE /\ before' = start'
      /\ now \in Ticks /\ seen \in Ticks /\ start \in Ticks /\ rang \in 0 .. RangCap
  BY <1>2 DEF RollTest, Goto, TypeOK, Ghosts, FlagInv
<1>4. FlagInv' /\ OffsetInv' /\ CalmInv' /\ DoneInv' /\ SeenInv'
  BY <1>3 DEF FlagInv, OffsetInv, CalmInv, DoneInv, SeenInv, InBuzzerProc
<1>5. ASSUME ~raced, rang < RangCap
      PROVE  RunInv' /\ ZeroInv'
  <2>1. s = start
    BY <1>3, <1>5, ReadsCalm DEF CalmInv, InBuzzerProc
  <2>2. Fresh \/ Carried
    BY <1>3, <1>5 DEF RunInv
  <2>3. Wrap(now - seen) <= rang
    BY <1>3, <1>5 DEF SeenInv
  <2>4. CASE seen < s
    <3>1. Fresh
      BY <1>3, <2>1, <2>2, <2>4 DEF Carried, Ticks
    <3>2. now < rang
      BY <1>3, <2>1, <2>3, <2>4, <3>1, <1>5 DEF Fresh, Wrap, Ticks
    <3>3. Wrap(MillisRange - 2 - s) = Wrap(rang - 2 - now)
      BY <1>3, <2>1, <3>1, <3>2, <1>5 DEF Fresh, Wrap, Ticks
    <3>4. pc' = "zero" /\ offset' = Wrap(rang - 2 - now)
      BY <1>2, <2>4, <3>3 DEF Goto
    <3> QED
      BY <1>3, <3>2, <3>4 DEF RunInv, ZeroInv
  <2>5. CASE ~(seen < s)
    <3>1. pc' = "millis" /\ offset' = offset
      BY <1>2, <2>5 DEF Goto
    <3> QED
      BY <1>3, <2>2, <3>1 DEF RunInv, ZeroInv, Fresh, Carried
  <2> QED
    BY <2>4, <2>5
<1>6. RunInv' /\ ZeroInv'
  BY <1>3, <1>5 DEF RunInv, ZeroInv
<1> QED
  BY <1>1, <1>4, <1>6

LEMMA ZeroFull == FullInv /\ Zero => FullInv'
<1> SUFFICES ASSUME FullInv, Zero PROVE FullInv'
  OBVIOUS
<1> USE Bounds DEF FullInv
<1>1. TypeOK'
  BY StepType DEF Next, Loop
<1>2. /\ UNCHANGED <<now, Buzzer_F, offset, seen, rang, raced>>
      /\ pc = "zero" /\ pc' = "millis" /\ Buzzer_F
      /\ struck' = FALSE /\ before' = start' /\ start' \in Zeroed
  BY DEF Zero, Goto, Ghosts, FlagInv
<1>3. ~raced => start' = 0
  BY <1>2 DEF CalmInv, InBuzzerProc, Zeroed
<1>4. RunInv'
  BY <1>2, <1>3 DEF RunInv, ZeroInv, Carried
<1> QED
  BY <1>1, <1>2, <1>4 DEF FlagInv, OffsetInv, CalmInv, DoneInv, SeenInv, ZeroInv,
                          InBuzzerProc

LEMMA CallMillisFull == FullInv /\ CallMillis => FullInv'
<1> SUFFICES ASSUME FullInv, CallMillis PROVE FullInv'
  OBVIOUS
<1> USE Bounds DEF FullInv
<1>1. TypeOK'
  BY StepType DEF Next, Loop
<1>2. /\ UNCHANGED <<now, Buzzer_F, start, offset, rang, raced>>
      /\ pc = "millis" /\ pc' = "due" /\ Buzzer_F /\ seen' = now
      /\ struck' = FALSE /\ before' = start'
      /\ now \in Ticks /\ rang \in 0 .. RangCap
  BY DEF CallMillis, Goto, Ghosts, FlagInv, TypeOK
<1>3. RunInv'
  BY <1>2 DEF RunInv, Fresh, Carried, Ticks
<1>4. SeenInv'
  BY <1>2 DEF SeenInv, Wrap, Ticks
<1> QED
  BY <1>1, <1>2, <1>3, <1>4 DEF FlagInv, OffsetInv, CalmInv, DoneInv, ZeroInv,
                                InBuzzerProc

LEMMA DueTestFull == FullInv /\ DueTest => FullInv'
<1> SUFFICES ASSUME FullInv, DueTest PROVE FullInv'
  OBVIOUS
<1> USE Bounds DEF FullInv
<1>1. TypeOK'
  BY StepType DEF Next, Loop
<1>2. PICK s \in Reads :
        IF IsDue(s)
        THEN offset' = OffsetWhenDue /\ Goto("off_flag")
        ELSE Goto("top") /\ UNCHANGED offset
  BY Zenon DEF DueTest
<1>3. /\ UNCHANGED <<now, Buzzer_F, start, seen, rang, raced>>
      /\ pc = "due" /\ pc' \in {"off_flag", "top"} /\ Buzzer_F
      /\ struck' = FALSE /\ before' = start'
      /\ now \in Ticks /\ seen \in Ticks /\ start \in Ticks /\ rang \in 0 .. RangCap
      /\ pc' = "off_flag" => offset' = 0
  BY <1>2 DEF DueTest, Goto, TypeOK, Ghosts, FlagInv, OffsetWhenDue
<1>4. FlagInv' /\ OffsetInv' /\ CalmInv' /\ SeenInv' /\ ZeroInv'
  BY <1>3 DEF FlagInv, OffsetInv, CalmInv, SeenInv, ZeroInv, InBuzzerProc
<1>5. CASE IsDue(s)
  <2>1. pc' = "off_flag"
    BY <1>2, <1>5 DEF Goto
  <2>2. ASSUME ~raced, rang < RangCap
        PROVE  rang > Buzzer_DELAYTIME
    <3>1. s = start
      BY <1>3, <2>2, ReadsCalm DEF CalmInv, InBuzzerProc
    <3>2. Wrap(now - seen) <= rang
      BY <1>3, <2>2 DEF SeenInv
    <3>3. CASE Fresh
      BY <1>3, <1>5, <2>2, <3>1, <3>2, <3>3 DEF Fresh, IsDue, Wrap, Ticks
    <3>4. CASE Carried
      BY <1>3, <1>5, <2>2, <3>1, <3>2, <3>4 DEF Carried, IsDue, Wrap, Ticks
    <3> QED
      BY <1>3, <2>2, <3>3, <3>4 DEF RunInv
  <2> QED
    BY <1>1, <1>3, <1>4, <2>1, <2>2 DEF RunInv, DoneInv
<1>6. CASE ~IsDue(s)
  <2>1. pc' = "top" /\ offset' = offset
    BY <1>2, <1>6 DEF Goto
  <2> QED
    BY <1>1, <1>3, <1>4, <2>1 DEF RunInv, DoneInv, Fresh, Carried
<1> QED
  BY <1>5, <1>6

LEMMA SwitchOffFull == FullInv /\ SwitchOff => FullInv'
<1> SUFFICES ASSUME FullInv, SwitchOff PROVE FullInv'
  OBVIOUS
<1> USE Bounds DEF FullInv
<1>1. TypeOK'
  BY StepType DEF Next, Loop
<1>2. CASE OffFlag("off_flag", "off_pin")
  BY <1>1, <1>2 DEF OffFlag, Goto, Ghosts, FlagInv, OffsetInv, CalmInv, SeenInv,
                    RunInv, ZeroInv, DoneInv, InBuzzerProc
<1>3. CASE OffPin("off_pin", "top")
  <2>1. /\ UNCHANGED <<now, Buzzer_F, start, offset, rang, raced>>
        /\ pc = "off_pin" /\ pc' = "top" /\ offset = 0
    BY <1>3 DEF OffPin, Goto, Ghosts, OffsetInv
  <2>2. RunInv'
    BY <2>1 DEF RunInv, DoneInv
  <2> QED
    BY <1>1, <2>1, <2>2 DEF FlagInv, OffsetInv, CalmInv, SeenInv, ZeroInv, DoneInv,
                            InBuzzerProc
<1> QED
  BY <1>2, <1>3 DEF SwitchOff

LEMMA FullInductive == Spec => []FullInv
<1>1. Init => FullInv
  BY InitFull
<1>2. FullInv /\ UNCHANGED vars => FullInv'
  BY StepType DEF FullInv, vars, buzzer, FlagInv, OffsetInv, CalmInv, SeenInv, RunInv,
     ZeroInv, DoneInv, InBuzzerProc, Fresh, Carried
<1>3. FullInv /\ [Next]_vars => FullInv'
  BY <1>2, TickFull, InterruptFull, PassFull, RollTestFull, ZeroFull, CallMillisFull,
     DueTestFull, SwitchOffFull DEF Next, Loop
<1> QED
  BY <1>1, <1>3, PTL DEF Spec

\* The buzzer of a shock that no later shock disturbs sounds for its full time,
\* whenever loop() looks at it and wherever millis() rolls over.
THEOREM BuzzerFullTime == Spec => FullTime
<1>1. FullInv /\ [Next]_vars =>
        [(pin = "LOW" /\ pin' = "HIGH" /\ ~raced) => rang > Buzzer_DELAYTIME]_vars
  <2> SUFFICES ASSUME FullInv, [Next]_vars, pin = "LOW", pin' = "HIGH", ~raced
               PROVE  rang > Buzzer_DELAYTIME
    OBVIOUS
  <2>1. pc = "off_pin"
    BY DEF Next, Loop, Tick, Interrupt, Report, NoReport, Reported, NoBuzzer,
           BuzzerProc, RollTest, Zero, CallMillis, DueTest, SwitchOff, OffFlag,
           OffPin, buzzer, vars
  <2> QED
    BY <2>1 DEF FullInv, DoneInv
<1> QED
  BY <1>1, FullInductive, PTL DEF Spec, FullTime
=============================================================================
