-------------------------------- MODULE Alarm --------------------------------
(***************************************************************************)
(* The shock sensor: its interrupt handler against the main loop.  The     *)
(* handler notes the shock for a report to the host and switches the buzzer*)
(* on; the loop sends the report and, in BuzzerProc, switches the buzzer   *)
(* off.  They share interrupt_F, Buzzer_F, Buzzer_StartTime and the pin,   *)
(* with no lock, and an 8-bit CPU moves the four bytes of Buzzer_StartTime *)
(* one by one, so BuzzerProc is a step for each access it makes.           *)
(***************************************************************************)
EXTENDS Millis

CONSTANTS
  Word,              \* values of half of an unsigned long: MillisRange = Word^2
  Buzzer_DELAYTIME,
  MaxGap,            \* most milliseconds of one pass of loop()
  RangCap            \* bound of the ghost rang: it saturates there

ASSUME AlarmAssumption ==
  /\ Word \in Nat /\ MillisRange = Word * Word
  /\ Buzzer_DELAYTIME \in Nat \ {0}
  /\ MaxGap \in Nat \ {0}
  /\ RangCap \in Nat
  /\ Buzzer_DELAYTIME + 1 < RangCap
  /\ RangCap < MillisRange

VARIABLES
  now,           \* millis()
  pc,            \* the next step of loop()
  interrupt_F,
  Buzzer_F,
  start,         \* Buzzer_StartTime
  offset,        \* Buzzer_OffsetTime
  pin,           \* level of Buzzer_Relay
  seen,          \* the value of millis() BuzzerProc compares with
  struck,        \* the handler ran since the last step of loop()
  before,        \* the value of start at that step
  gap,           \* ghost: milliseconds since BuzzerProc was last reached
  rang,          \* ghost: milliseconds since the last shock, while Buzzer_F
  raced,         \* ghost: a shock came before the buzzer of an earlier one was off
  shock          \* ghost: what became of the last shock

buzzer == <<Buzzer_F, start, offset, pin, seen>>
vars == <<now, pc, interrupt_F, buzzer, struck, before, gap, rang, raced, shock>>

\* "roll" to "off_pin" are the steps of BuzzerProc.
Steps == {"top", "report", "buzzer", "roll", "zero", "millis", "due", "off_flag", "off_pin"}

\* A shock waits for its report, or it came while a report was being sent.
Shocks == {"none", "waiting", "masked"}

TypeOK ==
  /\ now \in Ticks
  /\ pc \in Steps
  /\ interrupt_F \in BOOLEAN
  /\ Buzzer_F \in BOOLEAN
  /\ start \in Ticks
  /\ offset \in Ticks
  /\ pin \in {"LOW", "HIGH"}
  /\ seen \in Ticks
  /\ struck \in BOOLEAN
  /\ before \in Ticks
  /\ gap \in 0 .. MaxGap
  /\ rang \in 0 .. RangCap
  /\ raced \in BOOLEAN
  /\ shock \in Shocks

Init ==
  /\ now = 0
  /\ pc = "top"
  /\ interrupt_F = FALSE
  /\ Buzzer_F = FALSE
  /\ start = 0
  /\ offset = 0
  /\ pin = "HIGH"
  /\ seen = 0
  /\ struck = FALSE
  /\ before = 0
  /\ gap = 0
  /\ rang = 0
  /\ raced = FALSE
  /\ shock = "none"

Tick ==
  /\ gap < MaxGap
  /\ now' = Wrap(now + 1)
  /\ gap' = gap + 1
  /\ rang' = IF Buzzer_F /\ rang < RangCap THEN rang + 1 ELSE rang
  /\ UNCHANGED <<pc, interrupt_F, buzzer, struck, before, raced, shock>>

-----------------------------------------------------------------------------
\* The handler.  It runs with interrupts off, between any two accesses of the
\* loop; one shock at most between two steps (struck is its bound).

InBuzzerProc == pc \in {"roll", "zero", "millis", "due", "off_flag", "off_pin"}

\* if(interrupt_F == false) interrupt_F = true
NotedToggled == ~interrupt_F
Noted == TRUE

Interrupt ==
  /\ ~struck
  /\ interrupt_F' = Noted
  /\ Buzzer_F' = TRUE
  /\ start' = now
  /\ pin' = "LOW"
  /\ struck' = TRUE
  /\ rang' = 0
  /\ raced' = (Buzzer_F \/ InBuzzerProc)
  /\ shock' = IF pc = "report" /\ shock # "waiting" THEN "masked" ELSE "waiting"
  /\ UNCHANGED <<now, pc, offset, seen, before, gap>>

-----------------------------------------------------------------------------
\* The loop.

Goto(step) == pc' = step /\ struck' = FALSE /\ before' = start'

\* loop() finds interrupt_F set and calls ShockProc, which talks to the host.
Report ==
  /\ pc = "top"
  /\ interrupt_F
  /\ UNCHANGED <<now, interrupt_F, buzzer, gap, rang, raced>>
  /\ Goto("report")
  /\ shock' = "none"

NoReport ==
  /\ pc = "top"
  /\ ~interrupt_F
  /\ UNCHANGED <<now, interrupt_F, buzzer, gap, rang, raced, shock>>
  /\ Goto("buzzer")

\* ShockProc is back.
Reported ==
  /\ pc = "report"
  /\ interrupt_F' = FALSE
  /\ UNCHANGED <<now, buzzer, gap, rang, raced, shock>>
  /\ Goto("buzzer")

NoBuzzer ==
  /\ pc = "buzzer"
  /\ ~Buzzer_F
  /\ UNCHANGED <<now, interrupt_F, buzzer, rang, raced, shock>>
  /\ Goto("top")
  /\ gap' = 0

\* loop() finds Buzzer_F set; BuzzerProc starts with a call of millis().
BuzzerProc ==
  /\ pc = "buzzer"
  /\ Buzzer_F
  /\ seen' = now
  /\ UNCHANGED <<now, interrupt_F, Buzzer_F, start, offset, pin, rang, raced, shock>>
  /\ Goto("roll")
  /\ gap' = 0

Ghosts == <<gap, rang, raced, shock>>

Low(x) == x % Word
High(x) == x - Low(x)

\* What a read of Buzzer_StartTime may find: halves from before and from after
\* a shock; and what a write of 0 to it may leave.
Mixed(x, y) == High(x) + Low(y)
Reads == {Mixed(x, y) : x \in {before, start}, y \in {before, start}}
Zeroed == {0} \cup (IF struck THEN {Mixed(0, start), Mixed(start, 0)} ELSE {})

\* if (millis() < Buzzer_StartTime), and the assignment to Buzzer_OffsetTime.
RollTest ==
  /\ pc = "roll"
  /\ UNCHANGED <<now, interrupt_F, Buzzer_F, start, pin, seen, Ghosts>>
  /\ \E s \in Reads :
       IF seen < s
       THEN offset' = Wrap(MillisRange - 2 - s) /\ Goto("zero")
       ELSE Goto("millis") /\ UNCHANGED offset

\* Buzzer_StartTime = 0
Zero ==
  /\ pc = "zero"
  /\ start' \in Zeroed
  /\ UNCHANGED <<now, interrupt_F, Buzzer_F, offset, pin, seen, Ghosts>>
  /\ Goto("millis")

CallMillis ==
  /\ pc = "millis"
  /\ seen' = now
  /\ UNCHANGED <<now, interrupt_F, Buzzer_F, start, offset, pin, Ghosts>>
  /\ Goto("due")

IsDue(s) == Wrap(seen - s) > Wrap(Buzzer_DELAYTIME - offset)

\* Buzzer_OffsetTime is cleared when the buzzer is switched off.
OffsetKept == offset
OffsetWhenDue == 0

DueTest ==
  /\ pc = "due"
  /\ UNCHANGED <<now, interrupt_F, Buzzer_F, start, pin, seen, Ghosts>>
  /\ \E s \in Reads :
       IF IsDue(s)
       THEN offset' = OffsetWhenDue /\ Goto("off_flag")
       ELSE Goto("top") /\ UNCHANGED offset

\* Buzzer_F = false
OffFlag(step, next) ==
  /\ pc = step
  /\ Buzzer_F' = FALSE
  /\ UNCHANGED <<now, interrupt_F, start, offset, pin, seen, Ghosts>>
  /\ Goto(next)

\* digitalWrite(Buzzer_Relay, HIGH)
OffPin(step, next) ==
  /\ pc = step
  /\ pin' = "HIGH"
  /\ UNCHANGED <<now, interrupt_F, Buzzer_F, start, offset, seen, Ghosts>>
  /\ Goto(next)

\* The order in which BuzzerProc switches off.
SwitchOffPinFirst == OffPin("off_flag", "off_pin") \/ OffFlag("off_pin", "top")
SwitchOff == OffFlag("off_flag", "off_pin") \/ OffPin("off_pin", "top")

Loop ==
  \/ Report \/ NoReport \/ Reported \/ NoBuzzer \/ BuzzerProc
  \/ RollTest \/ Zero \/ CallMillis \/ DueTest \/ SwitchOff

Next == Tick \/ Interrupt \/ Loop

Spec == Init /\ [][Next]_vars

\* loop() is called forever.  HostProc is assumed to return: its own waits have
\* a time limit, the one in EthernetClient::connect has none.  Shocks come or
\* do not come.
FairSpec == Spec /\ WF_vars(Loop) /\ WF_vars(Tick)

-----------------------------------------------------------------------------
\* Properties.

\* A sounding buzzer has a pending end, wherever a shock interrupts BuzzerProc:
\* the flag is cleared before the pin, so the handler cannot slip in between
\* and leave the buzzer on with nobody to switch it off.
NeverStuckOn == pin = "LOW" => (Buzzer_F \/ pc = "off_pin")

\* A shock is forgotten only if it struck while an earlier one was reported.
ShockKept == shock = "waiting" => interrupt_F

\* A shock that waits for its report gets it.
ShockReported == shock = "waiting" ~> shock # "waiting"

\* The buzzer of a shock that no later shock disturbs sounds for its full time,
\* whatever the rollover of millis() and earlier shocks left in the offset.
FullTime ==
  [][(pin = "LOW" /\ pin' = "HIGH" /\ ~raced) => rang > Buzzer_DELAYTIME]_vars
=============================================================================
