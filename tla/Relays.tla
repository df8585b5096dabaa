------------------------------- MODULE Relays -------------------------------
(***************************************************************************)
(* The three timed relays of the sketch: gate up, gate down and camera     *)
(* trigger.  A host command drives a relay LOW (energised) and arms its    *)
(* timer; RelayProc, called once per pass of loop(), drives it HIGH again. *)
(* RelayProc is one if / else if chain, so a pass serves only the first    *)
(* relay, in the order of Priority, whose flag is set.                     *)
(***************************************************************************)
EXTENDS Millis

CONSTANTS
  Delay,       \* GATE_UP_DELAYTIME = GATE_DOWN_DELAYTIME = TRIGGER_DELAYTIME
  MaxGap,      \* most milliseconds that pass between two calls of RelayProc
  AgeCap,      \* bound of the ghost age: it saturates there
  Commanded    \* the relays the host commands

Relay == {"up", "down", "trigger"}

ASSUME RelaysAssumption ==
  /\ Delay \in Nat \ {0}
  /\ MaxGap \in Nat \ {0}
  /\ AgeCap \in Nat
  /\ Delay + MaxGap + 3 < AgeCap
  /\ AgeCap < MillisRange
  /\ Commanded \subseteq Relay

VARIABLES
  now,     \* millis()
  pc,      \* the next step of loop(): "udp", "tcp" (a command may arrive), "relay"
  flag,    \* GATE_UP_F, GATE_DOWN_F, TRIGGER_F
  timer,   \* *_StartTime and *_OffsetTime
  pin,     \* level of GateUp_Relay, GateDn_Relay, Trigger_Relay
  gap,     \* ghost: milliseconds since RelayProc was last reached
  age,     \* ghost: milliseconds since the running pulse was last commanded
  again,   \* ghost: the relay was commanded while its pulse was running
  late     \* ghost: the rollover was found by a poll that was overdue itself

vars == <<now, pc, flag, timer, pin, gap, age, again, late>>

Idle == [start |-> 0, offset |-> 0]

TypeOK ==
  /\ now \in Ticks
  /\ pc \in {"udp", "tcp", "relay"}
  /\ flag \in [Relay -> BOOLEAN]
  /\ timer \in [Relay -> Timer]
  /\ pin \in [Relay -> {"LOW", "HIGH"}]
  /\ gap \in 0 .. MaxGap
  /\ age \in [Relay -> 0 .. AgeCap]
  /\ again \in [Relay -> BOOLEAN]
  /\ late \in [Relay -> BOOLEAN]

\* SetPinMode drives every relay pin HIGH but Trigger_Relay, which pinMode
\* leaves as an output at the level of its cleared port bit, LOW.
Init ==
  /\ now = 0
  /\ pc = "udp"
  /\ flag = [r \in Relay |-> FALSE]
  /\ timer = [r \in Relay |-> Idle]
  /\ pin = [r \in Relay |-> IF r = "trigger" THEN "LOW" ELSE "HIGH"]
  /\ gap = 0
  /\ age = [r \in Relay |-> 0]
  /\ again = [r \in Relay |-> FALSE]
  /\ late = [r \in Relay |-> FALSE]

\* A millisecond passes; MaxGap bounds how long one pass of loop() may take.
Tick ==
  /\ gap < MaxGap
  /\ now' = Wrap(now + 1)
  /\ gap' = gap + 1
  /\ age' = [r \in Relay |-> IF flag[r] /\ age[r] < AgeCap THEN age[r] + 1 ELSE age[r]]
  /\ UNCHANGED <<pc, flag, timer, pin, again, late>>

AfterPhase == IF pc = "udp" THEN "tcp" ELSE "relay"

\* The start time is written on every command; the offset is left alone.
ArmedRearm(r) == [timer[r] EXCEPT !.start = now, !.offset = now]
Armed(r) == [timer[r] EXCEPT !.start = now]

\* commandProc on GATE UP, GATE DOWN or GETFRAME.
Command(r) ==
  /\ pc \in {"udp", "tcp"}
  /\ pc' = AfterPhase
  /\ pin' = [pin EXCEPT ![r] = "LOW"]
  /\ timer' = [timer EXCEPT ![r] = Armed(r)]
  /\ flag' = [flag EXCEPT ![r] = TRUE]
  /\ age' = [age EXCEPT ![r] = 0]
  /\ again' = [again EXCEPT ![r] = flag[r]]
  /\ UNCHANGED <<now, gap, late>>

\* A phase of loop() that receives no relay command.
NoCommand ==
  /\ pc \in {"udp", "tcp"}
  /\ pc' = AfterPhase
  /\ UNCHANGED <<now, flag, timer, pin, gap, age, again, late>>

\* The relays tested before r in the if / else if chain.
AboveSwapped(r) == CASE r = "up" -> {"down"}
                     [] r = "down" -> {}
                     [] r = "trigger" -> {"up", "down"}
Above(r) == CASE r = "up" -> {}
              [] r = "down" -> {"up"}
              [] r = "trigger" -> {"up", "down"}

Served(r) == flag[r] /\ \A q \in Above(r) : ~flag[q]

\* Both words of the timer t are cleared.
ReleasedKeepsOffset(t) == [t EXCEPT !.start = 0]
Released(t) == [start |-> 0, offset |-> 0]

\* RelayProc, in the branch of relay r, when its time is not over.
Hold(r) ==
  /\ pc = "relay"
  /\ Served(r)
  /\ ~Expired(now, Rolled(now, timer[r]), Delay)
  /\ timer' = [timer EXCEPT ![r] = Rolled(now, @)]
  /\ late' = [late EXCEPT ![r] = IF now < timer[r].start THEN age[r] > Delay + 2 ELSE @]
  /\ pc' = "udp"
  /\ gap' = 0
  /\ UNCHANGED <<now, flag, pin, age, again>>

\* RelayProc, in the branch of relay r, when its time is over.
Release(r) ==
  /\ pc = "relay"
  /\ Served(r)
  /\ Expired(now, Rolled(now, timer[r]), Delay)
  /\ pin' = [pin EXCEPT ![r] = "HIGH"]
  /\ flag' = [flag EXCEPT ![r] = FALSE]
  /\ timer' = [timer EXCEPT ![r] = Released(Rolled(now, @))]
  /\ age' = [age EXCEPT ![r] = 0]
  /\ again' = [again EXCEPT ![r] = FALSE]
  /\ late' = [late EXCEPT ![r] = FALSE]
  /\ pc' = "udp"
  /\ gap' = 0
  /\ UNCHANGED now

\* loop() skips RelayProc when no flag is set.
SkipRelays ==
  /\ pc = "relay"
  /\ \A r \in Relay : ~flag[r]
  /\ pc' = "udp"
  /\ gap' = 0
  /\ UNCHANGED <<now, flag, timer, pin, age, again, late>>

RelayProc == \E r \in Relay : Hold(r) \/ Release(r)

Loop == NoCommand \/ SkipRelays \/ RelayProc

Next == Tick \/ Loop \/ \E r \in Commanded : Command(r)

Spec == Init /\ [][Next]_vars

\* loop() is called forever and the clock never stops.
FairSpec == Spec /\ WF_vars(Loop) /\ WF_vars(Tick)

-----------------------------------------------------------------------------
\* Properties.

\* A relay the host did not command again during its pulse is switched off
\* only when its hold time is over, however late or rarely RelayProc runs and
\* wherever the rollover of millis() falls in the pulse.
NotEarly ==
  [][\A r \in Relay :
       (flag[r] /\ ~flag'[r] /\ ~again[r]) => age[r] > Delay]_vars

\* The gate-up relay, first in the chain of RelayProc, is energised at most
\* one pass of loop() longer than its hold time (2 ms more when millis() rolls
\* over), unless the first poll after a rollover was already overdue: its
\* offset then exceeds the hold time and the difference wraps around.
UpHeldBounded ==
  (flag["up"] /\ ~late["up"]) => age["up"] <= Delay + MaxGap + 2

\* A pending release is never given up: a gate-up pulse ends, is replaced by a
\* new one, or meets the overdue rollover of UpHeldBounded.
UpEnds ==
  flag["up"] ~> (~flag["up"] \/ age["up"] = 0 \/ late["up"])
=============================================================================
