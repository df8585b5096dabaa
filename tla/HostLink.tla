------------------------------- MODULE HostLink -------------------------------
(***************************************************************************)
(* The reports the board makes to its host: the CDS reading every CDSPeriod*)
(* and a shock when the interrupt handler noted one.  Both go through      *)
(* HostProc, which connects, sends the message again in every new second of*)
(* millis() until the host says something or its time is over, and hangs   *)
(* up.  HostProc blocks loop(), and with it the timer of the CDS.          *)
(***************************************************************************)
EXTENDS Millis

CONSTANTS
  Second,      \* hostPeriod / maxSendCount, 1000
  CDSPeriod,
  MaxGap,      \* most milliseconds between two steps of the sketch
  MaxBlock,    \* most milliseconds of connect(), println() and stop()
  SessCap,     \* bounds of the ghosts sessAge
  CDSCap       \* and cdsAge: they saturate there

ASSUME HostLinkAssumption ==
  /\ Second \in Nat \ {0}
  /\ CDSPeriod \in Nat \ {0}
  /\ MaxGap \in Nat \ {0}
  /\ 3 * MaxGap <= 2 * Second
  /\ MaxBlock \in Nat
  /\ SessCap \in Nat /\ 3 * Second + 2 < SessCap /\ SessCap < MillisRange
  /\ CDSCap \in Nat /\ CDSPeriod + 2 < CDSCap /\ CDSCap < MillisRange

VARIABLES
  now,          \* millis()
  pc,           \* what the sketch is doing
  interrupt_F,
  cds,          \* CDSPreviousTime and CDS_OffsetTime
  who,          \* the caller of HostProc
  retry,        \* retryHostConnectCount of ShockProc
  host,         \* hostStartTime and hostTimeOffset
  quotient,     \* hostQuotient
  reqCount,     \* hostReqCount
  unread,       \* what the host sent and the sketch has not read
  gap,          \* ghost: milliseconds since the last step of the sketch
  sessAge,      \* ghost: how long the loop has waited for the host
  cdsAge,       \* ghost: milliseconds since the last CDS report began
  overdue,      \* ghost: HostProc found the rollover after its time was over
  cdsLate       \* ghost: the CDS timer found the rollover after it was due

session == <<host, quotient, reqCount, overdue>>
ghosts == <<sessAge, cdsAge>>
vars == <<now, pc, interrupt_F, cds, who, retry, session, unread, gap, ghosts, cdsLate>>

\* "top" and "shock" are places of loop(), the others of HostProc.
Places == {"top", "shock", "connect", "wait", "ask", "send", "println", "drain", "stop"}

TypeOK ==
  /\ now \in Ticks
  /\ pc \in Places
  /\ interrupt_F \in BOOLEAN
  /\ cds \in Timer
  /\ who \in {"cds", "shock"}
  /\ retry \in 0 .. 3
  /\ host \in Timer
  /\ quotient \in Ticks
  /\ reqCount \in 0 .. 3
  /\ unread \in BOOLEAN
  /\ gap \in 0 .. MaxGap + MaxBlock
  /\ sessAge \in 0 .. SessCap
  /\ cdsAge \in 0 .. CDSCap
  /\ overdue \in BOOLEAN
  /\ cdsLate \in BOOLEAN

Zero == [start |-> 0, offset |-> 0]

Init ==
  /\ now = 0
  /\ pc = "top"
  /\ interrupt_F = FALSE
  /\ cds = Zero
  /\ who = "cds"
  /\ retry = 0
  /\ host = Zero
  /\ quotient = 0
  /\ reqCount = 0
  /\ unread = FALSE
  /\ gap = 0
  /\ sessAge = 0
  /\ cdsAge = 0
  /\ overdue = FALSE
  /\ cdsLate = FALSE

-----------------------------------------------------------------------------
\* The clock, the interrupt handler and the host.

\* The while loop that waits for the host, and all the time a connection is up.
Session == {"wait", "ask", "send", "println"}
Connection == Session \cup {"drain", "stop"}
Blocking == {"connect", "println", "stop"}

Older(age, cap) == IF age < cap THEN age + 1 ELSE age

Tick ==
  /\ gap < IF pc \in Blocking THEN MaxBlock ELSE MaxGap
  /\ now' = Wrap(now + 1)
  /\ gap' = gap + 1
  /\ sessAge' = IF pc \in Session THEN Older(sessAge, SessCap) ELSE 0
  /\ cdsAge' = Older(cdsAge, CDSCap)
  /\ UNCHANGED <<pc, interrupt_F, cds, who, retry, session, unread, cdsLate>>

Shock ==
  /\ ~interrupt_F
  /\ interrupt_F' = TRUE
  /\ UNCHANGED <<now, pc, cds, who, retry, session, unread, gap, ghosts, cdsLate>>

\* As often as it likes: nothing limits what a host says in a connection.
HostSends ==
  /\ pc \in Connection
  /\ ~unread
  /\ unread' = TRUE
  /\ UNCHANGED <<now, pc, interrupt_F, cds, who, retry, session, gap, ghosts, cdsLate>>

-----------------------------------------------------------------------------
\* loop().

Goto(place) == pc' = place /\ gap' = 0

\* The two statements of the CDS timer in loop().
CDSRolled == Rolled(now, cds)
CDSDue == Expired(now, CDSRolled, CDSPeriod)

NoCDS ==
  /\ pc = "top"
  /\ ~CDSDue
  /\ cds' = CDSRolled
  /\ cdsLate' = IF now < cds.start THEN cdsAge > CDSPeriod + 2 ELSE cdsLate
  /\ Goto("shock")
  /\ UNCHANGED <<now, interrupt_F, who, retry, session, unread, ghosts>>

\* CDS_OffsetTime = 0 before the next reading is timed.
CDSAgainKeepsOffset == [start |-> now, offset |-> CDSRolled.offset]
CDSAgain == [start |-> now, offset |-> 0]

CDSProc ==
  /\ pc = "top"
  /\ CDSDue
  /\ cds' = CDSAgain
  /\ cdsLate' = FALSE
  /\ cdsAge' = 0
  /\ who' = "cds"
  /\ Goto("connect")
  /\ UNCHANGED <<now, interrupt_F, retry, session, unread, sessAge>>

NoShock ==
  /\ pc = "shock"
  /\ ~interrupt_F
  /\ Goto("top")
  /\ UNCHANGED <<now, interrupt_F, cds, who, retry, session, unread, ghosts, cdsLate>>

ShockProc ==
  /\ pc = "shock"
  /\ interrupt_F
  /\ who' = "shock"
  /\ retry' = 3
  /\ Goto("connect")
  /\ UNCHANGED <<now, interrupt_F, cds, session, unread, ghosts, cdsLate>>

-----------------------------------------------------------------------------
\* HostProc.

maxSendCount == IF who = "cds" THEN 1 ELSE 3
hostPeriod == Second * maxSendCount

Connected ==
  /\ pc = "connect"
  /\ host' = [start |-> now, offset |-> 0]
  /\ quotient' = 0
  /\ reqCount' = 0
  /\ unread' = FALSE
  /\ sessAge' = 0
  /\ overdue' = FALSE
  /\ Goto("wait")
  /\ UNCHANGED <<now, interrupt_F, cds, who, retry, cdsAge, cdsLate>>

\* The while loop of ShockProc counts the connections that failed.
Retry(n) == n - 1

\* HostProc is false: CDSProc does not care, ShockProc tries again.
ConnectFailed ==
  /\ pc = "connect"
  /\ IF who = "cds"
     THEN Goto("shock") /\ UNCHANGED <<interrupt_F, retry>>
     ELSE /\ retry' = Retry(retry)
          /\ IF retry' > 0
             THEN Goto("connect") /\ UNCHANGED interrupt_F
             ELSE Goto("top") /\ interrupt_F' = FALSE
  /\ who' = IF retry' > 0 THEN "shock" ELSE "cds"
  /\ UNCHANGED <<now, cds, session, unread, ghosts, cdsLate>>

HostRolled == Rolled(now, host)
\* if (hostReqCount < maxSendCount) comes second; the time limit holds anyway.
TimedOutSilent == reqCount = 0 /\ Expired(now, HostRolled, hostPeriod)
TimedOutNoOffset == Expired(now, [HostRolled EXCEPT !.offset = 2 * @], hostPeriod)
TimedOut == Expired(now, HostRolled, hostPeriod)

\* Nothing reads the local variables of HostProc after its while loop.
LeaveLoop ==
  /\ host' = Zero
  /\ quotient' = 0
  /\ reqCount' = 0
  /\ sessAge' = 0
  /\ overdue' = FALSE

\* The condition of the while loop: the host has answered.
Answered ==
  /\ pc = "wait"
  /\ unread
  /\ LeaveLoop
  /\ Goto("drain")
  /\ UNCHANGED <<now, interrupt_F, cds, who, retry, unread, cdsAge, cdsLate>>

\* The two statements of the timer, with the goto to close: ...
GiveUp ==
  /\ pc = "wait"
  /\ ~unread
  /\ TimedOut
  /\ LeaveLoop
  /\ Goto("stop")
  /\ UNCHANGED <<now, interrupt_F, cds, who, retry, unread, cdsAge, cdsLate>>

\* ... or with the else branch, which may send.
GoOn ==
  /\ pc = "wait"
  /\ ~unread
  /\ ~TimedOut
  /\ host' = HostRolled
  /\ overdue' = IF now < host.start THEN sessAge > hostPeriod + 2 ELSE overdue
  /\ Goto("ask")
  /\ UNCHANGED <<now, interrupt_F, cds, who, retry, quotient, reqCount, unread,
                 ghosts, cdsLate>>

ThisSecond == now \div Second

\* The message is sent once in each second of millis().
DueToSendOneLess == reqCount < maxSendCount - 1 /\ quotient # ThisSecond
DueToSendAlways == reqCount < maxSendCount
DueToSend == reqCount < maxSendCount /\ quotient # ThisSecond

Ask ==
  /\ pc = "ask"
  /\ Goto(IF DueToSend THEN "send" ELSE "wait")
  /\ UNCHANGED <<now, interrupt_F, cds, who, retry, session, unread, ghosts, cdsLate>>

\* The count is taken after println has returned.
Send ==
  /\ pc = "send"
  /\ quotient' = ThisSecond
  /\ Goto("println")
  /\ UNCHANGED <<now, interrupt_F, cds, who, retry, host, reqCount, unread,
                 ghosts, overdue, cdsLate>>

Sent ==
  /\ pc = "println"
  /\ reqCount' = reqCount + 1
  /\ Goto("wait")
  /\ UNCHANGED <<now, interrupt_F, cds, who, retry, host, quotient, unread,
                 ghosts, overdue, cdsLate>>

\* available() and read(), until there is nothing more to read.
Drain ==
  /\ pc = "drain"
  /\ unread' = FALSE
  /\ Goto(IF unread THEN "drain" ELSE "stop")
  /\ UNCHANGED <<now, interrupt_F, cds, who, retry, session, ghosts, cdsLate>>

\* HostClient.stop(), and HostProc is true.
Stop ==
  /\ pc = "stop"
  /\ unread' = FALSE
  /\ who' = "cds"
  /\ retry' = 0
  /\ IF who = "cds"
     THEN Goto("shock") /\ UNCHANGED interrupt_F
     ELSE Goto("top") /\ interrupt_F' = FALSE
  /\ UNCHANGED <<now, cds, session, ghosts, cdsLate>>

HostProc ==
  \/ Connected \/ ConnectFailed \/ Answered \/ GiveUp \/ GoOn
  \/ Ask \/ Send \/ Sent \/ Drain \/ Stop

Loop == NoCDS \/ CDSProc \/ NoShock \/ ShockProc \/ HostProc

Next == Tick \/ Shock \/ HostSends \/ Loop

Spec == Init /\ [][Next]_vars

\* loop() is called forever and the clock never stops; the calls that block
\* are assumed to return (see the README).
FairSpec == Spec /\ WF_vars(Loop) /\ WF_vars(Tick)

-----------------------------------------------------------------------------
\* Properties.

\* The host has its full time to answer, wherever the rollover of millis()
\* falls: HostProc never hangs up on a silent host before hostPeriod is over.
FullWait == [][(pc = "wait" /\ pc' = "stop") => sessAge > hostPeriod]_vars

\* The clock rolled over since the connection was made.
RolledOver == now < sessAge

\* Three copies of a report never go out in one burst: the third begins more
\* than a second after the connection, except when the rollover of millis()
\* cut the last second of the clock short.
Spread ==
  [][(pc = "send" /\ pc' = "println" /\ reqCount = 2) =>
       (sessAge > Second \/ RolledOver)]_vars

\* A report that connects reaches the host, although hostQuotient starts at 0
\* and nothing is due in the first second of the clock: a shock always does,
\* and HostProc gives up on a CDS report it never sent only at the very end of
\* that second, when the connection was made at the rollover of millis().
Reported ==
  [][(pc = "wait" /\ pc' = "stop" /\ reqCount = 0) =>
       (who = "cds" /\ now < Second + MaxGap)]_vars

\* CDS reports begin more than CDSPeriod apart, whatever HostProc and the
\* rollover did in between.
CDSPaced == [][(cdsAge' = 0 /\ cdsAge # 0) => cdsAge > CDSPeriod]_vars

\* The while loop that reads has no time limit.
HostTalksOn == <>[](pc = "drain") /\ []<><<HostSends>>_vars

\* When the shocks stop, readings keep coming, unless HostProc kept loop() so
\* long that the first look at the timer after a rollover found it overdue, or
\* the host never stops talking in one connection: then loop() stands still.
CDSGoesOn ==
  <>[](~interrupt_F) =>
    []<>((pc = "connect" /\ who = "cds") \/ cdsLate \/ overdue) \/ HostTalksOn
=============================================================================
