---------------------------- MODULE CommandReply ----------------------------
(***************************************************************************)
(* The command servers of the sketch and the reply they owe the host.      *)
(* One pass of loop() looks for one UDP datagram, then for one TCP client  *)
(* with data, then sends the pending reply if its time has come.  The reply*)
(* is repeated until the host answers ACK_R; the peer it goes to is not    *)
(* stored with it but taken from recvProtocol, UdpServer and client when it*)
(* is sent.                                                                *)
(***************************************************************************)
EXTENDS Millis

CONSTANTS
  Hosts,               \* the peers that talk to the board
  NoHost,              \* no client: EthernetClient(MAX_SOCK_NUM)
  ReplyPeriod,         \* milliseconds between two copies of a reply
  MaxGap,              \* most milliseconds between two looks at the reply
  SinceCap             \* bound of the ghost since: it saturates there

ASSUME CommandReplyAssumption ==
  /\ NoHost \notin Hosts
  /\ ReplyPeriod \in Nat \ {0}
  /\ MaxGap \in Nat \ {0}
  /\ SinceCap \in Nat
  /\ ReplyPeriod + MaxGap + 3 < SinceCap
  /\ SinceCap < MillisRange

ReplyMaxReqCount == 3
MaxACKSendCount == 3

VARIABLES
  now,              \* millis()
  phase,            \* the next step of loop(): "udp", "tcp" or "reply"
  recvProtocol,     \* transport of the last bytes received, 0 before any
  remote,           \* UdpServer.remoteIP(): source of the last datagram
  client,           \* the TCP client of this pass
  ackR_F,           \* no reply is pending
  nowACKSendCount,
  ReplyReqCount,
  timer,            \* ReplyPreviousTime and Reply_OffsetTime
  gap,              \* ghost: milliseconds since loop() last looked at the reply
  since,            \* ghost: milliseconds since ReplyPreviousTime, while trying
  late,             \* ghost: the rollover was found by a look that was overdue
  asked,            \* ghost: the kind of the last request
  copies            \* ghost: copies of the reply sent since the last request

reply == <<ackR_F, nowACKSendCount, ReplyReqCount, timer, since, late, asked, copies>>
vars == <<now, phase, recvProtocol, remote, client, gap, reply>>

Protocol == {"UDP", "TCP"}
Kind == {"INFO", "CMD"}

TypeOK ==
  /\ now \in Ticks
  /\ phase \in {"udp", "tcp", "reply"}
  /\ recvProtocol \in Protocol \cup {"none"}
  /\ remote \in Hosts \cup {NoHost}
  /\ client \in Hosts \cup {NoHost}
  /\ ackR_F \in BOOLEAN
  /\ nowACKSendCount \in 0 .. MaxACKSendCount
  /\ ReplyReqCount \in 0 .. ReplyMaxReqCount - 1
  /\ timer \in Timer
  /\ gap \in 0 .. MaxGap
  /\ since \in 0 .. SinceCap
  /\ late \in BOOLEAN
  /\ asked \in Kind \cup {"NONE"}
  /\ copies \in 0 .. MaxACKSendCount

Init ==
  /\ now = 0
  /\ phase = "udp"
  /\ recvProtocol = "none"
  /\ remote = NoHost
  /\ client = NoHost
  /\ ackR_F = TRUE
  /\ nowACKSendCount = 0
  /\ ReplyReqCount = 0
  /\ timer = [start |-> 0, offset |-> 0]
  /\ gap = 0
  /\ since = 0
  /\ late = FALSE
  /\ asked = "NONE"
  /\ copies = 0

\* A reply is pending and has tries left: the two outer tests of loop().
Trying == ~ackR_F /\ ReplyReqCount < ReplyMaxReqCount - 1

Tick ==
  /\ gap < MaxGap
  /\ now' = Wrap(now + 1)
  /\ gap' = gap + 1
  /\ since' = IF Trying /\ since < SinceCap THEN since + 1 ELSE since
  /\ UNCHANGED <<phase, recvProtocol, remote, client, ackR_F, nowACKSendCount,
                 ReplyReqCount, timer, late, asked, copies>>

-----------------------------------------------------------------------------
\* Receiving.

\* nowACKSendCount when the reply to a request is prepared.
FirstCountZero(kind) == 0
FirstCount(kind) == IF kind = "INFO" THEN 2 ELSE 0

\* ReplyInit sets the time of the last copy back by one period, so that the
\* first copy is due as soon as millis() moves.
InitTimerAtNow == [start |-> now, offset |-> 0]
InitTimer == [start |-> Wrap(now - ReplyPeriod), offset |-> 0]

\* ProcPacket on GETDEVICEINFO ("INFO") or on anything else that is complete
\* and not ACK_R ("CMD"), known command or not.
TakeRequest(kind) ==
  /\ nowACKSendCount' = FirstCount(kind)
  /\ timer' = InitTimer
  /\ ReplyReqCount' = 0
  /\ ackR_F' = FALSE
  /\ since' = ReplyPeriod
  /\ late' = FALSE
  /\ asked' = kind
  /\ copies' = 0

Acked == nowACKSendCount' = 0 /\ ackR_F' = TRUE

\* ProcPacket on ACK_R, from whichever peer it comes.
TakeAck ==
  /\ Acked
  /\ UNCHANGED <<ReplyReqCount, timer, since, late, asked, copies>>

\* ProcPacket; "JUNK" has no ETX and is dropped.
ProcPacket(m) ==
  \/ m \in Kind /\ TakeRequest(m)
  \/ m = "ACK_R" /\ TakeAck
  \/ m = "JUNK" /\ UNCHANGED reply

Message == Kind \cup {"ACK_R", "JUNK"}

\* parsePacket finds a datagram with a payload.
UdpPacket(h, m) ==
  /\ phase = "udp"
  /\ phase' = "tcp"
  /\ remote' = h
  /\ recvProtocol' = "UDP"
  /\ ProcPacket(m)
  /\ UNCHANGED <<now, client, gap>>

\* parsePacket finds an empty datagram: it stores its source and returns 0.
UdpEmpty(h) ==
  /\ phase = "udp"
  /\ phase' = "tcp"
  /\ remote' = h
  /\ UNCHANGED <<now, recvProtocol, client, gap, reply>>

UdpNothing ==
  /\ phase = "udp"
  /\ phase' = "tcp"
  /\ UNCHANGED <<now, recvProtocol, remote, client, gap, reply>>

\* TcpServer.available() returns a connection with data.
TcpData(h, m) ==
  /\ phase = "tcp"
  /\ phase' = "reply"
  /\ client' = h
  /\ recvProtocol' = "TCP"
  /\ ProcPacket(m)
  /\ UNCHANGED <<now, remote, gap>>

\* No connection has data: client becomes the client of no socket.
TcpNothing ==
  /\ phase = "tcp"
  /\ phase' = "reply"
  /\ client' = NoHost
  /\ UNCHANGED <<now, recvProtocol, remote, gap, reply>>

-----------------------------------------------------------------------------
\* The reply part of loop().

LookDone ==
  /\ phase = "reply"
  /\ phase' = "udp"
  /\ gap' = 0
  /\ UNCHANGED <<now, recvProtocol, remote, client>>

Due == Expired(now, Rolled(now, timer), ReplyPeriod)

Quiet ==
  /\ LookDone
  /\ ~Trying
  /\ UNCHANGED reply

Wait ==
  /\ LookDone
  /\ Trying
  /\ ~Due
  /\ timer' = Rolled(now, timer)
  /\ late' = IF now < timer.start THEN since > ReplyPeriod + 2 ELSE late
  /\ UNCHANGED <<ackR_F, nowACKSendCount, ReplyReqCount, since, asked, copies>>

\* The period starts again with every try.
RestartedKept == Rolled(now, timer)
Restarted == [start |-> now, offset |-> 0]

\* What both branches of SendReply are entered with.
Try ==
  /\ LookDone
  /\ Trying
  /\ Due
  /\ timer' = Restarted
  /\ ReplyReqCount' = ReplyReqCount + 1
  /\ since' = 0
  /\ late' = FALSE
  /\ UNCHANGED asked

\* SendReply with copies left.
SendCopy ==
  /\ Try
  /\ nowACKSendCount < MaxACKSendCount
  /\ nowACKSendCount' = nowACKSendCount + 1
  /\ copies' = copies + 1
  /\ UNCHANGED ackR_F

\* SendReply with none left: the reply counts as acknowledged.
GiveUp ==
  /\ Try
  /\ ~(nowACKSendCount < MaxACKSendCount)
  /\ nowACKSendCount' = 0
  /\ ackR_F' = TRUE
  /\ UNCHANGED copies

Receive ==
  \/ \E h \in Hosts, m \in Message : UdpPacket(h, m) \/ TcpData(h, m)
  \/ \E h \in Hosts : UdpEmpty(h)

Look == Quiet \/ Wait \/ SendCopy \/ GiveUp

Loop == UdpNothing \/ TcpNothing \/ Look

Next == Tick \/ Receive \/ Loop

Spec == Init /\ [][Next]_vars

-----------------------------------------------------------------------------
\* Properties.

\* Two copies of a reply are more than ReplyPeriod apart, and the first one is
\* never sent in the millisecond of its request, whatever the rollover of
\* millis() does to the time of the last copy.
CopiesSpaced == [][(copies' > copies) => since > ReplyPeriod]_vars

\* While a reply has tries left, one of them is at most one pass of loop()
\* overdue (2 ms more at a rollover), unless an overdue look found the rollover.
TriesPrompt == (Trying /\ ~late) => since <= ReplyPeriod + 2 + MaxGap

\* The copies the code still owes: both counters bound them.
MinOf(a, b) == IF a <= b THEN a ELSE b
Owed == IF ackR_F THEN 0
        ELSE MinOf(ReplyMaxReqCount - 1 - ReplyReqCount, MaxACKSendCount - nowACKSendCount)

CopiesOf(kind) == IF kind = "INFO" THEN 1 ELSE 2

Service == INSTANCE AckService
             WITH Kinds <- Kind, NoKind <- "NONE", Copies <- CopiesOf,
                  asked <- asked, owed <- Owed, sent <- copies, acked <- ackR_F

\* However requests, acknowledgements, retries and give-ups interleave, the two
\* counters and the flag behave as one bounded debt: GETDEVICEINFO is answered
\* once at most, a command twice at most, and never after ACK_R.
ImplementsService == Service!ASpec
=============================================================================
