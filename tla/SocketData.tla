------------------------------ MODULE SocketData ------------------------------
(***************************************************************************)
(* The bytes of one socket of the W5500 chip: available, recv, peek and    *)
(* send of TCP, beginPacket, write and endPacket of UDP, down to the       *)
(* registers.  The chip changes its registers of two bytes while the driver*)
(* reads them one byte after the other.  Every byte carries its number in  *)
(* its stream, which is the pointer at which it belongs.                   *)
(***************************************************************************)
EXTENDS Integers, Sequences

CONSTANTS
  Kinds,        \* the kinds of socket: "TCP", "UDP"
  Half,         \* 256, the values of half a register
  SSIZE,        \* 2048, the bytes of each buffer of the socket
  StartPointer, \* the pointers of a socket that was opened
  Lengths,      \* the lengths a caller asks for
  MaxIn, MaxOut \* bounds on the bytes of one connection

Range16 == Half * Half
Pointer == 0 .. Range16 - 1

ASSUME SocketDataAssumption ==
  /\ Kinds \subseteq {"TCP", "UDP"}
  /\ Half \in Nat /\ SSIZE \in Nat
  /\ 0 < SSIZE /\ SSIZE < Range16 /\ Range16 % SSIZE = 0
  /\ StartPointer \in Pointer
  /\ Lengths \subseteq Nat \ {0}
  /\ MaxIn \in Nat /\ MaxOut \in Nat

VARIABLES
  kind, status,       \* SnMR and SnSR
  rsr, rxbase, rxmem, \* RX_RSR, RX_RD as of the last RECV, the receive buffer
  rxrd,               \* RX_RD as written
  fsr, txwr, txmem,   \* TX_FSR, TX_WR as of the last SEND, the send buffer
  txsent,             \* how far the chip has sent
  txptr,              \* TX_WR as written
  ir,                 \* SnIR: SEND_OK and TIMEOUT
  pc, op,             \* the step, and the function it belongs to
  want, n,            \* len, and ret of recv, send and bufferData
  hi, val1, val,      \* the variables of a double read
  offset,             \* EthernetUDP::_offset
  buf,                \* the bytes a caller of recv or peek gets
  next, put,          \* ghosts: numbers of the bytes handed over so far
  atStart             \* ghost: the size register when it was asked for

rxchip == <<rsr, rxbase, rxmem>>
txchip == <<fsr, txwr, txmem, txsent, ir>>
size == <<hi, val1, val, atStart>>
mcu == <<pc, op, want, n, size, offset, buf, next, put, rxrd, txptr>>
vars == <<kind, status, rxchip, txchip, mcu>>

Plus(p, k) == (p + k) % Range16
Minus(p, q) == (p - q) % Range16

Places == {"idle", "high1", "low1", "high2", "low2", "sized", "copy", "point", "command", "sendok"}

TypeOK ==
  /\ kind \in {"TCP", "UDP"}
  /\ status \in {"ESTABLISHED", "CLOSE_WAIT", "CLOSED", "UDP"}
  /\ rsr \in 0 .. SSIZE
  /\ rxbase \in Pointer
  /\ rxmem \in [0 .. SSIZE - 1 -> Pointer]
  /\ rxrd \in Pointer
  /\ fsr \in 0 .. SSIZE
  /\ txwr \in Pointer
  /\ txmem \in [0 .. SSIZE - 1 -> Pointer]
  /\ txsent \in Pointer
  /\ txptr \in Pointer
  /\ ir \in [SEND_OK : BOOLEAN, TIMEOUT : BOOLEAN]
  /\ pc \in Places
  /\ op \in {"none", "available", "recv", "peek", "send", "write", "endPacket"}
  /\ want \in Nat
  /\ n \in 0 .. SSIZE
  /\ hi \in 0 .. Half - 1
  /\ val1 \in Pointer
  /\ val \in Pointer
  /\ offset \in 0 .. SSIZE
  /\ buf \in Seq(Pointer)
  /\ next \in Pointer
  /\ put \in Pointer
  /\ atStart \in 0 .. SSIZE

NoFlags == [SEND_OK |-> FALSE, TIMEOUT |-> FALSE]

\* The socket is open; a TCP connection is made.
Opened(k) ==
  /\ status' = IF k = "UDP" THEN "UDP" ELSE "ESTABLISHED"
  /\ rsr' = 0
  /\ rxbase' = StartPointer /\ rxrd' = StartPointer
  /\ fsr' = SSIZE
  /\ txwr' = StartPointer /\ txptr' = StartPointer /\ txsent' = StartPointer
  /\ ir' = NoFlags
  /\ next' = StartPointer /\ put' = StartPointer

Init ==
  /\ kind \in Kinds
  /\ status = IF kind = "UDP" THEN "UDP" ELSE "ESTABLISHED"
  /\ rsr = 0
  /\ rxbase = StartPointer /\ rxrd = StartPointer
  /\ rxmem = [k \in 0 .. SSIZE - 1 |-> 0]
  /\ fsr = SSIZE
  /\ txwr = StartPointer /\ txptr = StartPointer /\ txsent = StartPointer
  /\ txmem = [k \in 0 .. SSIZE - 1 |-> 0]
  /\ ir = NoFlags
  /\ pc = "idle" /\ op = "none"
  /\ want = 0 /\ n = 0
  /\ hi = 0 /\ val1 = 0 /\ val = 0
  /\ offset = 0
  /\ buf = <<>>
  /\ next = StartPointer /\ put = StartPointer
  /\ atStart = 0

-----------------------------------------------------------------------------
\* The chip and the peer.

Up == status \in {"ESTABLISHED", "CLOSE_WAIT"}

ByteArrives ==
  /\ status \in {"ESTABLISHED", "UDP"}
  /\ rsr < SSIZE
  /\ Minus(Plus(rxbase, rsr), StartPointer) < MaxIn
  /\ rxmem' = [rxmem EXCEPT ![Plus(rxbase, rsr) % SSIZE] = Plus(rxbase, rsr)]
  /\ rsr' = rsr + 1
  /\ UNCHANGED <<kind, status, rxbase, txchip, mcu>>

\* All a SEND has asked for is on the wire; a datagram frees its buffer.
PutOnWire ==
  /\ Up \/ status = "UDP"
  /\ txsent # txwr
  /\ txsent' = txwr
  /\ ir' = [ir EXCEPT !.SEND_OK = TRUE]
  /\ fsr' = IF kind = "UDP" THEN SSIZE ELSE fsr
  /\ UNCHANGED <<kind, status, rxchip, txwr, txmem, mcu>>

\* Nobody answers ARP: the datagram is dropped.
TimesOut ==
  /\ status = "UDP"
  /\ txsent # txwr
  /\ txsent' = txwr
  /\ ir' = [ir EXCEPT !.TIMEOUT = TRUE]
  /\ fsr' = SSIZE
  /\ UNCHANGED <<kind, status, rxchip, txwr, txmem, mcu>>

\* The peer acknowledges a byte of TCP.
Acknowledges ==
  /\ Up
  /\ fsr < SSIZE - Minus(txwr, txsent)
  /\ fsr' = fsr + 1
  /\ UNCHANGED <<kind, status, rxchip, txwr, txmem, txsent, ir, mcu>>

PeerCloses ==
  /\ status = "ESTABLISHED"
  /\ status' = "CLOSE_WAIT"
  /\ UNCHANGED <<kind, rxchip, txchip, mcu>>

\* The peer resets the connection, or the chip gives up its retransmissions.
PeerResets ==
  /\ Up
  /\ status' = "CLOSED"
  /\ UNCHANGED <<kind, rxchip, txchip, mcu>>

Chip == PutOnWire \/ TimesOut \/ Acknowledges

Peer == ByteArrives \/ PeerCloses \/ PeerResets

-----------------------------------------------------------------------------
\* The functions begin.

Call(f, len) ==
  /\ pc = "idle"
  /\ op' = f
  /\ want' = len
  /\ UNCHANGED <<kind, status, rxchip, txchip, n, hi, val1, val, buf, next, put, rxrd, txptr>>

\* The size register a function asks for.
Register(f) == IF f \in {"available", "recv", "peek"} THEN rsr ELSE fsr

AsksSize(f) == pc' = "high1" /\ atStart' = Register(f)

Reads ==
  \E f \in {"available", "recv", "peek"}, len \in Lengths \cup {1} :
    /\ IF f = "recv" THEN len \in Lengths ELSE len = 1
    /\ Call(f, len)
    /\ AsksSize(f)
    /\ UNCHANGED offset

\* send of TCP, with a length of at most SSIZE.
Sends ==
  \E len \in Lengths :
    /\ kind = "TCP"
    /\ Minus(put, StartPointer) + len <= MaxOut
    /\ Call("send", len)
    /\ AsksSize("send")
    /\ UNCHANGED offset

\* beginPacket of UDP, and the first write behind it.
BeginsPacket ==
  \E len \in Lengths :
    /\ kind = "UDP"
    /\ txptr = txwr
    /\ Minus(put, StartPointer) + len <= MaxOut
    /\ Call("write", len)
    /\ AsksSize("write")
    /\ offset' = 0

\* Further writes.  No caller puts more into a packet than its buffer holds.
Writes ==
  \E len \in Lengths :
    /\ txptr # txwr
    /\ offset + len <= SSIZE
    /\ Minus(put, StartPointer) + len <= MaxOut
    /\ Call("write", len)
    /\ AsksSize("write")
    /\ UNCHANGED offset

EndsPacket ==
  /\ kind = "UDP"
  /\ txptr # txwr
  /\ Call("endPacket", 0)
  /\ pc' = "command"
  /\ UNCHANGED <<atStart, offset>>

\* Without a connection the socket is closed and opened again.
Opens ==
  /\ pc = "idle"
  /\ status = "CLOSED"
  /\ Opened(kind)
  /\ UNCHANGED <<kind, rxmem, txmem, pc, op, want, n, size, offset, buf>>

-----------------------------------------------------------------------------
\* getTXFreeSize and getRXReceivedSize: a register is read byte by byte, and
\* twice, until both readings agree.

High(r) == r \div Half
Low(r) == r % Half

Reading(from, to) ==
  /\ pc = from
  /\ pc' = to
  /\ UNCHANGED <<kind, status, rxchip, txchip, op, want, n, offset, buf, next, put, rxrd, txptr>>

ReadHigh1 ==
  /\ Reading("high1", "low1")
  /\ hi' = High(Register(op))
  /\ UNCHANGED <<val1, val, atStart>>

\* A reading of 0 is not repeated; it ends the loop when val is 0, too.
AfterFirstOnce(v) == "sized"
AfterFirst(v) == IF v # 0 THEN "high2" ELSE IF val = 0 THEN "sized" ELSE "high1"

ReadLow1 ==
  /\ val1' = hi * Half + Low(Register(op))
  /\ Reading("low1", AfterFirst(val1'))
  /\ val' = IF AfterFirst(val1') = "sized" THEN val1' ELSE val
  /\ UNCHANGED <<hi, atStart>>

ReadHigh2 ==
  /\ Reading("high2", "low2")
  /\ hi' = High(Register(op))
  /\ UNCHANGED <<val1, val, atStart>>

ReadLow2 ==
  /\ val' = hi * Half + Low(Register(op))
  /\ Reading("low2", IF val' = val1 THEN "sized" ELSE "high1")
  /\ UNCHANGED <<hi, val1, atStart>>

ReadSize == ReadHigh1 \/ ReadLow1 \/ ReadHigh2 \/ ReadLow2

-----------------------------------------------------------------------------
\* The functions go on.

MinOf(a, b) == IF a <= b THEN a ELSE b

Goto(place) == pc' = place /\ UNCHANGED <<kind, status, rxchip, op, want, atStart>>

\* A function returns: its variables are gone.
Returns ==
  /\ pc' = "idle"
  /\ op' = "none"
  /\ want' = 0 /\ n' = 0
  /\ hi' = 0 /\ val1' = 0 /\ val' = 0 /\ atStart' = 0
  /\ buf' = <<>>
  /\ UNCHANGED <<kind, status>>

Copies(count) ==
  /\ n' = count
  /\ hi' = 0 /\ val1' = 0 /\ val' = 0
  /\ Goto("copy")
  /\ UNCHANGED <<txchip, offset, buf, next, put, rxrd, txptr>>

\* Nothing to read: recv looks at the status to tell the end from a pause.
SizedNothing ==
  /\ pc = "sized"
  /\ op = "available" \/ (op \in {"recv", "peek"} /\ val = 0)
  /\ Returns
  /\ UNCHANGED <<rxchip, txchip, offset, next, put, rxrd, txptr>>

Given == MinOf(val, want)

SizedRead ==
  /\ pc = "sized"
  /\ op \in {"recv", "peek"}
  /\ val # 0
  /\ Copies(Given)

\* Room for len bytes; write() of UDP takes what there is room for.
RoomAny(len) == val > 0
RoomMore(len) == val > len
Room(len) == val >= len

SizedSend ==
  /\ pc = "sized"
  /\ op = "send"
  /\ Up
  /\ Room(MinOf(want, SSIZE))
  /\ Copies(MinOf(want, SSIZE))

SizedWait ==
  /\ pc = "sized"
  /\ op = "send"
  /\ Up
  /\ ~Room(MinOf(want, SSIZE))
  /\ hi' = 0 /\ val1' = 0 /\ val' = 0
  /\ Goto("high1")
  /\ UNCHANGED <<txchip, n, offset, buf, next, put, rxrd, txptr>>

\* The connection is gone: nothing is copied, and SEND follows all the same.
SizedDown ==
  /\ pc = "sized"
  /\ op = "send"
  /\ ~Up
  /\ Copies(0)

SizedWrite ==
  /\ pc = "sized"
  /\ op = "write"
  /\ Copies(MinOf(want, val))

\* recv_data_processing: the bytes from RX_RD on.
CopyIn ==
  /\ pc = "copy"
  /\ op \in {"recv", "peek"}
  /\ buf' = [k \in 1 .. n |-> rxmem[Plus(rxrd, k - 1) % SSIZE]]
  /\ Goto("point")
  /\ UNCHANGED <<txchip, n, hi, val1, val, offset, next, put, rxrd, txptr>>

\* Where send_data_processing_offset writes: TX_WR reads as of the last SEND.
WriteAt == Plus(txwr, IF op = "write" THEN offset ELSE 0)

CopyOut ==
  /\ pc = "copy"
  /\ op \in {"send", "write"}
  /\ txmem' = [a \in 0 .. SSIZE - 1 |->
                 IF \E k \in 0 .. n - 1 : Plus(WriteAt, k) % SSIZE = a
                 THEN Plus(put, CHOOSE k \in 0 .. n - 1 : Plus(WriteAt, k) % SSIZE = a)
                 ELSE txmem[a]]
  /\ put' = Plus(put, n)
  /\ Goto("point")
  /\ UNCHANGED <<fsr, txwr, txsent, ir, n, hi, val1, val, offset, buf, next, rxrd, txptr>>

\* peek ends without a new pointer.
PointPeek ==
  /\ pc = "point"
  /\ op = "peek"
  /\ Returns
  /\ UNCHANGED <<rxchip, txchip, offset, next, put, rxrd, txptr>>

ReadToAll == Plus(rxbase, rsr)
ReadTo == Plus(rxrd, n)

PointIn ==
  /\ pc = "point"
  /\ op = "recv"
  /\ rxrd' = ReadTo
  /\ next' = Plus(next, n)
  /\ Goto("command")
  /\ UNCHANGED <<txchip, n, hi, val1, val, offset, buf, put, txptr>>

PointSend ==
  /\ pc = "point"
  /\ op = "send"
  /\ txptr' = Plus(WriteAt, n)
  /\ Goto("command")
  /\ UNCHANGED <<txchip, n, hi, val1, val, offset, buf, next, put, rxrd>>

PointWrite ==
  /\ pc = "point"
  /\ op = "write"
  /\ txptr' = Plus(WriteAt, n)
  /\ offset' = offset + n
  /\ Returns
  /\ UNCHANGED <<rxchip, txchip, next, put, rxrd>>

\* RECV: the chip takes the new pointer.
Recv ==
  /\ pc = "command"
  /\ op = "recv"
  /\ rxbase' = rxrd
  /\ rsr' = rsr - Minus(rxrd, rxbase)
  /\ Returns
  /\ UNCHANGED <<rxmem, txchip, offset, next, put, rxrd, txptr>>

\* SEND, of send and of sendUDP.
Send ==
  /\ pc = "command"
  /\ op \in {"send", "endPacket"}
  /\ txwr' = txptr
  /\ fsr' = fsr - Minus(txptr, txwr)
  /\ Goto("sendok")
  /\ UNCHANGED <<txmem, txsent, ir, n, hi, val1, val, offset, buf, next, put, rxrd, txptr>>

SendOk ==
  /\ pc = "sendok"
  /\ ir.SEND_OK
  /\ ir' = [ir EXCEPT !.SEND_OK = FALSE]
  /\ Returns
  /\ UNCHANGED <<rxchip, fsr, txwr, txmem, txsent, offset, next, put, rxrd, txptr>>

\* What ends the wait for SEND_OK of send: close() clears all flags.
GivesUp == op = "send" /\ status = "CLOSED"

SendLost ==
  /\ pc = "sendok"
  /\ ~ir.SEND_OK
  /\ GivesUp
  /\ ir' = NoFlags
  /\ Returns
  /\ UNCHANGED <<rxchip, fsr, txwr, txmem, txsent, offset, next, put, rxrd, txptr>>

\* The same of sendUDP.
SendTimedOut ==
  /\ pc = "sendok"
  /\ ~ir.SEND_OK
  /\ op = "endPacket"
  /\ ir.TIMEOUT
  /\ ir' = NoFlags
  /\ Returns
  /\ UNCHANGED <<rxchip, fsr, txwr, txmem, txsent, offset, next, put, rxrd, txptr>>

Begins == Reads \/ Sends \/ BeginsPacket \/ Writes \/ EndsPacket \/ Opens

GoesOn ==
  \/ ReadSize
  \/ SizedNothing \/ SizedRead \/ SizedSend \/ SizedWait \/ SizedDown \/ SizedWrite
  \/ CopyIn \/ CopyOut
  \/ PointPeek \/ PointIn \/ PointSend \/ PointWrite
  \/ Recv \/ Send \/ SendOk \/ SendLost \/ SendTimedOut

Next == Chip \/ Peer \/ Begins \/ GoesOn

Spec == Init /\ [][Next]_vars

\* The driver goes on, and the chip sends what it was asked to send: it is
\* acknowledged, or times out and closes.  Callers and peers promise nothing.
FairSpec == Spec /\ WF_vars(GoesOn) /\ WF_vars(PutOnWire \/ TimesOut) /\ WF_vars(Acknowledges)

-----------------------------------------------------------------------------
\* Properties.

\* A size that is not 0 was in the register at one moment of the call, however
\* the chip changed it between the reads of its bytes: it is no less than what
\* was there when the call began and no more than what is there when it ends.
SizeWasTrue == (pc = "sized" /\ val # 0) => atStart <= val /\ val <= Register(op)

\* recv and peek hand over the bytes of the stream in order, none twice and
\* none left out, across the end of the buffer and of the pointer's range.
BytesInOrder ==
  (pc = "point" /\ op \in {"recv", "peek"}) => \A k \in 1 .. n : buf[k] = Plus(next, k - 1)

\* What was given to the chip and is not acknowledged is in its buffer, byte by
\* byte: a send never writes over bytes that may have to be sent again, and the
\* writes of a packet stand one behind the other.
TxIntact ==
  \A k \in 1 .. SSIZE - fsr : txmem[Minus(txwr, k) % SSIZE] = Minus(txwr, k)

\* send and endPacket return, although send waits for room and both for
\* SEND_OK without a time-out of their own.
SendReturns == (op \in {"send", "endPacket"}) ~> (pc = "idle")
=============================================================================
