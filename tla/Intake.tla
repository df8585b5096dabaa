-------------------------------- MODULE Intake --------------------------------
(***************************************************************************)
(* From the bytes in the chip to a command: EthernetUDP cuts the receive   *)
(* buffer of its socket into datagrams, the TCP client reads a stream that *)
(* has no such borders, and ProcPacket looks for the STX and the ETX of a  *)
(* packet in what one read has left in a buffer of fixed size.             *)
(***************************************************************************)
EXTENDS Integers, SequencesExt

CONSTANTS
  STX, ETX, NUL,           \* the bytes that mean something
  Text,                    \* the others
  UDP_TX_PACKET_MAX_SIZE,  \* bytes of recvTempBuff and recvRealBuff
  Datagrams,               \* what hosts send by UDP
  Segments,                \* what reaches the TCP connection at a time
  Behind,                  \* what may stand behind a full recvTempBuff
  RxSize, StreamSize       \* bounds of the buffers of the chip

Byte == {STX, ETX, NUL} \cup Text
Index == 1 .. UDP_TX_PACKET_MAX_SIZE

\* Marks and text are different bytes, and no header is a byte.
ASSUME IntakeAssumption ==
  /\ UDP_TX_PACKET_MAX_SIZE \in Nat \ {0}
  /\ RxSize \in Nat /\ StreamSize \in Nat
  /\ Datagrams \subseteq Seq(Byte)
  /\ Segments \subseteq Seq(Byte)
  /\ Behind \subseteq Seq(Byte \ {NUL})
  /\ STX # ETX /\ NUL \notin {STX, ETX} /\ {STX, ETX, NUL} \cap Text = {}
  /\ \A d \in Datagrams : [datagram |-> d] \notin Byte

VARIABLES
  pc,             \* "udp", "read", "tcp": the next step of loop()
  rx,             \* receive buffer of the UDP socket: headers and bytes
  remaining,      \* UdpServer._remaining
  stream,         \* receive buffer of the TCP connection
  recvRealBuff,   \* the global that holds the command
  current,        \* ghost: the datagram whose header was read last
  got,            \* ghost: what the last step has read of a packet
  command         \* ghost: what ProcPacket made of it

chip == <<rx, stream>>
intakeVars == <<pc, chip, remaining, recvRealBuff, current, got, command>>

\* A header stands for its eight bytes; it names the datagram behind it.
Header == [datagram : Datagrams]

Nothing == [complete |-> FALSE, text |-> <<>>]

IntakeTypeOK ==
  /\ pc \in {"udp", "read", "tcp"}
  /\ rx \in Seq(Header \cup Byte)
  /\ remaining \in Nat
  /\ stream \in Seq(Byte)
  /\ recvRealBuff \in [Index -> Byte]
  /\ current \in Seq(Byte)
  /\ got \in Seq(Byte)
  /\ command \in [complete : BOOLEAN, text : Seq(Byte)]

IntakeInit ==
  /\ pc = "udp"
  /\ rx = <<>>
  /\ remaining = 0
  /\ stream = <<>>
  /\ recvRealBuff = [k \in Index |-> NUL]
  /\ current = <<>>
  /\ got = <<>>
  /\ command = Nothing

-----------------------------------------------------------------------------
\* The network: a datagram or a piece of the stream for which there is room.

DatagramArrives(d) ==
  /\ Len(rx) + 1 + Len(d) <= RxSize
  /\ rx' = Append(rx, [datagram |-> d]) \o d
  /\ UNCHANGED <<pc, stream, remaining, recvRealBuff, current, got, command>>

SegmentArrives(s) ==
  /\ Len(stream) + Len(s) <= StreamSize
  /\ stream' = stream \o s
  /\ UNCHANGED <<pc, rx, remaining, recvRealBuff, current, got, command>>

Network ==
  \/ \E d \in Datagrams : DatagramArrives(d)
  \/ \E s \in Segments : SegmentArrives(s)

-----------------------------------------------------------------------------
\* recv(): no more than there is, and no more than was asked for.

Lesser(a, b) == IF a <= b THEN a ELSE b
Received(buffer, len) == SubSeq(buffer, 1, Lesser(Len(buffer), len))
Rest(buffer, len) == SubSeq(buffer, Lesser(Len(buffer), len) + 1, Len(buffer))

-----------------------------------------------------------------------------
\* ProcPacket.

\* recvTempBuff is cleared before a read.
RecvTempBuff(bytes) ==
  bytes \o [k \in 1 .. UDP_TX_PACKET_MAX_SIZE - Len(bytes) |-> NUL]

\* findSTX = true is an assignment: an ETX is enough.
CheckComplete(buff) == \E k \in Index : buff[k] = ETX

\* Where a string ends, or 0.
FirstNul(bytes) == SelectInSeq(bytes, LAMBDA b : b = NUL)

\* The characters strlen counts, which do not end with a buffer that is full.
Characters(buff, behind) ==
  IF FirstNul(buff) = 0 THEN buff \o behind ELSE SubSeq(buff, 1, FirstNul(buff) - 1)

\* Positions count from 1 here, so that 0 is the -1 of the code.
GetIndexFirst(b, word) == SelectInSeq(word, LAMBDA c : c = b)
GetIndex(b, word) == SelectLastInSeq(word, LAMBDA c : c = b)

\* Nothing is copied of a packet whose last STX is behind its last ETX.
GetData(buff, first, last, real) ==
  IF first <= last /\ last <= UDP_TX_PACKET_MAX_SIZE
  THEN SubSeq(buff, first, last) \o SubSeq(real, last - first + 2, UDP_TX_PACKET_MAX_SIZE)
  ELSE real

GetCommand(buff, word, real) ==
  GetData(buff, GetIndex(STX, word) + 1, GetIndex(ETX, word) - 1, real)

\* A command as strcmp sees it.
AsString(real) ==
  IF FirstNul(real) = 0 THEN real ELSE SubSeq(real, 1, FirstNul(real) - 1)

\* clearBuffer, on what a packet has left in recvRealBuff.
ClearBufferLeaves(real) == real
ClearBuffer(real) == [k \in Index |-> NUL]

\* Every text that is not a command is answered, too: what the command does is
\* the matter of CommandReply.
ProcPacketOf(bytes) ==
  LET buff == RecvTempBuff(bytes)
  IN \/ /\ ~CheckComplete(buff)
        /\ command' = Nothing
        /\ UNCHANGED recvRealBuff
     \/ /\ CheckComplete(buff)
        /\ \E word \in {Characters(buff, behind) : behind \in Behind} :
             LET real == GetCommand(buff, word, recvRealBuff)
             IN /\ command' = [complete |-> TRUE, text |-> AsString(real)]
                /\ recvRealBuff' = ClearBuffer(real)

-----------------------------------------------------------------------------
\* One pass of loop().

ReadsNothing == got' = <<>> /\ command' = Nothing

\* flush() at the start of parsePacket, a byte at a time.
Flush ==
  /\ pc = "udp"
  /\ remaining > 0
  /\ remaining' = remaining - Len(Received(rx, 1))
  /\ rx' = Rest(rx, 1)
  /\ ReadsNothing
  /\ UNCHANGED <<pc, stream, recvRealBuff, current>>

\* Bytes of a datagram would be taken for a header, of some length, too.
DatagramOf(cell) == IF cell \in Byte THEN <<cell>> ELSE cell.datagram

FlushedAlways == TRUE
Flushed == remaining = 0

ParsePacket ==
  /\ pc = "udp"
  /\ Flushed
  /\ rx # <<>>
  /\ current' = DatagramOf(Head(rx))
  /\ remaining' = Len(current')
  /\ rx' = Rest(rx, 1)
  /\ pc' = IF remaining' = 0 THEN "tcp" ELSE "read"
  /\ ReadsNothing
  /\ UNCHANGED <<stream, recvRealBuff>>

NoPacket ==
  /\ pc = "udp"
  /\ Flushed
  /\ rx = <<>>
  /\ pc' = "tcp"
  /\ ReadsNothing
  /\ UNCHANGED <<chip, remaining, recvRealBuff, current>>

\* What read(buffer, len) asks recv for, and what it leaves of _remaining.
Asked == Lesser(remaining, UDP_TX_PACKET_MAX_SIZE)
Left(n) == remaining - n

ReadUdp ==
  /\ pc = "read"
  /\ got' = Received(rx, Asked)
  /\ rx' = Rest(rx, Asked)
  /\ remaining' = Left(Len(got'))
  /\ ProcPacketOf(got')
  /\ pc' = "tcp"
  /\ UNCHANGED <<stream, current>>

ReadTcp ==
  /\ pc = "tcp"
  /\ stream # <<>>
  /\ got' = Received(stream, UDP_TX_PACKET_MAX_SIZE)
  /\ stream' = Rest(stream, UDP_TX_PACKET_MAX_SIZE)
  /\ ProcPacketOf(got')
  /\ pc' = "udp"
  /\ UNCHANGED <<rx, remaining, current>>

NoStream ==
  /\ pc = "tcp"
  /\ stream = <<>>
  /\ pc' = "udp"
  /\ ReadsNothing
  /\ UNCHANGED <<chip, remaining, recvRealBuff, current>>

IntakeLoop == Flush \/ ParsePacket \/ NoPacket \/ ReadUdp \/ ReadTcp \/ NoStream

IntakeNext == Network \/ IntakeLoop

IntakeSpec == IntakeInit /\ [][IntakeNext]_intakeVars

\* loop() is called forever; hosts promise nothing.
IntakeFairSpec == IntakeSpec /\ WF_intakeVars(IntakeLoop)

-----------------------------------------------------------------------------
\* Properties.

\* The text of the frame a read ends with: its last STX, a text, an ETX.
EndsInFrame(bytes) ==
  \E k \in 1 .. Len(bytes) - 1 :
    /\ bytes[k] = STX
    /\ bytes[Len(bytes)] = ETX
    /\ \A j \in k + 1 .. Len(bytes) - 1 : bytes[j] \in Text

LastFrame(bytes) ==
  LET k == CHOOSE j \in 1 .. Len(bytes) : bytes[j] = STX /\ \A i \in j + 1 .. Len(bytes) : bytes[i] # STX
  IN SubSeq(bytes, k + 1, Len(bytes) - 1)

\* Whatever was read before, by UDP or TCP and however it was cut, a read that
\* ends in a frame is understood as the text of that frame, unless a NUL stands
\* before it or it leaves no room for the NUL behind it.
Understood ==
  (EndsInFrame(got) /\ Len(got) < UDP_TX_PACKET_MAX_SIZE /\ NUL \notin Range(got)) =>
     command = [complete |-> TRUE, text |-> LastFrame(got)]

\* A command is never put together from two packets: its characters stand side
\* by side in what was read last, even when the buffer was full and what is
\* behind it was searched, too.
OfOnePacket ==
  command.text = <<>> \/
    \E k \in 1 .. Len(got) :
      k - 1 + Len(command.text) <= Len(got)
        /\ command.text = SubSeq(got, k, k - 1 + Len(command.text))

\* The datagrams of the receive buffer, past what is left of the last one.
Waiting ==
  LET heads == SelectSeq(rx, LAMBDA cell : cell \notin Byte)
      later == [k \in DOMAIN heads |-> heads[k].datagram]
  IN IF pc = "read" THEN <<current>> \o later ELSE later

\* loop() has handled a datagram when it has looked for TCP, too.
InHand == IF pc = "tcp" THEN got ELSE <<>>

Mail == INSTANCE Mailbox
          WITH Room <- UDP_TX_PACKET_MAX_SIZE, mail <- Waiting, taken <- InHand

\* However datagrams arrive between two reads, and however long or empty they
\* are, parsePacket, read and flush keep their borders: each is taken once, in
\* order, and in the end.
ImplementsMailbox == Mail!MSpec
=============================================================================
