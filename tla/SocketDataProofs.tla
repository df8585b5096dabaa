--------------------------- MODULE SocketDataProofs ---------------------------
(***************************************************************************)
(* Proofs about SocketData, for every width of the registers and every size*)
(* of the buffers.  First the double read of a size register: between two  *)
(* commands of the driver the register only grows, so that equal readings  *)
(* have seen the same upper byte, and the first of them fits together.     *)
(* Then the buffers: each holds a window of the stream, which slides as    *)
(* bytes are added behind it and given up at its front.                    *)
(***************************************************************************)
EXTENDS SocketData, TLAPS

SizePlaces == {"high1", "low1", "high2", "low2"}

Word16(h, l) == h * Half + l

\* What the registers, and the steps of the read so far, are known to be.
Grown ==
  /\ rsr \in Int
  /\ fsr \in Int /\ fsr <= SSIZE
  /\ hi \in Int /\ val1 \in Int /\ val \in Int /\ atStart \in Int
  /\ pc \in SizePlaces \cup {"sized"} => atStart <= Register(op)

\* The upper byte of the first reading.
FirstHigh ==
  pc = "low1" => \E x \in Int : atStart <= x /\ x <= Register(op) /\ hi = High(x)

\* A reading whose upper byte is older than its lower byte.
ReadBetween(x, y) == atStart <= x /\ x <= y /\ y <= Register(op)

FirstReading ==
  pc = "high2" =>
    \E x, y \in Int : ReadBetween(x, y) /\ val1 = Word16(High(x), Low(y))

SecondHigh ==
  pc = "low2" =>
    \E x, y, z \in Int :
      /\ ReadBetween(x, y) /\ y <= z /\ z <= Register(op)
      /\ val1 = Word16(High(x), Low(y))
      /\ hi = High(z)

SizeInv == Grown /\ FirstHigh /\ FirstReading /\ SecondHigh /\ SizeWasTrue

-----------------------------------------------------------------------------
\* The two halves of a register.

LEMMA Halves ==
  ASSUME NEW r \in Int
  PROVE  /\ High(r) \in Int
         /\ Low(r) \in 0 .. Half - 1
         /\ r = Word16(High(r), Low(r))
<1>1. Half \in Int /\ Half > 0
  BY SocketDataAssumption, SMT DEF Range16
<1>2. r \div Half \in Int /\ r % Half \in 0 .. Half - 1 /\ r = Half * (r \div Half) + (r % Half)
  BY <1>1
<1>3. (r \div Half) * Half = Half * (r \div Half)
  BY <1>1, <1>2
<1> QED
  BY <1>1, <1>2, <1>3 DEF High, Low, Word16

\* The pair of halves of a word is unique.
LEMMA HalvesUnique ==
  ASSUME NEW h1 \in Int, NEW h2 \in Int, NEW l1 \in 0 .. Half - 1, NEW l2 \in 0 .. Half - 1,
         Word16(h1, l1) = Word16(h2, l2)
  PROVE  h1 = h2 /\ l1 = l2
<1>1. Half \in Int /\ Half > 0
  BY SocketDataAssumption, SMT DEF Range16
<1>2. (h1 - h2) * Half = l2 - l1
  BY <1>1 DEF Word16
<1>3. -Half < l2 - l1 /\ l2 - l1 < Half
  BY <1>1
<1>4. CASE h1 - h2 >= 1
  <2>1. (h1 - h2) * Half >= Half
    BY <1>1, <1>4
  <2> QED
    BY <2>1, <1>1, <1>2, <1>3
<1>5. CASE h1 - h2 <= -1
  <2>1. (h1 - h2) * Half <= -Half
    BY <1>1, <1>5
  <2> QED
    BY <2>1, <1>1, <1>2, <1>3
<1>6. CASE h1 = h2
  BY <1>1, <1>2, <1>6
<1> QED
  BY <1>4, <1>5, <1>6

\* The upper half does not fall when the register grows.
LEMMA HighGrows ==
  ASSUME NEW x \in Int, NEW y \in Int, x <= y
  PROVE  High(x) <= High(y)
<1>1. Half \in Int /\ Half > 0
  BY SocketDataAssumption, SMT DEF Range16
<1>2. /\ High(x) \in Int /\ Low(x) \in 0 .. Half - 1 /\ x = High(x) * Half + Low(x)
      /\ High(y) \in Int /\ Low(y) \in 0 .. Half - 1 /\ y = High(y) * Half + Low(y)
  BY Halves DEF Word16
<1>3. SUFFICES ASSUME High(x) - High(y) >= 1 PROVE FALSE
  BY <1>2
<1>4. PICK g \in Int, h \in Int : g = High(x) /\ h = High(y)
  BY <1>2
<1>5. (g - h) * Half >= Half
  BY <1>1, <1>3, <1>4
<1>6. (g - h) * Half = g * Half - h * Half
  BY <1>1
<1> QED
  BY <1>1, <1>2, <1>4, <1>5, <1>6

\* Two equal readings of a growing register are the value it had when the
\* lower byte of the first was read.
LEMMA EqualReadings ==
  ASSUME NEW x \in Int, NEW y \in Int, NEW z \in Int, NEW w \in Int,
         x <= y, y <= z,
         Word16(High(x), Low(y)) = Word16(High(z), Low(w))
  PROVE  Word16(High(x), Low(y)) = y
<1>1. High(x) = High(z)
  BY Halves, HalvesUnique
<1>2. High(x) <= High(y) /\ High(y) <= High(z)
  BY HighGrows
<1>3. High(x) = High(y)
  <2>1. High(x) \in Int /\ High(y) \in Int
    BY Halves
  <2> QED
    BY <1>1, <1>2, <2>1
<1> QED
  BY <1>3, Halves

-----------------------------------------------------------------------------
\* The invariant.

LEMMA InitSize == Init => SizeInv
  BY SocketDataAssumption
  DEF Init, SizeInv, Grown, FirstHigh, FirstReading, SecondHigh, SizeWasTrue, SizePlaces

\* A step outside the reads keeps the invariant.
LEMMA Elsewhere ==
  ASSUME SizeInv,
         pc' \notin SizePlaces \cup {"sized"},
         rsr' \in Int, fsr' \in Int, fsr' <= SSIZE,
         hi' \in Int, val1' \in Int, val' \in Int, atStart' \in Int
  PROVE  SizeInv'
  BY DEF SizeInv, Grown, FirstHigh, FirstReading, SecondHigh, SizeWasTrue, SizePlaces

\* A step to the start of a read, of a register that is no less than it was.
LEMMA AtHigh1 ==
  ASSUME SizeInv,
         pc' = "high1",
         rsr' \in Int, fsr' \in Int, fsr' <= SSIZE,
         hi' \in Int, val1' \in Int, val' \in Int, atStart' \in Int,
         atStart' <= Register(op)'
  PROVE  SizeInv'
  BY DEF SizeInv, Grown, FirstHigh, FirstReading, SecondHigh, SizeWasTrue, SizePlaces

\* The chip lets both registers grow, wherever the driver is.
LEMMA Grows ==
  ASSUME SizeInv, UNCHANGED <<pc, op, size>>,
         rsr' \in Int, fsr' \in Int, fsr' <= SSIZE,
         rsr' >= rsr, fsr' >= fsr
  PROVE  SizeInv'
<1> USE DEF size
<1>0. hi' = hi /\ val1' = val1 /\ val' = val /\ atStart' = atStart /\ pc' = pc /\ op' = op
  OBVIOUS
<1>1. Register(op) \in Int /\ Register(op)' \in Int /\ Register(op) <= Register(op)'
  BY <1>0 DEF SizeInv, Grown, Register
<1>2. Grown'
  BY <1>0, <1>1 DEF SizeInv, Grown
<1>3. FirstHigh'
  <2> SUFFICES ASSUME pc = "low1" PROVE FirstHigh'
    BY <1>0 DEF FirstHigh
  <2>1. PICK x \in Int : atStart <= x /\ x <= Register(op) /\ hi = High(x)
    BY DEF SizeInv, FirstHigh
  <2>2. atStart' <= x /\ x <= Register(op)' /\ hi' = High(x)
    BY <1>0, <1>1, <2>1
  <2> QED
    BY <2>2 DEF FirstHigh, High
<1>4. FirstReading'
  <2> SUFFICES ASSUME pc = "high2" PROVE FirstReading'
    BY <1>0 DEF FirstReading
  <2>1. PICK x \in Int, y \in Int : ReadBetween(x, y) /\ val1 = Word16(High(x), Low(y))
    BY DEF SizeInv, FirstReading
  <2>2. ReadBetween(x, y)'
    BY <1>0, <1>1, <2>1 DEF ReadBetween
  <2> QED
    BY <1>0, <2>1, <2>2 DEF FirstReading, High, Low, Word16
<1>5. SecondHigh'
  <2> SUFFICES ASSUME pc = "low2" PROVE SecondHigh'
    BY <1>0 DEF SecondHigh
  <2>1. PICK x \in Int, y \in Int, z \in Int :
          /\ ReadBetween(x, y) /\ y <= z /\ z <= Register(op)
          /\ val1 = Word16(High(x), Low(y))
          /\ hi = High(z)
    BY DEF SizeInv, SecondHigh
  <2>2. ReadBetween(x, y)' /\ z <= Register(op)'
    BY <1>0, <1>1, <2>1 DEF ReadBetween
  <2> QED
    BY <1>0, <2>1, <2>2 DEF SecondHigh, High, Low, Word16
<1>6. SizeWasTrue'
  BY <1>0, <1>1 DEF SizeInv, Grown, SizeWasTrue
<1> QED
  BY <1>2, <1>3, <1>4, <1>5, <1>6 DEF SizeInv

LEMMA ReadHigh1Size == SizeInv /\ ReadHigh1 => SizeInv'
<1> SUFFICES ASSUME SizeInv, ReadHigh1 PROVE SizeInv'
  OBVIOUS
<1> USE DEF ReadHigh1, Reading, size
<1>1. /\ pc = "high1" /\ pc' = "low1" /\ op' = op /\ rsr' = rsr /\ fsr' = fsr
      /\ val1' = val1 /\ val' = val /\ atStart' = atStart
  BY DEF rxchip, txchip
<1>2. Register(op) \in Int /\ Register(op)' = Register(op) /\ atStart <= Register(op)
  BY <1>1 DEF SizeInv, Grown, Register, SizePlaces
<1>3. hi' = High(Register(op)) /\ hi' \in Int
  BY <1>2, Halves
<1>4. Grown'
  BY <1>1, <1>2, <1>3 DEF SizeInv, Grown
<1>5. FirstHigh'
  BY <1>1, <1>2, <1>3 DEF FirstHigh, High, SizeInv, Grown
<1> QED
  BY <1>1, <1>4, <1>5 DEF SizeInv, FirstReading, SecondHigh, SizeWasTrue

LEMMA ReadLow1Size == SizeInv /\ ReadLow1 => SizeInv'
<1> SUFFICES ASSUME SizeInv, ReadLow1 PROVE SizeInv'
  OBVIOUS
<1> USE DEF ReadLow1, Reading, size
<1> DEFINE y == Register(op)
<1>1. /\ pc = "low1" /\ pc' = AfterFirst(val1') /\ op' = op /\ rsr' = rsr /\ fsr' = fsr
      /\ hi' = hi /\ atStart' = atStart
  BY DEF rxchip, txchip
<1>2. y \in Int /\ Register(op)' = y /\ atStart <= y /\ atStart \in Int /\ hi \in Int
  BY <1>1 DEF SizeInv, Grown, Register, SizePlaces
<1>3. PICK x \in Int : atStart <= x /\ x <= y /\ hi = High(x)
  BY <1>1 DEF SizeInv, FirstHigh
<1>4. val1' = Word16(High(x), Low(y))
  BY <1>3 DEF Word16
<1>5. Half \in Int /\ Low(y) \in Int /\ val1' \in Int
  BY <1>2, <1>3, <1>4, Halves, SocketDataAssumption DEF Word16
<1>6. CASE val1' # 0
  <2>1. pc' = "high2" /\ val' = val
    BY <1>1, <1>6 DEF AfterFirst
  <2>2. ReadBetween(x, y)'
    BY <1>1, <1>2, <1>3 DEF ReadBetween
  <2>3. FirstReading'
    BY <1>2, <1>3, <1>4, <2>2 DEF FirstReading, High, Low, Word16
  <2>4. Grown'
    BY <1>1, <1>2, <1>5, <2>1 DEF SizeInv, Grown
  <2> QED
    BY <2>1, <2>3, <2>4 DEF SizeInv, FirstHigh, SecondHigh, SizeWasTrue
<1>7. CASE val1' = 0 /\ val = 0
  <2>1. pc' = "sized" /\ val' = 0
    BY <1>1, <1>7 DEF AfterFirst
  <2>2. Grown'
    BY <1>1, <1>2, <1>5, <2>1 DEF SizeInv, Grown, SizePlaces
  <2> QED
    BY <2>1, <2>2 DEF SizeInv, FirstHigh, FirstReading, SecondHigh, SizeWasTrue
<1>8. CASE val1' = 0 /\ val # 0
  <2>1. pc' = "high1" /\ val' = val
    BY <1>1, <1>8 DEF AfterFirst
  <2> QED
    BY <1>1, <1>2, <1>5, <2>1, AtHigh1 DEF SizeInv, Grown
<1> QED
  BY <1>6, <1>7, <1>8

LEMMA ReadHigh2Size == SizeInv /\ ReadHigh2 => SizeInv'
<1> SUFFICES ASSUME SizeInv, ReadHigh2 PROVE SizeInv'
  OBVIOUS
<1> USE DEF ReadHigh2, Reading, size
<1> DEFINE z == Register(op)
<1>1. /\ pc = "high2" /\ pc' = "low2" /\ op' = op /\ rsr' = rsr /\ fsr' = fsr
      /\ val1' = val1 /\ val' = val /\ atStart' = atStart
  BY DEF rxchip, txchip
<1>2. z \in Int /\ Register(op)' = z /\ atStart <= z
  BY <1>1 DEF SizeInv, Grown, Register, SizePlaces
<1>3. hi' = High(z) /\ hi' \in Int
  BY <1>2, Halves
<1>4. PICK x \in Int, y \in Int : ReadBetween(x, y) /\ val1 = Word16(High(x), Low(y))
  BY <1>1 DEF SizeInv, FirstReading
<1>5. ReadBetween(x, y)' /\ y <= z
  BY <1>1, <1>2, <1>4 DEF ReadBetween
<1>6. SecondHigh'
  <2>1. z <= Register(op)' /\ val1' = Word16(High(x), Low(y)) /\ hi' = High(z)
    BY <1>1, <1>2, <1>3, <1>4
  <2> QED
    BY <1>2, <1>4, <1>5, <2>1 DEF SecondHigh, High, Low, Word16
<1>7. Grown'
  BY <1>1, <1>2, <1>3 DEF SizeInv, Grown
<1> QED
  BY <1>1, <1>6, <1>7 DEF SizeInv, FirstHigh, FirstReading, SizeWasTrue

LEMMA ReadLow2Size == SizeInv /\ ReadLow2 => SizeInv'
<1> SUFFICES ASSUME SizeInv, ReadLow2 PROVE SizeInv'
  OBVIOUS
<1> USE DEF ReadLow2, Reading, size
<1> DEFINE w == Register(op)
<1>1. /\ pc = "low2" /\ op' = op /\ rsr' = rsr /\ fsr' = fsr
      /\ hi' = hi /\ val1' = val1 /\ atStart' = atStart
      /\ pc' = IF val' = val1 THEN "sized" ELSE "high1"
  BY DEF rxchip, txchip
<1>2. w \in Int /\ Register(op)' = w /\ atStart <= w /\ atStart \in Int /\ hi \in Int
  BY <1>1 DEF SizeInv, Grown, Register, SizePlaces
<1>3. PICK x \in Int, y \in Int, z \in Int :
        /\ ReadBetween(x, y) /\ y <= z /\ z <= w
        /\ val1 = Word16(High(x), Low(y))
        /\ hi = High(z)
  BY <1>1 DEF SizeInv, SecondHigh
<1>4. val' = Word16(High(z), Low(w))
  BY <1>3 DEF Word16
<1>5. val' \in Int
  BY <1>2, <1>3, <1>4, Halves, SocketDataAssumption DEF Word16
<1>6. CASE val' = val1
  <2>1. val' = y
    BY <1>2, <1>3, <1>4, <1>6, EqualReadings DEF ReadBetween
  <2>2. SizeWasTrue'
    BY <1>1, <1>2, <1>3, <2>1 DEF SizeWasTrue, ReadBetween
  <2>3. pc' = "sized"
    BY <1>1, <1>6
  <2>4. Grown'
    BY <1>1, <1>2, <1>5, <2>3 DEF SizeInv, Grown, SizePlaces
  <2> QED
    BY <2>2, <2>3, <2>4 DEF SizeInv, FirstHigh, FirstReading, SecondHigh
<1>7. CASE val' # val1
  BY <1>1, <1>2, <1>5, <1>7, AtHigh1 DEF SizeInv, Grown
<1> QED
  BY <1>6, <1>7

-----------------------------------------------------------------------------
\* The registers and the variables of the driver are numbers.

Numbers ==
  /\ rsr \in Int /\ rxbase \in Int /\ rxrd \in Int
  /\ fsr \in Int /\ txwr \in Int /\ txsent \in Int /\ txptr \in Int
  /\ want \in Int /\ n \in Int /\ offset \in Int
  /\ hi \in Int /\ val1 \in Int /\ val \in Int /\ atStart \in Int

LEMMA Arithmetic ==
  /\ Half \in Int /\ SSIZE \in Int /\ StartPointer \in Int
  /\ \A p, k \in Int : Plus(p, k) \in Int /\ Minus(p, k) \in Int /\ Minus(p, k) >= 0
<1>1. Range16 \in Nat /\ Range16 > 0
  BY SocketDataAssumption, SMT DEF Range16
<1>2. \A x \in Int : x % Range16 \in 0 .. Range16 - 1
  BY <1>1
<1>3. Half \in Int /\ SSIZE \in Int /\ StartPointer \in Int
  BY <1>1, SocketDataAssumption DEF Pointer
<1> QED
  BY <1>1, <1>2, <1>3 DEF Plus, Minus

LEMMA RegisterType == Numbers => Register(op) \in Int
  BY DEF Numbers, Register

LEMMA InitNumbers == Init => Numbers
  BY Arithmetic DEF Init, Numbers

LEMMA NumbersGoOn == Numbers /\ [Next]_vars => Numbers'
<1> SUFFICES ASSUME Numbers, [Next]_vars PROVE Numbers'
  OBVIOUS
<1> USE DEF Numbers
<1>1. CASE UNCHANGED vars
  BY <1>1 DEF vars, rxchip, txchip, mcu, size
<1>2. CASE Chip \/ Peer
  BY <1>2, Arithmetic
  DEF Chip, Peer, PutOnWire, TimesOut, Acknowledges, ByteArrives, PeerCloses, PeerResets,
      rxchip, txchip, mcu, size
<1>3. CASE Begins
  <2> USE Arithmetic, SocketDataAssumption DEF Call, AsksSize, Register, rxchip, txchip, size
  <2>1. CASE Reads
    BY <2>1 DEF Reads
  <2>2. CASE Sends
    BY <2>2 DEF Sends
  <2>3. CASE BeginsPacket
    BY <2>3 DEF BeginsPacket
  <2>4. CASE Writes
    BY <2>4 DEF Writes
  <2>5. CASE EndsPacket
    BY <2>5 DEF EndsPacket
  <2>6. CASE Opens
    BY <2>6 DEF Opens, Opened
  <2> QED
    BY <1>3, <2>1, <2>2, <2>3, <2>4, <2>5, <2>6 DEF Begins
<1>4. CASE ReadSize
  <2>1. High(Register(op)) \in Int /\ hi * Half + Low(Register(op)) \in Int
    BY RegisterType, Halves, Arithmetic
  <2> QED
    BY <1>4, <2>1
    DEF ReadSize, ReadHigh1, ReadLow1, ReadHigh2, ReadLow2, Reading, rxchip, txchip, size
<1>5. CASE SizedNothing \/ SizedRead \/ SizedSend \/ SizedWait \/ SizedDown \/ SizedWrite
  <2>1. Given \in Int /\ MinOf(want, SSIZE) \in Int /\ MinOf(want, val) \in Int
    BY Arithmetic DEF Given, MinOf
  <2> USE <2>1 DEF Copies, Goto, Returns, rxchip, txchip
  <2>2. CASE SizedNothing
    BY <2>2 DEF SizedNothing
  <2>3. CASE SizedRead
    BY <2>3 DEF SizedRead
  <2>4. CASE SizedSend
    BY <2>4 DEF SizedSend
  <2>5. CASE SizedWait
    BY <2>5 DEF SizedWait
  <2>6. CASE SizedDown
    BY <2>6 DEF SizedDown
  <2>7. CASE SizedWrite
    BY <2>7 DEF SizedWrite
  <2> QED
    BY <1>5, <2>2, <2>3, <2>4, <2>5, <2>6, <2>7
<1>6. CASE CopyIn \/ CopyOut
  BY <1>6 DEF CopyIn, CopyOut, Goto, rxchip, txchip
<1>7. CASE PointPeek \/ PointIn \/ PointSend \/ PointWrite
  <2>1. WriteAt \in Int /\ Plus(WriteAt, n) \in Int /\ ReadTo \in Int
    <3>1. CASE op = "write"
      <4>1. WriteAt = Plus(txwr, offset)
        BY <3>1 DEF WriteAt
      <4>2. WriteAt \in Int
        BY <4>1, Arithmetic
      <4> QED
        BY <4>2, Arithmetic DEF ReadTo
    <3>2. CASE op # "write"
      <4>1. WriteAt = Plus(txwr, 0)
        BY <3>2 DEF WriteAt
      <4>2. WriteAt \in Int
        BY <4>1, Arithmetic
      <4> QED
        BY <4>2, Arithmetic DEF ReadTo
    <3> QED
      BY <3>1, <3>2
  <2> USE <2>1 DEF Goto, Returns, rxchip, txchip
  <2>2. CASE PointPeek
    BY <2>2 DEF PointPeek
  <2>3. CASE PointIn
    BY <2>3 DEF PointIn
  <2>4. CASE PointSend
    BY <2>4 DEF PointSend
  <2>5. CASE PointWrite
    BY <2>5 DEF PointWrite
  <2> QED
    BY <1>7, <2>2, <2>3, <2>4, <2>5
<1>8. CASE Recv \/ Send
  <2>1. Minus(rxrd, rxbase) \in Int /\ Minus(txptr, txwr) \in Int
    BY Arithmetic
  <2> USE <2>1 DEF Goto, Returns, rxchip, txchip
  <2>2. CASE Recv
    BY <2>2 DEF Recv
  <2>3. CASE Send
    BY <2>3 DEF Send
  <2> QED
    BY <1>8, <2>2, <2>3
<1>9. CASE SendOk \/ SendLost \/ SendTimedOut
  BY <1>9 DEF SendOk, SendLost, SendTimedOut, Returns, rxchip
<1> QED
  BY <1>1, <1>2, <1>3, <1>4, <1>5, <1>6, <1>7, <1>8, <1>9 DEF Next, GoesOn

LEMMA SizeGoesOn == SizeInv /\ Numbers /\ Numbers' /\ [Next]_vars => SizeInv'
<1> SUFFICES ASSUME SizeInv, Numbers, Numbers', [Next]_vars PROVE SizeInv'
  OBVIOUS
<1>0. fsr <= SSIZE /\ SSIZE \in Int
  BY Arithmetic DEF SizeInv, Grown
<1>1. CASE UNCHANGED vars \/ Chip \/ Peer
  <2>1. UNCHANGED <<pc, op, size>>
    BY <1>1
    DEF vars, mcu, Chip, Peer, PutOnWire, TimesOut, Acknowledges, ByteArrives, PeerCloses, PeerResets
  <2>2. rsr' >= rsr
    BY <1>1
    DEF Numbers, vars, rxchip, Chip, Peer, PutOnWire, TimesOut, Acknowledges,
        ByteArrives, PeerCloses, PeerResets
  <2>3. fsr' >= fsr /\ fsr' <= SSIZE
    BY <1>0, <1>1, Arithmetic
    DEF Numbers, vars, txchip, Chip, Peer, PutOnWire, TimesOut, Acknowledges,
        ByteArrives, PeerCloses, PeerResets
  <2> QED
    BY <2>1, <2>2, <2>3, Grows DEF Numbers
<1>2. CASE Reads \/ Sends \/ BeginsPacket \/ Writes
  <2>1. pc' = "high1" /\ rsr' = rsr /\ fsr' = fsr /\ atStart' = Register(op)'
    BY <1>2
    DEF Reads, Sends, BeginsPacket, Writes, Call, AsksSize, Register, rxchip, txchip
  <2> QED
    BY <1>0, <2>1, RegisterType, AtHigh1 DEF Numbers, Register
<1>3. CASE EndsPacket \/ Opens
  <2>1. pc' \in {"command", "idle"} /\ fsr' <= SSIZE
    BY <1>0, <1>3 DEF EndsPacket, Opens, Opened, Call, txchip
  <2> QED
    BY <2>1, Elsewhere DEF Numbers, SizePlaces
<1>4. CASE ReadSize
  BY <1>4, ReadHigh1Size, ReadLow1Size, ReadHigh2Size, ReadLow2Size DEF ReadSize
<1>5. CASE SizedWait
  <2>1. pc = "sized" /\ pc' = "high1" /\ op' = op /\ rsr' = rsr /\ fsr' = fsr /\ atStart' = atStart
    BY <1>5 DEF SizedWait, Goto, rxchip, txchip
  <2>2. atStart <= Register(op)
    BY <2>1 DEF SizeInv, Grown, SizePlaces
  <2> QED
    BY <1>0, <2>1, <2>2, AtHigh1 DEF Numbers, Register
<1>6. CASE SizedNothing \/ SizedRead \/ SizedSend \/ SizedDown \/ SizedWrite
  <2>1. pc' \in {"idle", "copy"} /\ fsr' = fsr
    BY <1>6
    DEF SizedNothing, SizedRead, SizedSend, SizedDown, SizedWrite, Copies, Goto, Returns, txchip
  <2> QED
    BY <1>0, <2>1, Elsewhere DEF Numbers, SizePlaces
<1>7. CASE CopyIn \/ CopyOut \/ PointPeek \/ PointIn \/ PointSend \/ PointWrite \/ Recv
  <2>1. pc' \in {"idle", "point", "command"} /\ fsr' = fsr
    BY <1>7
    DEF CopyIn, CopyOut, PointPeek, PointIn, PointSend, PointWrite, Recv, Goto, Returns, txchip
  <2> QED
    BY <1>0, <2>1, Elsewhere DEF Numbers, SizePlaces
<1>8. CASE Send
  <2>1. pc' = "sendok" /\ fsr' = fsr - Minus(txptr, txwr)
    BY <1>8 DEF Send, Goto
  <2>2. fsr \in Int /\ Minus(txptr, txwr) \in Int /\ Minus(txptr, txwr) >= 0
    BY Arithmetic DEF Numbers
  <2>3. fsr' <= SSIZE
    BY <1>0, <2>1, <2>2
  <2> QED
    BY <2>1, <2>3, Elsewhere DEF Numbers, SizePlaces
<1>9. CASE SendOk \/ SendLost \/ SendTimedOut
  <2>1. pc' = "idle" /\ fsr' = fsr
    BY <1>9 DEF SendOk, SendLost, SendTimedOut, Returns
  <2> QED
    BY <1>0, <2>1, Elsewhere DEF Numbers, SizePlaces
<1> QED
  BY <1>1, <1>2, <1>3, <1>4, <1>5, <1>6, <1>7, <1>8, <1>9 DEF Next, GoesOn, Begins

-----------------------------------------------------------------------------
\* Remainders.

\* A remainder is the one number of its range that differs from x by a
\* multiple of r.
LEMMA RemainderUnique ==
  ASSUME NEW r \in Nat \ {0}, NEW y \in 0 .. r - 1, NEW q \in Int
  PROVE  (r * q + y) % r = y
<1> DEFINE x == r * q + y
           d == x \div r
           z == x % r
<1>1. x \in Int /\ r * q \in Int
  OBVIOUS
<1>2. d \in Int /\ z \in 0 .. r - 1 /\ x = r * d + z
  BY <1>1
<1> HIDE DEF d, z
<1>3. r * (q - d) = z - y
  BY <1>2
<1>4. CASE q - d >= 1
  <2>1. r * (q - d) >= r
    BY <1>2, <1>4
  <2> QED
    BY <2>1, <1>2, <1>3
<1>5. CASE q - d <= -1
  <2>1. r * (q - d) <= -r
    BY <1>2, <1>5
  <2> QED
    BY <2>1, <1>2, <1>3
<1>6. CASE q = d
  BY <1>2, <1>6
<1> QED
  BY <1>2, <1>4, <1>5, <1>6 DEF z

\* Multiples of r do not change a remainder.
LEMMA RemainderShift ==
  ASSUME NEW r \in Nat \ {0}, NEW x \in Int, NEW q \in Int
  PROVE  (x + r * q) % r = x % r
<1>1. PICK d \in Int, z \in 0 .. r - 1 : x = r * d + z
  <2>1. x \div r \in Int /\ x % r \in 0 .. r - 1 /\ x = r * (x \div r) + (x % r)
    OBVIOUS
  <2> QED
    BY <2>1
<1>2. x + r * q = r * (d + q) + z /\ d + q \in Int
  BY <1>1
<1>3. (x + r * q) % r = z
  BY <1>2, RemainderUnique
<1>4. x % r = z
  BY <1>1, RemainderUnique
<1> QED
  BY <1>3, <1>4

LEMMA RemainderForm ==
  ASSUME NEW r \in Nat \ {0}, NEW x \in Int
  PROVE  /\ x % r \in 0 .. r - 1
         /\ \E q \in Int : x % r = x + r * q
<1>1. x \div r \in Int /\ x % r \in 0 .. r - 1 /\ x = r * (x \div r) + (x % r)
  OBVIOUS
<1>2. -(x \div r) \in Int /\ r * (-(x \div r)) = -(r * (x \div r))
  BY <1>1
<1>3. x % r = x + r * (-(x \div r))
  BY <1>1, <1>2
<1> QED
  BY <1>1, <1>2, <1>3

\* Numbers less than r apart have the same remainder only if they are equal.
LEMMA RemainderDiffers ==
  ASSUME NEW r \in Nat \ {0}, NEW x \in Int, NEW y \in Int,
         x % r = y % r, -r < x - y, x - y < r
  PROVE  x = y
<1>1. PICK a \in Int : x % r = x + r * a
  BY RemainderForm
<1>2. PICK b \in Int : y % r = y + r * b
  BY RemainderForm
<1>3. x - y = r * (b - a)
  BY <1>1, <1>2
<1>4. CASE b - a >= 1
  <2>1. r * (b - a) >= r
    BY <1>4
  <2> QED
    BY <2>1, <1>3
<1>5. CASE b - a <= -1
  <2>1. r * (b - a) <= -r
    BY <1>5
  <2> QED
    BY <2>1, <1>3
<1>6. CASE b = a
  BY <1>3, <1>6
<1> QED
  BY <1>4, <1>5, <1>6

-----------------------------------------------------------------------------
\* Pointers, and the places they stand for.

\* The range of the pointers is a multiple of the size of a buffer.
LEMMA Sizes ==
  /\ Range16 \in Nat \ {0} /\ SSIZE \in Nat \ {0} /\ SSIZE < Range16
  /\ StartPointer \in Pointer
  /\ \E c \in Int : Range16 = SSIZE * c
<1>1. Half \in Nat /\ SSIZE \in Nat \ {0} /\ SSIZE < Range16 /\ Range16 % SSIZE = 0
  BY SocketDataAssumption
<1>2. Range16 \in Nat
  BY <1>1 DEF Range16
<1>3. PICK q \in Int : Range16 % SSIZE = Range16 + SSIZE * q
  <2>1. Range16 \in Int
    BY <1>2
  <2> QED
    BY <1>1, <2>1, RemainderForm
<1>4. Range16 = SSIZE * (-q) /\ -q \in Int
  BY <1>1, <1>2, <1>3
<1> QED
  BY <1>1, <1>2, <1>4, SocketDataAssumption

LEMMA PlusType ==
  ASSUME NEW p \in Int, NEW k \in Int
  PROVE  Plus(p, k) \in Pointer /\ Minus(p, k) \in Pointer /\ Plus(p, k) \in Int
<1>1. \A x \in Int : x % Range16 \in 0 .. Range16 - 1
  BY Sizes, RemainderForm
<1>2. p + k \in Int /\ p - k \in Int
  OBVIOUS
<1>3. Plus(p, k) \in Pointer /\ Minus(p, k) \in Pointer
  BY <1>1, <1>2 DEF Plus, Minus, Pointer
<1> QED
  BY <1>3, Sizes DEF Pointer

\* A pointer is reduced by a multiple of its range.
LEMMA PlusForm ==
  ASSUME NEW p \in Int, NEW k \in Int
  PROVE  \E q \in Int : Plus(p, k) = p + k + Range16 * q
<1>1. p + k \in Int
  OBVIOUS
<1>2. \E q \in Int : (p + k) % Range16 = (p + k) + Range16 * q
  BY <1>1, Sizes, RemainderForm
<1> QED
  BY <1>2 DEF Plus

LEMMA PlusZero ==
  ASSUME NEW p \in Pointer
  PROVE  Plus(p, 0) = p
<1>1. (Range16 * 0 + p) % Range16 = p
  BY Sizes, RemainderUnique DEF Pointer
<1>2. Range16 * 0 + p = p + 0
  BY Sizes DEF Pointer
<1> QED
  BY <1>1, <1>2 DEF Plus

LEMMA PlusPlus ==
  ASSUME NEW p \in Int, NEW i \in Int, NEW j \in Int
  PROVE  Plus(Plus(p, i), j) = Plus(p, i + j)
<1>1. PICK q \in Int : Plus(p, i) = p + i + Range16 * q
  BY PlusForm
<1>2. Plus(p, i) + j = (p + (i + j)) + Range16 * q /\ p + (i + j) \in Int
  BY <1>1, Sizes
<1>3. ((p + (i + j)) + Range16 * q) % Range16 = (p + (i + j)) % Range16
  BY <1>2, Sizes, RemainderShift
<1> QED
  BY <1>2, <1>3 DEF Plus

LEMMA PlusMinus ==
  ASSUME NEW p \in Pointer, NEW q \in Int
  PROVE  Plus(q, Minus(p, q)) = p
<1>1. p \in Int /\ p - q \in Int
  BY Sizes DEF Pointer
<1>2. PICK d \in Int : Minus(p, q) = p - q + Range16 * d
  BY <1>1, Sizes, RemainderForm DEF Minus
<1>3. q + Minus(p, q) = Range16 * d + p
  BY <1>1, <1>2, Sizes
<1> QED
  BY <1>3, Sizes, RemainderUnique DEF Plus, Pointer

LEMMA MinusPlus ==
  ASSUME NEW q \in Int, NEW k \in 0 .. SSIZE
  PROVE  Minus(Plus(q, k), q) = k
<1>1. k \in Int /\ k \in 0 .. Range16 - 1
  BY Sizes
<1>2. PICK d \in Int : Plus(q, k) = q + k + Range16 * d
  BY <1>1, PlusForm
<1>3. Plus(q, k) - q = Range16 * d + k
  BY <1>1, <1>2, Sizes
<1> QED
  BY <1>1, <1>3, Sizes, RemainderUnique DEF Minus

\* The place of a byte in a buffer.
Slot(p) == p % SSIZE

LEMMA SlotType ==
  ASSUME NEW p \in Int
  PROVE  Slot(p) \in 0 .. SSIZE - 1
  BY Sizes, RemainderForm DEF Slot

LEMMA SlotOfPlus ==
  ASSUME NEW p \in Int, NEW k \in Int
  PROVE  Slot(Plus(p, k)) = Slot(p + k)
<1>1. PICK c \in Int : Range16 = SSIZE * c
  BY Sizes
<1>2. PICK q \in Int : Plus(p, k) = p + k + Range16 * q
  BY PlusForm
<1>3. c * q \in Int /\ Range16 * q = SSIZE * (c * q) /\ p + k \in Int
  BY <1>1, Sizes
<1>4. Plus(p, k) = (p + k) + SSIZE * (c * q)
  BY <1>2, <1>3
<1>5. ((p + k) + SSIZE * (c * q)) % SSIZE = (p + k) % SSIZE
  BY <1>3, Sizes, RemainderShift
<1> QED
  BY <1>4, <1>5 DEF Slot

\* Bytes less than a buffer apart have places of their own.
LEMMA SlotsDiffer ==
  ASSUME NEW p \in Int, NEW i \in Int, NEW j \in Int,
         -SSIZE < i - j, i - j < SSIZE, Slot(Plus(p, i)) = Slot(Plus(p, j))
  PROVE  i = j
<1>1. Slot(p + i) = Slot(p + j)
  BY SlotOfPlus
<1>2. p + i \in Int /\ p + j \in Int /\ (p + i) - (p + j) = i - j
  OBVIOUS
<1>3. p + i = p + j
  BY <1>1, <1>2, Sizes, RemainderDiffers DEF Slot
<1> QED
  BY <1>3

-----------------------------------------------------------------------------
\* The bytes at distances from .. to - 1 of the pointer p are in the buffer mem.
Window(mem, p, from, to) ==
  \A j \in from .. to - 1 : mem[Slot(Plus(p, j))] = Plus(p, j)

Memory == [0 .. SSIZE - 1 -> Pointer]

LEMMA WindowPart ==
  ASSUME NEW mem, NEW p, NEW from \in Int, NEW to \in Int, NEW later \in Int,
         Window(mem, p, from, to), from <= later
  PROVE  Window(mem, p, later, to)
  BY DEF Window

\* The same bytes, seen from another pointer.
LEMMA WindowMoves ==
  ASSUME NEW mem, NEW p \in Int, NEW from \in Int, NEW to \in Int, NEW m \in Int,
         Window(mem, p, from, to)
  PROVE  Window(mem, Plus(p, m), from - m, to - m)
<1> SUFFICES ASSUME NEW j \in (from - m) .. (to - m) - 1
             PROVE  mem[Slot(Plus(Plus(p, m), j))] = Plus(Plus(p, m), j)
  BY DEF Window
<1>1. m + j \in from .. to - 1
  OBVIOUS
<1>2. Plus(Plus(p, m), j) = Plus(p, m + j)
  BY PlusPlus
<1> QED
  BY <1>1, <1>2 DEF Window

\* Bytes that are written behind the last one spare those of the window, as
\* long as all of them fit into the buffer.
LEMMA WindowGrows ==
  ASSUME NEW mem, NEW mem2, NEW p \in Int, NEW from \in Int, NEW to \in Int, NEW end \in Int,
         Window(mem, p, from, to), end - from <= SSIZE,
         \A j \in to .. end - 1 : mem2[Slot(Plus(p, j))] = Plus(p, j),
         \A a \in 0 .. SSIZE - 1 :
           (\A j \in to .. end - 1 : Slot(Plus(p, j)) # a) => mem2[a] = mem[a]
  PROVE  Window(mem2, p, from, end)
<1> SUFFICES ASSUME NEW i \in from .. end - 1
             PROVE  mem2[Slot(Plus(p, i))] = Plus(p, i)
  BY DEF Window
<1>1. CASE i >= to
  BY <1>1
<1>2. CASE i < to
  <2>1. ASSUME NEW j \in to .. end - 1 PROVE Slot(Plus(p, j)) # Slot(Plus(p, i))
    <3>1. i \in Int /\ j \in Int /\ i # j /\ -SSIZE < j - i /\ j - i < SSIZE
      BY <1>2, Sizes
    <3> QED
      BY <3>1, SlotsDiffer
  <2>2. Slot(Plus(p, i)) \in 0 .. SSIZE - 1
    <3>1. i \in Int /\ Plus(p, i) \in Int
      BY PlusType
    <3> QED
      BY <3>1, SlotType
  <2>3. mem2[Slot(Plus(p, i))] = mem[Slot(Plus(p, i))]
    BY <2>1, <2>2
  <2>4. i \in from .. to - 1
    BY <1>2
  <2> QED
    BY <2>3, <2>4 DEF Window
<1> QED
  BY <1>1, <1>2

\* The same of one byte.
LEMMA WindowPlusOne ==
  ASSUME NEW mem \in Memory, NEW p \in Int, NEW from \in Int, NEW to \in Int,
         Window(mem, p, from, to), to - from < SSIZE
  PROVE  Window([mem EXCEPT ![Slot(Plus(p, to))] = Plus(p, to)], p, from, to + 1)
<1> DEFINE mem2 == [mem EXCEPT ![Slot(Plus(p, to))] = Plus(p, to)]
<1>1. Slot(Plus(p, to)) \in 0 .. SSIZE - 1
  BY PlusType, SlotType
<1>2. mem2[Slot(Plus(p, to))] = Plus(p, to)
  BY <1>1 DEF Memory
<1>3. \A a \in 0 .. SSIZE - 1 : Slot(Plus(p, to)) # a => mem2[a] = mem[a]
  BY DEF Memory
<1>4. to + 1 \in Int /\ to .. (to + 1) - 1 = {to} /\ (to + 1) - from <= SSIZE
  BY Sizes
<1> HIDE DEF mem2
<1>5. Window(mem2, p, from, to + 1)
  BY <1>2, <1>3, <1>4, WindowGrows
<1> QED
  BY <1>5 DEF mem2

-----------------------------------------------------------------------------
\* The bytes on their way: the inductive invariant.

\* Which function is in which of its steps, on which kind of socket.
PlaceInv ==
  /\ pc = "idle" <=> op = "none"
  /\ op = "available" => pc \notin {"copy", "point"}
  /\ op \in {"write", "endPacket"} => kind = "UDP"
  /\ op = "send" => kind = "TCP"
  /\ op = "endPacket" => pc \in {"command", "sendok"}
  /\ pc = "command" => op \in {"recv", "send", "endPacket"}
  /\ pc = "sendok" => op \in {"send", "endPacket"}
  /\ kind = "UDP" <=> status = "UDP"
  /\ op \in {"send", "write"} => want > 0

\* The bytes received and not taken are in the buffer, and what is being read
\* is the first of them.
RxInv ==
  /\ Window(rxmem, rxbase, 0, rsr)
  /\ next = rxrd
  /\ rxrd = IF pc = "command" /\ op = "recv" THEN Plus(rxbase, n) ELSE rxbase
  /\ (pc \in {"copy", "point", "command"} /\ op \in {"recv", "peek"}) => n <= rsr
  /\ BytesInOrder

\* The bytes behind TX_WR that TX_WR as written counts already, and those with
\* the ones that were copied since.
Filled == Minus(txptr, txwr)
Pending == IF pc = "point" /\ op \in {"send", "write"} THEN Filled + n ELSE Filled

\* The bytes not acknowledged and those behind them are in the buffer.
TxInv ==
  /\ Window(txmem, txwr, fsr - SSIZE, Pending)
  /\ put = Plus(txwr, Pending)
  /\ Pending <= fsr
  /\ (pc = "copy" /\ op \in {"send", "write"}) => Filled + n <= fsr
  /\ kind = "TCP" => txptr = txwr \/ (pc = "command" /\ op = "send")
  /\ (kind = "UDP" /\ txptr # txwr) \/ op = "write" => Filled = offset
  /\ op = "write" => offset = 0 \/ offset + want <= SSIZE

\* A socket of UDP has its whole buffer, but for the time of a SEND.
UdpInv ==
  kind = "UDP" =>
    /\ pc # "sendok" => ir = NoFlags /\ txsent = txwr /\ fsr = SSIZE
    /\ ir.SEND_OK \/ ir.TIMEOUT => txsent = txwr /\ fsr = SSIZE /\ ~(ir.SEND_OK /\ ir.TIMEOUT)

Bytes == PlaceInv /\ RxInv /\ TxInv /\ UdpInv

-----------------------------------------------------------------------------
\* The steps of the functions.

LEMMA StepPlace == TypeOK /\ PlaceInv /\ TxInv /\ [Next]_vars => PlaceInv'
<1> SUFFICES ASSUME TypeOK, PlaceInv, TxInv, [Next]_vars PROVE PlaceInv'
  OBVIOUS
<1> USE DEF PlaceInv
<1>1. CASE UNCHANGED vars
  BY <1>1 DEF vars, mcu
<1>2. CASE Chip \/ Peer
  BY <1>2
  DEF Chip, Peer, PutOnWire, TimesOut, Acknowledges, ByteArrives, PeerCloses, PeerResets, Up, mcu
<1>3. CASE Begins
  <2>1. pc = "idle" /\ kind' = kind
    BY <1>3 DEF Begins, Reads, Sends, BeginsPacket, Writes, EndsPacket, Opens, Call
  <2>2. kind = "TCP" => txptr = txwr
    BY <2>1 DEF TxInv
  <2>3. kind \in {"TCP", "UDP"}
    BY DEF TypeOK
  <2>4. CASE Reads
    BY <2>4 DEF Reads, Call, AsksSize
  <2>5. CASE Sends \/ BeginsPacket \/ Writes
    BY <2>2, <2>3, <2>5, SocketDataAssumption
    DEF Sends, BeginsPacket, Writes, Call, AsksSize
  <2>6. CASE EndsPacket \/ Opens
    BY <2>6 DEF EndsPacket, Opens, Opened, Call
  <2> QED
    BY <1>3, <2>4, <2>5, <2>6 DEF Begins
<1>4. CASE ReadSize
  BY <1>4
  DEF ReadSize, ReadHigh1, ReadLow1, ReadHigh2, ReadLow2, Reading, AfterFirst
<1>5. CASE SizedNothing \/ SizedRead \/ SizedSend \/ SizedWait \/ SizedDown \/ SizedWrite
  BY <1>5
  DEF SizedNothing, SizedRead, SizedSend, SizedWait, SizedDown, SizedWrite, Copies, Goto, Returns
<1>6. CASE CopyIn \/ CopyOut \/ PointPeek \/ PointIn \/ PointSend \/ PointWrite
  BY <1>6 DEF CopyIn, CopyOut, PointPeek, PointIn, PointSend, PointWrite, Goto, Returns
<1>7. CASE Recv \/ Send \/ SendOk \/ SendLost \/ SendTimedOut
  BY <1>7 DEF Recv, Send, SendOk, SendLost, SendTimedOut, Goto, Returns
<1> QED
  BY <1>1, <1>2, <1>3, <1>4, <1>5, <1>6, <1>7 DEF Next, GoesOn

-----------------------------------------------------------------------------
\* The receive buffer.

\* The facts about numbers that the proofs about the buffers use.
LEMMA BufferTypes ==
  TypeOK =>
    /\ rsr \in Int /\ fsr \in Int /\ n \in Int /\ offset \in Int /\ want \in Int
    /\ rxbase \in Int /\ rxrd \in Int /\ txwr \in Int /\ txptr \in Int /\ put \in Int
    /\ rxmem \in Memory /\ txmem \in Memory
    /\ SSIZE \in Nat \ {0} /\ Filled \in Nat /\ Pending \in Nat
<1> SUFFICES ASSUME TypeOK
             PROVE  /\ rsr \in Int /\ fsr \in Int /\ n \in Int /\ offset \in Int /\ want \in Int
                    /\ rxbase \in Int /\ rxrd \in Int /\ txwr \in Int /\ txptr \in Int /\ put \in Int
                    /\ rxmem \in Memory /\ txmem \in Memory
                    /\ SSIZE \in Nat \ {0} /\ Filled \in Nat /\ Pending \in Nat
  OBVIOUS
<1>1. \A p \in Pointer : p \in Int
  BY Sizes DEF Pointer
<1>2. /\ rxbase \in Int /\ rxrd \in Int /\ txwr \in Int /\ txptr \in Int /\ put \in Int
      /\ rxmem \in Memory /\ txmem \in Memory
  BY <1>1 DEF TypeOK, Memory
<1>3. rsr \in Int /\ fsr \in Int /\ n \in Nat /\ offset \in Int /\ want \in Int
  BY Sizes DEF TypeOK
<1>4. Filled \in Nat
  BY <1>2, PlusType, Sizes DEF Filled, Pointer
<1>5. Pending \in Nat
  BY <1>3, <1>4 DEF Pending
<1> QED
  BY <1>2, <1>3, <1>4, <1>5, Sizes

LEMMA RxElsewhere ==
  ASSUME RxInv, UNCHANGED <<rsr, rxbase, rxmem, rxrd, next>>,
         ~(pc = "command" /\ op = "recv"),
         pc' \in {"copy", "point", "command"} => op' \notin {"recv", "peek"}
  PROVE  RxInv'
  BY DEF RxInv, Window, Plus, Slot, BytesInOrder

LEMMA StepRx == TypeOK /\ PlaceInv /\ RxInv /\ SizeWasTrue /\ [Next]_vars => RxInv'
<1> SUFFICES ASSUME TypeOK, PlaceInv, RxInv, SizeWasTrue, [Next]_vars PROVE RxInv'
  OBVIOUS
<1>0. /\ rsr \in Int /\ n \in Int /\ rxbase \in Int /\ rxrd \in Int /\ rxmem \in Memory
      /\ SSIZE \in Nat \ {0}
  BY BufferTypes
<1>1. CASE UNCHANGED vars \/ Chip \/ PeerCloses \/ PeerResets
  <2>1. UNCHANGED <<rsr, rxbase, rxmem, rxrd, next, pc, op, n, buf>>
    BY <1>1
    DEF vars, rxchip, mcu, Chip, PutOnWire, TimesOut, Acknowledges, PeerCloses, PeerResets
  <2> QED
    BY <2>1 DEF RxInv, Window, Plus, Slot, BytesInOrder
<1>2. CASE ByteArrives
  <2>1. /\ UNCHANGED <<rxbase, rxrd, next, pc, op, n, buf>>
        /\ rsr < SSIZE /\ rsr' = rsr + 1
        /\ rxmem' = [rxmem EXCEPT ![Slot(Plus(rxbase, rsr))] = Plus(rxbase, rsr)]
    BY <1>2 DEF ByteArrives, Slot, mcu
  <2>2. Window(rxmem, rxbase, 0, rsr)
    BY DEF RxInv
  <2>3. Window(rxmem', rxbase, 0, rsr + 1)
    <3>1. rsr - 0 < SSIZE /\ 0 \in Int
      BY <1>0, <2>1
    <3>2. Window([rxmem EXCEPT ![Slot(Plus(rxbase, rsr))] = Plus(rxbase, rsr)], rxbase, 0, rsr + 1)
      BY <1>0, <2>2, <3>1, WindowPlusOne
    <3> QED
      BY <2>1, <3>2
  <2>4. Window(rxmem, rxbase, 0, rsr)'
    BY <2>1, <2>3 DEF Window, Plus, Slot
  <2>5. n <= rsr => n' <= rsr'
    BY <1>0, <2>1
  <2> QED
    BY <2>1, <2>4, <2>5 DEF RxInv, Plus, BytesInOrder
<1>3. CASE Reads \/ Sends \/ BeginsPacket \/ Writes \/ EndsPacket
  <2>1. /\ UNCHANGED <<rsr, rxbase, rxmem, rxrd, next>> /\ pc = "idle"
        /\ pc' = "high1" \/ op' = "endPacket"
    BY <1>3 DEF Reads, Sends, BeginsPacket, Writes, EndsPacket, Call, AsksSize, rxchip
  <2> QED
    BY <2>1, RxElsewhere
<1>4. CASE Opens
  <2>1. /\ rsr' = 0 /\ rxbase' = StartPointer /\ rxrd' = StartPointer /\ next' = StartPointer
        /\ pc' = "idle"
    BY <1>4 DEF Opens, Opened
  <2> QED
    BY <2>1 DEF RxInv, Window, BytesInOrder
<1>5. CASE ReadSize
  <2>1. /\ UNCHANGED <<rsr, rxbase, rxmem, rxrd, next>> /\ pc # "command"
        /\ pc' \notin {"copy", "point", "command"}
    BY <1>5
    DEF ReadSize, ReadHigh1, ReadLow1, ReadHigh2, ReadLow2, Reading, AfterFirst, rxchip
  <2> QED
    BY <2>1, RxElsewhere
<1>6. CASE SizedNothing \/ SizedSend \/ SizedWait \/ SizedDown \/ SizedWrite
  <2>1. /\ UNCHANGED <<rsr, rxbase, rxmem, rxrd, next>> /\ pc = "sized"
        /\ pc' \in {"idle", "high1"} \/ op' \in {"send", "write"}
    BY <1>6
    DEF SizedNothing, SizedSend, SizedWait, SizedDown, SizedWrite, Copies, Goto, Returns, rxchip
  <2> QED
    BY <2>1, RxElsewhere
<1>7. CASE SizedRead
  <2>1. /\ UNCHANGED <<rsr, rxbase, rxmem, rxrd, next>> /\ pc = "sized" /\ pc' = "copy"
        /\ op \in {"recv", "peek"} /\ val # 0 /\ n' = MinOf(val, want)
    BY <1>7 DEF SizedRead, Given, Copies, Goto, rxchip
  <2>2. n' <= rsr
    BY <1>0, <2>1, Sizes DEF SizeWasTrue, Register, MinOf, TypeOK, Pointer
  <2> QED
    BY <2>1, <2>2 DEF RxInv, Window, Plus, Slot, BytesInOrder
<1>8. CASE CopyIn
  <2>1. /\ UNCHANGED <<rsr, rxbase, rxmem, rxrd, next, op, n>> /\ pc = "copy" /\ pc' = "point"
        /\ op \in {"recv", "peek"}
        /\ buf' = [k \in 1 .. n |-> rxmem[Slot(Plus(rxrd, k - 1))]]
    BY <1>8 DEF CopyIn, Goto, Slot, rxchip
  <2>2. n <= rsr /\ rxrd = rxbase /\ next = rxbase /\ Window(rxmem, rxbase, 0, rsr)
    BY <2>1 DEF RxInv
  <2>3. ASSUME NEW k \in 1 .. n PROVE buf'[k] = Plus(next, k - 1)
    <3>1. k - 1 \in 0 .. rsr - 1
      BY <1>0, <2>2
    <3> QED
      BY <2>1, <2>2, <3>1 DEF Window
  <2>4. BytesInOrder'
    BY <2>1, <2>3 DEF BytesInOrder, Plus
  <2> QED
    BY <2>1, <2>2, <2>4 DEF RxInv, Window, Plus, Slot
<1>9. CASE CopyOut \/ PointPeek \/ PointSend \/ PointWrite \/ Send \/ SendOk \/ SendLost \/ SendTimedOut
  <2>1. /\ UNCHANGED <<rsr, rxbase, rxmem, rxrd, next>> /\ (pc = "command" => op # "recv")
        /\ pc' = "idle" \/ op' \notin {"recv", "peek"}
    BY <1>9
    DEF PlaceInv, CopyOut, PointPeek, PointSend, PointWrite, Send, SendOk, SendLost, SendTimedOut,
        Goto, Returns, rxchip
  <2> QED
    BY <2>1, RxElsewhere
<1>10. CASE PointIn
  <2>1. /\ UNCHANGED <<rsr, rxbase, rxmem, op, n>> /\ pc = "point" /\ pc' = "command"
        /\ op = "recv" /\ rxrd' = Plus(rxrd, n) /\ next' = Plus(next, n)
    BY <1>10 DEF PointIn, ReadTo, Goto, rxchip
  <2> QED
    BY <2>1 DEF RxInv, Window, Plus, Slot, BytesInOrder
<1>11. CASE Recv
  <2>1. /\ UNCHANGED <<rxmem, rxrd, next>> /\ pc = "command" /\ op = "recv" /\ pc' = "idle"
        /\ rxbase' = rxrd /\ rsr' = rsr - Minus(rxrd, rxbase)
    BY <1>11 DEF Recv, Returns
  <2>2. rxrd = Plus(rxbase, n) /\ n <= rsr /\ n >= 0 /\ Window(rxmem, rxbase, 0, rsr)
    BY <2>1 DEF RxInv, TypeOK
  <2>3. Minus(rxrd, rxbase) = n
    <3>1. n \in 0 .. SSIZE
      BY DEF TypeOK
    <3> QED
      BY <1>0, <2>2, <3>1, MinusPlus
  <2>4. Window(rxmem, rxrd, 0 - n, rsr - n)
    BY <1>0, <2>2, WindowMoves
  <2>5. Window(rxmem, rxrd, 0, rsr - n)
    BY <1>0, <2>2, <2>4, WindowPart
  <2>6. Window(rxmem, rxbase, 0, rsr)'
    BY <2>1, <2>3, <2>5 DEF Window, Plus, Slot
  <2> QED
    BY <2>1, <2>6 DEF RxInv, BytesInOrder
<1> QED
  BY <1>1, <1>2, <1>3, <1>4, <1>5, <1>6, <1>7, <1>8, <1>9, <1>10, <1>11
  DEF Next, Peer, Begins, GoesOn

-----------------------------------------------------------------------------
\* The send buffer.

LEMMA MinusSelf ==
  ASSUME NEW p \in Pointer
  PROVE  Minus(p, p) = 0
<1>1. p \in Int /\ 0 \in 0 .. SSIZE
  BY Sizes DEF Pointer
<1>2. Plus(p, 0) = p
  BY PlusZero
<1>3. Minus(Plus(p, 0), p) = 0
  BY <1>1, MinusPlus
<1> QED
  BY <1>2, <1>3

\* TX_WR as written is that many bytes behind TX_WR as of the last SEND, and a
\* copy goes to the first place behind them.
LEMMA Fills ==
  TypeOK /\ PlaceInv /\ TxInv =>
    /\ txptr = Plus(txwr, Filled)
    /\ txptr = txwr => Filled = 0
    /\ (op \in {"send", "write"} /\ pc # "command") => WriteAt = Plus(txwr, Filled)
<1> SUFFICES ASSUME TypeOK, PlaceInv, TxInv
             PROVE  /\ txptr = Plus(txwr, Filled)
                    /\ txptr = txwr => Filled = 0
                    /\ (op \in {"send", "write"} /\ pc # "command") => WriteAt = Plus(txwr, Filled)
  OBVIOUS
<1>1. txptr \in Pointer /\ txwr \in Pointer /\ txwr \in Int
  BY BufferTypes DEF TypeOK
<1>2. txptr = Plus(txwr, Filled)
  BY <1>1, PlusMinus DEF Filled
<1>3. txptr = txwr => Filled = 0
  BY <1>1, MinusSelf DEF Filled
<1>4. ASSUME op \in {"send", "write"}, pc # "command"
      PROVE  WriteAt = Plus(txwr, Filled)
  BY <1>3, <1>4 DEF WriteAt, TxInv, PlaceInv
<1> QED
  BY <1>2, <1>3, <1>4

\* Bytes that are acknowledged leave the window.
LEMMA WindowShrinks ==
  ASSUME NEW mem, NEW p, NEW f \in Int, NEW g \in Int, NEW to \in Int, f <= g,
         Window(mem, p, f - SSIZE, to)
  PROVE  Window(mem, p, g - SSIZE, to)
<1>1. f - SSIZE \in Int /\ g - SSIZE \in Int /\ f - SSIZE <= g - SSIZE
  BY Sizes
<1> QED
  BY <1>1, WindowPart

\* A step that moves no pointer and copies nothing.
LEMMA TxSame ==
  ASSUME TypeOK, TxInv, UNCHANGED <<kind, txwr, txmem, txptr, put, offset>>,
         fsr' \in Int, fsr <= fsr', Pending' = Pending,
         (pc' = "copy" /\ op' \in {"send", "write"}) => Filled + n' <= fsr',
         pc = "command" /\ op = "send" => pc' = "command" /\ op' = "send",
         op' = "write" => op = "write" /\ want' = want
  PROVE  TxInv'
<1>1. /\ fsr \in Int /\ Pending \in Int /\ SSIZE \in Int
  BY BufferTypes
<1>2. Filled' = Filled
  BY DEF Filled, Minus
<1>3. Window(txmem, txwr, fsr' - SSIZE, Pending)
  <2>1. Window(txmem, txwr, fsr - SSIZE, Pending)
    BY DEF TxInv
  <2> QED
    BY <1>1, <2>1, WindowShrinks, Zenon
<1>4. Window(txmem, txwr, fsr - SSIZE, Pending)'
  BY <1>3 DEF Window, Plus, Slot
<1>5. (Pending <= fsr)'
  BY <1>1 DEF TxInv
<1>6. (put = Plus(txwr, Pending))'
  BY DEF TxInv, Plus
<1> QED
  BY <1>2, <1>4, <1>5, <1>6 DEF TxInv

LEMMA CopyOutTx == TypeOK /\ PlaceInv /\ TxInv /\ CopyOut => TxInv'
<1> SUFFICES ASSUME TypeOK, PlaceInv, TxInv, CopyOut PROVE TxInv'
  OBVIOUS
<1>0. /\ fsr \in Int /\ n \in Int /\ txwr \in Int /\ put \in Int /\ txmem \in Memory
      /\ SSIZE \in Nat \ {0} /\ Filled \in Nat /\ n >= 0
  BY BufferTypes DEF TypeOK
<1>1. /\ pc = "copy" /\ pc' = "point" /\ op \in {"send", "write"}
      /\ UNCHANGED <<kind, op, want, n, fsr, txwr, txptr, offset>>
      /\ put' = Plus(put, n)
      /\ txmem' = [a \in 0 .. SSIZE - 1 |->
                     IF \E k \in 0 .. n - 1 : Slot(Plus(WriteAt, k)) = a
                     THEN Plus(put, CHOOSE k \in 0 .. n - 1 : Slot(Plus(WriteAt, k)) = a)
                     ELSE txmem[a]]
  BY DEF CopyOut, Goto, Slot
<1>2. /\ Pending = Filled /\ Filled' = Filled /\ Pending' = Filled + n
      /\ put = Plus(txwr, Filled) /\ WriteAt = put /\ Filled + n <= fsr
  BY <1>1, Fills DEF TxInv, Pending, Filled, Minus
<1>3. fsr <= SSIZE
  BY <1>0 DEF TypeOK
<1>4. ASSUME NEW j \in Filled .. (Filled + n) - 1
      PROVE  txmem'[Slot(Plus(txwr, j))] = Plus(txwr, j)
  <2> DEFINE k == j - Filled
  <2>1. k \in 0 .. n - 1 /\ k \in Int /\ Filled + k = j
    BY <1>0
  <2>2. Plus(put, k) = Plus(txwr, j)
    BY <1>0, <1>2, <2>1, PlusPlus
  <2>3. Slot(Plus(txwr, j)) \in 0 .. SSIZE - 1
    <3>1. j \in Int /\ Plus(txwr, j) \in Int
      BY <1>0, PlusType
    <3> QED
      BY <3>1, SlotType
  <2>4. PICK i \in 0 .. n - 1 :
          /\ i = CHOOSE c \in 0 .. n - 1 : Slot(Plus(put, c)) = Slot(Plus(txwr, j))
          /\ Slot(Plus(put, i)) = Slot(Plus(put, k))
    BY <2>1, <2>2
  <2>5. i = k
    <3>1. i \in Int /\ -SSIZE < i - k /\ i - k < SSIZE
      BY <1>0, <1>2, <1>3, <2>1
    <3> QED
      BY <1>0, <2>1, <2>4, <3>1, SlotsDiffer
  <2> HIDE DEF k
  <2>6. txmem'[Slot(Plus(txwr, j))] = Plus(put, i)
    BY <1>1, <1>2, <2>1, <2>2, <2>3, <2>4
  <2> QED
    BY <2>2, <2>5, <2>6
<1>5. ASSUME NEW a \in 0 .. SSIZE - 1,
             \A j \in Filled .. (Filled + n) - 1 : Slot(Plus(txwr, j)) # a
      PROVE  txmem'[a] = txmem[a]
  <2>1. ASSUME NEW k \in 0 .. n - 1 PROVE Slot(Plus(WriteAt, k)) # a
    <3>1. Filled + k \in Filled .. (Filled + n) - 1 /\ k \in Int
      BY <1>0
    <3>2. Plus(put, k) = Plus(txwr, Filled + k)
      BY <1>0, <1>2, <3>1, PlusPlus
    <3> QED
      BY <1>2, <1>5, <3>1, <3>2
  <2> QED
    BY <1>1, <2>1
<1>6. Window(txmem', txwr, fsr - SSIZE, Filled + n)
  <2>1. /\ fsr - SSIZE \in Int /\ Filled \in Int /\ Filled + n \in Int
        /\ (Filled + n) - (fsr - SSIZE) <= SSIZE
    BY <1>0, <1>2
  <2>2. Window(txmem, txwr, fsr - SSIZE, Filled)
    BY <1>2 DEF TxInv
  <2> QED
    BY <1>0, <1>4, <1>5, <2>1, <2>2, WindowGrows
<1>7. Window(txmem, txwr, fsr - SSIZE, Pending)'
  BY <1>1, <1>2, <1>6 DEF Window, Plus, Slot
<1>8. put' = Plus(txwr, Filled + n)
  BY <1>0, <1>1, <1>2, PlusPlus
<1> QED
  BY <1>0, <1>1, <1>2, <1>7, <1>8 DEF TxInv, Plus

LEMMA PointTx == TypeOK /\ PlaceInv /\ TxInv /\ (PointSend \/ PointWrite) => TxInv'
<1> SUFFICES ASSUME TypeOK, PlaceInv, TxInv, PointSend \/ PointWrite PROVE TxInv'
  OBVIOUS
<1>0. /\ fsr \in Int /\ n \in Int /\ txwr \in Int /\ Filled \in Nat /\ n >= 0 /\ fsr <= SSIZE
      /\ SSIZE \in Nat
  BY BufferTypes DEF TypeOK
<1>1. /\ pc = "point" /\ op \in {"send", "write"}
      /\ (op = "send" /\ pc' = "command" /\ op' = op /\ offset' = offset)
           \/ (op = "write" /\ pc' = "idle" /\ op' = "none" /\ offset' = offset + n)
      /\ UNCHANGED <<kind, fsr, txwr, txmem, put>>
      /\ txptr' = Plus(WriteAt, n)
  BY DEF PointSend, PointWrite, Goto, Returns, txchip
<1>2. /\ Pending = Filled + n /\ WriteAt = Plus(txwr, Filled)
      /\ Filled + n \in 0 .. SSIZE
      /\ op = "write" => Filled = offset
  BY <1>0, <1>1, Fills DEF TxInv, Pending
<1>3. txptr' = Plus(txwr, Filled + n)
  BY <1>0, <1>1, <1>2, PlusPlus
<1>4. Filled' = Filled + n
  <2>1. Minus(Plus(txwr, Filled + n), txwr) = Filled + n
    BY <1>0, <1>2, MinusPlus
  <2> QED
    BY <1>1, <1>3, <2>1 DEF Filled, Minus
<1>5. Pending' = Pending
  BY <1>1, <1>2, <1>4 DEF Pending
<1>6. Window(txmem, txwr, fsr - SSIZE, Pending)'
  BY <1>1, <1>5 DEF TxInv, Window, Plus, Slot
<1>7. (put = Plus(txwr, Pending) /\ Pending <= fsr)'
  BY <1>1, <1>5 DEF TxInv, Plus
<1>8. op = "send" => kind = "TCP"
  BY DEF PlaceInv
<1>9. op = "write" => kind = "UDP"
  BY DEF PlaceInv
<1> QED
  BY <1>1, <1>2, <1>4, <1>6, <1>7, <1>8, <1>9 DEF TxInv

LEMMA SendTx == TypeOK /\ PlaceInv /\ TxInv /\ Send => TxInv' /\ fsr' \in 0 .. SSIZE
<1> SUFFICES ASSUME TypeOK, PlaceInv, TxInv, Send PROVE TxInv' /\ fsr' \in 0 .. SSIZE
  OBVIOUS
<1>0. /\ fsr \in Int /\ txwr \in Int /\ Filled \in Nat /\ fsr <= SSIZE /\ SSIZE \in Nat
      /\ txptr \in Pointer
  BY BufferTypes DEF TypeOK
<1>1. /\ pc = "command" /\ pc' = "sendok" /\ op \in {"send", "endPacket"}
      /\ UNCHANGED <<kind, op, txmem, put, txptr, offset>>
      /\ txwr' = txptr /\ fsr' = fsr - Filled
  BY DEF Send, Goto, Filled
<1>2. Pending = Filled /\ Filled <= fsr /\ txptr = Plus(txwr, Filled)
  BY <1>1, Fills DEF TxInv, Pending
<1>3. Filled' = 0 /\ Pending' = 0
  BY <1>0, <1>1, MinusSelf DEF Filled, Minus, Pending
<1>4. Window(txmem, txptr, (fsr - Filled) - SSIZE, 0)
  <2>1. /\ fsr - SSIZE \in Int /\ (fsr - SSIZE) - Filled = (fsr - Filled) - SSIZE
        /\ Filled - Filled = 0 /\ Filled \in Int
    BY <1>0
  <2>2. Window(txmem, txwr, fsr - SSIZE, Filled)
    BY <1>2 DEF TxInv
  <2>3. Window(txmem, Plus(txwr, Filled), (fsr - SSIZE) - Filled, Filled - Filled)
    BY <1>0, <2>1, <2>2, WindowMoves
  <2> QED
    BY <1>2, <2>1, <2>3
<1>5. Window(txmem, txwr, fsr - SSIZE, Pending)'
  BY <1>1, <1>3, <1>4 DEF Window, Plus, Slot
<1>6. (put = Plus(txwr, Pending))'
  <2>1. Plus(txptr, 0) = txptr /\ put = txptr
    BY <1>0, <1>2, PlusZero DEF TxInv
  <2> QED
    BY <1>1, <1>3, <2>1 DEF Plus
<1> QED
  BY <1>0, <1>1, <1>2, <1>3, <1>5, <1>6 DEF TxInv

LEMMA StepTx ==
  TypeOK /\ PlaceInv /\ TxInv /\ UdpInv /\ SizeWasTrue /\ [Next]_vars => TxInv'
<1> SUFFICES ASSUME TypeOK, PlaceInv, TxInv, UdpInv, SizeWasTrue, [Next]_vars PROVE TxInv'
  OBVIOUS
<1>0. /\ fsr \in Int /\ n \in Int /\ txwr \in Int /\ SSIZE \in Nat \ {0}
      /\ Filled \in Nat /\ Pending \in Nat /\ fsr <= SSIZE /\ want \in Nat
      /\ val \in Nat /\ kind \in {"TCP", "UDP"}
  BY BufferTypes, Sizes DEF TypeOK, Pointer
<1>1. CASE UNCHANGED vars \/ Chip \/ Peer
  <2>1. UNCHANGED <<kind, txwr, txmem, txptr, put, offset, pc, op, want, n>>
    BY <1>1
    DEF vars, txchip, mcu, Chip, Peer, PutOnWire, TimesOut, Acknowledges, ByteArrives, PeerCloses,
        PeerResets
  <2>2. fsr' \in Int /\ fsr <= fsr'
    BY <1>0, <1>1
    DEF vars, txchip, Chip, Peer, PutOnWire, TimesOut, Acknowledges, ByteArrives, PeerCloses,
        PeerResets
  <2>3. Pending' = Pending
    BY <2>1 DEF Pending, Filled, Minus
  <2>4. (pc = "copy" /\ op \in {"send", "write"}) => Filled + n <= fsr'
    BY <1>0, <2>2 DEF TxInv
  <2> QED
    BY <2>1, <2>2, <2>3, <2>4, TxSame
<1>2. CASE Reads \/ Sends \/ EndsPacket
  <2>1. /\ UNCHANGED <<kind, txwr, txmem, txptr, put, offset, fsr>> /\ pc = "idle"
        /\ pc' \in {"high1", "command"} /\ op' # "write"
    BY <1>2 DEF Reads, Sends, EndsPacket, Call, AsksSize, txchip
  <2>2. Pending' = Pending
    BY <2>1 DEF Pending, Filled, Minus
  <2> QED
    BY <1>0, <2>1, <2>2, TxSame
<1>3. CASE BeginsPacket \/ Writes
  <2>1. /\ UNCHANGED <<kind, txwr, txmem, txptr, put, fsr>> /\ pc = "idle" /\ pc' = "high1"
        /\ op' = "write"
        /\ \/ txptr = txwr /\ offset' = 0
           \/ txptr # txwr /\ offset' = offset /\ offset + want' <= SSIZE
    BY <1>3 DEF BeginsPacket, Writes, Call, AsksSize, txchip
  <2>2. Pending' = Pending /\ Filled' = Filled
    BY <2>1 DEF Pending, Filled, Minus
  <2>3. Filled' = offset'
    BY <1>0, <2>1, <2>2, Fills DEF TxInv
  <2>4. Window(txmem, txwr, fsr - SSIZE, Pending)' /\ (put = Plus(txwr, Pending))'
    BY <2>1, <2>2 DEF TxInv, Window, Plus, Slot
  <2> QED
    BY <2>1, <2>2, <2>3, <2>4 DEF TxInv
<1>4. CASE Opens
  <2>1. /\ txwr' = StartPointer /\ txptr' = StartPointer /\ put' = StartPointer /\ fsr' = SSIZE
        /\ UNCHANGED <<pc, op>> /\ pc = "idle"
    BY <1>4 DEF Opens, Opened
  <2>2. Minus(StartPointer, StartPointer) = 0 /\ Plus(StartPointer, 0) = StartPointer
    BY Sizes, MinusSelf, PlusZero
  <2>3. Filled' = 0 /\ Pending' = 0
    BY <2>1, <2>2 DEF Filled, Minus, Pending
  <2>4. Window(txmem, txwr, fsr - SSIZE, Pending)'
    BY <1>0, <2>1, <2>3 DEF Window
  <2>5. (put = Plus(txwr, Pending))'
    BY <2>1, <2>2, <2>3 DEF Plus
  <2>6. op' = "none"
    BY <2>1 DEF PlaceInv
  <2> QED
    BY <1>0, <2>1, <2>3, <2>4, <2>5, <2>6 DEF TxInv
<1>5. CASE ReadSize
  <2>1. /\ UNCHANGED <<kind, txwr, txmem, txptr, put, offset, fsr, op, want, n>>
        /\ pc \in {"high1", "low1", "high2", "low2"} /\ pc' \notin {"copy", "point", "command"}
    BY <1>5
    DEF ReadSize, ReadHigh1, ReadLow1, ReadHigh2, ReadLow2, Reading, AfterFirst, txchip
  <2>2. Pending' = Pending
    BY <2>1 DEF Pending, Filled, Minus
  <2> QED
    BY <1>0, <2>1, <2>2, TxSame
<1>6. CASE SizedNothing \/ SizedRead \/ SizedWait \/ CopyIn \/ PointPeek \/ PointIn \/ Recv
  <2>1. /\ UNCHANGED <<kind, txwr, txmem, txptr, put, offset, fsr>>
        /\ (pc = "sized" /\ UNCHANGED <<op, want>> /\ pc' = "high1")
             \/ (op \notin {"send", "write"} /\ op' = op)
             \/ op' = "none"
        /\ (pc = "sized" /\ pc' \in {"idle", "high1"}) \/ op \in {"recv", "peek"}
    BY <1>6
    DEF SizedNothing, SizedRead, SizedWait, CopyIn, PointPeek, PointIn, Recv, Copies, Goto,
        Returns, txchip
  <2>2. Pending' = Pending
    BY <2>1 DEF Pending, Filled, Minus
  <2> QED
    BY <1>0, <2>1, <2>2, TxSame
<1>7. CASE SizedSend \/ SizedDown \/ SizedWrite
  <2>1. /\ UNCHANGED <<kind, txwr, txmem, txptr, put, offset, fsr, op, want>>
        /\ pc = "sized" /\ pc' = "copy"
    BY <1>7 DEF SizedSend, SizedDown, SizedWrite, Copies, Goto, txchip
  <2>2. Pending = Filled /\ Pending' = Pending /\ Pending <= fsr
    BY <2>1 DEF Pending, Filled, Minus, TxInv
  <2>3. Filled + n' <= fsr'
    <3>1. CASE SizedSend
      <4>1. op = "send" /\ n' = MinOf(want, SSIZE) /\ val >= MinOf(want, SSIZE)
        BY <3>1 DEF SizedSend, Copies, Room
      <4>2. Filled = 0
        BY <2>1, <4>1, Fills DEF PlaceInv, TxInv
      <4>3. want > 0
        BY <4>1 DEF PlaceInv
      <4>4. val # 0 /\ val <= fsr
        BY <1>0, <2>1, <4>1, <4>3 DEF SizeWasTrue, Register, MinOf
      <4> QED
        BY <1>0, <2>1, <4>1, <4>2, <4>4 DEF MinOf
    <3>2. CASE SizedDown
      BY <1>0, <2>1, <2>2, <3>2 DEF SizedDown, Copies
    <3>3. CASE SizedWrite
      <4>1. op = "write" /\ n' = MinOf(want, val)
        BY <3>3 DEF SizedWrite, Copies
      <4>2. fsr = SSIZE /\ Filled = offset /\ (offset = 0 \/ offset + want <= SSIZE)
        BY <2>1, <4>1 DEF PlaceInv, UdpInv, TxInv
      <4>3. val <= fsr
        BY <1>0, <2>1, <4>1, <4>2 DEF SizeWasTrue, Register
      <4> QED
        BY <1>0, <2>1, <4>1, <4>2, <4>3 DEF MinOf
    <3> QED
      BY <1>7, <3>1, <3>2, <3>3
  <2>4. fsr' \in Int /\ fsr <= fsr'
    BY <1>0, <2>1
  <2> QED
    BY <2>1, <2>2, <2>3, <2>4, TxSame
<1>8. CASE SendOk \/ SendLost \/ SendTimedOut
  <2>1. /\ UNCHANGED <<kind, txwr, txmem, txptr, put, offset, fsr>>
        /\ pc = "sendok" /\ pc' = "idle" /\ op' = "none"
    BY <1>8 DEF SendOk, SendLost, SendTimedOut, Returns
  <2>2. Pending' = Pending
    BY <2>1 DEF Pending, Filled, Minus
  <2> QED
    BY <1>0, <2>1, <2>2, TxSame
<1> QED
  BY <1>1, <1>2, <1>3, <1>4, <1>5, <1>6, <1>7, <1>8, CopyOutTx, PointTx, SendTx
  DEF Next, Begins, GoesOn

LEMMA KindKept == [Next]_vars => kind' = kind
  BY DEF Next, vars, Chip, PutOnWire, TimesOut, Acknowledges,
         Peer, ByteArrives, PeerCloses, PeerResets,
         Begins, Reads, Sends, BeginsPacket, Writes, EndsPacket, Opens, Call,
         GoesOn, ReadSize, ReadHigh1, ReadLow1, ReadHigh2, ReadLow2, Reading,
         SizedNothing, SizedRead, SizedSend, SizedWait, SizedDown, SizedWrite, Copies,
         CopyIn, CopyOut, PointPeek, PointIn, PointSend, PointWrite,
         Recv, Send, SendOk, SendLost, SendTimedOut, Goto, Returns

LEMMA StepUdp == TypeOK /\ PlaceInv /\ UdpInv /\ [Next]_vars => UdpInv'
<1> SUFFICES ASSUME TypeOK, PlaceInv, UdpInv, [Next]_vars, kind = "UDP" PROVE UdpInv'
  BY KindKept DEF UdpInv
<1> USE DEF UdpInv
<1>0. ir \in [SEND_OK : BOOLEAN, TIMEOUT : BOOLEAN] /\ status = "UDP"
  BY DEF TypeOK, PlaceInv
<1>1. CASE UNCHANGED vars \/ Peer
  BY <1>1 DEF vars, txchip, mcu, Peer, ByteArrives, PeerCloses, PeerResets
<1>2. CASE Chip
  BY <1>0, <1>2 DEF Chip, PutOnWire, TimesOut, Acknowledges, Up, NoFlags, mcu
<1>3. CASE Begins
  BY <1>0, <1>3
  DEF Begins, Reads, Sends, BeginsPacket, Writes, EndsPacket, Opens, Call, AsksSize, txchip
<1>4. CASE ReadSize
  BY <1>4
  DEF ReadSize, ReadHigh1, ReadLow1, ReadHigh2, ReadLow2, Reading, AfterFirst, txchip
<1>5. CASE SizedNothing \/ SizedRead \/ SizedSend \/ SizedWait \/ SizedDown \/ SizedWrite
  BY <1>5
  DEF SizedNothing, SizedRead, SizedSend, SizedWait, SizedDown, SizedWrite, Copies, Goto, Returns,
      txchip
<1>6. CASE CopyIn \/ CopyOut \/ PointPeek \/ PointIn \/ PointSend \/ PointWrite \/ Recv
  BY <1>6
  DEF CopyIn, CopyOut, PointPeek, PointIn, PointSend, PointWrite, Recv, Goto, Returns, txchip
<1>7. CASE Send
  BY <1>7 DEF Send, Goto, NoFlags
<1>8. CASE SendOk \/ SendLost \/ SendTimedOut
  BY <1>0, <1>8 DEF SendOk, SendLost, SendTimedOut, GivesUp, Returns, NoFlags
<1> QED
  BY <1>1, <1>2, <1>3, <1>4, <1>5, <1>6, <1>7, <1>8 DEF Next, GoesOn

-----------------------------------------------------------------------------
\* Types.

\* A size read byte by byte fits into two bytes, even if it was torn.
LEMMA ReadingType ==
  ASSUME NEW r \in 0 .. SSIZE, NEW h \in 0 .. Half - 1
  PROVE  High(r) \in 0 .. Half - 1 /\ h * Half + Low(r) \in Pointer
<1>1. Half \in Nat /\ Half > 0 /\ SSIZE < Half * Half
  BY SocketDataAssumption, SMT DEF Range16
<1>2. r \in Int /\ High(r) \in Int /\ Low(r) \in 0 .. Half - 1 /\ r = High(r) * Half + Low(r)
  BY Sizes, Halves DEF Word16
<1>3. PICK g \in Int : g = High(r)
  BY <1>2
<1>4. g >= 0
  <2> SUFFICES ASSUME g <= -1 PROVE FALSE
    BY <1>3
  <2>1. g * Half <= -Half
    BY <1>1
  <2> QED
    BY <1>1, <1>2, <1>3, <2>1, Sizes
<1>5. g <= Half - 1
  <2> SUFFICES ASSUME g >= Half PROVE FALSE
    BY <1>1, <1>3
  <2>1. g * Half >= Half * Half
    BY <1>1
  <2> QED
    BY <1>1, <1>2, <1>3, <2>1, Sizes
<1>6. h * Half <= (Half - 1) * Half /\ h * Half >= 0 /\ (Half - 1) * Half = Half * Half - Half
  BY <1>1
<1>7. h * Half \in Int /\ Half * Half \in Int
  BY <1>1
<1>8. h * Half + Low(r) \in 0 .. Half * Half - 1
  BY <1>1, <1>2, <1>6, <1>7
<1> QED
  BY <1>1, <1>3, <1>4, <1>5, <1>8 DEF Pointer, Range16

LEMMA RegisterSize == TypeOK => \A f : Register(f) \in 0 .. SSIZE
  BY DEF TypeOK, Register

LEMMA NoFlagsType == NoFlags \in [SEND_OK : BOOLEAN, TIMEOUT : BOOLEAN]
  BY DEF NoFlags

LEMMA InitType == Init => TypeOK
<1> SUFFICES ASSUME Init PROVE TypeOK
  OBVIOUS
<1>1. Half \in Nat /\ Half > 0 /\ 0 \in Pointer /\ 0 \in 0 .. Half - 1
  BY Sizes, SocketDataAssumption, SMT DEF Range16, Pointer
<1>2. rxmem \in [0 .. SSIZE - 1 -> Pointer] /\ txmem \in [0 .. SSIZE - 1 -> Pointer]
  BY <1>1 DEF Init
<1>3. buf \in Seq(Pointer)
  BY DEF Init
<1>4. ir \in [SEND_OK : BOOLEAN, TIMEOUT : BOOLEAN]
  BY NoFlagsType DEF Init
<1>5. kind \in {"TCP", "UDP"}
  BY SocketDataAssumption DEF Init
<1> QED
  BY <1>1, <1>2, <1>3, <1>4, <1>5, Sizes DEF Init, TypeOK, Places

\* The variables of a function that returns.
LEMMA ReturnsType ==
  ASSUME TypeOK, Returns
  PROVE  /\ pc' \in Places /\ op' = "none" /\ kind' = kind /\ status' = status
         /\ want' \in Nat /\ n' \in 0 .. SSIZE /\ atStart' \in 0 .. SSIZE
         /\ hi' \in 0 .. Half - 1 /\ val1' \in Pointer /\ val' \in Pointer
         /\ buf' \in Seq(Pointer)
<1>1. Half \in Nat /\ Half > 0 /\ 0 \in Pointer /\ 0 \in 0 .. Half - 1 /\ 0 \in 0 .. SSIZE
  BY Sizes, SocketDataAssumption, SMT DEF Range16, Pointer
<1> QED
  BY <1>1 DEF Returns, Places

LEMMA StepType ==
  TypeOK /\ PlaceInv /\ RxInv /\ TxInv /\ UdpInv /\ SizeWasTrue /\ [Next]_vars => TypeOK'
<1> SUFFICES ASSUME TypeOK, PlaceInv, RxInv, TxInv, UdpInv, SizeWasTrue, [Next]_vars
             PROVE  TypeOK'
  OBVIOUS
<1>0. /\ Half \in Nat /\ Half > 0 /\ 0 \in Pointer /\ 0 \in 0 .. Half - 1
      /\ SSIZE \in Nat \ {0} /\ 0 \in 0 .. SSIZE
  BY Sizes, SocketDataAssumption, SMT DEF Range16, Pointer
<1>1. \A p \in Pointer : p \in Int /\ p >= 0
  BY Sizes DEF Pointer
<1>2. \A p \in Pointer, k \in Int : Plus(p, k) \in Pointer /\ Minus(p, k) \in Pointer
  BY <1>1, PlusType
<1> USE DEF TypeOK
<1>3. CASE UNCHANGED vars
  BY <1>3 DEF vars, rxchip, txchip, mcu, size
<1>4. CASE Chip
  <2>1. Minus(txwr, txsent) \in Int /\ Minus(txwr, txsent) >= 0
    BY <1>1, <1>2
  <2>2. Acknowledges => fsr' \in 0 .. SSIZE
    BY <1>0, <2>1 DEF Acknowledges
  <2>3. fsr' \in 0 .. SSIZE
    BY <1>0, <1>4, <2>2 DEF Chip, PutOnWire, TimesOut
  <2>4. ir' \in [SEND_OK : BOOLEAN, TIMEOUT : BOOLEAN]
    BY <1>4 DEF Chip, PutOnWire, TimesOut, Acknowledges
  <2> QED
    BY <1>4, <2>3, <2>4 DEF Chip, PutOnWire, TimesOut, Acknowledges, rxchip, mcu, size
<1>5. CASE Peer
  <2>1. Slot(Plus(rxbase, rsr)) \in 0 .. SSIZE - 1 /\ Plus(rxbase, rsr) \in Pointer
    BY BufferTypes, PlusType, SlotType
  <2>2. ByteArrives => rxmem' \in [0 .. SSIZE - 1 -> Pointer] /\ rsr' \in 0 .. SSIZE
    BY <1>0, <2>1 DEF ByteArrives, Slot
  <2> QED
    BY <1>5, <2>2 DEF Peer, ByteArrives, PeerCloses, PeerResets, rxchip, txchip, mcu, size
<1>6. CASE Reads \/ Sends \/ BeginsPacket \/ Writes \/ EndsPacket
  <2>1. want' \in Nat /\ pc' \in Places /\ atStart' \in 0 .. SSIZE /\ offset' \in 0 .. SSIZE
        /\ op' \in {"available", "recv", "peek", "send", "write", "endPacket"}
    BY <1>0, <1>6, RegisterSize, SocketDataAssumption
    DEF Reads, Sends, BeginsPacket, Writes, EndsPacket, Call, AsksSize, Places
  <2>2. UNCHANGED <<kind, status, rxchip, txchip, n, hi, val1, val, buf, next, put, rxrd, txptr>>
    BY <1>6 DEF Reads, Sends, BeginsPacket, Writes, EndsPacket, Call
  <2> QED
    BY <2>1, <2>2 DEF rxchip, txchip
<1>7. CASE Opens
  <2>1. StartPointer \in Pointer /\ NoFlags \in [SEND_OK : BOOLEAN, TIMEOUT : BOOLEAN]
    BY Sizes, NoFlagsType
  <2> QED
    BY <1>0, <1>7, <2>1 DEF Opens, Opened, size
<1>8. CASE ReadSize
  <2>1. High(Register(op)) \in 0 .. Half - 1 /\ hi * Half + Low(Register(op)) \in Pointer
    BY RegisterSize, ReadingType
  <2>2. /\ UNCHANGED <<kind, status, rxchip, txchip, op, want, n, offset, buf, next, put, rxrd,
                       txptr, atStart>>
        /\ pc' \in Places
    BY <1>8
    DEF ReadSize, ReadHigh1, ReadLow1, ReadHigh2, ReadLow2, Reading, AfterFirst, Places
  <2>3. hi' \in 0 .. Half - 1 /\ val1' \in Pointer /\ val' \in Pointer
    BY <1>8, <2>1 DEF ReadSize, ReadHigh1, ReadLow1, ReadHigh2, ReadLow2
  <2> QED
    BY <2>2, <2>3 DEF rxchip, txchip
<1>9. CASE SizedNothing
  BY <1>9, ReturnsType DEF SizedNothing, rxchip, txchip
<1>10. CASE SizedRead \/ SizedSend \/ SizedDown \/ SizedWrite
  <2>1. MinOf(want, SSIZE) \in 0 .. SSIZE
    BY <1>0 DEF MinOf
  <2>2. (pc = "sized" /\ val # 0) => val \in 0 .. SSIZE
    BY <1>0, <1>1, RegisterSize DEF SizeWasTrue
  <2>3. pc = "sized" => MinOf(want, val) \in 0 .. SSIZE /\ Given \in 0 .. SSIZE
    BY <1>0, <2>2 DEF MinOf, Given
  <2>4. n' \in 0 .. SSIZE
    BY <1>0, <1>10, <2>1, <2>3 DEF SizedRead, SizedSend, SizedDown, SizedWrite, Copies
  <2> QED
    BY <1>0, <1>10, <2>4
    DEF SizedRead, SizedSend, SizedDown, SizedWrite, Copies, Goto, rxchip, txchip, Places
<1>11. CASE SizedWait
  BY <1>0, <1>11 DEF SizedWait, Goto, rxchip, txchip, Places
<1>12. CASE CopyIn
  <2>1. ASSUME NEW k \in 1 .. n PROVE rxmem[Plus(rxrd, k - 1) % SSIZE] \in Pointer
    <3>1. rxrd \in Int /\ k - 1 \in Int
      BY BufferTypes
    <3>2. Slot(Plus(rxrd, k - 1)) \in 0 .. SSIZE - 1
      BY <3>1, PlusType, SlotType
    <3> QED
      BY <3>2 DEF Slot
  <2>2. buf' \in Seq(Pointer)
    <3>1. n \in Nat
      BY <1>0
    <3>2. [k \in 1 .. n |-> rxmem[Plus(rxrd, k - 1) % SSIZE]] \in Seq(Pointer)
      BY <2>1, <3>1
    <3> QED
      BY <1>12, <3>2 DEF CopyIn
  <2> QED
    BY <1>12, <2>2 DEF CopyIn, Goto, rxchip, txchip, Places
<1>13. CASE CopyOut
  <2>1. put' \in Pointer
    BY <1>0, <1>2, <1>13 DEF CopyOut
  <2>2. txmem' \in [0 .. SSIZE - 1 -> Pointer]
    <3>1. ASSUME NEW a \in 0 .. SSIZE - 1, \E k \in 0 .. n - 1 : Plus(WriteAt, k) % SSIZE = a
          PROVE  Plus(put, CHOOSE k \in 0 .. n - 1 : Plus(WriteAt, k) % SSIZE = a) \in Pointer
      <4>1. (CHOOSE k \in 0 .. n - 1 : Plus(WriteAt, k) % SSIZE = a) \in Int
        BY <3>1
      <4> QED
        BY <1>2, <4>1
    <3> QED
      BY <1>13, <3>1 DEF CopyOut
  <2> QED
    BY <1>13, <2>1, <2>2 DEF CopyOut, Goto, rxchip, txchip, Places
<1>14. CASE PointPeek
  BY <1>14, ReturnsType DEF PointPeek, rxchip, txchip
<1>15. CASE PointIn
  <2>1. rxrd' \in Pointer /\ next' \in Pointer
    BY <1>0, <1>2, <1>15 DEF PointIn, ReadTo
  <2> QED
    BY <1>15, <2>1 DEF PointIn, Goto, rxchip, txchip, Places
<1>16. CASE PointSend \/ PointWrite
  <2>1. WriteAt \in Pointer
    <3>1. (IF op = "write" THEN offset ELSE 0) \in Int
      BY <1>0
    <3> QED
      BY <1>2, <3>1 DEF WriteAt
  <2>2. txptr' \in Pointer
    BY <1>0, <1>2, <1>16, <2>1 DEF PointSend, PointWrite
  <2>3. PointWrite => offset + n \in 0 .. SSIZE
    <3> SUFFICES ASSUME PointWrite PROVE offset + n \in 0 .. SSIZE
      OBVIOUS
    <3>1. Filled + n <= fsr /\ Filled = offset
      BY DEF PointWrite, TxInv, Pending
    <3> QED
      BY <1>0, <3>1
  <2>4. CASE PointSend
    BY <2>2, <2>4 DEF PointSend, Goto, rxchip, txchip, Places
  <2>5. CASE PointWrite
    BY <2>2, <2>3, <2>5, ReturnsType DEF PointWrite, rxchip, txchip
  <2> QED
    BY <1>16, <2>4, <2>5
<1>17. CASE Recv
  <2>1. rxrd = Plus(rxbase, n) /\ n <= rsr
    BY <1>17 DEF Recv, RxInv
  <2>2. Minus(rxrd, rxbase) = n
    BY <1>1, <2>1, MinusPlus
  <2>3. rsr' \in 0 .. SSIZE
    BY <1>0, <1>17, <2>1, <2>2 DEF Recv
  <2> QED
    BY <1>17, <2>3, ReturnsType DEF Recv, txchip
<1>18. CASE Send
  <2>1. fsr' \in 0 .. SSIZE
    BY <1>18, SendTx
  <2> QED
    BY <1>18, <2>1 DEF Send, Goto, rxchip, Places
<1>19. CASE SendOk \/ SendLost \/ SendTimedOut
  <2>1. ir' \in [SEND_OK : BOOLEAN, TIMEOUT : BOOLEAN]
    BY <1>19, NoFlagsType DEF SendOk, SendLost, SendTimedOut
  <2> QED
    BY <1>19, <2>1, ReturnsType DEF SendOk, SendLost, SendTimedOut, rxchip
<1> QED
  BY <1>3, <1>4, <1>5, <1>6, <1>7, <1>8, <1>9, <1>10, <1>11, <1>12, <1>13, <1>14, <1>15,
     <1>16, <1>17, <1>18, <1>19 DEF Next, Begins, GoesOn

-----------------------------------------------------------------------------
\* The theorems.

\* Everything together.
IInv == TypeOK /\ SizeInv /\ Numbers /\ PlaceInv /\ RxInv /\ TxInv /\ UdpInv

LEMMA InitBytes == Init => PlaceInv /\ RxInv /\ TxInv /\ UdpInv
<1> SUFFICES ASSUME Init PROVE PlaceInv /\ RxInv /\ TxInv /\ UdpInv
  OBVIOUS
<1>1. PlaceInv
  BY SocketDataAssumption DEF Init, PlaceInv
<1>2. RxInv
  BY DEF Init, RxInv, Window, BytesInOrder
<1>3. UdpInv
  BY DEF Init, UdpInv, NoFlags
<1>4. TxInv
  <2>1. Minus(StartPointer, StartPointer) = 0 /\ Plus(StartPointer, 0) = StartPointer
    BY Sizes, MinusSelf, PlusZero
  <2>2. Filled = 0 /\ Pending = 0
    BY <2>1 DEF Init, Filled, Pending
  <2>3. Window(txmem, txwr, fsr - SSIZE, Pending)
    BY <2>2, Sizes DEF Init, Window
  <2> QED
    BY <2>1, <2>2, <2>3, Sizes DEF Init, TxInv
<1> QED
  BY <1>1, <1>2, <1>3, <1>4

LEMMA Inductive == Spec => []IInv
<1>1. Init => IInv
  BY InitType, InitSize, InitNumbers, InitBytes DEF IInv
<1>2. IInv /\ [Next]_vars => IInv'
  <2>1. SizeInv => SizeWasTrue
    BY DEF SizeInv
  <2> QED
    BY <2>1, StepType, NumbersGoOn, SizeGoesOn, StepPlace, StepRx, StepTx, StepUdp DEF IInv
<1> QED
  BY <1>1, <1>2, PTL DEF Spec

\* Every register, pointer and variable stays in its range: no size leaves its
\* buffer, whatever the driver and the chip do at the same time.
THEOREM TypeCorrect == Spec => []TypeOK
<1>1. IInv => TypeOK
  BY DEF IInv
<1> QED
  BY <1>1, Inductive, PTL

\* getTXFreeSize and getRXReceivedSize: a size that is not 0 was in the
\* register during the call, for every interleaving with the chip.
THEOREM SizesAreTrue == Spec => []SizeWasTrue
<1>1. IInv => SizeWasTrue
  BY DEF IInv, SizeInv
<1> QED
  BY <1>1, Inductive, PTL

\* recv and peek: the bytes of the stream come in order, none twice and none
\* left out, for every size of the buffer and wherever the pointers wrap.
THEOREM BytesComeInOrder == Spec => []BytesInOrder
<1>1. IInv => BytesInOrder
  BY DEF IInv, RxInv
<1> QED
  BY <1>1, Inductive, PTL

\* send and the writes of a packet: a byte that may have to be sent again is
\* never overwritten, whatever the lengths and the acknowledgements.
THEOREM UnsentBytesStay == Spec => []TxIntact
<1>1. IInv => TxIntact
  <2> SUFFICES ASSUME IInv, NEW k \in 1 .. SSIZE - fsr
               PROVE  txmem[Minus(txwr, k) % SSIZE] = Minus(txwr, k)
    BY DEF TxIntact
  <2>1. txwr \in Int /\ fsr \in Int /\ Pending \in Nat /\ SSIZE \in Int
    BY BufferTypes DEF IInv
  <2>2. -k \in (fsr - SSIZE) .. Pending - 1
    BY <2>1
  <2>3. Minus(txwr, k) = Plus(txwr, -k)
    <3>1. txwr - k = txwr + (-k)
      BY <2>1
    <3> QED
      BY <3>1 DEF Minus, Plus
  <2>4. txmem[Slot(Plus(txwr, -k))] = Plus(txwr, -k)
    BY <2>2 DEF IInv, TxInv, Window
  <2> QED
    BY <2>3, <2>4 DEF Slot
<1> QED
  BY <1>1, Inductive, PTL
=============================================================================
