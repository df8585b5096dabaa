----------------------------- MODULE CommandProofs -----------------------------
(***************************************************************************)
(* Proofs about the way of a command and of its answer.  First Intake, for *)
(* any size of the buffers, any text and whatever hosts send; then         *)
(* CommandReply, for any set of hosts, reply period, clock range and delay *)
(* between two looks at the reply.                                         *)
(***************************************************************************)
EXTENDS Intake, CommandReply, SequenceTheorems, WellFoundedInduction, TLAPS

-----------------------------------------------------------------------------
\* Intake.

Room == UDP_TX_PACKET_MAX_SIZE

IntakeTypes ==
  /\ pc \in {"udp", "read", "tcp"}
  /\ rx \in Seq(Header \cup Byte) /\ stream \in Seq(Byte)
  /\ remaining \in Nat
  /\ current \in Seq(Byte) /\ got \in Seq(Byte)
  /\ recvRealBuff = [k \in Index |-> NUL]
  /\ command \in [complete : BOOLEAN, text : Seq(Byte)]

\* What is left of a datagram is at the front of the receive buffer.
FrontInv ==
  /\ remaining <= Len(rx)
  /\ \A k \in 1 .. remaining : rx[k] \in Byte
  /\ pc = "read" => /\ remaining = Len(current)
                    /\ \A k \in 1 .. remaining : rx[k] = current[k]

\* Behind a header stands its datagram, and behind that another header.
Whole(cells, k) ==
  LET d == cells[k].datagram
  IN /\ k + Len(d) <= Len(cells)
     /\ \A j \in 1 .. Len(d) : cells[k + j] = d[j]
     /\ k + Len(d) < Len(cells) => cells[k + Len(d) + 1] \in Header

\* The first header is behind what is left of the last datagram.
Framed(cells, left) ==
  /\ left < Len(cells) => cells[left + 1] \in Header
  /\ \A k \in left + 1 .. Len(cells) : cells[k] \in Header => Whole(cells, k)

HeadersInv == Framed(rx, remaining)

\* What is in hand of a datagram is its beginning, as far as there is room.
DatagramInHand == pc = "tcp" => got = <<>> \/ got = Received(current, Room)

IntakeIInv == /\ IntakeTypes /\ FrontInv /\ HeadersInv /\ DatagramInHand
              /\ Understood /\ OfOnePacket

-----------------------------------------------------------------------------
\* Sequences.

\* A set of numbers has a least one, and a greatest one if it is bounded.
LEMMA LeastNumber ==
  ASSUME NEW T, T \subseteq Nat, T # {}
  PROVE  \E x \in T : \A y \in T : x <= y
<1> DEFINE R == {ss \in Nat \X Nat : ss[1] < ss[2]}
<1>1. IsWellFoundedOn(R, Nat)
  BY NatLessThanWellFounded DEF OpToRel
<1>2. PICK x \in T : \A y \in T : ~(<<y, x>> \in R)
  <2> HIDE DEF R
  <2> QED
    BY <1>1, WFMin
<1>3. ASSUME NEW y \in T PROVE x <= y
  <2>1. x \in Nat /\ y \in Nat
    OBVIOUS
  <2>2. ~(y < x)
    <3>1. y < x => <<y, x>> \in R
      BY <2>1
    <3> QED
      BY <1>2, <3>1
  <2> QED
    BY <2>1, <2>2
<1> QED
  BY <1>3

LEMMA GreatestNumber ==
  ASSUME NEW T, NEW n \in Nat, T \subseteq 1 .. n, T # {}
  PROVE  \E x \in T : \A y \in T : x >= y
<1> DEFINE U == {n - y : y \in T}
<1>1. U \subseteq Nat /\ U # {}
  <2>1. ASSUME NEW y \in T PROVE y \in Nat /\ n - y \in Nat
    <3>1. y \in 1 .. n
      OBVIOUS
    <3> QED
      BY <3>1
  <2>2. U \subseteq Nat
    BY <2>1
  <2>3. PICK y \in T : TRUE
    OBVIOUS
  <2>4. n - y \in U
    OBVIOUS
  <2> QED
    BY <2>2, <2>4
<1>2. PICK u \in U : \A v \in U : u <= v
  BY <1>1, LeastNumber
<1>3. PICK x \in T : u = n - x
  OBVIOUS
<1>4. ASSUME NEW y \in T PROVE x >= y
  <2>1. n - y \in U
    OBVIOUS
  <2> QED
    BY <1>2, <1>3, <2>1
<1> QED
  BY <1>4

\* The first NUL of a buffer.
LEMMA NulPosition ==
  ASSUME NEW S, NEW s \in Seq(S)
  PROVE  \/ FirstNul(s) = 0 /\ \A j \in 1 .. Len(s) : s[j] # NUL
         \/ /\ FirstNul(s) \in 1 .. Len(s) /\ s[FirstNul(s)] = NUL
            /\ \A j \in 1 .. FirstNul(s) - 1 : s[j] # NUL
<1> DEFINE T == {j \in 1 .. Len(s) : s[j] = NUL}
           n == FirstNul(s)
<1>1. n = IF T # {} THEN Min(T) ELSE 0
  BY DEF FirstNul, SelectInSeq
<1>2. CASE T = {}
  BY <1>1, <1>2
<1>3. CASE T # {}
  <2>1. \E x \in T : \A y \in T : x <= y
    <3>1. T \subseteq Nat
      OBVIOUS
    <3> QED
      BY <1>3, <3>1, LeastNumber
  <2>2. n \in T /\ \A y \in T : n <= y
    BY <1>1, <1>3, <2>1 DEF Min
  <2> HIDE DEF n
  <2>3. n \in 1 .. Len(s) /\ s[n] = NUL /\ \A j \in 1 .. n - 1 : s[j] # NUL
    BY <2>2
  <2> QED
    BY <2>3 DEF n
<1> QED
  BY <1>2, <1>3

\* The last of the bytes that are b.
LEMMA LastByte ==
  ASSUME NEW S, NEW s \in Seq(S), NEW b
  PROVE  LET n == GetIndex(b, s)
         IN \/ n = 0 /\ \A j \in 1 .. Len(s) : s[j] # b
            \/ n \in 1 .. Len(s) /\ s[n] = b /\ \A j \in n + 1 .. Len(s) : s[j] # b
<1> DEFINE T == {j \in 1 .. Len(s) : s[j] = b}
           n == GetIndex(b, s)
<1>1. n = IF T # {} THEN Max(T) ELSE 0
  BY DEF GetIndex, SelectLastInSeq
<1>2. CASE T = {}
  BY <1>1, <1>2
<1>3. CASE T # {}
  <2>1. \E x \in T : \A y \in T : x >= y
    <3>1. Len(s) \in Nat /\ T \subseteq 1 .. Len(s)
      OBVIOUS
    <3> QED
      BY <1>3, <3>1, GreatestNumber
  <2>2. n \in T /\ \A y \in T : n >= y
    BY <1>1, <1>3, <2>1 DEF Max
  <2> HIDE DEF n
  <2>3. n \in 1 .. Len(s) /\ s[n] = b /\ \A j \in n + 1 .. Len(s) : s[j] # b
    BY <2>2
  <2> QED
    BY <2>3 DEF n
<1> QED
  BY <1>2, <1>3

-----------------------------------------------------------------------------
\* What ProcPacket makes of a packet.

LEMMA Bytes ==
  /\ Room \in Nat \ {0} /\ Index = 1 .. Room
  /\ STX \in Byte /\ ETX \in Byte /\ NUL \in Byte
  /\ STX # ETX /\ STX # NUL /\ ETX # NUL
  /\ \A c \in Text : c # STX /\ c # ETX /\ c # NUL
  BY IntakeAssumption DEF Room, Index, Byte

\* A buffer that was cleared.
Clear == [k \in Index |-> NUL]

LEMMA ClearType ==
  Clear \in Seq(Byte) /\ Len(Clear) = Room /\ \A k \in 1 .. Room : Clear[k] = NUL
  BY Bytes DEF Clear

LEMMA TempBuffType ==
  ASSUME NEW bytes \in Seq(Byte), Len(bytes) <= Room
  PROVE  /\ RecvTempBuff(bytes) \in Seq(Byte)
         /\ Len(RecvTempBuff(bytes)) = Room
         /\ \A k \in 1 .. Room :
              RecvTempBuff(bytes)[k] = IF k <= Len(bytes) THEN bytes[k] ELSE NUL
<1> DEFINE tail == [k \in 1 .. Room - Len(bytes) |-> NUL]
<1>1. Room - Len(bytes) \in Nat /\ Len(bytes) \in Nat
  BY Bytes
<1>2. tail \in Seq(Byte) /\ Len(tail) = Room - Len(bytes)
      /\ \A k \in 1 .. Room - Len(bytes) : tail[k] = NUL
  BY <1>1, Bytes
<1>3. RecvTempBuff(bytes) = bytes \o tail
  BY DEF RecvTempBuff, Room
<1> HIDE DEF tail
<1> DEFINE buff == bytes \o tail
<1>4. /\ buff \in Seq(Byte) /\ Len(buff) = Room
      /\ \A k \in 1 .. Room : buff[k] = IF k <= Len(bytes) THEN bytes[k] ELSE tail[k - Len(bytes)]
  BY <1>1, <1>2, ConcatProperties, Bytes
<1>5. \A k \in 1 .. Room : k > Len(bytes) => k - Len(bytes) \in 1 .. Room - Len(bytes)
  BY <1>1, Bytes
<1> HIDE DEF buff
<1> QED
  BY <1>2, <1>3, <1>4, <1>5 DEF buff

\* What getData leaves in a cleared buffer: the bytes from first to last.
LEMMA DataCopied ==
  ASSUME NEW buff \in Seq(Byte), Len(buff) = Room,
         NEW first \in Nat \ {0}, NEW last \in Nat, first <= last, last <= Room
  PROVE  LET real == GetData(buff, first, last, Clear)
         IN /\ real \in Seq(Byte) /\ Len(real) = Room
            /\ \A k \in 1 .. Room :
                 real[k] = IF k <= last - first + 1 THEN buff[first + k - 1] ELSE NUL
<1> DEFINE n == last - first + 1
           front == SubSeq(buff, first, last)
           back == SubSeq(Clear, n + 1, Room)
<1>1. n \in 1 .. Room /\ first + n - 1 = last
  BY Bytes
<1>2. GetData(buff, first, last, Clear) = front \o back
  BY DEF GetData, Room
<1>3. /\ front \in Seq(Byte) /\ Len(front) = n
      /\ \A k \in 1 .. n : front[k] = buff[first + k - 1]
  BY SubSeqProperties, Bytes
<1>4. /\ back \in Seq(Byte) /\ Len(back) = Room - n
      /\ \A k \in 1 .. Room - n : back[k] = NUL
  <2>1. \A k \in n + 1 .. Room : Clear[k] = NUL
    BY <1>1, ClearType
  <2>2. n + 1 \in Int /\ Room \in Int /\ \A k \in n + 1 .. Room : Clear[k] \in Byte
    BY <1>1, <2>1, Bytes
  <2> HIDE DEF n
  <2>3. /\ back \in Seq(Byte) /\ Len(back) = IF n + 1 <= Room THEN Room - (n + 1) + 1 ELSE 0
        /\ \A k \in 1 .. Room - (n + 1) + 1 : back[k] = Clear[n + 1 + k - 1]
    BY <2>2, SubSeqProperties
  <2>4. \A k \in 1 .. Room - n : n + 1 + k - 1 \in n + 1 .. Room
    BY <1>1, Bytes
  <2> HIDE DEF back
  <2> QED
    BY <1>1, <2>1, <2>3, <2>4, Bytes
<1> HIDE DEF front, back, n
<1> DEFINE real == front \o back
<1>5. /\ real \in Seq(Byte) /\ Len(real) = Len(front) + Len(back)
      /\ \A k \in 1 .. Len(front) + Len(back) :
           real[k] = IF k <= Len(front) THEN front[k] ELSE back[k - Len(front)]
  BY <1>3, <1>4, ConcatProperties
<1> HIDE DEF real
<1>6. Len(real) = Room
  BY <1>1, <1>3, <1>4, <1>5, Bytes
<1>7. ASSUME NEW k \in 1 .. Room
      PROVE  real[k] = IF k <= n THEN buff[first + k - 1] ELSE NUL
  <2>1. CASE k <= n
    BY <1>1, <1>3, <1>4, <1>5, <2>1, Bytes
  <2>2. CASE k > n
    <3>1. k - n \in 1 .. Room - n
      BY <1>1, <2>2, Bytes
    <3>2. ~(k <= n) /\ k \in 1 .. Len(front) + Len(back) /\ Len(front) = n
      BY <1>1, <1>3, <1>4, <2>2, Bytes
    <3>3. real[k] = back[k - n]
      BY <1>5, <3>2
    <3> QED
      BY <1>4, <3>1, <3>2, <3>3
  <2> QED
    BY <1>1, <2>1, <2>2, Bytes
<1> QED
  BY <1>2, <1>5, <1>6, <1>7 DEF real, n

LEMMA DataNotCopied ==
  ASSUME NEW buff, NEW first, NEW last, ~(first <= last /\ last <= Room)
  PROVE  GetData(buff, first, last, Clear) = Clear
  BY DEF GetData, Room

\* A string that begins with its NUL is empty.
LEMMA ClearIsEmpty == AsString(Clear) = <<>>
<1>1. FirstNul(Clear) = 1
  BY ClearType, NulPosition, Bytes
<1>2. AsString(Clear) = SubSeq(Clear, 1, 0)
  BY <1>1 DEF AsString
<1> QED
  BY <1>2, SubSeqEmpty

\* The text of a string is what stands before its first NUL.
LEMMA StringText ==
  ASSUME NEW real \in Seq(Byte)
  PROVE  /\ AsString(real) \in Seq(Byte) /\ Len(AsString(real)) <= Len(real)
         /\ \A k \in 1 .. Len(AsString(real)) : AsString(real)[k] = real[k] /\ real[k] # NUL
         /\ Len(AsString(real)) < Len(real) => real[Len(AsString(real)) + 1] = NUL
<1> DEFINE n == FirstNul(real)
<1>1. \/ n = 0 /\ \A j \in 1 .. Len(real) : real[j] # NUL
      \/ n \in 1 .. Len(real) /\ real[n] = NUL /\ \A j \in 1 .. n - 1 : real[j] # NUL
  BY NulPosition
<1>2. AsString(real) = IF n = 0 THEN real ELSE SubSeq(real, 1, n - 1)
  BY DEF AsString
<1> HIDE DEF n
<1>3. CASE n = 0
  BY <1>1, <1>2, <1>3
<1>4. CASE n # 0
  <2>1. n \in 1 .. Len(real) /\ real[n] = NUL /\ \A j \in 1 .. n - 1 : real[j] # NUL
    BY <1>1, <1>4
  <2> DEFINE text == SubSeq(real, 1, n - 1)
  <2>2. /\ text \in Seq(Byte) /\ Len(text) = n - 1
        /\ \A k \in 1 .. n - 1 : text[k] = real[k]
    BY <2>1, SubSeqProperties
  <2> HIDE DEF text
  <2>3. AsString(real) = text
    BY <1>2, <1>4 DEF text
  <2> QED
    BY <2>1, <2>2, <2>3
<1> QED
  BY <1>3, <1>4

\* A command stands in the bytes it was found in.
LEMMA TextOfOnePacket ==
  ASSUME NEW bytes \in Seq(Byte), Len(bytes) <= Room, NEW first \in Nat \ {0}, NEW last \in Int
  PROVE  LET text == AsString(GetData(RecvTempBuff(bytes), first, last, Clear))
         IN /\ text \in Seq(Byte)
            /\ \/ text = <<>>
               \/ \E k \in 1 .. Len(bytes) : /\ k - 1 + Len(text) <= Len(bytes)
                                             /\ text = SubSeq(bytes, k, k - 1 + Len(text))
<1> DEFINE buff == RecvTempBuff(bytes)
           real == GetData(buff, first, last, Clear)
           text == AsString(real)
<1>1. CASE ~(first <= last /\ last <= Room)
  <2>1. text = <<>>
    BY <1>1, DataNotCopied, ClearIsEmpty
  <2>2. <<>> \in Seq(Byte)
    OBVIOUS
  <2> HIDE DEF text
  <2>3. text \in Seq(Byte)
    BY <2>1, <2>2
  <2> QED
    BY <2>1, <2>3 DEF text, real, buff
<1>2. CASE first <= last /\ last <= Room
  <2>1. /\ buff \in Seq(Byte) /\ Len(buff) = Room
        /\ \A k \in 1 .. Room : buff[k] = IF k <= Len(bytes) THEN bytes[k] ELSE NUL
    BY TempBuffType
  <2>2. last \in Nat /\ Len(bytes) \in Nat
    BY <1>2
  <2>3. /\ real \in Seq(Byte) /\ Len(real) = Room
        /\ \A k \in 1 .. Room :
             real[k] = IF k <= last - first + 1 THEN buff[first + k - 1] ELSE NUL
    <3> HIDE DEF buff
    <3> QED
      BY <1>2, <2>1, <2>2, DataCopied
  <2> HIDE DEF buff, real
  <2>4. /\ text \in Seq(Byte) /\ Len(text) <= Room
        /\ \A k \in 1 .. Len(text) : text[k] = real[k] /\ real[k] # NUL
    BY <2>3, StringText
  <2>9. AsString(GetData(RecvTempBuff(bytes), first, last, Clear)) \in Seq(Byte)
    BY <2>4 DEF real, buff
  <2> HIDE DEF text
  <2>5. Len(text) \in Nat
    BY <2>4
  <2>6. ASSUME NEW k \in 1 .. Len(text)
        PROVE  first + k - 1 <= Len(bytes) /\ text[k] = bytes[first + k - 1]
    <3>1. k \in 1 .. Room
      BY <2>4, <2>5, Bytes
    <3>2. k <= last - first + 1 /\ text[k] = buff[first + k - 1] /\ text[k] # NUL
      BY <2>3, <2>4, <3>1
    <3>3. first + k - 1 \in 1 .. Room
      BY <1>2, <2>2, <3>1, <3>2, Bytes
    <3> QED
      BY <2>1, <3>2, <3>3
  <2>7. CASE Len(text) = 0
    BY <2>4, <2>7 DEF text, real, buff
  <2>8. CASE Len(text) > 0
    <3> DEFINE n == Len(text)
    <3>1. first - 1 + n <= Len(bytes)
      <4>1. n \in 1 .. Len(text)
        BY <2>5, <2>8
      <4>2. first + n - 1 <= Len(bytes)
        BY <2>6, <4>1
      <4> QED
        BY <2>2, <2>5, <4>2
    <3>2. first \in 1 .. Len(bytes)
      BY <2>2, <2>5, <2>8, <3>1
    <3> DEFINE part == SubSeq(bytes, first, first - 1 + n)
    <3>3. /\ part \in Seq(Byte) /\ Len(part) = n
          /\ \A k \in 1 .. n : part[k] = bytes[first + k - 1]
      <4>1. \A k \in first .. first - 1 + n : bytes[k] \in Byte
        BY <2>2, <2>5, <3>1, <3>2
      <4>2. /\ part \in Seq(Byte)
            /\ Len(part) = IF first <= first - 1 + n THEN first - 1 + n - first + 1 ELSE 0
            /\ \A k \in 1 .. first - 1 + n - first + 1 : part[k] = bytes[first + k - 1]
        BY <2>5, <4>1, SubSeqProperties
      <4> HIDE DEF part
      <4> QED
        BY <2>5, <2>8, <4>2
    <3>4. text = part
      <4> HIDE DEF part, n
      <4>1. \A k \in 1 .. Len(text) : text[k] = part[k]
        BY <2>6, <3>3 DEF n
      <4>2. Len(text) = Len(part)
        BY <3>3 DEF n
      <4> QED
        BY <2>4, <3>3, <4>1, <4>2, SeqEqual
    <3> QED
      BY <2>9, <3>1, <3>2, <3>4 DEF text, real, buff
  <2> QED
    BY <2>5, <2>7, <2>8, <2>9
<1> QED
  BY <1>1, <1>2

\* The positions a packet that ends in a frame is searched for.
LEMMA FramePositions ==
  ASSUME NEW bytes \in Seq(Byte), NEW k \in 1 .. Len(bytes) - 1,
         bytes[k] = STX, bytes[Len(bytes)] = ETX,
         \A j \in k + 1 .. Len(bytes) - 1 : bytes[j] \in Text
  PROVE  /\ GetIndex(STX, bytes) = k /\ GetIndex(ETX, bytes) = Len(bytes)
         /\ LastFrame(bytes) = SubSeq(bytes, k + 1, Len(bytes) - 1)
<1>1. Len(bytes) \in Nat
  OBVIOUS
<1>2. \A j \in k + 1 .. Len(bytes) : bytes[j] # STX
  BY <1>1, Bytes
<1> DEFINE m == GetIndex(STX, bytes)
           n == GetIndex(ETX, bytes)
<1>3. m = k
  <2>1. \/ m = 0 /\ \A j \in 1 .. Len(bytes) : bytes[j] # STX
        \/ m \in 1 .. Len(bytes) /\ bytes[m] = STX /\ \A j \in m + 1 .. Len(bytes) : bytes[j] # STX
    BY LastByte
  <2> HIDE DEF m
  <2>2. k \in 1 .. Len(bytes)
    BY <1>1
  <2>3. m \in 1 .. Len(bytes) /\ bytes[m] = STX /\ \A j \in m + 1 .. Len(bytes) : bytes[j] # STX
    BY <2>1, <2>2
  <2>4. ~(m < k)
    BY <1>1, <2>2, <2>3
  <2>5. ~(k < m)
    BY <1>1, <1>2, <2>2, <2>3
  <2> QED
    BY <1>1, <2>3, <2>4, <2>5
<1>4. n = Len(bytes)
  <2>1. \/ n = 0 /\ \A j \in 1 .. Len(bytes) : bytes[j] # ETX
        \/ n \in 1 .. Len(bytes) /\ bytes[n] = ETX /\ \A j \in n + 1 .. Len(bytes) : bytes[j] # ETX
    BY LastByte
  <2> HIDE DEF n
  <2>2. Len(bytes) \in 1 .. Len(bytes)
    BY <1>1
  <2> QED
    BY <1>1, <2>1, <2>2
<1>5. LastFrame(bytes) = SubSeq(bytes, k + 1, Len(bytes) - 1)
  <2> DEFINE Latest(j) == bytes[j] = STX /\ \A e \in j + 1 .. Len(bytes) : bytes[e] # STX
             p == CHOOSE j \in 1 .. Len(bytes) : Latest(j)
  <2>1. k \in 1 .. Len(bytes) /\ Latest(k)
    BY <1>1, <1>2
  <2>2. p \in 1 .. Len(bytes) /\ Latest(p)
    BY <2>1
  <2>3. LastFrame(bytes) = SubSeq(bytes, p + 1, Len(bytes) - 1)
    BY DEF LastFrame
  <2> HIDE DEF p
  <2>4. ~(p < k)
    BY <1>1, <2>1, <2>2
  <2>5. ~(k < p)
    BY <1>1, <1>2, <2>1, <2>2
  <2>6. p = k
    BY <1>1, <2>1, <2>2, <2>4, <2>5
  <2> QED
    BY <2>3, <2>6
<1> QED
  BY <1>3, <1>4, <1>5

\* A frame without a NUL in front of it is found, and its text is the command.
LEMMA FrameFound ==
  ASSUME NEW bytes \in Seq(Byte), Len(bytes) < Room, NUL \notin Range(bytes),
         EndsInFrame(bytes), NEW behind
  PROVE  /\ CheckComplete(RecvTempBuff(bytes))
         /\ Characters(RecvTempBuff(bytes), behind) = bytes
         /\ AsString(GetCommand(RecvTempBuff(bytes), bytes, Clear)) = LastFrame(bytes)
<1> DEFINE buff == RecvTempBuff(bytes)
<1>1. /\ buff \in Seq(Byte) /\ Len(buff) = Room
      /\ \A k \in 1 .. Room : buff[k] = IF k <= Len(bytes) THEN bytes[k] ELSE NUL
  BY Bytes, TempBuffType
<1>2. Len(bytes) \in Nat /\ \A k \in 1 .. Len(bytes) : bytes[k] # NUL
  BY DEF Range
<1>3. PICK k \in 1 .. Len(bytes) - 1 :
        /\ bytes[k] = STX /\ bytes[Len(bytes)] = ETX
        /\ \A j \in k + 1 .. Len(bytes) - 1 : bytes[j] \in Text
  BY DEF EndsInFrame
<1> HIDE DEF buff
<1>4. CheckComplete(buff)
  <2>1. Len(bytes) \in 1 .. Room /\ buff[Len(bytes)] = ETX
    BY <1>1, <1>2, <1>3, Bytes
  <2> QED
    BY <2>1, Bytes DEF CheckComplete
<1>5. Characters(buff, behind) = bytes
  <2> DEFINE n == FirstNul(buff)
  <2>1. \/ n = 0 /\ \A j \in 1 .. Len(buff) : buff[j] # NUL
        \/ n \in 1 .. Len(buff) /\ buff[n] = NUL /\ \A j \in 1 .. n - 1 : buff[j] # NUL
    BY <1>1, NulPosition
  <2> DEFINE word == SubSeq(buff, 1, n - 1)
  <2>2. Characters(buff, behind) = IF n = 0 THEN buff \o behind ELSE word
    BY DEF Characters
  <2> HIDE DEF n
  <2>3. n = Len(bytes) + 1
    <3>1. Len(bytes) + 1 \in 1 .. Room /\ buff[Len(bytes) + 1] = NUL
      BY <1>1, <1>2, Bytes
    <3>2. n \in 1 .. Room /\ buff[n] = NUL /\ \A j \in 1 .. n - 1 : buff[j] # NUL
      BY <1>1, <2>1, <3>1
    <3>3. ~(n <= Len(bytes))
      BY <1>1, <1>2, <3>2
    <3>4. ~(Len(bytes) + 1 < n)
      BY <1>2, <3>1, <3>2
    <3> QED
      BY <1>2, <3>2, <3>3, <3>4
  <2>4. /\ word \in Seq(Byte) /\ Len(word) = Len(bytes)
        /\ \A j \in 1 .. Len(bytes) : word[j] = buff[j]
    <3>1. \A j \in 1 .. n - 1 : buff[j] \in Byte
      BY <1>1, <1>2, <2>3, Bytes
    <3> QED
      BY <1>2, <2>3, <3>1, SubSeqProperties
  <2> HIDE DEF word
  <2>5. \A j \in 1 .. Len(word) : word[j] = bytes[j]
    BY <1>1, <1>2, <2>4, Bytes
  <2>6. word = bytes
    BY <2>4, <2>5, SeqEqual
  <2> QED
    BY <1>2, <2>2, <2>3, <2>6
<1>6. AsString(GetCommand(buff, bytes, Clear)) = LastFrame(bytes)
  <2> DEFINE first == k + 1
             last == Len(bytes) - 1
             real == GetData(buff, first, last, Clear)
             frame == SubSeq(bytes, first, last)
  <2>1. GetCommand(buff, bytes, Clear) = real /\ LastFrame(bytes) = frame
    BY <1>3, FramePositions DEF GetCommand
  <2>2. first \in Nat \ {0} /\ last \in Nat /\ last < Room /\ first <= last + 1
    BY <1>2, <1>3, Bytes
  <2>3. \A j \in first .. last : bytes[j] \in Byte /\ bytes[j] # NUL
    BY <1>2, <1>3
  <2> HIDE DEF first, last
  <2>4. /\ frame \in Seq(Byte) /\ Len(frame) = IF first <= last THEN last - first + 1 ELSE 0
        /\ \A j \in 1 .. last - first + 1 : frame[j] = bytes[first + j - 1]
    BY <2>2, <2>3, SubSeqProperties
  <2>5. CASE first > last
    <3>1. real = Clear
      BY <2>2, <2>5, DataNotCopied
    <3>2. frame = <<>>
      BY <2>2, <2>5, SubSeqEmpty
    <3> QED
      BY <2>1, <3>1, <3>2, ClearIsEmpty
  <2>6. CASE first <= last
    <3> DEFINE n == last - first + 1
    <3>1. /\ real \in Seq(Byte) /\ Len(real) = Room
          /\ \A j \in 1 .. Room : real[j] = IF j <= n THEN buff[first + j - 1] ELSE NUL
      <4>1. last <= Room
        BY <2>2, Bytes
      <4> QED
        BY <1>1, <2>2, <2>6, <4>1, DataCopied
    <3>2. n \in 1 .. Room - 1 /\ first + n - 1 = last
      <4> HIDE DEF real, frame
      <4> QED
        BY <2>2, <2>6, Bytes
    <3>3. last < Len(bytes)
      BY <1>2 DEF last
    <3> HIDE DEF real, n
    <3> DEFINE text == AsString(real)
    <3>4. /\ text \in Seq(Byte) /\ Len(text) <= Room
          /\ \A j \in 1 .. Len(text) : text[j] = real[j] /\ real[j] # NUL
          /\ Len(text) < Room => real[Len(text) + 1] = NUL
      BY <3>1, StringText
    <3> HIDE DEF text
    <3>5. ASSUME NEW j \in 1 .. n
          PROVE  real[j] = bytes[first + j - 1] /\ real[j] # NUL
      <4>1. j \in 1 .. Room /\ first + j - 1 \in first .. last /\ first + j - 1 \in 1 .. Room
        BY <2>2, <3>2, Bytes
      <4>2. real[j] = buff[first + j - 1]
        BY <3>1, <3>2, <4>1
      <4>3. buff[first + j - 1] = bytes[first + j - 1]
        BY <1>1, <1>2, <2>2, <3>3, <4>1
      <4> QED
        BY <2>3, <4>1, <4>2, <4>3
    <3>6. Len(text) = n
      <4>1. Len(text) \in Nat
        BY <3>4
      <4>2. n + 1 \in 1 .. Room /\ real[n + 1] = NUL
        BY <3>1, <3>2, Bytes
      <4>3. ~(Len(text) > n)
        BY <3>2, <3>4, <4>1, <4>2
      <4>4. ~(Len(text) < n)
        <5>1. ASSUME Len(text) < n PROVE FALSE
          <6>1. Len(text) + 1 \in 1 .. n /\ Len(text) < Room
            BY <3>2, <4>1, <5>1, Bytes
          <6> QED
            BY <3>4, <3>5, <6>1
        <5> QED
          BY <5>1
      <4> QED
        BY <3>2, <4>1, <4>3, <4>4
    <3>7. Len(frame) = n /\ \A j \in 1 .. n : frame[j] = bytes[first + j - 1]
      BY <2>4, <2>6 DEF n
    <3> HIDE DEF frame
    <3>8. \A j \in 1 .. Len(text) : text[j] = frame[j]
      BY <3>4, <3>5, <3>6, <3>7
    <3>9. text = frame
      BY <2>4, <3>4, <3>6, <3>7, <3>8, SeqEqual
    <3> QED
      BY <2>1, <3>9 DEF text
  <2> QED
    BY <2>2, <2>5, <2>6
<1> QED
  BY <1>4, <1>5, <1>6 DEF buff

LEMMA PacketProcessed ==
  ASSUME got' \in Seq(Byte), Len(got') <= Room, recvRealBuff = Clear, ProcPacketOf(got')
  PROVE  /\ recvRealBuff' = Clear /\ command' \in [complete : BOOLEAN, text : Seq(Byte)]
         /\ OfOnePacket' /\ Understood'
<1> DEFINE bytes == got'
           buff == RecvTempBuff(bytes)
<1>1. CASE ~CheckComplete(buff)
  <2>1. command' = Nothing /\ recvRealBuff' = Clear
    BY <1>1 DEF ProcPacketOf
  <2>2. OfOnePacket'
    BY <2>1 DEF OfOnePacket, Nothing
  <2>3. Understood'
    <3>1. ~(EndsInFrame(bytes) /\ Len(bytes) < Room /\ NUL \notin Range(bytes))
      BY <1>1, FrameFound
    <3> QED
      BY <3>1 DEF Understood, Room
  <2> QED
    BY <2>1, <2>2, <2>3 DEF Nothing
<1>2. CASE CheckComplete(buff)
  <2>1. PICK behind \in Behind :
          LET word == Characters(buff, behind)
              real == GetCommand(buff, word, recvRealBuff)
          IN /\ command' = [complete |-> TRUE, text |-> AsString(real)]
             /\ recvRealBuff' = ClearBuffer(real)
    BY <1>2 DEF ProcPacketOf
  <2> DEFINE word == Characters(buff, behind)
             text == AsString(GetCommand(buff, word, Clear))
  <2>2. command' = [complete |-> TRUE, text |-> text] /\ recvRealBuff' = Clear
    BY <2>1 DEF ClearBuffer, Clear
  <2>3. text \in Seq(Byte) /\ OfOnePacket'
    <3> DEFINE first == GetIndex(STX, word) + 1
               last == GetIndex(ETX, word) - 1
    <3>1. word \in Seq(Byte)
      <4>1. buff \in Seq(Byte) /\ Len(buff) = Room
        BY TempBuffType
      <4>2. behind \in Seq(Byte)
        BY IntakeAssumption
      <4> HIDE DEF buff
      <4>3. CASE FirstNul(buff) = 0
        BY <4>1, <4>2, <4>3, ConcatProperties DEF Characters
      <4>4. CASE FirstNul(buff) # 0
        <5>1. FirstNul(buff) \in 1 .. Len(buff)
          BY <4>1, <4>4, NulPosition
        <5>2. \A j \in 1 .. FirstNul(buff) - 1 : buff[j] \in Byte
          BY <4>1, <5>1
        <5>3. SubSeq(buff, 1, FirstNul(buff) - 1) \in Seq(Byte)
          BY <5>1, <5>2, SubSeqProperties
        <5> QED
          BY <4>4, <5>3 DEF Characters
      <4> QED
        BY <4>3, <4>4
    <3> HIDE DEF word
    <3>2. first \in Nat \ {0} /\ last \in Int
      BY <3>1, LastByte
    <3>3. text = AsString(GetData(buff, first, last, Clear))
      BY DEF GetCommand
    <3> HIDE DEF first, last
    <3>4. /\ text \in Seq(Byte)
          /\ \/ text = <<>>
             \/ \E k \in 1 .. Len(bytes) : /\ k - 1 + Len(text) <= Len(bytes)
                                           /\ text = SubSeq(bytes, k, k - 1 + Len(text))
      BY <3>2, <3>3, TextOfOnePacket
    <3>5. command'.text = text
      BY <2>2
    <3> QED
      BY <3>4, <3>5 DEF OfOnePacket
  <2>4. Understood'
    <3>1. ASSUME EndsInFrame(bytes), Len(bytes) < Room, NUL \notin Range(bytes)
          PROVE  text = LastFrame(bytes)
      BY <3>1, FrameFound
    <3> QED
      BY <2>2, <3>1 DEF Understood, Room
  <2> QED
    BY <2>2, <2>3, <2>4
<1> QED
  BY <1>1, <1>2

-----------------------------------------------------------------------------
\* The receive buffer.

Cell == Header \cup Byte

LEMMA Cells ==
  /\ \A c \in Header : c.datagram \in Seq(Byte) /\ c \notin Byte /\ DatagramOf(c) = c.datagram
                       /\ Len(c.datagram) \in Nat
  /\ \A d \in Datagrams : /\ d \in Seq(Byte) /\ [datagram |-> d] \in Header
                          /\ [datagram |-> d].datagram = d
  /\ Seq(Byte) \subseteq Seq(Cell)
<1>1. ASSUME NEW c \in Header
      PROVE  c.datagram \in Seq(Byte) /\ c \notin Byte /\ DatagramOf(c) = c.datagram
  <2>1. c.datagram \in Datagrams /\ c = [datagram |-> c.datagram]
    BY DEF Header
  <2>2. c \notin Byte
    BY <2>1, IntakeAssumption
  <2> QED
    BY <2>1, <2>2, IntakeAssumption DEF DatagramOf
<1>2. \A c \in Header : Len(c.datagram) \in Nat
  BY <1>1
<1>3. \A d \in Datagrams : /\ d \in Seq(Byte) /\ [datagram |-> d] \in Header
                           /\ [datagram |-> d].datagram = d
  BY IntakeAssumption DEF Header
<1>4. Seq(Byte) \subseteq Seq(Cell)
  BY DEF Cell
<1> QED
  BY <1>1, <1>2, <1>3, <1>4

\* recv(): the cells that are taken and those that stay.
LEMMA ReceivedAndRest ==
  ASSUME NEW S, NEW buffer \in Seq(S), NEW len \in Nat
  PROVE  LET n == Lesser(Len(buffer), len)
         IN /\ n \in 0 .. Len(buffer)
            /\ Received(buffer, len) \in Seq(S) /\ Len(Received(buffer, len)) = n
            /\ \A k \in 1 .. n : Received(buffer, len)[k] = buffer[k]
            /\ Rest(buffer, len) \in Seq(S) /\ Len(Rest(buffer, len)) = Len(buffer) - n
            /\ \A k \in 1 .. Len(buffer) - n : Rest(buffer, len)[k] = buffer[k + n]
<1> DEFINE n == Lesser(Len(buffer), len)
           front == SubSeq(buffer, 1, n)
           back == SubSeq(buffer, n + 1, Len(buffer))
<1>1. n \in 0 .. Len(buffer) /\ Len(buffer) \in Nat
  BY DEF Lesser
<1>2. Received(buffer, len) = front /\ Rest(buffer, len) = back
  BY DEF Received, Rest
<1> HIDE DEF n
<1>3. front \in Seq(S) /\ Len(front) = n /\ \A k \in 1 .. n : front[k] = buffer[k]
  <2>1. \A k \in 1 .. n : buffer[k] \in S
    BY <1>1
  <2>2. /\ front \in Seq(S) /\ Len(front) = IF 1 <= n THEN n - 1 + 1 ELSE 0
        /\ \A k \in 1 .. n - 1 + 1 : front[k] = buffer[1 + k - 1]
    BY <1>1, <2>1, SubSeqProperties
  <2> HIDE DEF front
  <2> QED
    BY <1>1, <2>2
<1>4. /\ back \in Seq(S) /\ Len(back) = Len(buffer) - n
      /\ \A k \in 1 .. Len(buffer) - n : back[k] = buffer[k + n]
  <2>1. \A k \in n + 1 .. Len(buffer) : buffer[k] \in S
    BY <1>1
  <2>2. /\ back \in Seq(S)
        /\ Len(back) = IF n + 1 <= Len(buffer) THEN Len(buffer) - (n + 1) + 1 ELSE 0
        /\ \A k \in 1 .. Len(buffer) - (n + 1) + 1 : back[k] = buffer[n + 1 + k - 1]
    BY <1>1, <2>1, SubSeqProperties
  <2>3. \A k \in 1 .. Len(buffer) - n : n + 1 + k - 1 = k + n
    BY <1>1
  <2> HIDE DEF back
  <2> QED
    BY <1>1, <2>2, <2>3
<1> QED
  BY <1>1, <1>2, <1>3, <1>4 DEF n

\* As many as there are at least.
LEMMA TakeCells ==
  ASSUME NEW buffer \in Seq(Cell), NEW len \in Nat, len <= Len(buffer)
  PROVE  /\ Received(buffer, len) \in Seq(Cell) /\ Len(Received(buffer, len)) = len
         /\ \A k \in 1 .. len : Received(buffer, len)[k] = buffer[k]
         /\ Rest(buffer, len) \in Seq(Cell) /\ Len(Rest(buffer, len)) = Len(buffer) - len
         /\ \A k \in 1 .. Len(buffer) - len : Rest(buffer, len)[k] = buffer[k + len]
<1>1. Lesser(Len(buffer), len) = len
  <2>1. Len(buffer) \in Nat
    OBVIOUS
  <2> QED
    BY <2>1 DEF Lesser
<1> DEFINE front == Received(buffer, len)
           back == Rest(buffer, len)
           n == Lesser(Len(buffer), len)
<1>2. /\ front \in Seq(Cell) /\ Len(front) = n
      /\ \A k \in 1 .. n : front[k] = buffer[k]
      /\ back \in Seq(Cell) /\ Len(back) = Len(buffer) - n
      /\ \A k \in 1 .. Len(buffer) - n : back[k] = buffer[k + n]
  <2> HIDE DEF front, back, n
  <2>1. LET m == Lesser(Len(buffer), len)
        IN /\ m \in 0 .. Len(buffer)
           /\ Received(buffer, len) \in Seq(Cell) /\ Len(Received(buffer, len)) = m
           /\ \A k \in 1 .. m : Received(buffer, len)[k] = buffer[k]
           /\ Rest(buffer, len) \in Seq(Cell) /\ Len(Rest(buffer, len)) = Len(buffer) - m
           /\ \A k \in 1 .. Len(buffer) - m : Rest(buffer, len)[k] = buffer[k + m]
    BY ReceivedAndRest
  <2> QED
    BY <2>1 DEF front, back, n
<1> HIDE DEF front, back, n
<1>3. n = len
  BY <1>1 DEF n
<1>4. /\ front \in Seq(Cell) /\ Len(front) = len
      /\ \A k \in 1 .. len : front[k] = buffer[k]
      /\ back \in Seq(Cell) /\ Len(back) = Len(buffer) - len
      /\ \A k \in 1 .. Len(buffer) - len : back[k] = buffer[k + len]
  BY <1>2, <1>3
<1> QED
  BY <1>4 DEF front, back

\* Headers stay in front of their datagrams when cells are taken.
LEMMA HeadersMove ==
  ASSUME NEW old \in Seq(Cell), NEW new \in Seq(Cell), NEW n \in Nat, n <= Len(old),
         NEW left \in Nat, NEW later \in Nat, left <= later + n,
         Framed(old, left), Len(new) = Len(old) - n,
         \A k \in 1 .. Len(old) - n : new[k] = old[k + n],
         later < Len(new) => new[later + 1] \in Header
  PROVE  Framed(new, later)
<1>1. Len(old) \in Nat
  OBVIOUS
<1>2. ASSUME NEW k \in later + 1 .. Len(new), new[k] \in Header
      PROVE  Whole(new, k)
  <2> DEFINE d == new[k].datagram
             m == k + n
  <2>1. k \in 1 .. Len(old) - n /\ k \in Nat /\ m \in left + 1 .. Len(old)
    BY <1>1, <1>2
  <2>2. new[k] = old[m]
    BY <2>1
  <2>3. d \in Seq(Byte) /\ Len(d) \in Nat
    BY <1>2, Cells
  <2>4. Whole(old, m)
    BY <1>2, <2>1, <2>2 DEF Framed
  <2>5. d = old[m].datagram
    BY <2>2
  <2> HIDE DEF d
  <2>6. /\ m + Len(d) <= Len(old)
        /\ \A j \in 1 .. Len(d) : old[m + j] = d[j]
        /\ m + Len(d) < Len(old) => old[m + Len(d) + 1] \in Header
    BY <2>4, <2>5 DEF Whole
  <2>7. k + Len(d) <= Len(old) - n
    BY <1>1, <2>1, <2>3, <2>6
  <2>8. ASSUME NEW j \in 1 .. Len(d) PROVE new[k + j] = d[j]
    <3>1. j \in Nat /\ j >= 1 /\ j <= Len(d)
      BY <2>3
    <3>2. k + j \in 1 .. Len(old) - n
      BY <1>1, <2>1, <2>3, <2>7, <3>1
    <3>3. k + j + n = m + j
      BY <2>1, <3>1
    <3> QED
      BY <2>6, <3>2, <3>3
  <2>9. ASSUME k + Len(d) < Len(old) - n PROVE new[k + Len(d) + 1] \in Header
    <3>1. k + Len(d) + 1 \in 1 .. Len(old) - n /\ k + Len(d) + 1 + n = m + Len(d) + 1
          /\ m + Len(d) < Len(old)
      BY <1>1, <2>1, <2>3, <2>9
    <3> QED
      BY <2>6, <3>1
  <2> QED
    BY <2>7, <2>8, <2>9 DEF Whole, d
<1> QED
  BY <1>2 DEF Framed

\* Nor do they move when a datagram arrives behind them.
LEMMA HeadersStay ==
  ASSUME NEW old \in Seq(Cell), NEW d \in Datagrams, NEW left \in Nat, left <= Len(old),
         Framed(old, left)
  PROVE  LET new == Append(old, [datagram |-> d]) \o d
         IN /\ new \in Seq(Cell) /\ Len(new) = Len(old) + 1 + Len(d)
            /\ \A k \in 1 .. Len(old) : new[k] = old[k]
            /\ Framed(new, left)
<1> DEFINE h == [datagram |-> d]
           mid == Append(old, h)
           new == mid \o d
<1>1. Len(old) \in Nat
  OBVIOUS
<1>2. d \in Seq(Byte) /\ d \in Seq(Cell) /\ Len(d) \in Nat /\ h \in Header /\ h \in Cell
      /\ h.datagram = d
  BY Cells DEF Cell
<1> HIDE DEF h
<1>3. /\ mid \in Seq(Cell) /\ Len(mid) = Len(old) + 1 /\ mid[Len(old) + 1] = h
      /\ \A k \in 1 .. Len(old) : mid[k] = old[k]
  BY <1>2, AppendProperties
<1> HIDE DEF mid
<1>4. /\ new \in Seq(Cell) /\ Len(new) = Len(mid) + Len(d)
      /\ \A k \in 1 .. Len(mid) + Len(d) :
           new[k] = IF k <= Len(mid) THEN mid[k] ELSE d[k - Len(mid)]
  <2>1. mid \in Seq(Cell) /\ d \in Seq(Cell)
    BY <1>2, <1>3
  <2> QED
    BY <2>1, ConcatProperties
<1> HIDE DEF new
<1>5. Len(new) = Len(old) + 1 + Len(d)
  BY <1>1, <1>2, <1>3, <1>4
<1>6. ASSUME NEW k \in 1 .. Len(old) PROVE new[k] = old[k]
  BY <1>1, <1>2, <1>3, <1>4
<1>7. new[Len(old) + 1] = h
  <2>1. Len(old) + 1 \in 1 .. Len(mid) + Len(d) /\ Len(old) + 1 <= Len(mid)
    BY <1>1, <1>2, <1>3
  <2> QED
    BY <1>3, <1>4, <2>1
<1>8. ASSUME NEW j \in 1 .. Len(d) PROVE new[Len(old) + 1 + j] = d[j]
  <2> DEFINE k == Len(old) + 1 + j
  <2>1. k \in 1 .. Len(mid) + Len(d) /\ ~(k <= Len(mid)) /\ k - Len(mid) = j
    BY <1>1, <1>2, <1>3
  <2> HIDE DEF k
  <2>2. new[k] = d[j]
    BY <1>4, <2>1
  <2> QED
    BY <2>2 DEF k
<1>9. ASSUME left < Len(new) PROVE new[left + 1] \in Header
  <2>1. CASE left < Len(old)
    <3>1. left + 1 \in 1 .. Len(old)
      BY <1>1, <2>1
    <3> QED
      BY <1>6, <2>1, <3>1 DEF Framed
  <2>2. CASE left = Len(old)
    BY <1>2, <1>7, <2>2
  <2> QED
    BY <1>1, <2>1, <2>2
<1>10. ASSUME NEW k \in left + 1 .. Len(new), new[k] \in Header
       PROVE  Whole(new, k)
  <2> DEFINE e == new[k].datagram
  <2>1. CASE k <= Len(old)
    <3>1. k \in left + 1 .. Len(old) /\ k \in 1 .. Len(old) /\ k \in Nat /\ new[k] = old[k]
      BY <1>1, <1>6, <2>1
    <3>2. Whole(old, k) /\ e = old[k].datagram /\ Len(e) \in Nat
      BY <1>10, <3>1, Cells DEF Framed
    <3> HIDE DEF e
    <3>3. /\ k + Len(e) <= Len(old)
          /\ \A j \in 1 .. Len(e) : old[k + j] = e[j]
          /\ k + Len(e) < Len(old) => old[k + Len(e) + 1] \in Header
      BY <3>2 DEF Whole
    <3>4. k + Len(e) <= Len(new)
      BY <1>1, <1>2, <1>5, <3>1, <3>2, <3>3
    <3>5. ASSUME NEW j \in 1 .. Len(e) PROVE new[k + j] = e[j]
      <4>1. k + j \in 1 .. Len(old)
        BY <1>1, <3>1, <3>2, <3>3
      <4> QED
        BY <1>6, <3>3, <4>1
    <3>6. new[k + Len(e) + 1] \in Header
      <4>1. CASE k + Len(e) < Len(old)
        <5>1. k + Len(e) + 1 \in 1 .. Len(old)
          BY <1>1, <3>1, <3>2, <4>1
        <5> QED
          BY <1>6, <3>3, <4>1, <5>1
      <4>2. CASE k + Len(e) = Len(old)
        BY <1>2, <1>7, <4>2
      <4>3. k + Len(e) <= Len(old)
        BY <3>3
      <4>4. k + Len(e) < Len(old) \/ k + Len(e) = Len(old)
        BY <1>1, <3>1, <3>2, <4>3
      <4> QED
        BY <4>1, <4>2, <4>4
    <3> QED
      BY <3>4, <3>5, <3>6 DEF Whole, e
  <2>2. CASE k = Len(old) + 1
    <3>1. e = d
      BY <1>2, <1>7, <2>2
    <3> HIDE DEF e
    <3>2. k + Len(e) = Len(new) /\ ~(k + Len(e) < Len(new))
      BY <1>1, <1>2, <1>5, <2>2, <3>1
    <3>3. \A j \in 1 .. Len(e) : new[k + j] = e[j]
      BY <1>8, <2>2, <3>1
    <3>4. k + Len(e) <= Len(new)
      BY <1>1, <1>2, <1>5, <2>2, <3>1
    <3> QED
      BY <3>2, <3>3, <3>4 DEF Whole, e
  <2>3. CASE k > Len(old) + 1
    <3> DEFINE j == k - (Len(old) + 1)
    <3>1. j \in 1 .. Len(d) /\ k = Len(old) + 1 + j
      BY <1>1, <1>2, <1>5, <2>3
    <3> HIDE DEF j
    <3>2. new[k] = d[j] /\ d[j] \in Byte
      BY <1>2, <1>8, <3>1
    <3> QED
      BY <1>10, <3>2, Cells
  <2> QED
    BY <1>1, <2>1, <2>2, <2>3
<1>11. Framed(new, left)
  BY <1>9, <1>10 DEF Framed
<1> QED
  BY <1>4, <1>5, <1>6, <1>11 DEF new, mid, h

-----------------------------------------------------------------------------
\* The steps.

LEMMA DatagramArrivesInv ==
  ASSUME IntakeIInv, NEW d \in Datagrams, DatagramArrives(d)
  PROVE  IntakeIInv'
<1> DEFINE new == Append(rx, [datagram |-> d]) \o d
<1>1. /\ rx' = new
      /\ UNCHANGED <<pc, stream, remaining, recvRealBuff, current, got, command>>
  BY DEF DatagramArrives
<1>2. rx \in Seq(Cell) /\ Len(rx) \in Nat /\ remaining \in Nat /\ remaining <= Len(rx)
  BY DEF IntakeIInv, IntakeTypes, FrontInv, Cell
<1>3. /\ new \in Seq(Cell) /\ Len(new) = Len(rx) + 1 + Len(d)
      /\ \A k \in 1 .. Len(rx) : new[k] = rx[k]
      /\ Framed(new, remaining)
  BY <1>2, HeadersStay DEF IntakeIInv, HeadersInv
<1> HIDE DEF new
<1>4. IntakeTypes'
  BY <1>1, <1>3 DEF IntakeIInv, IntakeTypes, Cell
<1>5. FrontInv'
  <2>1. Len(d) \in Nat
    BY Cells
  <2>2. remaining <= Len(new) /\ \A k \in 1 .. remaining : new[k] = rx[k]
    BY <1>2, <1>3, <2>1
  <2> QED
    BY <1>1, <2>2 DEF IntakeIInv, FrontInv
<1>6. HeadersInv'
  BY <1>1, <1>3 DEF HeadersInv
<1>7. DatagramInHand' /\ Understood' /\ OfOnePacket'
  BY <1>1 DEF IntakeIInv, DatagramInHand, Understood, OfOnePacket
<1> QED
  BY <1>4, <1>5, <1>6, <1>7 DEF IntakeIInv

\* A piece of the stream changes nothing but the stream.
LEMMA SegmentArrivesInv ==
  ASSUME IntakeIInv, NEW s \in Segments, SegmentArrives(s)
  PROVE  IntakeIInv'
<1>1. /\ stream' = stream \o s
      /\ UNCHANGED <<pc, rx, remaining, recvRealBuff, current, got, command>>
  BY DEF SegmentArrives
<1>2. stream \in Seq(Byte) /\ s \in Seq(Byte)
  BY IntakeAssumption DEF IntakeIInv, IntakeTypes
<1>3. stream \o s \in Seq(Byte)
  BY <1>2, ConcatProperties
<1> QED
  BY <1>1, <1>3
  DEF IntakeIInv, IntakeTypes, FrontInv, HeadersInv, DatagramInHand, Understood, OfOnePacket

LEMMA NothingRead ==
  ReadsNothing => /\ Understood' /\ OfOnePacket' /\ got' \in Seq(Byte)
                  /\ command' \in [complete : BOOLEAN, text : Seq(Byte)]
<1> SUFFICES ASSUME ReadsNothing
             PROVE  /\ Understood' /\ OfOnePacket' /\ got' \in Seq(Byte)
                    /\ command' \in [complete : BOOLEAN, text : Seq(Byte)]
  OBVIOUS
<1>1. got' = <<>> /\ command' = Nothing
  BY DEF ReadsNothing
<1>2. ~EndsInFrame(<<>>)
  BY DEF EndsInFrame
<1>3. Understood'
  BY <1>1, <1>2 DEF Understood
<1>4. OfOnePacket'
  BY <1>1 DEF OfOnePacket, Nothing
<1>5. command' \in [complete : BOOLEAN, text : Seq(Byte)]
  BY <1>1 DEF Nothing
<1> QED
  BY <1>1, <1>3, <1>4, <1>5

LEMMA FlushInv == IntakeIInv /\ Flush => IntakeIInv'
<1> SUFFICES ASSUME IntakeIInv, Flush PROVE IntakeIInv'
  OBVIOUS
<1> DEFINE new == Rest(rx, 1)
<1>1. /\ pc = "udp" /\ remaining > 0 /\ rx' = new
      /\ remaining' = remaining - Len(Received(rx, 1)) /\ ReadsNothing
      /\ UNCHANGED <<pc, stream, recvRealBuff, current>>
  BY DEF Flush
<1>2. /\ rx \in Seq(Cell) /\ Len(rx) \in Nat /\ remaining \in Nat /\ remaining <= Len(rx)
      /\ \A k \in 1 .. remaining : rx[k] \in Byte
  BY DEF IntakeIInv, IntakeTypes, FrontInv, Cell
<1>3. 1 \in Nat /\ 1 <= Len(rx)
  <2>1. remaining > 0
    BY <1>1
  <2> QED
    BY <1>2, <2>1
<1>4. /\ Len(Received(rx, 1)) = 1 /\ new \in Seq(Cell) /\ Len(new) = Len(rx) - 1
      /\ \A k \in 1 .. Len(rx) - 1 : new[k] = rx[k + 1]
  BY <1>2, <1>3, TakeCells
<1> HIDE DEF new
<1>5. remaining' = remaining - 1
  BY <1>1, <1>4
<1>6. Framed(new, remaining - 1)
  <2>1. ASSUME remaining - 1 < Len(new) PROVE new[remaining - 1 + 1] \in Header
    <3>1. remaining \in 1 .. Len(rx) - 1 /\ remaining - 1 + 1 = remaining /\ remaining < Len(rx)
      BY <1>1, <1>2, <1>4, <2>1
    <3>2. new[remaining] = rx[remaining + 1]
      BY <1>4, <3>1
    <3> QED
      BY <3>1, <3>2 DEF IntakeIInv, HeadersInv, Framed
  <2>2. remaining - 1 \in Nat /\ remaining <= remaining - 1 + 1 /\ 1 <= Len(rx)
    BY <1>1, <1>2
  <2>3. Framed(rx, remaining)
    BY DEF IntakeIInv, HeadersInv
  <2> QED
    BY <1>2, <1>4, <2>1, <2>2, <2>3, HeadersMove
<1>7. IntakeTypes'
  BY <1>1, <1>2, <1>4, <1>5, NothingRead DEF IntakeIInv, IntakeTypes, Cell
<1>8. FrontInv'
  <2>1. remaining - 1 <= Len(new) /\ \A k \in 1 .. remaining - 1 : new[k] \in Byte
    BY <1>1, <1>2, <1>4
  <2> QED
    BY <1>1, <1>5, <2>1 DEF FrontInv
<1>9. HeadersInv' /\ DatagramInHand'
  BY <1>1, <1>5, <1>6 DEF HeadersInv, DatagramInHand
<1> QED
  BY <1>1, <1>7, <1>8, <1>9, NothingRead DEF IntakeIInv

\* What parsePacket takes for a header is one.
LEMMA ParsePacketInv == IntakeIInv /\ ParsePacket => IntakeIInv'
<1> SUFFICES ASSUME IntakeIInv, ParsePacket PROVE IntakeIInv'
  OBVIOUS
<1> DEFINE new == Rest(rx, 1)
           d == rx[1].datagram
<1>1. /\ pc = "udp" /\ remaining = 0 /\ rx # <<>> /\ rx' = new
      /\ current' = DatagramOf(Head(rx)) /\ remaining' = Len(current')
      /\ pc' = IF remaining' = 0 THEN "tcp" ELSE "read"
      /\ ReadsNothing /\ UNCHANGED <<stream, recvRealBuff>>
  BY DEF ParsePacket, Flushed
<1>2. rx \in Seq(Cell) /\ Len(rx) \in Nat
  BY DEF IntakeIInv, IntakeTypes, Cell
<1>3. Len(rx) > 0 /\ Head(rx) = rx[1]
  BY <1>1, <1>2
<1>4. rx[1] \in Header /\ Whole(rx, 1)
  <2>1. 1 \in remaining + 1 .. Len(rx) /\ remaining < Len(rx) /\ remaining + 1 = 1
    BY <1>1, <1>2, <1>3
  <2> QED
    BY <2>1 DEF IntakeIInv, HeadersInv, Framed
<1>5. current' = d /\ d \in Seq(Byte) /\ Len(d) \in Nat /\ remaining' = Len(d)
  BY <1>1, <1>3, <1>4, Cells
<1>6. /\ 1 + Len(d) <= Len(rx)
      /\ \A j \in 1 .. Len(d) : rx[1 + j] = d[j]
      /\ 1 + Len(d) < Len(rx) => rx[1 + Len(d) + 1] \in Header
  BY <1>4 DEF Whole
<1>7. 1 \in Nat /\ 1 <= Len(rx)
  BY <1>2, <1>3
<1>8. /\ new \in Seq(Cell) /\ Len(new) = Len(rx) - 1
      /\ \A k \in 1 .. Len(rx) - 1 : new[k] = rx[k + 1]
  BY <1>2, <1>7, TakeCells
<1> HIDE DEF new, d
<1>9. Framed(new, Len(d))
  <2>1. ASSUME Len(d) < Len(new) PROVE new[Len(d) + 1] \in Header
    <3>1. Len(d) + 1 \in 1 .. Len(rx) - 1 /\ Len(d) + 1 + 1 = 1 + Len(d) + 1
          /\ 1 + Len(d) < Len(rx)
      BY <1>2, <1>5, <1>8, <2>1
    <3>2. new[Len(d) + 1] = rx[Len(d) + 1 + 1]
      BY <1>8, <3>1
    <3> QED
      BY <1>6, <3>1, <3>2
  <2>2. 0 <= Len(d) + 1 /\ 1 <= Len(rx)
    BY <1>2, <1>3, <1>5
  <2>3. Framed(rx, 0)
    BY <1>1 DEF IntakeIInv, HeadersInv
  <2> QED
    BY <1>2, <1>5, <1>8, <2>1, <2>2, <2>3, HeadersMove
<1>10. IntakeTypes'
  BY <1>1, <1>5, <1>8, NothingRead DEF IntakeIInv, IntakeTypes, Cell
<1>11. FrontInv'
  <2>1. Len(d) <= Len(new)
    BY <1>2, <1>5, <1>6, <1>8
  <2>2. ASSUME NEW k \in 1 .. Len(d) PROVE new[k] = d[k] /\ new[k] \in Byte
    <3>1. k \in 1 .. Len(rx) - 1 /\ k + 1 = 1 + k
      BY <1>2, <1>5, <1>6
    <3>2. new[k] = rx[1 + k]
      BY <1>8, <3>1
    <3> QED
      BY <1>5, <1>6, <3>2
  <2> QED
    BY <1>1, <1>5, <2>1, <2>2 DEF FrontInv
<1>12. HeadersInv' /\ DatagramInHand'
  BY <1>1, <1>5, <1>9 DEF HeadersInv, DatagramInHand, ReadsNothing
<1> QED
  BY <1>1, <1>10, <1>11, <1>12, NothingRead DEF IntakeIInv

\* There is nothing to read.
LEMMA NoReadInv == IntakeIInv /\ (NoPacket \/ NoStream) => IntakeIInv'
<1> SUFFICES ASSUME IntakeIInv, NoPacket \/ NoStream PROVE IntakeIInv'
  OBVIOUS
<1>1. /\ pc' \in {"udp", "tcp"} /\ ReadsNothing
      /\ UNCHANGED <<rx, stream, remaining, recvRealBuff, current>>
  BY DEF NoPacket, NoStream, chip
<1>2. IntakeTypes'
  BY <1>1, NothingRead DEF IntakeIInv, IntakeTypes
<1>3. FrontInv' /\ HeadersInv'
  BY <1>1 DEF IntakeIInv, FrontInv, HeadersInv
<1>4. DatagramInHand'
  BY <1>1 DEF ReadsNothing, DatagramInHand
<1> QED
  BY <1>1, <1>2, <1>3, <1>4, NothingRead DEF IntakeIInv

LEMMA ReadUdpInv == IntakeIInv /\ ReadUdp => IntakeIInv'
<1> SUFFICES ASSUME IntakeIInv, ReadUdp PROVE IntakeIInv'
  OBVIOUS
<1> DEFINE n == Asked
           new == Rest(rx, n)
           bytes == Received(rx, n)
           begin == Received(current, Room)
<1>1. /\ pc = "read" /\ got' = bytes /\ rx' = new
      /\ remaining' = remaining - Len(got')
      /\ ProcPacketOf(got') /\ pc' = "tcp" /\ UNCHANGED <<stream, current>>
  BY DEF ReadUdp, Left
<1>2. /\ rx \in Seq(Cell) /\ Len(rx) \in Nat /\ remaining \in Nat /\ remaining <= Len(rx)
      /\ current \in Seq(Byte) /\ remaining = Len(current)
      /\ \A k \in 1 .. remaining : rx[k] = current[k] /\ rx[k] \in Byte
  BY <1>1 DEF IntakeIInv, IntakeTypes, FrontInv, Cell
<1>3. /\ n \in Nat /\ n <= remaining /\ n <= Len(rx) /\ n <= Room
      /\ Lesser(Len(current), Room) = n
  BY <1>2, Bytes DEF Asked, Lesser, Room
<1> HIDE DEF n
<1>4. /\ bytes \in Seq(Cell) /\ Len(bytes) = n /\ \A k \in 1 .. n : bytes[k] = rx[k]
      /\ new \in Seq(Cell) /\ Len(new) = Len(rx) - n
      /\ \A k \in 1 .. Len(rx) - n : new[k] = rx[k + n]
  BY <1>2, <1>3, TakeCells
<1>5. begin \in Seq(Byte) /\ Len(begin) = n /\ \A k \in 1 .. n : begin[k] = current[k]
  <2>1. Room \in Nat
    BY Bytes
  <2> QED
    BY <1>2, <1>3, <2>1, ReceivedAndRest
<1> HIDE DEF new, bytes, begin
<1>6. bytes = begin
  <2>1. begin \in Seq(Cell)
    BY <1>5, Cells
  <2>2. ASSUME NEW k \in 1 .. Len(bytes) PROVE bytes[k] = begin[k]
    <3>1. k \in 1 .. n /\ k \in 1 .. remaining
      BY <1>2, <1>3, <1>4
    <3>2. bytes[k] = rx[k] /\ begin[k] = current[k]
      BY <1>4, <1>5, <3>1
    <3>3. rx[k] = current[k]
      BY <1>2, <3>1
    <3> QED
      BY <3>2, <3>3
  <2> QED
    BY <1>4, <1>5, <2>1, <2>2, SeqEqual
<1>7. remaining' = remaining - n
  BY <1>1, <1>4
<1>8. /\ recvRealBuff' = Clear /\ command' \in [complete : BOOLEAN, text : Seq(Byte)]
      /\ OfOnePacket' /\ Understood'
  <2>1. got' \in Seq(Byte) /\ Len(got') <= Room
    BY <1>1, <1>3, <1>5, <1>6
  <2>2. recvRealBuff = Clear
    BY DEF IntakeIInv, IntakeTypes, Clear
  <2> QED
    BY <1>1, <2>1, <2>2, PacketProcessed
<1>9. remaining - n \in Nat
  BY <1>2, <1>3
<1>10. IntakeTypes'
  BY <1>1, <1>4, <1>5, <1>6, <1>7, <1>8, <1>9 DEF IntakeIInv, IntakeTypes, Clear, Cell
<1>11. FrontInv'
  <2>1. remaining - n <= Len(new)
    BY <1>2, <1>3, <1>4
  <2>2. ASSUME NEW k \in 1 .. remaining - n PROVE new[k] \in Byte
    <3>1. k \in 1 .. Len(rx) - n /\ k + n \in 1 .. remaining
      BY <1>2, <1>3
    <3>2. new[k] = rx[k + n]
      BY <1>4, <3>1
    <3> QED
      BY <1>2, <3>1, <3>2
  <2> QED
    BY <1>1, <1>7, <2>1, <2>2 DEF FrontInv
<1>12. Framed(new, remaining - n)
  <2>1. ASSUME remaining - n < Len(new) PROVE new[remaining - n + 1] \in Header
    <3>1. remaining - n + 1 \in 1 .. Len(rx) - n /\ remaining - n + 1 + n = remaining + 1
          /\ remaining < Len(rx)
      BY <1>2, <1>3, <1>4, <2>1
    <3>2. new[remaining - n + 1] = rx[remaining - n + 1 + n]
      BY <1>4, <3>1
    <3> QED
      BY <3>1, <3>2 DEF IntakeIInv, HeadersInv, Framed
  <2>2. remaining <= remaining - n + n /\ n <= Len(rx)
    BY <1>2, <1>3
  <2>3. Framed(rx, remaining)
    BY DEF IntakeIInv, HeadersInv
  <2> QED
    BY <1>2, <1>3, <1>4, <1>9, <2>1, <2>2, <2>3, HeadersMove
<1>13. HeadersInv'
  BY <1>1, <1>7, <1>12 DEF HeadersInv
<1>14. DatagramInHand'
  BY <1>1, <1>6 DEF DatagramInHand, begin
<1> QED
  BY <1>8, <1>10, <1>11, <1>13, <1>14 DEF IntakeIInv

LEMMA ReadTcpInv == IntakeIInv /\ ReadTcp => IntakeIInv'
<1> SUFFICES ASSUME IntakeIInv, ReadTcp PROVE IntakeIInv'
  OBVIOUS
<1>1. /\ got' = Received(stream, Room) /\ stream' = Rest(stream, Room)
      /\ ProcPacketOf(got') /\ pc' = "udp" /\ UNCHANGED <<rx, remaining, current>>
  BY DEF ReadTcp, Room
<1>2. stream \in Seq(Byte) /\ Room \in Nat /\ Len(stream) \in Nat
  BY Bytes DEF IntakeIInv, IntakeTypes
<1>3. Lesser(Len(stream), Room) <= Room
  BY <1>2 DEF Lesser
<1>4. got' \in Seq(Byte) /\ Len(got') <= Room /\ stream' \in Seq(Byte)
  BY <1>1, <1>2, <1>3, ReceivedAndRest
<1>5. /\ recvRealBuff' = Clear /\ command' \in [complete : BOOLEAN, text : Seq(Byte)]
      /\ OfOnePacket' /\ Understood'
  <2>1. recvRealBuff = Clear
    BY DEF IntakeIInv, IntakeTypes, Clear
  <2> QED
    BY <1>1, <1>4, <2>1, PacketProcessed
<1>6. IntakeTypes'
  BY <1>1, <1>4, <1>5 DEF IntakeIInv, IntakeTypes, Clear
<1>7. FrontInv' /\ HeadersInv' /\ DatagramInHand'
  BY <1>1 DEF IntakeIInv, FrontInv, HeadersInv, DatagramInHand
<1> QED
  BY <1>5, <1>6, <1>7 DEF IntakeIInv

-----------------------------------------------------------------------------
\* Theorems.

LEMMA IntakeInitInv == IntakeInit => IntakeIInv
<1> SUFFICES ASSUME IntakeInit PROVE IntakeIInv
  OBVIOUS
<1>1. IntakeTypes
  BY DEF IntakeInit, IntakeTypes, Nothing
<1>2. FrontInv /\ HeadersInv /\ DatagramInHand
  BY DEF IntakeInit, FrontInv, HeadersInv, Framed, DatagramInHand
<1>3. Understood /\ OfOnePacket
  <2>1. ~EndsInFrame(<<>>)
    BY DEF EndsInFrame
  <2> QED
    BY <2>1 DEF IntakeInit, Understood, OfOnePacket, Nothing
<1> QED
  BY <1>1, <1>2, <1>3 DEF IntakeIInv

LEMMA IntakeStepInv == IntakeIInv /\ [IntakeNext]_intakeVars => IntakeIInv'
<1> SUFFICES ASSUME IntakeIInv, [IntakeNext]_intakeVars PROVE IntakeIInv'
  OBVIOUS
<1>1. CASE \E d \in Datagrams : DatagramArrives(d)
  BY <1>1, DatagramArrivesInv
<1>2. CASE \E s \in Segments : SegmentArrives(s)
  BY <1>2, SegmentArrivesInv
<1>3. CASE Flush
  BY <1>3, FlushInv
<1>4. CASE ParsePacket
  BY <1>4, ParsePacketInv
<1>5. CASE NoPacket \/ NoStream
  BY <1>5, NoReadInv
<1>6. CASE ReadUdp
  BY <1>6, ReadUdpInv
<1>7. CASE ReadTcp
  BY <1>7, ReadTcpInv
<1>8. CASE UNCHANGED intakeVars
  BY <1>8 DEF intakeVars, chip, IntakeIInv, IntakeTypes, FrontInv, HeadersInv, DatagramInHand,
              Understood, OfOnePacket
<1> QED
  BY <1>1, <1>2, <1>3, <1>4, <1>5, <1>6, <1>7, <1>8 DEF IntakeNext, IntakeLoop, Network

LEMMA IntakeInvariant == IntakeSpec => []IntakeIInv
<1> QED
  BY IntakeInitInv, IntakeStepInv, PTL DEF IntakeSpec

\* The types of the intake: what is read, kept and understood are sequences of
\* bytes, and the buffer of the command is clear between two packets.
THEOREM IntakeTypeCorrect == IntakeSpec => []IntakeTypeOK
<1>1. IntakeIInv => IntakeTypeOK
  <2>1. IntakeTypes => recvRealBuff \in [Index -> Byte]
    BY DEF IntakeTypes, Byte
  <2> QED
    BY <2>1 DEF IntakeIInv, IntakeTypes, IntakeTypeOK
<1> QED
  BY <1>1, IntakeInvariant, PTL

\* A read that ends in a frame is understood as the text of that frame,
\* whatever was read before and however it was cut.
THEOREM FramesUnderstood == IntakeSpec => []Understood
<1>1. IntakeIInv => Understood
  BY DEF IntakeIInv
<1> QED
  BY <1>1, IntakeInvariant, PTL

\* A command is never put together from two packets, even when the buffer was
\* full and strlen ran on behind it.
THEOREM CommandOfOnePacket == IntakeSpec => []OfOnePacket
<1>1. IntakeIInv => OfOnePacket
  BY DEF IntakeIInv
<1> QED
  BY <1>1, IntakeInvariant, PTL

\* However datagrams arrive between two steps, parsePacket, read and flush find
\* their borders: what is in hand after a pass is the beginning of the datagram
\* whose header was read last, or nothing.
THEOREM BordersKept == IntakeSpec => []DatagramInHand
<1>1. IntakeIInv => DatagramInHand
  BY DEF IntakeIInv
<1> QED
  BY <1>1, IntakeInvariant, PTL

-----------------------------------------------------------------------------
\* CommandReply.

\* While a reply has tries left its timer tells the time of the last copy, or
\* carries the time before the rollover in its offset.
Fresh ==
  /\ timer.start = Wrap(now - since)
  /\ timer.offset = 0

Carried ==
  /\ timer.start = 0
  /\ now < since
  /\ timer.offset = Wrap(since - 2 - now)

RunInv == (Trying /\ since < SinceCap) => (Fresh \/ Carried)

\* The try was not overdue at the last look.
PromptInv ==
  (Trying /\ ~late) =>
    /\ since <= ReplyPeriod + 2 + gap
    /\ timer.offset <= ReplyPeriod \/ timer.offset = MillisRange - 1

\* Tries and copies go together; GETDEVICEINFO starts the count at 2.
CountInv ==
  ~ackR_F =>
    /\ ReplyReqCount = copies
    /\ \/ nowACKSendCount = copies
       \/ nowACKSendCount = copies + 2 /\ copies <= 1

IInv == TypeOK /\ RunInv /\ PromptInv /\ CountInv

-----------------------------------------------------------------------------
\* Type correctness and the counters.

LEMMA InitInv == Init => IInv
<1> SUFFICES ASSUME Init PROVE IInv
  OBVIOUS
<1> USE MillisRangeAssumption, CommandReplyAssumption
<1>1. /\ now \in Ticks /\ timer \in Timer
      /\ nowACKSendCount \in 0 .. MaxACKSendCount
      /\ ReplyReqCount \in 0 .. ReplyMaxReqCount - 1
      /\ gap \in 0 .. MaxGap /\ since \in 0 .. SinceCap
      /\ copies \in 0 .. MaxACKSendCount
  BY DEF Init, Ticks, Timer, MaxACKSendCount, ReplyMaxReqCount
<1>2. TypeOK
  BY <1>1, Zenon DEF Init, TypeOK
<1>3. RunInv /\ PromptInv /\ CountInv
  BY DEF Init, RunInv, PromptInv, CountInv, Trying
<1> QED
  BY <1>2, <1>3 DEF IInv

\* The types of the variables ProcPacket changes.
ReplyType ==
  /\ ackR_F \in BOOLEAN
  /\ nowACKSendCount \in 0 .. MaxACKSendCount
  /\ ReplyReqCount \in 0 .. ReplyMaxReqCount - 1
  /\ timer \in Timer
  /\ since \in 0 .. SinceCap
  /\ late \in BOOLEAN
  /\ asked \in Kind \cup {"NONE"}
  /\ copies \in 0 .. MaxACKSendCount

\* What ProcPacket does to the reply.
LEMMA ProcPacketInv ==
  ASSUME IInv, NEW m \in Message, ProcPacket(m),
         UNCHANGED <<now, gap>>
  PROVE  ReplyType' /\ RunInv' /\ PromptInv' /\ CountInv'
<1> USE MillisRangeAssumption, CommandReplyAssumption
        DEF IInv, TypeOK, MaxACKSendCount, ReplyMaxReqCount
<1>1. CASE m \in Kind /\ TakeRequest(m)
  <2>1. timer' \in Timer
    BY <1>1, MillisRangeAssumption DEF TakeRequest, InitTimer, Timer, Ticks, Wrap
  <2>2. RunInv'
    BY <1>1 DEF TakeRequest, InitTimer, RunInv, Fresh
  <2>3. PromptInv'
    BY <1>1 DEF TakeRequest, InitTimer, PromptInv
  <2>4. CountInv'
    BY <1>1 DEF TakeRequest, FirstCount, CountInv
  <2>5. ReplyType'
    <3>1. FirstCount(m) \in 0 .. MaxACKSendCount
      BY DEF FirstCount
    <3>2. 0 \in 0 .. 2 /\ 0 \in 0 .. 3 /\ ReplyPeriod \in 0 .. SinceCap
          /\ ReplyMaxReqCount - 1 = 2
      OBVIOUS
    <3> QED
      BY <1>1, <2>1, <3>1, <3>2, Zenon DEF TakeRequest, ReplyType
  <2> QED
    BY <2>2, <2>3, <2>4, <2>5
<1>2. CASE m = "ACK_R" /\ TakeAck
  BY <1>2 DEF TakeAck, Acked, ReplyType, RunInv, PromptInv, CountInv, Trying
<1>3. CASE m = "JUNK" /\ UNCHANGED reply
  BY <1>3 DEF reply, ReplyType, RunInv, PromptInv, CountInv, Trying, Fresh, Carried
<1> QED
  BY <1>1, <1>2, <1>3 DEF ProcPacket

LEMMA ReceiveInv == IInv /\ Receive => IInv'
<1> SUFFICES ASSUME IInv, Receive PROVE IInv'
  OBVIOUS
<1>1. ASSUME NEW h \in Hosts, NEW m \in Message, UdpPacket(h, m)
      PROVE  IInv'
  BY <1>1, ProcPacketInv DEF UdpPacket, ReplyType, IInv, TypeOK, Protocol
<1>2. ASSUME NEW h \in Hosts, NEW m \in Message, TcpData(h, m)
      PROVE  IInv'
  BY <1>2, ProcPacketInv DEF TcpData, ReplyType, IInv, TypeOK, Protocol
<1>3. ASSUME NEW h \in Hosts, UdpEmpty(h)
      PROVE  IInv'
  BY <1>3 DEF UdpEmpty, IInv, TypeOK, reply, RunInv, PromptInv, CountInv,
              Trying, Fresh, Carried
<1> QED
  BY <1>1, <1>2, <1>3 DEF Receive
-----------------------------------------------------------------------------
\* The clock and the reply part of loop().

LEMMA TickInv == IInv /\ Tick => IInv'
<1> SUFFICES ASSUME IInv, Tick PROVE IInv'
  OBVIOUS
<1> USE MillisRangeAssumption, CommandReplyAssumption DEF IInv
<1>1. /\ now \in Ticks /\ now' = Wrap(now + 1) /\ since \in 0 .. SinceCap
      /\ timer \in Timer /\ UNCHANGED <<timer, ackR_F, ReplyReqCount, late>>
      /\ gap \in 0 .. MaxGap /\ gap < MaxGap /\ gap' = gap + 1
      /\ since' = IF Trying /\ since < SinceCap THEN since + 1 ELSE since
  BY DEF Tick, TypeOK
<1>2. TypeOK'
  <2>1. now' \in Ticks
    BY <1>1, MillisRangeAssumption DEF Ticks, Wrap
  <2>2. gap' \in 0 .. MaxGap /\ since' \in 0 .. SinceCap
    BY <1>1
  <2> QED
    BY <2>1, <2>2, Zenon DEF Tick, TypeOK
<1>3. RunInv'
  <2> SUFFICES ASSUME Trying', since' < SinceCap
               PROVE  (Fresh \/ Carried)'
    BY DEF RunInv
  <2>1. Trying /\ since < SinceCap /\ since' = since + 1
    BY <1>1 DEF Trying
  <2>2. CASE Fresh
    <3>1. Wrap(now' - since') = Wrap(now - since)
      BY <1>1, <2>1 DEF Wrap, Ticks
    <3> QED
      BY <1>1, <2>2, <3>1 DEF Fresh
  <2>3. CASE Carried
    <3>1. now' = now + 1
      BY <1>1, <2>1, <2>3 DEF Carried, Wrap, Ticks
    <3> QED
      BY <1>1, <2>1, <2>3, <3>1 DEF Carried, Ticks
  <2> QED
    BY <2>1, <2>2, <2>3 DEF RunInv
<1>4. PromptInv'
  BY <1>1 DEF PromptInv, Trying
<1>5. CountInv'
  BY DEF Tick, CountInv
<1> QED
  BY <1>2, <1>3, <1>4, <1>5

\* A look at a reply that is not due leaves its try at most a period and 2 ms old.
LEMMA WaitInv == IInv /\ Wait => IInv'
<1> SUFFICES ASSUME IInv, Wait PROVE IInv'
  OBVIOUS
<1> USE MillisRangeAssumption, CommandReplyAssumption DEF IInv
<1>1. /\ now \in Ticks /\ timer \in Timer /\ since \in 0 .. SinceCap /\ gap' = 0
      /\ UNCHANGED <<now, since, ackR_F, ReplyReqCount>>
      /\ Trying /\ ~Expired(now, Rolled(now, timer), ReplyPeriod)
      /\ timer' = Rolled(now, timer)
      /\ late' = IF now < timer.start THEN since > ReplyPeriod + 2 ELSE late
  BY DEF Wait, LookDone, Due, TypeOK
<1>2. TypeOK'
  <2>1. timer' \in Timer
    BY <1>1, MillisRangeAssumption DEF Rolled, Timer, Ticks, Wrap
  <2>2. (since > ReplyPeriod + 2) \in BOOLEAN
    OBVIOUS
  <2>3. late' \in BOOLEAN
    BY <1>1, <2>2, Zenon DEF TypeOK
  <2>4. 0 \in 0 .. MaxGap
    OBVIOUS
  <2> QED
    BY <2>1, <2>3, <2>4, Zenon DEF Wait, LookDone, TypeOK
<1>3. CountInv'
  BY DEF Wait, CountInv
<1>4. CASE now < timer.start
  <2>1. since < SinceCap => /\ Fresh
                            /\ timer'.start = 0 /\ now < since
                            /\ timer'.offset = Wrap(since - 2 - now)
    <3> SUFFICES ASSUME since < SinceCap
                 PROVE  /\ Fresh
                        /\ timer'.start = 0 /\ now < since
                        /\ timer'.offset = Wrap(since - 2 - now)
      OBVIOUS
    <3>1. Fresh
      BY <1>1, <1>4 DEF RunInv, Carried, Ticks
    <3> QED
      BY <1>1, <1>4, <3>1, MillisRangeAssumption DEF Fresh, Rolled, Timer, Ticks, Wrap
  <2>2. RunInv'
    BY <1>1, <2>1 DEF RunInv, Carried
  <2>3. ASSUME ~late' PROVE PromptInv'
    <3>1. ~(since > ReplyPeriod + 2)
      BY <1>1, <1>4, <2>3
    <3> QED
      BY <1>1, <2>1, <3>1 DEF PromptInv, Wrap, Ticks
  <2> QED
    BY <1>2, <1>3, <2>2, <2>3 DEF PromptInv
<1>5. CASE ~(now < timer.start)
  <2>1. timer' = timer /\ (late' <=> late)
    BY <1>1, <1>5 DEF Rolled
  <2>2. RunInv'
    BY <1>1, <2>1 DEF RunInv, Fresh, Carried, Trying
  <2>3. ASSUME ~late' PROVE PromptInv'
    <3>1. /\ since <= ReplyPeriod + 2 + gap /\ gap \in 0 .. MaxGap
          /\ timer.offset <= ReplyPeriod \/ timer.offset = MillisRange - 1
          /\ ~Expired(now, timer, ReplyPeriod)
      BY <1>1, <2>1, <2>3 DEF PromptInv, TypeOK
    <3>2. since < SinceCap
      BY <1>1, <3>1
    <3>3. since <= ReplyPeriod + 2
      <4>1. CASE Fresh
        <5>1. Wrap(now - timer.start) = since
          BY <1>1, <1>5, <3>2, <4>1, MillisRangeAssumption
             DEF Fresh, Expired, Timer, Ticks, Wrap
        <5> QED
          BY <1>1, <3>1, <4>1, <5>1 DEF Fresh, Expired, Wrap
      <4>2. CASE Carried
        BY <1>1, <3>1, <3>2, <4>2, MillisRangeAssumption
           DEF Carried, Expired, Timer, Ticks, Wrap
      <4> QED
        BY <1>1, <3>2, <4>1, <4>2 DEF RunInv
    <3> QED
      BY <1>1, <2>1, <3>1, <3>3 DEF PromptInv
  <2> QED
    BY <1>2, <1>3, <2>2, <2>3 DEF PromptInv
<1> QED
  BY <1>4, <1>5

LEMMA TryInv == IInv /\ (SendCopy \/ GiveUp) => IInv'
<1> SUFFICES ASSUME IInv, SendCopy \/ GiveUp PROVE IInv'
  OBVIOUS
<1> USE MillisRangeAssumption, CommandReplyAssumption
        DEF IInv, MaxACKSendCount, ReplyMaxReqCount
<1>1. /\ Try /\ now \in Ticks /\ now' = now /\ gap' = 0 /\ since' = 0
      /\ timer' = [start |-> now, offset |-> 0]
      /\ ReplyReqCount \in 0 .. 1 /\ ReplyReqCount' = ReplyReqCount + 1
      /\ copies \in 0 .. 3 /\ nowACKSendCount \in 0 .. 3
      /\ ~ackR_F
  BY DEF SendCopy, GiveUp, Try, LookDone, Trying, TypeOK, Restarted
<1>2. timer' \in Timer
  BY <1>1 DEF Timer, Ticks
<1>3. RunInv' /\ PromptInv'
  BY <1>1 DEF RunInv, PromptInv, Fresh, Wrap, Ticks
<1>4. CASE SendCopy
  <2>1. /\ nowACKSendCount' \in 0 .. 3
        /\ copies' \in 0 .. 3
    BY <1>1, <1>4 DEF SendCopy, CountInv
  <2>2. CountInv'
    BY <1>1, <1>4 DEF SendCopy, CountInv
  <2>3. gap' \in 0 .. MaxGap /\ since' \in 0 .. SinceCap /\ ReplyReqCount' \in 0 .. 3 - 1
    BY <1>1
  <2>4. TypeOK'
    BY <1>2, <1>4, <2>1, <2>3, Zenon DEF SendCopy, Try, LookDone, TypeOK
  <2> QED
    BY <1>3, <2>2, <2>4
<1>5. CASE GiveUp
  <2>1. nowACKSendCount' \in 0 .. 3
    BY <1>5 DEF GiveUp
  <2>2. CountInv'
    BY <1>5 DEF GiveUp, CountInv
  <2>3. gap' \in 0 .. MaxGap /\ since' \in 0 .. SinceCap /\ ReplyReqCount' \in 0 .. 3 - 1
    BY <1>1
  <2>4. TypeOK'
    BY <1>2, <1>5, <2>1, <2>3, Zenon DEF GiveUp, Try, LookDone, TypeOK
  <2> QED
    BY <1>3, <2>2, <2>4
<1> QED
  BY <1>4, <1>5

LEMMA OtherInv ==
  IInv /\ (UdpNothing \/ TcpNothing \/ Quiet \/ UNCHANGED vars) => IInv'
<1> SUFFICES ASSUME IInv, UdpNothing \/ TcpNothing \/ Quiet \/ UNCHANGED vars
             PROVE  IInv'
  OBVIOUS
<1> USE CommandReplyAssumption DEF IInv, reply
<1>1. CASE UdpNothing \/ TcpNothing \/ UNCHANGED vars
  BY <1>1 DEF UdpNothing, TcpNothing, vars, TypeOK, RunInv, PromptInv, CountInv,
              Trying, Fresh, Carried
<1>2. CASE Quiet
  BY <1>2 DEF Quiet, LookDone, TypeOK, RunInv, PromptInv, CountInv, Trying
<1> QED
  BY <1>1, <1>2

LEMMA Inductive == Spec => []IInv
<1>1. Init => IInv
  BY InitInv
<1>2. IInv /\ [Next]_vars => IInv'
  BY ReceiveInv, TickInv, WaitInv, TryInv, OtherInv DEF Next, Loop, Look
<1> QED
  BY <1>1, <1>2, PTL DEF Spec
-----------------------------------------------------------------------------
\* Theorems.

\* Every variable keeps its type; no counter of the reply exceeds its limit.
THEOREM TypeCorrect == Spec => []TypeOK
  BY Inductive, PTL DEF IInv

\* A try is at most one pass of loop() and 2 ms overdue, unless an overdue look
\* found the rollover of millis().
THEOREM TriesArePrompt == Spec => []TriesPrompt
<1>1. IInv => TriesPrompt
  BY CommandReplyAssumption DEF IInv, TypeOK, PromptInv, TriesPrompt
<1> QED
  BY <1>1, Inductive, PTL

\* Two copies of a reply are never closer than the reply period.
THEOREM CopiesAreSpaced == Spec => CopiesSpaced
<1> USE MillisRangeAssumption, CommandReplyAssumption
<1>1. IInv /\ [Next]_vars => [(copies' > copies) => since > ReplyPeriod]_vars
  <2> SUFFICES ASSUME IInv, [Next]_vars, copies' > copies
               PROVE  since > ReplyPeriod
    OBVIOUS
  <2>1. SendCopy
    <3>1. copies \in 0 .. 3
      BY DEF IInv, TypeOK, MaxACKSendCount
    <3>2. ~(copies' = copies) /\ ~(copies' = 0)
      BY <3>1
    <3> QED
      BY <3>2, Zenon
         DEF Next, Receive, Loop, Look, Tick, UdpPacket, UdpEmpty, UdpNothing,
             TcpData, TcpNothing, Quiet, Wait, GiveUp, ProcPacket, TakeRequest,
             TakeAck, reply, vars
  <2>2. /\ Trying /\ Expired(now, Rolled(now, timer), ReplyPeriod)
        /\ now \in Ticks /\ timer \in Timer /\ since \in 0 .. SinceCap
    BY <2>1 DEF SendCopy, Try, Due, IInv, TypeOK
  <2>3. CASE since < SinceCap
    <3>1. Fresh \/ Carried
      BY <2>2, <2>3 DEF IInv, RunInv
    <3>2. /\ ReplyPeriod + 1 < MillisRange
          /\ since < MillisRange
      BY <2>2
    <3> QED
      BY <2>2, <3>1, <3>2, MillisRangeAssumption
         DEF Fresh, Carried, Rolled, Expired, Timer, Ticks, Wrap
  <2>4. CASE ~(since < SinceCap)
    BY <2>2, <2>4
  <2> QED
    BY <2>3, <2>4
<1> QED
  BY <1>1, Inductive, PTL DEF Spec, CopiesSpaced
-----------------------------------------------------------------------------
\* CommandReply implements AckService.

\* What ProcPacket does to the debt.
LEMMA ProcPacketService ==
  ASSUME IInv, NEW m \in Message, ProcPacket(m)
  PROVE  [Service!ANext]_(Service!avars)
<1> USE DEF ReplyMaxReqCount, MaxACKSendCount, Owed, MinOf
<1>1. CASE m \in Kind /\ TakeRequest(m)
  <2>1. Owed' = CopiesOf(m)
    BY <1>1 DEF TakeRequest, FirstCount, CopiesOf
  <2>2. asked' = m /\ copies' = 0 /\ ackR_F' = FALSE
    BY <1>1 DEF TakeRequest
  <2>3. Service!Request(m)
    BY <2>1, <2>2 DEF Service!Request
  <2> QED
    BY <1>1, <2>3 DEF Service!ANext
<1>2. CASE m = "ACK_R" /\ TakeAck
  <2>1. Service!Acknowledge
    BY <1>2 DEF TakeAck, Acked, Service!Acknowledge
  <2> QED
    BY <2>1 DEF Service!ANext
<1>3. CASE m = "JUNK" /\ UNCHANGED reply
  BY <1>3 DEF reply, Service!avars
<1> QED
  BY <1>1, <1>2, <1>3 DEF ProcPacket

LEMMA SendCopyService ==
  ASSUME IInv, SendCopy
  PROVE  Service!SendCopy
<1> USE DEF ReplyMaxReqCount, MaxACKSendCount
<1>1. /\ ~ackR_F /\ ackR_F' = ackR_F
      /\ ReplyReqCount \in 0 .. 1 /\ ReplyReqCount' = ReplyReqCount + 1
      /\ nowACKSendCount \in 0 .. 2 /\ nowACKSendCount' = nowACKSendCount + 1
      /\ copies' = copies + 1 /\ copies \in Nat /\ asked' = asked
  BY DEF IInv, TypeOK, SendCopy, Try, Trying
<1>2. Owed > 0 /\ Owed' = Owed - 1
  BY <1>1 DEF Owed, MinOf
<1> QED
  BY <1>1, <1>2 DEF Service!SendCopy

LEMMA GiveUpService ==
  ASSUME IInv, GiveUp
  PROVE  Service!GiveUp
<1> USE DEF ReplyMaxReqCount, MaxACKSendCount
<1>1. /\ ~ackR_F /\ ackR_F' = TRUE /\ copies' = copies /\ asked' = asked
      /\ ReplyReqCount \in 0 .. 1 /\ nowACKSendCount = 3
  BY DEF IInv, TypeOK, GiveUp, Try, Trying
<1>2. Owed = 0 /\ Owed' = 0
  BY <1>1 DEF Owed, MinOf
<1> QED
  BY <1>1, <1>2 DEF Service!GiveUp

\* Every interleaving of requests, acknowledgements and retries is one of the
\* bounded debt of AckService: one copy for GETDEVICEINFO, two for a command,
\* none once it is acknowledged.
THEOREM Refinement == Spec => ImplementsService
<1>1. Init => Service!AInit
  BY DEF Init, Service!AInit, Owed
<1>2. IInv /\ [Next]_vars => [Service!ANext]_(Service!avars)
  <2> SUFFICES ASSUME IInv, [Next]_vars
               PROVE  [Service!ANext]_(Service!avars)
    OBVIOUS
  <2>1. CASE UNCHANGED <<asked, ackR_F, nowACKSendCount, ReplyReqCount, copies>>
    BY <2>1 DEF Service!avars, Owed
  <2>2. CASE Tick \/ UdpNothing \/ TcpNothing \/ Quiet \/ Wait \/ UNCHANGED vars
    BY <2>1, <2>2 DEF Tick, UdpNothing, TcpNothing, Quiet, Wait, reply, vars
  <2>3. ASSUME NEW h \in Hosts, NEW m \in Message, UdpPacket(h, m) \/ TcpData(h, m)
        PROVE  [Service!ANext]_(Service!avars)
    BY <2>3, ProcPacketService DEF UdpPacket, TcpData
  <2>4. ASSUME NEW h \in Hosts, UdpEmpty(h)
        PROVE  [Service!ANext]_(Service!avars)
    BY <2>1, <2>4 DEF UdpEmpty, reply
  <2>5. CASE SendCopy
    BY <2>5, SendCopyService DEF Service!ANext
  <2>6. CASE GiveUp
    BY <2>6, GiveUpService DEF Service!ANext
  <2> QED
    BY <2>2, <2>3, <2>4, <2>5, <2>6 DEF Next, Receive, Loop, Look
<1> QED
  BY <1>1, <1>2, Inductive, PTL DEF Spec, ImplementsService, Service!ASpec
=============================================================================
