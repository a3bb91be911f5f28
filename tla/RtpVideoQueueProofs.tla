-------------------------- MODULE RtpVideoQueueProofs --------------------------
(***************************************************************************)
(* For a stream of any number of frames, any sequence space, and any       *)
(* order, loss and repetition of packets; but no block is longer, and no   *)
(* packet later, than half the space.                                      *)
(***************************************************************************)
EXTENDS RtpVideoQueue, FiniteSetTheorems, SequenceTheorems, NaturalsInduction,
        WellFoundedInduction, TLAPS

(***************************************************************************)
(* Sequence numbers.                                                       *)
(***************************************************************************)
H == (W - 1) \div 2

LEMMA Half == W \in Nat \ {0} /\ H \in Nat /\ 2 * H <= W - 1 /\ W <= 2 * H + 2
BY RtpVideoAssumption DEF H

LEMMA ModRange == \A x \in Int : x % W \in 0 .. W - 1
BY Half

LEMMA ModUnique ==
  ASSUME NEW x \in Int, NEW d \in Int, NEW r \in 0 .. W - 1, x = d * W + r
  PROVE  x % W = r
BY Half

LEMMA ModDef ==
  ASSUME NEW x \in Int PROVE \E d \in Int : x = d * W + (x % W)
<1> DEFINE d == x \div W
<1>1. d \in Int /\ x = d * W + (x % W)
  BY Half, Z3
<1> HIDE DEF d
<1> QED BY <1>1

\* The sum with a remainder has the remainder of the sum.
LEMMA ModAdd ==
  ASSUME NEW a \in Int, NEW i \in Int PROVE (a + i) % W = ((a % W) + i) % W
<1>1. PICK d \in Int : a = d * W + (a % W)
  BY ModDef
<1> DEFINE b == (a % W) + i
           r == b % W
<1>2. b \in Int
  BY ModRange, Half
<1>3. \A x \in Int : \E e \in Int : x = e * W + (x % W)
  BY ModDef
<1> HIDE DEF b
<1>4. r \in 0 .. W - 1
  BY <1>2, ModRange
<1>5. PICK e \in Int : b = e * W + r
  BY <1>2, <1>3
<1>6. a + i = d * W + b
  <2>1. a % W \in Int /\ d * W \in Int
    BY ModRange, Half
  <2>2. \A m, c \in Int : a = m + c => a + i = m + (c + i)
    OBVIOUS
  <2> QED BY <1>1, <2>1, <2>2 DEF b
<1>7. d * W + e * W = (d + e) * W /\ d * W \in Int /\ e * W \in Int /\ d + e \in Int
  BY Half
<1> HIDE DEF r
<1>8. a + i = (d + e) * W + r
  BY <1>2, <1>4, <1>5, <1>6, <1>7
<1>9. (a + i) % W = r
  BY <1>2, <1>4, <1>7, <1>8, ModUnique
<1> QED BY <1>9 DEF b, r

LEMMA ModNear ==
  ASSUME NEW x \in -W .. 2 * W - 1
  PROVE  x % W = IF x < 0 THEN x + W ELSE IF x < W THEN x ELSE x - W
<1>1. CASE x < 0
  <2>1. x \in Int /\ x + W \in 0 .. W - 1 /\ x = (-1) * W + (x + W) /\ -1 \in Int
    BY <1>1, Half
  <2> QED BY <1>1, <2>1, ModUnique
<1>2. CASE x \in 0 .. W - 1
  BY <1>2, Half
<1>3. CASE x >= W
  <2>1. x \in Int /\ x - W \in 0 .. W - 1 /\ x = 1 * W + (x - W)
    BY <1>3, Half
  <2> QED BY <1>3, <2>1, ModUnique, Half
<1> QED BY <1>1, <1>2, <1>3, Half

\* How far a number is behind another, around the wrap.
LEMMA ModMinus ==
  ASSUME NEW x \in Seq16, NEW y \in Seq16
  PROVE  (x - y) % W = IF x >= y THEN x - y ELSE x - y + W
<1>1. x - y \in -W .. 2 * W - 1 /\ x - y < W
  BY Half DEF Seq16
<1> QED BY <1>1, ModNear, Half DEF Seq16
-------------------------------------------------------------------------------
(***************************************************************************)
(* The stream.                                                             *)
(***************************************************************************)
LEMMA FrameShape ==
  /\ Frames = 1 .. Len(Layout) /\ Len(Layout) \in Nat \ {0}
  /\ \A n \in Frames : Len(Layout[n]) \in 1 .. 4 /\ LastBlock(n) = Len(Layout[n]) - 1
<1>1. Frames = 1 .. Len(Layout) /\ Len(Layout) \in Nat \ {0}
  <2>1. \A S : \A t \in Seq(S) :
          DOMAIN t = 1 .. Len(t) /\ Len(t) \in Nat /\ (Len(t) = 0 => t = << >>)
    OBVIOUS
  <2> QED BY <2>1, RtpVideoAssumption DEF Frames
<1> QED BY <1>1, RtpVideoAssumption DEF LastBlock

LEMMA BlockShape ==
  ASSUME NEW n \in Frames, NEW b \in 0 .. LastBlock(n)
  PROVE  /\ <<n, b>> \in FecBlocks
         /\ First(<<n, b>>) \in Nat /\ Data(<<n, b>>) \in Nat \ {0}
         /\ Parity(<<n, b>>) \in Nat /\ Size(<<n, b>>) \in 1 .. H
         /\ Size(<<n, b>>) = Data(<<n, b>>) + Parity(<<n, b>>)
<1> DEFINE c == <<n, b>>
           l == Layout[n][b + 1]
<1>1. c \in FecBlocks
  BY FrameShape DEF FecBlocks, LastBlock
<1>2. l \in [first : Nat, data : Nat \ {0}, percent : Nat]
  <2>1. Layout[n] \in Seq([first : Nat, data : Nat \ {0}, percent : Nat])
    BY RtpVideoAssumption, FrameShape
  <2>2. b + 1 \in 1 .. Len(Layout[n])
    BY FrameShape
  <2>3. \A S : \A s \in Seq(S) : \A i \in 1 .. Len(s) : s[i] \in S
    OBVIOUS
  <2> QED BY <2>1, <2>2, <2>3
<1>3. First(c) = l.first /\ Data(c) = l.data /\ Parity(c) = (l.data * l.percent + 99) \div 100
  BY DEF First, Data, Parity
<1>4. Parity(c) \in Nat
  <2>1. l.data \in Nat /\ l.percent \in Nat
    BY <1>2
  <2>2. \A x, y \in Nat : x * y \in Nat
    OBVIOUS
  <2>3. \A x \in Nat : (x + 99) \div 100 \in Nat
    OBVIOUS
  <2> HIDE DEF l
  <2> QED BY <1>3, <2>1, <2>2, <2>3
<1>5. First(c) \in Nat /\ Data(c) \in Nat \ {0}
  BY <1>2, <1>3
<1>6. Size(c) <= H /\ Size(c) = Data(c) + Parity(c)
  BY <1>1, RtpVideoAssumption DEF H, Size
<1> QED BY <1>1, <1>4, <1>5, <1>6, Half

LEMMA PacketShape ==
  ASSUME NEW p \in Packet
  PROVE  /\ p.frame \in Frames /\ p.block \in 0 .. LastBlock(p.frame)
         /\ p.fecIndex \in 0 .. Size(<<p.frame, p.block>>) - 1
         /\ Position(p) = First(<<p.frame, p.block>>) + p.fecIndex /\ Position(p) \in Nat
         /\ SequenceNumber(p) \in Seq16
<1>1. PICK c \in FecBlocks : \E i \in 0 .. Size(c) - 1 :
        p = [frame |-> c[1], block |-> c[2], fecIndex |-> i]
  BY DEF Packet
<1>2. PICK n \in Frames : c \in {n} \X (0 .. Len(Layout[n]) - 1)
  BY DEF FecBlocks
<1>3. /\ c = <<p.frame, p.block>> /\ p.frame = n
      /\ p.block \in 0 .. LastBlock(n) /\ p.fecIndex \in 0 .. Size(c) - 1
  BY <1>1, <1>2 DEF LastBlock
<1>4. First(<<p.frame, p.block>>) \in Nat /\ Size(<<p.frame, p.block>>) \in 1 .. H
  BY <1>3, BlockShape
<1>5. Position(p) = First(<<p.frame, p.block>>) + p.fecIndex /\ Position(p) \in Nat
  BY <1>1, <1>3, <1>4, Half DEF Position
<1>6. SequenceNumber(p) \in Seq16
  BY <1>5, ModRange DEF SequenceNumber, Seq16
<1> QED BY <1>1, <1>3, <1>5, <1>6
-------------------------------------------------------------------------------
(***************************************************************************)
(* The parts of RtpvAddPacket: their types, and what they leave alone.     *)
(***************************************************************************)
LEMMA RoomForOne ==
  ASSUME NEW p \in Packet PROVE 1 <= H
<1>1. PICK z \in 1 .. H : z = Size(<<p.frame, p.block>>)
  <2>1. p.frame \in Frames /\ p.block \in 0 .. LastBlock(p.frame)
    BY PacketShape
  <2> QED BY <2>1, BlockShape
<1> QED BY Half

QueueType ==
  [pending : SUBSET Seq16, made : SUBSET Seq16, completed : Seq(FecBlocks),
   bufferLowestSequenceNumber : Seq16, bufferDataPackets : Nat, bufferParityPackets : Nat,
   receivedDataPackets : Nat, receivedParityPackets : Nat,
   receivedHighestSequenceNumber : Seq16, nextContiguousSequenceNumber : Seq16,
   missingPackets : Int, useFastQueuePath : BOOLEAN, reportedLostFrame : BOOLEAN,
   currentFrameNumber : Nat, multiFecCurrentBlockNumber : 0 .. 3, multiFecLastBlockNumber : 0 .. 3,
   lastOosFrame : Nat, receivedOosData : BOOLEAN]

Block(q) == <<q.currentFrameNumber, q.multiFecCurrentBlockNumber>>

LEMMA SkipToShape ==
  ASSUME NEW q \in QueueType, NEW n \in Nat
  PROVE  /\ SkipTo(q, n) \in QueueType
         /\ SkipTo(q, n).pending = {} /\ SkipTo(q, n).completed = << >>
         /\ SkipTo(q, n).missingPackets = q.missingPackets
         /\ SkipTo(q, n).reportedLostFrame = TRUE
         /\ Block(SkipTo(q, n)) = <<n, 0>>
<1> DEFINE To(e, z) == [q EXCEPT !.pending = {}, !.made = {}, !.completed = e,
                                 !.reportedLostFrame = TRUE,
                                 !.currentFrameNumber = n, !.multiFecCurrentBlockNumber = z]
<1>1. ASSUME NEW e \in Seq(FecBlocks), NEW z \in 0 .. 3
      PROVE  /\ To(e, z) \in QueueType /\ To(e, z).pending = {} /\ To(e, z).completed = e
             /\ To(e, z).missingPackets = q.missingPackets
             /\ To(e, z).reportedLostFrame = TRUE
             /\ Block(To(e, z)) = <<n, z>>
  BY DEF QueueType, Block
<1> DEFINE e == << >>
<1>2. e \in Seq(FecBlocks)
  OBVIOUS
<1>3. SkipTo(q, n) = To(e, 0) /\ 0 \in 0 .. 3
  BY DEF SkipTo
<1>4. SkipTo(q, n).completed = e => SkipTo(q, n).completed = << >>
  OBVIOUS
<1> HIDE DEF To, e
<1>5. /\ To(e, 0) \in QueueType /\ To(e, 0).pending = {} /\ To(e, 0).completed = e
      /\ To(e, 0).missingPackets = q.missingPackets
      /\ To(e, 0).reportedLostFrame = TRUE
      /\ Block(To(e, 0)) = <<n, 0>>
  BY <1>1, <1>2, <1>3
<1> QED BY <1>3, <1>4, <1>5

LEMMA BeginShape ==
  ASSUME NEW q \in QueueType, NEW p \in Packet
  PROVE  LET r == Begin(q, p)
             c == <<p.frame, p.block>>
         IN  /\ r \in QueueType
             /\ r.pending = {} /\ r.made = {} /\ Block(r) = c
             /\ r.completed = IF p.frame = q.currentFrameNumber THEN q.completed ELSE << >>
             /\ r.multiFecLastBlockNumber = LastBlock(p.frame)
             /\ r.bufferLowestSequenceNumber = First(c) % W
             /\ r.nextContiguousSequenceNumber = First(c) % W
             /\ r.bufferDataPackets = Data(c) /\ r.bufferParityPackets = Parity(c)
             /\ r.receivedDataPackets = 0 /\ r.receivedParityPackets = 0
             /\ r.missingPackets = 0 /\ r.useFastQueuePath = TRUE /\ r.reportedLostFrame = FALSE
             /\ r.lastOosFrame = q.lastOosFrame /\ r.receivedOosData = q.receivedOosData
<1> DEFINE c == <<p.frame, p.block>>
           low == (SequenceNumber(p) - p.fecIndex) % W
<1>1. low = First(c) % W /\ low \in Seq16
  <2>1. First(c) \in Nat /\ p.fecIndex \in Nat /\ Position(p) = First(c) + p.fecIndex
    BY PacketShape, BlockShape, Half
  <2>2. (Position(p) + (0 - p.fecIndex)) % W = ((Position(p) % W) + (0 - p.fecIndex)) % W
    <3>1. PICK a \in Int, i \in Int : a = Position(p) /\ i = 0 - p.fecIndex
      BY <2>1, PacketShape
    <3>2. (a + i) % W = ((a % W) + i) % W
      BY <3>1, ModAdd
    <3> QED BY <3>1, <3>2
  <2>3. Position(p) + (0 - p.fecIndex) = First(c)
    BY <2>1
  <2>4. (Position(p) % W) + (0 - p.fecIndex) = (Position(p) % W) - p.fecIndex
    BY <2>1, ModRange
  <2> QED BY <2>1, <2>2, <2>3, <2>4, ModRange DEF SequenceNumber, Seq16
<1>2. Data(c) \in Nat /\ Parity(c) \in Nat /\ 0 \in Seq16
  BY PacketShape, BlockShape, Half DEF Seq16
<1>3. p.frame \in Nat /\ p.block \in 0 .. 3 /\ LastBlock(p.frame) \in 0 .. 3
  <2>1. p.frame \in Frames /\ p.block \in 0 .. LastBlock(p.frame)
    BY PacketShape
  <2>2. p.frame \in Nat /\ LastBlock(p.frame) \in 0 .. 3
    <3>1. \A n \in Frames : n \in Nat /\ Len(Layout[n]) - 1 \in 0 .. 3
      BY FrameShape, Half
    <3> QED BY <2>1, <3>1, FrameShape
  <2> QED BY <2>1, <2>2
<1> DEFINE e == << >>
<1>4. e \in Seq(FecBlocks)
  OBVIOUS
<1>5. \A s : s = e => s = << >>
  OBVIOUS
<1>6. PICK d \in Nat, f \in Nat : d = Data(c) /\ f = Parity(c)
  BY <1>2
<1>7. PICK l \in 0 .. 3 : l = LastBlock(p.frame)
  BY <1>3
<1>8. PICK zero \in Nat : zero = 0
  OBVIOUS
<1>z. zero \in Seq16 /\ zero \in Int
  BY <1>2, <1>8
<1> DEFINE n == [q EXCEPT !.pending = {}, !.made = {},
                          !.bufferLowestSequenceNumber = low, !.nextContiguousSequenceNumber = low,
                          !.receivedDataPackets = zero, !.receivedParityPackets = zero,
                          !.receivedHighestSequenceNumber = zero, !.missingPackets = zero,
                          !.useFastQueuePath = TRUE, !.reportedLostFrame = FALSE,
                          !.bufferDataPackets = d, !.bufferParityPackets = f,
                          !.currentFrameNumber = p.frame,
                          !.multiFecCurrentBlockNumber = p.block, !.multiFecLastBlockNumber = l]
           g == IF p.frame = q.currentFrameNumber THEN q.completed ELSE e
           r == [n EXCEPT !.completed = g]
<1>9. NewBlock(q, p) = n
  BY <1>6, <1>7, <1>8 DEF NewBlock
<1> HIDE DEF low, e
<1>10. /\ n \in QueueType
       /\ n.pending = {} /\ n.made = {} /\ Block(n) = c /\ n.completed = q.completed
       /\ n.multiFecLastBlockNumber = l
       /\ n.bufferLowestSequenceNumber = low /\ n.nextContiguousSequenceNumber = low
       /\ n.bufferDataPackets = d /\ n.bufferParityPackets = f
       /\ n.receivedDataPackets = zero /\ n.receivedParityPackets = zero
       /\ n.missingPackets = zero /\ n.useFastQueuePath = TRUE /\ n.reportedLostFrame = FALSE
       /\ n.lastOosFrame = q.lastOosFrame /\ n.receivedOosData = q.receivedOosData
  BY <1>1, <1>3, <1>z DEF QueueType, Block
<1>11. g \in Seq(FecBlocks)
  BY <1>4 DEF QueueType
<1> HIDE DEF n
<1>12. Begin(q, p) = r
  <2>1. n = [n EXCEPT !.completed = @]
    BY <1>10 DEF QueueType
  <2> QED BY <1>9, <1>10, <2>1 DEF Begin, e
<1> HIDE DEF g
<1>13. /\ r \in QueueType
       /\ r.pending = {} /\ r.made = {} /\ Block(r) = c /\ r.completed = g
       /\ r.multiFecLastBlockNumber = l
       /\ r.bufferLowestSequenceNumber = low /\ r.nextContiguousSequenceNumber = low
       /\ r.bufferDataPackets = d /\ r.bufferParityPackets = f
       /\ r.receivedDataPackets = zero /\ r.receivedParityPackets = zero
       /\ r.missingPackets = zero /\ r.useFastQueuePath = TRUE /\ r.reportedLostFrame = FALSE
       /\ r.lastOosFrame = q.lastOosFrame /\ r.receivedOosData = q.receivedOosData
  BY <1>10, <1>11 DEF QueueType, Block
<1> HIDE DEF r
<1>14. r.completed = IF p.frame = q.currentFrameNumber THEN q.completed ELSE << >>
  BY <1>13 DEF g, e
<1> QED BY <1>1, <1>6, <1>7, <1>8, <1>12, <1>13, <1>14

Late(q, s) == ~Follows(q, s) /\ \E m \in q.pending : isBefore16(s, m)
Cool(q) == q.currentFrameNumber > q.lastOosFrame + COOLDOWN

LEMMA QueueShape ==
  ASSUME NEW q \in QueueType, NEW s \in Seq16
  PROVE  LET r == Queue(q, s)
         IN  /\ r \in QueueType
             /\ Block(r) = Block(q) /\ r.pending = q.pending \cup {s} /\ r.made = q.made
             /\ r.completed = q.completed /\ r.reportedLostFrame = q.reportedLostFrame
             /\ r.multiFecLastBlockNumber = q.multiFecLastBlockNumber
             /\ r.bufferLowestSequenceNumber = q.bufferLowestSequenceNumber
             /\ r.bufferDataPackets = q.bufferDataPackets
             /\ r.bufferParityPackets = q.bufferParityPackets
             /\ r.receivedDataPackets = q.receivedDataPackets
             /\ r.receivedParityPackets = q.receivedParityPackets
             /\ r.receivedHighestSequenceNumber = q.receivedHighestSequenceNumber
             /\ r.missingPackets = q.missingPackets
             /\ r.useFastQueuePath = Follows(q, s)
             /\ r.nextContiguousSequenceNumber = IF Follows(q, s) THEN (s + 1) % W
                                                 ELSE q.nextContiguousSequenceNumber
             /\ r.lastOosFrame = IF Late(q, s) THEN q.currentFrameNumber ELSE q.lastOosFrame
             /\ r.receivedOosData = (Late(q, s) \/ (q.receivedOosData /\ ~Cool(q)))
<1> DEFINE x == IF Follows(q, s) THEN (s + 1) % W ELSE q.nextContiguousSequenceNumber
           f == Follows(q, s)
           o == IF Late(q, s) THEN q.currentFrameNumber ELSE q.lastOosFrame
           b == Late(q, s) \/ (q.receivedOosData /\ ~Cool(q))
           r == [q EXCEPT !.pending = q.pending \cup {s}, !.nextContiguousSequenceNumber = x,
                          !.useFastQueuePath = f, !.lastOosFrame = o, !.receivedOosData = b]
<1>1. x \in Seq16
  <2>1. q.nextContiguousSequenceNumber \in Seq16
    BY DEF QueueType
  <2>2. (s + 1) % W \in Seq16
    BY ModRange DEF Seq16
  <2> QED BY <2>1, <2>2
<1>2. f \in BOOLEAN /\ b \in BOOLEAN
  BY DEF Follows, Late, Cool, QueueType
<1>3. o \in Nat
  BY DEF QueueType
<1>4. Queue(q, s) = r
  <2>1. Queue(q, s) = [q EXCEPT !.pending = @ \cup {s},
                                !.nextContiguousSequenceNumber =
                                   IF Follows(q, s) THEN (s + 1) % W ELSE @,
                                !.useFastQueuePath = f,
                                !.lastOosFrame = IF Late(q, s) THEN q.currentFrameNumber ELSE @,
                                !.receivedOosData = Late(q, s) \/ (@ /\ ~Cool(q))]
    BY DEF Queue, FastPath, Late, Cool
  <2> HIDE DEF f
  <2> QED BY <2>1 DEF QueueType
<1> HIDE DEF x, f, o, b
<1>5. /\ r \in QueueType
      /\ Block(r) = Block(q) /\ r.pending = q.pending \cup {s} /\ r.made = q.made
      /\ r.completed = q.completed /\ r.reportedLostFrame = q.reportedLostFrame
      /\ r.multiFecLastBlockNumber = q.multiFecLastBlockNumber
      /\ r.bufferLowestSequenceNumber = q.bufferLowestSequenceNumber
      /\ r.bufferDataPackets = q.bufferDataPackets
      /\ r.bufferParityPackets = q.bufferParityPackets
      /\ r.receivedDataPackets = q.receivedDataPackets
      /\ r.receivedParityPackets = q.receivedParityPackets
      /\ r.receivedHighestSequenceNumber = q.receivedHighestSequenceNumber
      /\ r.missingPackets = q.missingPackets
      /\ r.useFastQueuePath = f /\ r.nextContiguousSequenceNumber = x
      /\ r.lastOosFrame = o /\ r.receivedOosData = b
  BY <1>1, <1>2, <1>3 DEF QueueType, Block
<1> HIDE DEF r
<1> QED BY <1>4, <1>5 DEF x, f, o, b

\* The count of holes after the packet s, where high is the highest so far.
Holes(q, s) ==
  LET high == q.receivedHighestSequenceNumber IN
  IF Cardinality(q.pending) = 1
  THEN q.missingPackets + ((s - q.bufferLowestSequenceNumber) % W)
  ELSE IF isBefore16(high, s) THEN q.missingPackets + ((s - high - 1) % W)
  ELSE q.missingPackets - 1
IsDataNumber(q, s) ==
  isBefore16(s, (q.bufferLowestSequenceNumber + q.bufferDataPackets) % W)

LEMMA CountShape ==
  ASSUME NEW q \in QueueType, NEW s \in Seq16
  PROVE  LET r == Count(q, s)
         IN  /\ r \in QueueType
             /\ Block(r) = Block(q) /\ r.pending = q.pending /\ r.made = q.made
             /\ r.completed = q.completed /\ r.reportedLostFrame = q.reportedLostFrame
             /\ r.multiFecLastBlockNumber = q.multiFecLastBlockNumber
             /\ r.bufferLowestSequenceNumber = q.bufferLowestSequenceNumber
             /\ r.bufferDataPackets = q.bufferDataPackets
             /\ r.bufferParityPackets = q.bufferParityPackets
             /\ r.useFastQueuePath = q.useFastQueuePath
             /\ r.nextContiguousSequenceNumber = q.nextContiguousSequenceNumber
             /\ r.lastOosFrame = q.lastOosFrame /\ r.receivedOosData = q.receivedOosData
             /\ r.receivedHighestSequenceNumber =
                  IF Cardinality(q.pending) = 1 \/ isBefore16(q.receivedHighestSequenceNumber, s)
                  THEN s ELSE q.receivedHighestSequenceNumber
             /\ r.missingPackets = Holes(q, s)
             /\ r.receivedDataPackets =
                  IF IsDataNumber(q, s) THEN q.receivedDataPackets + 1 ELSE q.receivedDataPackets
             /\ r.receivedParityPackets =
                  IF IsDataNumber(q, s) THEN q.receivedParityPackets
                  ELSE q.receivedParityPackets + 1
<1> DEFINE first == Cardinality(q.pending) = 1
           high == q.receivedHighestSequenceNumber
           h == IF first \/ isBefore16(high, s) THEN s ELSE high
           m == Holes(q, s)
           isData == IsDataNumber(q, s)
           d == IF isData THEN q.receivedDataPackets + 1 ELSE q.receivedDataPackets
           f == IF isData THEN q.receivedParityPackets ELSE q.receivedParityPackets + 1
           r == [q EXCEPT !.receivedHighestSequenceNumber = h, !.missingPackets = m,
                          !.receivedDataPackets = d, !.receivedParityPackets = f]
<1>1. h \in Seq16 /\ d \in Nat /\ f \in Nat
  BY DEF QueueType
<1>2. m \in Int
  <2>1. /\ high \in Int /\ s \in Int /\ q.bufferLowestSequenceNumber \in Int
        /\ q.missingPackets \in Int
    BY Half DEF QueueType, Seq16
  <2>2. (s - q.bufferLowestSequenceNumber) % W \in Int /\ (s - high - 1) % W \in Int
    BY <2>1, ModRange
  <2> HIDE DEF high
  <2> QED BY <2>1, <2>2 DEF Holes, high
<1>3. Count(q, s) = r
  <2>1. Count(q, s) =
          [q EXCEPT !.receivedHighestSequenceNumber =
                       IF first \/ isBefore16(high, s) THEN s ELSE @,
                    !.missingPackets =
                       IF first THEN @ + ((s - q.bufferLowestSequenceNumber) % W)
                       ELSE IF isBefore16(high, s) THEN @ + ((s - high - 1) % W)
                       ELSE @ - 1,
                    !.receivedDataPackets = IF isData THEN @ + 1 ELSE @,
                    !.receivedParityPackets = IF isData THEN @ ELSE @ + 1]
    BY DEF Count, IsDataNumber
  <2> HIDE DEF isData, first
  <2> QED BY <2>1 DEF QueueType, Holes, first
<1> HIDE DEF first, high, h, m, isData, d, f
<1>4. /\ r \in QueueType
      /\ Block(r) = Block(q) /\ r.pending = q.pending /\ r.made = q.made
      /\ r.completed = q.completed /\ r.reportedLostFrame = q.reportedLostFrame
      /\ r.multiFecLastBlockNumber = q.multiFecLastBlockNumber
      /\ r.bufferLowestSequenceNumber = q.bufferLowestSequenceNumber
      /\ r.bufferDataPackets = q.bufferDataPackets
      /\ r.bufferParityPackets = q.bufferParityPackets
      /\ r.useFastQueuePath = q.useFastQueuePath
      /\ r.nextContiguousSequenceNumber = q.nextContiguousSequenceNumber
      /\ r.lastOosFrame = q.lastOosFrame /\ r.receivedOosData = q.receivedOosData
      /\ r.receivedHighestSequenceNumber = h /\ r.missingPackets = m
      /\ r.receivedDataPackets = d /\ r.receivedParityPackets = f
  BY <1>1, <1>2 DEF QueueType, Block
<1> HIDE DEF r
<1> QED BY <1>3, <1>4 DEF h, m, d, f, first, high, isData

\* What two queues share that differ in how far the early report may be trusted.
SameBut(r, q) ==
  /\ Block(r) = Block(q) /\ r.completed = q.completed
  /\ r.reportedLostFrame = q.reportedLostFrame
  /\ r.multiFecLastBlockNumber = q.multiFecLastBlockNumber
  /\ r.bufferLowestSequenceNumber = q.bufferLowestSequenceNumber
  /\ r.bufferDataPackets = q.bufferDataPackets
  /\ r.bufferParityPackets = q.bufferParityPackets
  /\ r.receivedDataPackets = q.receivedDataPackets
  /\ r.receivedParityPackets = q.receivedParityPackets
  /\ r.receivedHighestSequenceNumber = q.receivedHighestSequenceNumber
  /\ r.nextContiguousSequenceNumber = q.nextContiguousSequenceNumber
  /\ r.missingPackets = q.missingPackets /\ r.useFastQueuePath = q.useFastQueuePath

LEMMA AdmitShape ==
  ASSUME NEW q \in QueueType
  PROVE  LET r == Admit(q)
         IN  /\ r \in QueueType /\ SameBut(r, q)
             /\ r.pending = q.pending /\ r.made = q.made
             /\ r.receivedOosData = (q.receivedOosData \/ q.reportedLostFrame)
             /\ r.lastOosFrame = IF q.reportedLostFrame /\ ~q.receivedOosData
                                 THEN q.currentFrameNumber ELSE q.lastOosFrame
<1> DEFINE r == [q EXCEPT !.receivedOosData = TRUE, !.lastOosFrame = q.currentFrameNumber]
<1>1. /\ r \in QueueType /\ SameBut(r, q) /\ r.pending = q.pending /\ r.made = q.made
      /\ r.receivedOosData = TRUE /\ r.lastOosFrame = q.currentFrameNumber
  BY DEF QueueType, SameBut, Block
<1>2. SameBut(q, q)
  BY DEF SameBut
<1>3. q.reportedLostFrame \in BOOLEAN /\ q.receivedOosData \in BOOLEAN
  BY DEF QueueType
<1>4. CASE q.reportedLostFrame /\ ~q.receivedOosData
  <2>1. Admit(q) = r
    BY <1>4 DEF Admit
  <2> HIDE DEF r
  <2> QED BY <1>1, <1>4, <2>1
<1>5. CASE ~(q.reportedLostFrame /\ ~q.receivedOosData)
  <2>1. Admit(q) = q
    BY <1>5 DEF Admit
  <2>2. q.receivedOosData = (q.receivedOosData \/ q.reportedLostFrame)
    BY <1>3, <1>5
  <2> QED BY <1>2, <1>5, <2>1, <2>2
<1> QED BY <1>4, <1>5

LEMMA MadeShape ==
  ASSUME NEW q \in QueueType, NEW new \in SUBSET Seq16
  PROVE  LET r == [q EXCEPT !.pending = @ \cup new, !.made = @ \cup new]
         IN  /\ r \in QueueType /\ SameBut(r, q)
             /\ r.pending = q.pending \cup new /\ r.made = q.made \cup new
             /\ r.receivedOosData = q.receivedOosData /\ r.lastOosFrame = q.lastOosFrame
BY DEF QueueType, SameBut, Block

LEMMA StageShape ==
  ASSUME NEW q \in QueueType, Block(q) \in FecBlocks
  PROVE  LET r == Stage(q)
         IN  /\ r \in QueueType /\ r.pending = {} /\ r.missingPackets = q.missingPackets
             /\ r.reportedLostFrame = q.reportedLostFrame
             /\ IF q.multiFecCurrentBlockNumber < q.multiFecLastBlockNumber
                THEN /\ Block(r) = <<q.currentFrameNumber, q.multiFecCurrentBlockNumber + 1>>
                     /\ r.completed = Append(q.completed, Block(q))
                ELSE Block(r) = <<q.currentFrameNumber + 1, 0>> /\ r.completed = << >>
<1> DEFINE a == Append(q.completed, Block(q))
           e == << >>
           v == q.currentFrameNumber
           b == q.multiFecCurrentBlockNumber
           u == [q EXCEPT !.pending = {}, !.made = {}, !.completed = a]
           w == [u EXCEPT !.multiFecCurrentBlockNumber = b + 1]
           x == [u EXCEPT !.completed = e, !.currentFrameNumber = v + 1,
                          !.multiFecCurrentBlockNumber = 0]
<1>1. v \in Nat /\ b \in 0 .. 3 /\ q.multiFecLastBlockNumber \in 0 .. 3
  BY DEF QueueType
<1>2. a \in Seq(FecBlocks) /\ e \in Seq(FecBlocks)
  BY DEF QueueType
<1>3. \A t : t = e => t = << >>
  OBVIOUS
<1> HIDE DEF a
<1>4. /\ u \in QueueType /\ u.pending = {} /\ Block(u) = Block(q) /\ u.completed = a
      /\ u.currentFrameNumber = v /\ u.multiFecCurrentBlockNumber = b
      /\ u.multiFecLastBlockNumber = q.multiFecLastBlockNumber
      /\ u.missingPackets = q.missingPackets /\ u.reportedLostFrame = q.reportedLostFrame
  BY <1>2 DEF QueueType, Block
<1>5. Stage(q) = IF b < q.multiFecLastBlockNumber THEN w ELSE x
  <2>1. Stage(q) = IF b < q.multiFecLastBlockNumber
                   THEN [u EXCEPT !.multiFecCurrentBlockNumber = @ + 1]
                   ELSE [u EXCEPT !.completed = << >>, !.currentFrameNumber = @ + 1,
                                  !.multiFecCurrentBlockNumber = 0]
    <3>1. u = [q EXCEPT !.pending = {}, !.made = {}, !.completed = Append(@, <<v, b>>)]
      BY DEF a, Block, QueueType
    <3> QED BY <3>1 DEF Stage
  <2> HIDE DEF u
  <2> QED BY <1>4, <2>1 DEF QueueType
<1> HIDE DEF u, v, b, e
<1>6. ASSUME b < q.multiFecLastBlockNumber
      PROVE  /\ w \in QueueType /\ w.pending = {} /\ w.missingPackets = q.missingPackets
             /\ w.reportedLostFrame = q.reportedLostFrame
             /\ Block(w) = <<v, b + 1>> /\ w.completed = a
  <2>1. b + 1 \in 0 .. 3
    BY <1>1, <1>6
  <2> QED BY <1>4, <2>1 DEF QueueType, Block
<1>7. /\ x \in QueueType /\ x.pending = {} /\ x.missingPackets = q.missingPackets
      /\ x.reportedLostFrame = q.reportedLostFrame
      /\ Block(x) = <<v + 1, 0>> /\ x.completed = e
  <2> DEFINE y(n, z) == [u EXCEPT !.completed = e, !.currentFrameNumber = n,
                                  !.multiFecCurrentBlockNumber = z]
  <2>1. \A n \in Nat, z \in 0 .. 3 : /\ y(n, z) \in QueueType /\ y(n, z).pending = {}
                                     /\ y(n, z).missingPackets = q.missingPackets
                                     /\ y(n, z).reportedLostFrame = q.reportedLostFrame
                                     /\ Block(y(n, z)) = <<n, z>> /\ y(n, z).completed = e
    BY <1>2, <1>4 DEF QueueType, Block
  <2>2. x = y(v + 1, 0) /\ v + 1 \in Nat /\ 0 \in 0 .. 3
    BY <1>1
  <2> HIDE DEF y, x
  <2> QED BY <2>1, <2>2
<1> HIDE DEF w, x
<1> QED BY <1>3, <1>5, <1>6, <1>7 DEF a, v, b
-------------------------------------------------------------------------------
(***************************************************************************)
(* The order of the stream: a block ends where the next begins, so that a  *)
(* position belongs to one packet.                                         *)
(***************************************************************************)
Of(p) == <<p.frame, p.block>>
Earlier(c, d) == c[1] < d[1] \/ (c[1] = d[1] /\ c[2] < d[2])

LEMMA LastShape == \A n \in Frames : n \in Nat /\ LastBlock(n) \in 0 .. 3
<1> SUFFICES ASSUME NEW n \in Frames PROVE n \in Nat /\ LastBlock(n) \in 0 .. 3
  OBVIOUS
<1>1. n \in Nat /\ Len(Layout[n]) - 1 \in 0 .. 3
  BY FrameShape, Half
<1> QED BY <1>1, FrameShape

LEMMA FecBlockIs ==
  ASSUME NEW c \in FecBlocks
  PROVE  /\ c[1] \in Frames /\ c[2] \in 0 .. LastBlock(c[1]) /\ c = <<c[1], c[2]>>
         /\ First(c) \in Nat /\ Size(c) \in Nat \ {0} /\ End(c) \in Nat
         /\ Data(c) \in 1 .. Size(c)
<1>1. PICK n \in Frames : c \in {n} \X (0 .. Len(Layout[n]) - 1)
  BY DEF FecBlocks
<1>2. n = c[1] /\ c = <<c[1], c[2]>> /\ c[2] \in 0 .. LastBlock(n)
  BY <1>1 DEF LastBlock
<1>3. /\ First(c) \in Nat /\ Size(c) \in 1 .. H /\ Data(c) \in Nat \ {0} /\ Parity(c) \in Nat
      /\ Size(c) = Data(c) + Parity(c)
  BY <1>2, BlockShape
<1>4. \A x, y \in Nat : x + y \in Nat
  OBVIOUS
<1> QED BY <1>2, <1>3, <1>4, Half DEF End

LEMMA BlocksFollow ==
  ASSUME NEW c \in FecBlocks, NextBlock(c) \in FecBlocks
  PROVE  First(NextBlock(c)) = End(c)
BY RtpVideoAssumption DEF End

\* Of the blocks of a frame each begins behind the end of those before it.
LEMMA WithinFrame ==
  ASSUME NEW n \in Frames, NEW a \in 0 .. LastBlock(n), NEW b \in 0 .. LastBlock(n), a < b
  PROVE  End(<<n, a>>) <= First(<<n, b>>)
<1>1. LastBlock(n) \in 0 .. 3
  BY LastShape
<1>2. ASSUME NEW k \in 0 .. LastBlock(n), k < LastBlock(n)
      PROVE  /\ k + 1 \in 0 .. LastBlock(n) /\ First(<<n, k + 1>>) = End(<<n, k>>)
             /\ First(<<n, k + 1>>) \in Nat /\ End(<<n, k + 1>>) \in Nat
             /\ First(<<n, k + 1>>) <= End(<<n, k + 1>>)
  <2>1. k + 1 \in 0 .. LastBlock(n)
    BY <1>1, <1>2
  <2>2. <<n, k>> \in FecBlocks /\ <<n, k + 1>> \in FecBlocks
    BY <2>1, BlockShape
  <2>3. NextBlock(<<n, k>>) = <<n, k + 1>>
    BY <1>2 DEF NextBlock
  <2>4. First(<<n, k + 1>>) = End(<<n, k>>)
    BY <2>2, <2>3, BlocksFollow
  <2> QED BY <2>1, <2>2, <2>4, FecBlockIs DEF End
<1> DEFINE f(k) == First(<<n, k>>)
           e(k) == End(<<n, k>>)
<1>3. \A k \in 0 .. LastBlock(n) : k < LastBlock(n) =>
        /\ k + 1 \in 0 .. LastBlock(n) /\ f(k + 1) = e(k)
        /\ f(k + 1) \in Nat /\ e(k + 1) \in Nat /\ f(k + 1) <= e(k + 1)
  BY <1>2
<1> HIDE DEF f, e
<1>4. PICK l \in 0 .. 3 : l = LastBlock(n)
  BY <1>1
<1>5. a \in 0 .. 3 /\ b \in 0 .. 3 /\ b <= l
  BY <1>4
<1>6. CASE b = a + 1
  BY <1>3, <1>4, <1>5, <1>6 DEF f, e
<1>7. CASE b = a + 2
  <2>1. a + 1 \in 0 .. l /\ f(a + 1) = e(a) /\ e(a + 1) >= f(a + 1) /\ f(a + 1) \in Nat
        /\ e(a + 1) \in Nat
    BY <1>3, <1>4, <1>5, <1>7
  <2>2. f((a + 1) + 1) = e(a + 1) /\ (a + 1) + 1 = b
    BY <1>3, <1>4, <1>5, <1>7, <2>1
  <2> QED BY <2>1, <2>2 DEF f, e
<1>8. CASE b = a + 3
  <2>1. f(1) = e(0) /\ f(2) = e(1) /\ f(3) = e(2) /\ a = 0 /\ b = 3
        /\ e(1) >= f(1) /\ e(2) >= f(2)
        /\ f(1) \in Nat /\ e(1) \in Nat /\ f(2) \in Nat /\ e(2) \in Nat
    <3>1. a = 0 /\ b = 3 /\ l = 3
      BY <1>4, <1>5, <1>8
    <3>2. \A k \in {0, 1, 2} : f(k + 1) = e(k) /\ f(k + 1) \in Nat /\ e(k + 1) \in Nat
                               /\ f(k + 1) <= e(k + 1)
      BY <1>3, <1>4, <3>1
    <3> QED BY <3>1, <3>2
  <2> QED BY <2>1 DEF f, e
<1> QED BY <1>4, <1>5, <1>6, <1>7, <1>8

LEMMA SetInduction ==
  ASSUME NEW T, 0 \in T, \A n \in Nat : n \in T => n + 1 \in T
  PROVE  Nat \subseteq T
<1> DEFINE U == Nat \ T
           less == {e \in Nat \X Nat : e[1] < e[2]}
<1> SUFFICES ASSUME U # {} PROVE FALSE
  OBVIOUS
<1>1. IsWellFoundedOn(less, Nat)
  BY NatLessThanWellFounded DEF OpToRel
<1>2. PICK m \in U : \A n \in U : ~(<<n, m>> \in less)
  BY <1>1, WFMin
<1>3. \A n \in U : ~(n < m)
  BY <1>2
<1>4. m \in Nat /\ m # 0 /\ m \notin T /\ m - 1 \in Nat
  OBVIOUS
<1>5. m - 1 \in T
  BY <1>3, <1>4
<1> QED BY <1>4, <1>5

\* A frame begins behind the end of the last block of any frame before it.
LEMMA AcrossFrames ==
  ASSUME NEW n \in Frames, NEW m \in Frames, n < m
  PROVE  End(<<n, LastBlock(n)>>) <= First(<<m, 0>>)
<1> DEFINE x == End(<<n, LastBlock(n)>>)
           T == {k \in Nat : n + 1 + k \in Frames => x <= First(<<n + 1 + k, 0>>)}
<1>1. n \in Nat /\ m \in Nat /\ \A k \in Nat : n + 1 + k \in Nat
  BY LastShape
<1>2. ASSUME NEW k \in Frames
      PROVE  /\ LastBlock(k) \in 0 .. LastBlock(k) /\ 0 \in 0 .. LastBlock(k)
             /\ <<k, 0>> \in FecBlocks /\ <<k, LastBlock(k)>> \in FecBlocks
             /\ First(<<k, 0>>) \in Nat /\ End(<<k, LastBlock(k)>>) \in Nat
             /\ First(<<k, 0>>) <= End(<<k, LastBlock(k)>>)
             /\ k + 1 \in Frames => First(<<k + 1, 0>>) = End(<<k, LastBlock(k)>>)
  <2>1. LastBlock(k) \in 0 .. LastBlock(k) /\ 0 \in 0 .. LastBlock(k)
    BY LastShape
  <2>2. <<k, 0>> \in FecBlocks /\ <<k, LastBlock(k)>> \in FecBlocks
    BY <2>1, BlockShape
  <2>3. /\ First(<<k, 0>>) \in Nat /\ End(<<k, LastBlock(k)>>) \in Nat
        /\ End(<<k, 0>>) \in Nat /\ First(<<k, LastBlock(k)>>) \in Nat
        /\ First(<<k, 0>>) <= End(<<k, 0>>)
        /\ First(<<k, LastBlock(k)>>) <= End(<<k, LastBlock(k)>>)
    BY <2>2, FecBlockIs DEF End
  <2>4. First(<<k, 0>>) <= End(<<k, LastBlock(k)>>)
    <3>1. CASE LastBlock(k) = 0
      BY <2>3, <3>1
    <3>2. CASE 0 < LastBlock(k)
      <4>1. End(<<k, 0>>) <= First(<<k, LastBlock(k)>>)
        BY <2>1, <3>2, WithinFrame
      <4> QED BY <2>3, <4>1
    <3>3. LastBlock(k) \in 0 .. 3
      BY LastShape
    <3> QED BY <3>1, <3>2, <3>3
  <2>5. ASSUME k + 1 \in Frames PROVE First(<<k + 1, 0>>) = End(<<k, LastBlock(k)>>)
    <3>1. NextBlock(<<k, LastBlock(k)>>) = <<k + 1, 0>>
      <4>1. LastBlock(k) \in 0 .. 3
        BY LastShape
      <4> QED BY <4>1 DEF NextBlock
    <3>2. <<k + 1, 0>> \in FecBlocks
      <4>1. LastBlock(k + 1) \in 0 .. 3
        BY <2>5, LastShape
      <4>2. 0 \in 0 .. LastBlock(k + 1)
        BY <4>1
      <4> QED BY <2>5, <4>2, BlockShape
    <3> QED BY <2>2, <3>1, <3>2, BlocksFollow
  <2> QED BY <2>1, <2>2, <2>3, <2>4, <2>5
<1>3. x \in Nat
  BY <1>2
<1>4. 0 \in T
  <2>1. ASSUME n + 1 \in Frames PROVE x = First(<<n + 1, 0>>)
    BY <1>2, <2>1
  <2>2. n + 1 + 0 = n + 1 /\ (n + 1 + 0 \in Frames => x <= First(<<n + 1 + 0, 0>>))
    BY <1>1, <1>3, <2>1
  <2> QED BY <2>2
<1>5. ASSUME NEW k \in Nat, k \in T PROVE k + 1 \in T
  <2>1. ASSUME n + 1 + (k + 1) \in Frames PROVE x <= First(<<n + 1 + (k + 1), 0>>)
    <3>1. PICK j \in Nat : j = n + 1 + k
      BY <1>1
    <3>2. n + 1 + (k + 1) = j + 1 /\ j + 1 \in Frames
      BY <1>1, <2>1, <3>1
    <3>3. j \in Frames
      BY <1>1, <3>1, <3>2, FrameShape, Half
    <3>4. x <= First(<<j, 0>>)
      BY <1>5, <3>1, <3>3
    <3>5. First(<<j, 0>>) \in Nat /\ First(<<j + 1, 0>>) \in Nat
          /\ First(<<j, 0>>) <= First(<<j + 1, 0>>)
      BY <1>2, <3>2, <3>3
    <3> HIDE DEF x
    <3>6. x <= First(<<j + 1, 0>>)
      BY <1>3, <3>4, <3>5
    <3> QED BY <3>2, <3>6
  <2>2. k + 1 \in Nat
    OBVIOUS
  <2> QED BY <2>1, <2>2
<1> HIDE DEF T
<1>6. Nat \subseteq T
  BY <1>4, <1>5, SetInduction
<1>7. PICK k \in Nat : m = n + 1 + k
  <2>1. m - n - 1 \in Nat /\ m = n + 1 + (m - n - 1)
    BY <1>1
  <2> QED BY <2>1
<1>8. k \in T
  BY <1>6
<1> QED BY <1>7, <1>8 DEF T

LEMMA BlocksInOrder ==
  ASSUME NEW c \in FecBlocks, NEW d \in FecBlocks, Earlier(c, d)
  PROVE  End(c) <= First(d)
<1>1. PICK n \in Frames, m \in Frames : n = c[1] /\ m = d[1]
  BY FecBlockIs
<1>2. PICK a \in 0 .. LastBlock(n), b \in 0 .. LastBlock(m) : c = <<n, a>> /\ d = <<m, b>>
  BY <1>1, FecBlockIs
<1>3. n \in Nat /\ m \in Nat /\ LastBlock(n) \in 0 .. 3 /\ LastBlock(m) \in 0 .. 3
  BY LastShape
<1>4. CASE n = m
  <2>1. a < b
    BY <1>1, <1>2, <1>3, <1>4 DEF Earlier
  <2> QED BY <1>2, <1>4, <2>1, WithinFrame
<1>5. CASE n < m
  <2>1. LastBlock(n) \in 0 .. LastBlock(n) /\ 0 \in 0 .. LastBlock(m)
    BY <1>3
  <2>2. <<n, LastBlock(n)>> \in FecBlocks /\ <<m, 0>> \in FecBlocks
    BY <2>1, BlockShape
  <2>3. End(<<n, LastBlock(n)>>) <= First(<<m, 0>>)
    BY <1>5, AcrossFrames
  <2>4. End(c) <= End(<<n, LastBlock(n)>>)
    <3>1. CASE a < LastBlock(n)
      <4>1. End(<<n, a>>) <= First(<<n, LastBlock(n)>>)
        BY <2>1, <3>1, WithinFrame
      <4>2. /\ First(<<n, LastBlock(n)>>) \in Nat /\ End(<<n, LastBlock(n)>>) \in Nat
            /\ First(<<n, LastBlock(n)>>) <= End(<<n, LastBlock(n)>>)
        BY <2>2, FecBlockIs DEF End
      <4> QED BY <1>2, <4>1, <4>2, FecBlockIs
    <3>2. CASE a = LastBlock(n)
      BY <1>2, <2>2, <3>2, FecBlockIs
    <3> QED BY <1>3, <3>1, <3>2
  <2>5. First(<<m, 0>>) <= First(d)
    <3>1. CASE 0 < b
      <4>1. End(<<m, 0>>) <= First(<<m, b>>)
        BY <2>1, <3>1, WithinFrame
      <4>2. First(<<m, 0>>) \in Nat /\ End(<<m, 0>>) \in Nat /\ First(<<m, 0>>) <= End(<<m, 0>>)
        BY <2>2, FecBlockIs DEF End
      <4> QED BY <1>2, <4>1, <4>2, FecBlockIs
    <3>2. CASE b = 0
      BY <1>2, <2>2, <3>2, FecBlockIs
    <3> QED BY <1>3, <3>1, <3>2
  <2>6. \A e, f, g, h \in Nat : e <= f /\ f <= g /\ g <= h => e <= h
    OBVIOUS
  <2> QED BY <2>2, <2>3, <2>4, <2>5, <2>6, FecBlockIs
<1>6. n = m \/ n < m
  BY <1>1, <1>3 DEF Earlier
<1> QED BY <1>4, <1>5, <1>6

LEMMA PacketIs ==
  ASSUME NEW p \in Packet
  PROVE  /\ Of(p) \in FecBlocks /\ Of(p)[1] = p.frame /\ Of(p)[2] = p.block
         /\ p.frame \in Frames /\ p.frame \in Nat /\ p.block \in 0 .. LastBlock(p.frame)
         /\ p.block \in Nat /\ LastBlock(p.frame) \in 0 .. 3
         /\ p.fecIndex \in Nat /\ p.fecIndex < Size(Of(p))
         /\ Position(p) = First(Of(p)) + p.fecIndex /\ Position(p) \in Nat
         /\ First(Of(p)) \in Nat /\ Size(Of(p)) \in Nat \ {0} /\ End(Of(p)) \in Nat
         /\ First(Of(p)) <= Position(p) /\ Position(p) < End(Of(p))
         /\ p = [frame |-> p.frame, block |-> p.block, fecIndex |-> p.fecIndex]
<1>1. /\ p.frame \in Frames /\ p.block \in 0 .. LastBlock(p.frame)
      /\ p.fecIndex \in 0 .. Size(Of(p)) - 1
      /\ Position(p) = First(Of(p)) + p.fecIndex /\ Position(p) \in Nat
  BY PacketShape DEF Of
<1>2. Of(p) \in FecBlocks /\ Of(p)[1] = p.frame /\ Of(p)[2] = p.block
  BY <1>1, BlockShape DEF Of
<1>3. First(Of(p)) \in Nat /\ Size(Of(p)) \in Nat \ {0} /\ End(Of(p)) \in Nat
      /\ End(Of(p)) = First(Of(p)) + Size(Of(p))
  BY <1>2, FecBlockIs DEF End
<1>4. p.frame \in Nat /\ LastBlock(p.frame) \in 0 .. 3
  BY <1>1, LastShape
<1>5. p = [frame |-> p.frame, block |-> p.block, fecIndex |-> p.fecIndex]
  BY DEF Packet
<1>6. p.block \in Nat
  BY <1>1, <1>4
<1> DEFINE z == Size(Of(p))
           a == First(Of(p))
           e == End(Of(p))
           i == p.fecIndex
<1>7. i \in Nat /\ i < z /\ a <= a + i /\ a + i < e
  <2>1. z \in Nat /\ a \in Nat /\ e = a + z /\ i \in 0 .. z - 1
    BY <1>1, <1>3
  <2> HIDE DEF z, a, e, i
  <2> QED BY <2>1
<1> QED BY <1>1, <1>2, <1>3, <1>4, <1>5, <1>6, <1>7

\* A block of the stream is before another, behind it, or that block.
LEMMA BlocksOrdered ==
  ASSUME NEW c \in FecBlocks, NEW d \in FecBlocks
  PROVE  Earlier(c, d) \/ Earlier(d, c) \/ c = d
<1>1. PICK n \in Nat, m \in Nat : n = c[1] /\ m = d[1]
  BY FecBlockIs, LastShape
<1>2. PICK a \in Int, b \in Int : a = c[2] /\ b = d[2] /\ c = <<n, a>> /\ d = <<m, b>>
  BY <1>1, FecBlockIs, LastShape
<1>3. n < m \/ m < n \/ (n = m /\ (a < b \/ b < a \/ a = b))
  OBVIOUS
<1> QED BY <1>1, <1>2, <1>3 DEF Earlier

LEMMA PositionsInOrder ==
  ASSUME NEW p \in Packet, NEW r \in Packet, Earlier(Of(p), Of(r))
  PROVE  Position(p) < End(Of(p)) /\ End(Of(p)) <= Position(r)
<1>1. End(Of(p)) <= First(Of(r))
  BY PacketIs, BlocksInOrder
<1> QED BY <1>1, PacketIs

\* No two packets have one position.
LEMMA OnePacket ==
  ASSUME NEW p \in Packet, NEW r \in Packet, Position(p) = Position(r)
  PROVE  p = r
<1>1. Of(p) = Of(r)
  BY BlocksOrdered, PositionsInOrder, PacketIs
<1>2. p.frame = r.frame /\ p.block = r.block
  BY <1>1, PacketIs
<1>3. p.fecIndex = r.fecIndex
  BY <1>1, PacketIs
<1> QED BY <1>2, <1>3, PacketIs

\* The packet behind another is the next of its block, or the first of the next block.
LEMMA PacketBehind ==
  ASSUME NEW p \in Packet, NEW r \in Packet, Position(r) = Position(p) + 1
  PROVE  IF p.fecIndex + 1 < Size(Of(p))
         THEN Of(r) = Of(p) /\ r.fecIndex = p.fecIndex + 1
         ELSE Of(r) = NextBlock(Of(p)) /\ r.fecIndex = 0
<1> DEFINE c == Of(p)
           d == Of(r)
<1>1. /\ c \in FecBlocks /\ d \in FecBlocks /\ First(c) \in Nat /\ First(d) \in Nat
      /\ Size(c) \in Nat /\ End(c) = First(c) + Size(c)
      /\ Position(p) = First(c) + p.fecIndex /\ Position(r) = First(d) + r.fecIndex
      /\ p.fecIndex \in Nat /\ r.fecIndex \in Nat /\ p.fecIndex < Size(c)
  BY PacketIs DEF End
<1>2. ~Earlier(d, c)
  <2> SUFFICES ASSUME Earlier(d, c) PROVE FALSE
    OBVIOUS
  <2>1. Position(r) < Position(p)
    BY PositionsInOrder, PacketIs
  <2> QED BY <2>1, PacketIs
<1>3. CASE p.fecIndex + 1 < Size(c)
  <2>1. ~Earlier(c, d)
    <3> SUFFICES ASSUME Earlier(c, d) PROVE FALSE
      OBVIOUS
    <3>1. End(c) <= Position(r)
      BY PositionsInOrder
    <3> QED BY <1>1, <1>3, <3>1
  <2>2. c = d
    BY <1>1, <1>2, <2>1, BlocksOrdered
  <2> QED BY <1>1, <1>3, <2>2
<1>4. CASE ~(p.fecIndex + 1 < Size(c))
  <2>1. Position(r) = End(c)
    BY <1>1, <1>4
  <2>2. Earlier(c, d)
    <3>1. c # d
      <4> SUFFICES ASSUME c = d PROVE FALSE
        OBVIOUS
      <4>1. Position(r) < End(c)
        BY PacketIs
      <4> QED BY <2>1, <4>1, PacketIs
    <3> QED BY <1>1, <1>2, <3>1, BlocksOrdered
  <2> DEFINE e == NextBlock(c)
  <2>3. e \in FecBlocks /\ (e = d \/ Earlier(e, d)) /\ Earlier(c, e)
    <3>1. PICK n \in Frames, b \in 0 .. 3 :
            n = p.frame /\ b = p.block /\ c = <<n, b>> /\ b \in 0 .. LastBlock(n)
      <4>1. p.block \in 0 .. 3 /\ p.frame \in Frames /\ p.block \in 0 .. LastBlock(p.frame)
        BY PacketIs
      <4> QED BY <4>1 DEF Of
    <3>2. PICK m \in Frames, a \in 0 .. 3 :
            m = r.frame /\ a = r.block /\ d = <<m, a>> /\ a \in 0 .. LastBlock(m)
      <4>1. r.block \in 0 .. 3 /\ r.frame \in Frames /\ r.block \in 0 .. LastBlock(r.frame)
        BY PacketIs
      <4> QED BY <4>1 DEF Of
    <3>3. n \in Nat /\ m \in Nat /\ LastBlock(n) \in 0 .. 3 /\ LastBlock(m) \in 0 .. 3
      BY LastShape
    <3>4. CASE b < LastBlock(n)
      <4>1. e = <<n, b + 1>> /\ b + 1 \in 0 .. LastBlock(n)
        BY <3>1, <3>3, <3>4 DEF NextBlock
      <4>2. e \in FecBlocks
        BY <4>1, BlockShape
      <4>3. n < m \/ (n = m /\ (b + 1 = a \/ b + 1 < a))
        BY <2>2, <3>1, <3>2, <3>3 DEF Earlier
      <4> QED BY <3>1, <3>2, <3>3, <4>1, <4>2, <4>3 DEF Earlier
    <3>5. CASE b = LastBlock(n)
      <4>1. e = <<n + 1, 0>>
        BY <3>1, <3>5 DEF NextBlock
      <4>2. n < m
        BY <2>2, <3>1, <3>2, <3>3, <3>5 DEF Earlier
      <4>3. n + 1 \in Frames
        BY <3>1, <3>2, <3>3, <4>2, FrameShape, Half
      <4>4. 0 \in 0 .. LastBlock(n + 1)
        BY <4>3, LastShape
      <4>5. e \in FecBlocks
        BY <4>1, <4>3, <4>4, BlockShape
      <4>6. n + 1 < m \/ (n + 1 = m /\ (0 = a \/ 0 < a))
        BY <3>2, <3>3, <4>2
      <4> QED BY <3>1, <3>2, <3>3, <4>1, <4>5, <4>6 DEF Earlier
    <3> QED BY <3>1, <3>3, <3>4, <3>5
  <2> HIDE DEF e
  <2>4. First(e) = End(c) /\ End(e) \in Nat /\ First(e) \in Nat /\ First(e) < End(e)
    <3>1. First(e) = End(c)
      BY <1>1, <2>3, BlocksFollow DEF e
    <3>2. First(e) \in Nat /\ Size(e) \in Nat \ {0} /\ End(e) = First(e) + Size(e)
      BY <2>3, FecBlockIs DEF End
    <3> QED BY <3>1, <3>2
  <2>5. e = d
    <3> SUFFICES ASSUME Earlier(e, d) PROVE FALSE
      BY <2>3
    <3>1. End(e) <= First(d)
      BY <1>1, <2>3, BlocksInOrder
    <3> QED BY <1>1, <2>1, <2>4, <3>1
  <2>6. r.fecIndex = 0
    BY <1>1, <2>1, <2>4, <2>5
  <2> QED BY <1>4, <2>5, <2>6 DEF e
<1> QED BY <1>3, <1>4

\* The packet that ends a block, and the one at the end of a frame.
LEMMA LastPacket ==
  ASSUME NEW n \in Frames, NEW i \in Nat, i < Size(<<n, LastBlock(n)>>)
  PROVE  \E p \in Packet : /\ Of(p) = <<n, LastBlock(n)>> /\ p.fecIndex = i
                           /\ p.frame = n /\ p.block = LastBlock(n)
<1> DEFINE c == <<n, LastBlock(n)>>
           p == [frame |-> c[1], block |-> c[2], fecIndex |-> i]
<1>1. c \in FecBlocks
  <2>1. LastBlock(n) \in 0 .. LastBlock(n)
    BY LastShape
  <2> QED BY <2>1, BlockShape
<1>2. i \in 0 .. Size(c) - 1
  BY <1>1, FecBlockIs
<1>3. p \in Packet
  BY <1>1, <1>2 DEF Packet
<1>4. Of(p) = <<n, LastBlock(n)>> /\ p.fecIndex = i /\ p.frame = n /\ p.block = LastBlock(n)
  BY DEF Of
<1> QED BY <1>3, <1>4

LEMMA PacketAtEnd ==
  ASSUME NEW p \in Packet, NEW n \in Frames, Position(p) = End(<<n, LastBlock(n)>>)
  PROVE  p.frame = n + 1 /\ p.block = 0 /\ p.fecIndex = 0
<1>1. Position(p) = End(<<n, LastBlock(n)>>)
  OBVIOUS
<1> DEFINE c == <<n, LastBlock(n)>>
<1>2. c \in FecBlocks
  <2>1. LastBlock(n) \in 0 .. LastBlock(n)
    BY LastShape
  <2> QED BY <2>1, BlockShape
<1>3. PICK z \in Nat \ {0}, a \in Nat : z = Size(c) /\ a = First(c) /\ End(c) = a + z
  BY <1>2, FecBlockIs DEF End
<1>4. z - 1 \in Nat /\ z - 1 < Size(c)
  BY <1>3
<1>5. PICK r \in Packet : Of(r) = c /\ r.fecIndex = z - 1
  BY <1>4, LastPacket
<1>6. Position(r) = a + (z - 1)
  BY <1>3, <1>5, PacketIs
<1>7. Position(p) = Position(r) + 1
  BY <1>1, <1>3, <1>6
<1>8. Of(p) = NextBlock(Of(r)) /\ p.fecIndex = 0
  <2>1. ~(r.fecIndex + 1 < Size(Of(r)))
    BY <1>3, <1>5
  <2> QED BY <1>7, <2>1, PacketBehind
<1>9. NextBlock(c) = <<n + 1, 0>>
  BY LastShape DEF NextBlock
<1> QED BY <1>5, <1>8, <1>9, PacketIs

LEMMA FirstsGrow ==
  ASSUME NEW n \in Frames, NEW m \in Frames, n <= m
  PROVE  /\ First(<<n, 0>>) <= First(<<m, 0>>) /\ (n < m => First(<<n, 0>>) < First(<<m, 0>>))
         /\ First(<<n, 0>>) \in Nat /\ First(<<m, 0>>) \in Nat
<1>1. 0 \in 0 .. LastBlock(n) /\ 0 \in 0 .. LastBlock(m) /\ n \in Nat /\ m \in Nat
  BY LastShape
<1>2. <<n, 0>> \in FecBlocks /\ <<m, 0>> \in FecBlocks
  BY <1>1, BlockShape
<1>3. ASSUME n < m PROVE First(<<n, 0>>) < First(<<m, 0>>)
  <2>1. End(<<n, 0>>) <= First(<<m, 0>>)
    BY <1>2, <1>3, BlocksInOrder DEF Earlier
  <2> QED BY <1>2, <2>1, FecBlockIs DEF End
<1>4. n = m \/ n < m
  BY <1>1
<1> QED BY <1>2, <1>3, <1>4, FecBlockIs

\* Between the starts of two frames are at least as many packets as frames.
LEMMA FramesApart ==
  ASSUME NEW n \in Frames, NEW m \in Frames, n <= m
  PROVE  First(<<n, 0>>) + (m - n) <= First(<<m, 0>>)
<1> DEFINE f(k) == First(<<k, 0>>)
           T == {k \in Nat : n + k \in Frames => f(n) + k <= f(n + k)}
<1>1. n \in Nat /\ m \in Nat
  BY LastShape
<1>2. ASSUME NEW k \in Frames PROVE f(k) \in Nat
  <2>1. k <= k
    BY LastShape
  <2> QED BY <2>1, FirstsGrow
<1>3. 0 \in T
  <2>1. n + 0 = n /\ f(n) \in Nat
    BY <1>1, <1>2
  <2> HIDE DEF f
  <2> QED BY <2>1
<1>4. ASSUME NEW k \in Nat, k \in T PROVE k + 1 \in T
  <2>1. ASSUME n + (k + 1) \in Frames PROVE f(n) + (k + 1) <= f(n + (k + 1))
    <3>1. PICK j \in Nat : j = n + k /\ n + (k + 1) = j + 1
      BY <1>1
    <3>2. j \in Frames /\ j + 1 \in Frames
      BY <1>1, <2>1, <3>1, FrameShape, Half
    <3>3. f(j) < f(j + 1)
      BY <3>2, FirstsGrow
    <3>4. f(n) \in Nat /\ f(j) \in Nat /\ f(j + 1) \in Nat
      BY <1>2, <3>2
    <3> HIDE DEF f
    <3>5. f(n) + k <= f(j)
      BY <1>4, <3>1, <3>2
    <3> QED BY <3>1, <3>3, <3>4, <3>5
  <2> HIDE DEF f
  <2> QED BY <2>1
<1> HIDE DEF T
<1>5. Nat \subseteq T
  BY <1>3, <1>4, SetInduction
<1>6. PICK k \in Nat : m = n + k
  <2>1. m - n \in Nat /\ m = n + (m - n)
    BY <1>1
  <2> QED BY <2>1
<1>7. f(n) + k <= f(n + k)
  BY <1>5, <1>6 DEF T
<1> QED BY <1>1, <1>6, <1>7

-------------------------------------------------------------------------------
(***************************************************************************)
(* The depacketizer gets what FrameFeed promises.                          *)
(***************************************************************************)
\* Numbers less than half the space apart compare as they are.
LEMMA BeforeNear ==
  ASSUME NEW x \in Int, NEW y \in Int, x - y \in -H .. H
  PROVE  isBefore16(x, y) <=> x < y
<1>1. x - y \in -W .. 2 * W - 1 /\ x - y < W
  BY Half
<1>2. (x - y) % W = IF x - y < 0 THEN x - y + W ELSE x - y
  BY <1>1, ModNear, Half
<1> QED BY <1>2, Half DEF isBefore16, H

Staged(n, b) == [i \in 1 .. b |-> <<n, i - 1>>]

\* The block that is collected is a block of the stream, and its buffer spans it.
Loaded(q) ==
  /\ q.currentFrameNumber \in Frames
  /\ q.multiFecCurrentBlockNumber \in 0 .. LastBlock(q.currentFrameNumber)
  /\ q.multiFecLastBlockNumber = LastBlock(q.currentFrameNumber)
  /\ q.bufferLowestSequenceNumber = First(Block(q)) % W
  /\ q.bufferDataPackets = Data(Block(q)) /\ q.bufferParityPackets = Parity(Block(q))

\* What has been staged are the blocks of the frame before the one collected.
Covers(q) ==
  /\ q \in QueueType
  /\ q.currentFrameNumber \in 1 .. Len(Layout) + 1
  /\ q.completed = Staged(q.currentFrameNumber, q.multiFecCurrentBlockNumber)
  /\ q.pending # {} => Loaded(q)

LEMMA StagedNone == \A n : Staged(n, 0) = << >>
BY DEF Staged

LEMMA StagedNext ==
  ASSUME NEW n \in Frames, NEW b \in 0 .. LastBlock(n)
  PROVE  Append(Staged(n, b), <<n, b>>) = Staged(n, b + 1)
<1>1. b \in Nat /\ LastBlock(n) \in Nat
  BY LastShape
<1>2. \A i \in 1 .. b : <<n, i - 1>> \in FecBlocks
  <2>1. \A i \in 1 .. b : i - 1 \in 0 .. LastBlock(n)
    BY <1>1
  <2> QED BY <2>1, BlockShape
<1>3. Staged(n, b) \in Seq(FecBlocks) /\ Len(Staged(n, b)) = b
  BY <1>1, <1>2 DEF Staged
<1> DEFINE l == Append(Staged(n, b), <<n, b>>)
           r == Staged(n, b + 1)
<1>4. <<n, b>> \in FecBlocks
  BY BlockShape
<1>5. l \in Seq(FecBlocks) /\ Len(l) = b + 1
  BY <1>3, <1>4
<1>6. r \in Seq(FecBlocks) /\ Len(r) = b + 1
  <2>1. \A i \in 1 .. b + 1 : <<n, i - 1>> \in FecBlocks
    <3>1. \A i \in 1 .. b + 1 : i - 1 \in 0 .. LastBlock(n)
      BY <1>1, FrameShape
    <3> QED BY <3>1, BlockShape
  <2> QED BY <1>1, <2>1 DEF Staged
<1> HIDE DEF l, r
<1>7. \A i \in 1 .. b + 1 : l[i] = r[i]
  <2> SUFFICES ASSUME NEW i \in 1 .. b + 1 PROVE l[i] = r[i]
    OBVIOUS
  <2>1. CASE i = b + 1
    <3>1. l[i] = <<n, b>>
      BY <1>3, <1>4, <2>1 DEF l
    <3>2. r[i] = <<n, i - 1>>
      BY <1>1 DEF Staged, r
    <3> QED BY <1>1, <2>1, <3>1, <3>2
  <2>2. CASE i \in 1 .. b
    <3>1. l[i] = Staged(n, b)[i]
      BY <1>3, <1>4, <2>2 DEF l
    <3> QED BY <1>1, <2>2, <3>1 DEF Staged, r
  <2> QED BY <1>1, <2>1, <2>2
<1>8. l = r
  BY <1>5, <1>6, <1>7, SeqEqual
<1> QED BY <1>8 DEF l, r

\* The calls as the depacketizer's contract sees them.
Heard(c) == IF c.call = "notifyFrameLost" THEN c
            ELSE [call |-> IF WholeFrame(c.blocks) THEN "queueRtpPacket" ELSE "partial",
                  frame |-> c.blocks[1][1]]
AllHeard(cs) == [i \in DOMAIN cs |-> Heard(cs[i])]

LEMMA HeardNone == AllHeard(<< >>) = << >>
BY DEF AllHeard

LEMMA HeardOne == \A c : AllHeard(<<c>>) = <<Heard(c)>>
BY DEF AllHeard

LEMMA HeardTwo == \A c, d : AllHeard(<<c, d>>) = <<Heard(c), Heard(d)>>
BY DEF AllHeard

LEMMA HeardLost == \A n : Heard(Lost(n)) = Feed!Lost(n)
BY DEF Heard, Lost, Feed!Lost

LEMMA HeardWhole ==
  ASSUME NEW n \in Frames
  PROVE  Heard(Submit(Staged(n, LastBlock(n) + 1))) = Feed!Whole(n)
<1> DEFINE s == Staged(n, LastBlock(n) + 1)
<1>1. LastBlock(n) + 1 = Len(Layout[n]) /\ Len(Layout[n]) \in 1 .. 4
  BY FrameShape
<1>2. s = [i \in 1 .. Len(Layout[n]) |-> <<n, i - 1>>] /\ 1 \in 1 .. Len(Layout[n])
  BY <1>1 DEF Staged
<1>3. s[1][1] = n
  BY <1>2
<1> HIDE DEF s
<1>4. WholeFrame(s)
  BY <1>2, <1>3 DEF WholeFrame
<1>5. Submit(s).call = "queueRtpPacket" /\ Submit(s).blocks = s
  BY DEF Submit
<1> QED BY <1>3, <1>4, <1>5 DEF Heard, Feed!Whole, s

\* A packet's frame is less than half the space behind the queue's.
Near(p) == queue.currentFrameNumber - p.frame <= H

\* What is not stale belongs to no earlier frame, and in its frame to no earlier block.
LEMMA NotBehind ==
  ASSUME Covers(queue), NEW p \in Packet, Near(p), ~Stale(queue, p)
  PROVE  /\ queue.currentFrameNumber <= p.frame
         /\ p.frame = queue.currentFrameNumber => queue.multiFecCurrentBlockNumber <= p.block
<1> DEFINE v == queue.currentFrameNumber
           b == queue.multiFecCurrentBlockNumber
<1>1. v \in Nat /\ b \in 0 .. 3
  BY DEF Covers, QueueType
<1>2. p.frame \in Nat /\ p.block \in 0 .. 3
  <2>1. p.frame \in Frames /\ p.block \in 0 .. LastBlock(p.frame)
    BY PacketShape
  <2> QED BY <2>1, LastShape
<1>3. v - p.frame <= H
  BY DEF Near
<1> HIDE DEF v, b
<1>4. p.frame < v => isBefore16(p.frame, v)
  <2> SUFFICES ASSUME p.frame < v PROVE isBefore16(p.frame, v)
    OBVIOUS
  <2>1. p.frame - v \in -H .. H /\ p.frame \in Int /\ v \in Int
    BY <1>1, <1>2, <1>3, Half
  <2> QED BY <2>1, BeforeNear
<1>5. ~isBefore16(p.frame, v) /\ ~(p.frame = v /\ p.block < b)
  BY DEF Stale, v, b
<1> QED BY <1>1, <1>2, <1>4, <1>5 DEF v, b

\* What is told when a packet of frame n is taken: of the frames before n, but for
\* a single one that a report has covered.
Tells(n) ==
  IF \/ n > queue.currentFrameNumber + 1
     \/ n = queue.currentFrameNumber + 1 /\ ~queue.reportedLostFrame
  THEN <<Lost(n - 1)>> ELSE << >>

\* A packet that is not turned away finds its own block collected.
LEMMA ReadyShape ==
  ASSUME Covers(queue), NEW p \in Packet, Near(p), Enters(p)
  PROVE  /\ Covers(Ready(p)) /\ Loaded(Ready(p)) /\ Block(Ready(p)) = <<p.frame, p.block>>
         /\ queue.currentFrameNumber <= p.frame
         /\ ReadyCalls(p) = Tells(p.frame)
         /\ \/ Ready(p).reportedLostFrame = FALSE
            \/ /\ p.frame = queue.currentFrameNumber
               /\ Ready(p).reportedLostFrame = queue.reportedLostFrame
<1> DEFINE v == queue.currentFrameNumber
           c == <<p.frame, p.block>>
           r == Begin(queue, p)
<1>1. v <= p.frame /\ (p.frame = v => queue.multiFecCurrentBlockNumber <= p.block)
  BY NotBehind DEF Enters
<1>2. queue \in QueueType /\ v \in 1 .. Len(Layout) + 1 /\ Len(Layout) \in Nat
  BY FrameShape, Half DEF Covers
<1>3. p.frame \in Frames /\ p.block \in 0 .. LastBlock(p.frame)
  BY PacketShape
<1>4. CASE Starts(queue, p)
  <2>1. Ready(p) = r /\ ReadyCalls(p) = BeginCalls(queue, p)
    BY <1>4 DEF Ready, ReadyCalls
  <2>2. ~LostBlocks(queue, p)
    BY <1>4 DEF Enters
  <2>3. p.block = IF p.frame = v THEN queue.multiFecCurrentBlockNumber ELSE 0
    BY <2>2 DEF LostBlocks
  <2>4. /\ r \in QueueType /\ Block(r) = c
        /\ r.completed = IF p.frame = v THEN queue.completed ELSE << >>
        /\ r.multiFecLastBlockNumber = LastBlock(p.frame)
        /\ r.bufferLowestSequenceNumber = First(c) % W
        /\ r.bufferDataPackets = Data(c) /\ r.bufferParityPackets = Parity(c)
        /\ r.reportedLostFrame = FALSE
    BY <1>2, BeginShape
  <2> HIDE DEF r
  <2>5. r.currentFrameNumber = p.frame /\ r.multiFecCurrentBlockNumber = p.block
    BY <2>4 DEF Block
  <2>6. Loaded(r)
    BY <1>3, <2>4, <2>5 DEF Loaded
  <2>7. r.completed = Staged(p.frame, p.block)
    <3>1. CASE p.frame = v
      BY <2>3, <2>4, <3>1 DEF Covers
    <3>2. CASE p.frame # v
      BY <2>3, <2>4, <3>2, StagedNone
    <3> QED BY <3>1, <3>2
  <2>8. Covers(r)
    <3>1. p.frame \in 1 .. Len(Layout) + 1
      BY <1>2, <1>3, FrameShape
    <3> QED BY <2>4, <2>5, <2>6, <2>7, <3>1 DEF Covers
  <2>9. BeginCalls(queue, p) = Tells(p.frame)
    <3>1. p.frame # v => p.frame = v + 1 \/ p.frame > v + 1
      BY <1>1, <1>2, <1>3, FrameShape
    <3>2. p.frame = v => ~(p.frame > v + 1) /\ p.frame # v + 1
      BY <1>2
    <3>3. p.frame > v + 1 => p.frame # v + 1 /\ p.frame # v
      BY <1>2
    <3>4. p.frame = v + 1 => p.frame # v
      BY <1>2
    <3> QED BY <3>1, <3>2, <3>3, <3>4 DEF BeginCalls, Tells
  <2> QED BY <1>1, <2>1, <2>4, <2>6, <2>8, <2>9
<1>5. CASE ~Starts(queue, p)
  <2>1. Ready(p) = queue /\ ReadyCalls(p) = << >>
    BY <1>5 DEF Ready, ReadyCalls
  <2>2. queue.pending # {} /\ Block(queue) = c
    BY <1>5 DEF Starts, SameBlock, Block
  <2>3. Loaded(queue)
    BY <2>2 DEF Covers
  <2>4. p.frame = v
    BY <2>2 DEF Block
  <2>5. Tells(p.frame) = << >>
    BY <1>2, <2>4 DEF Tells
  <2> QED BY <1>1, <2>1, <2>2, <2>3, <2>4, <2>5
<1> QED BY <1>4, <1>5

\* Covers and Loaded are about these parts of the queue only.
LEMMA SameCovers ==
  ASSUME NEW q \in QueueType, NEW r \in QueueType,
         Covers(q), Loaded(q), Block(r) = Block(q), r.completed = q.completed,
         r.multiFecLastBlockNumber = q.multiFecLastBlockNumber,
         r.bufferLowestSequenceNumber = q.bufferLowestSequenceNumber,
         r.bufferDataPackets = q.bufferDataPackets, r.bufferParityPackets = q.bufferParityPackets
  PROVE  Covers(r) /\ Loaded(r)
<1>1. /\ r.currentFrameNumber = q.currentFrameNumber
      /\ r.multiFecCurrentBlockNumber = q.multiFecCurrentBlockNumber
  BY DEF Block
<1>2. Loaded(r)
  BY <1>1 DEF Loaded
<1> QED BY <1>1, <1>2 DEF Covers

LEMMA QueuedCovers ==
  ASSUME Covers(queue), NEW p \in Packet, Near(p), Enters(p)
  PROVE  /\ Queued(p) \in QueueType /\ Covers(Queued(p)) /\ Loaded(Queued(p))
         /\ Block(Queued(p)) = <<p.frame, p.block>>
         /\ Queued(p).reportedLostFrame = Ready(p).reportedLostFrame
<1> DEFINE s == SequenceNumber(p)
           r == Ready(p)
           k == Queue(r, s)
           n == Count(k, s)
<1>1. Covers(r) /\ Loaded(r) /\ Block(r) = <<p.frame, p.block>> /\ r \in QueueType
  BY ReadyShape DEF Covers
<1>2. s \in Seq16
  BY PacketShape
<1> HIDE DEF r, s
<1>3. /\ k \in QueueType /\ Covers(k) /\ Loaded(k) /\ Block(k) = Block(r)
      /\ k.reportedLostFrame = r.reportedLostFrame
  <2>1. /\ k \in QueueType
        /\ Block(k) = Block(r) /\ k.completed = r.completed
        /\ k.reportedLostFrame = r.reportedLostFrame
        /\ k.multiFecLastBlockNumber = r.multiFecLastBlockNumber
        /\ k.bufferLowestSequenceNumber = r.bufferLowestSequenceNumber
        /\ k.bufferDataPackets = r.bufferDataPackets
        /\ k.bufferParityPackets = r.bufferParityPackets
    BY <1>1, <1>2, QueueShape
  <2> HIDE DEF k
  <2> QED BY <1>1, <2>1, SameCovers
<1> HIDE DEF k
<1>4. /\ n \in QueueType /\ Covers(n) /\ Loaded(n) /\ Block(n) = Block(k)
      /\ n.reportedLostFrame = k.reportedLostFrame
  <2>1. /\ n \in QueueType
        /\ Block(n) = Block(k) /\ n.completed = k.completed
        /\ n.reportedLostFrame = k.reportedLostFrame
        /\ n.multiFecLastBlockNumber = k.multiFecLastBlockNumber
        /\ n.bufferLowestSequenceNumber = k.bufferLowestSequenceNumber
        /\ n.bufferDataPackets = k.bufferDataPackets
        /\ n.bufferParityPackets = k.bufferParityPackets
    BY <1>2, <1>3, CountShape
  <2> HIDE DEF n
  <2> QED BY <1>3, <2>1, SameCovers
<1>5. Queued(p) = n /\ r = Ready(p)
  BY DEF Queued, n, k, r, s
<1> HIDE DEF n
<1> QED BY <1>1, <1>3, <1>4, <1>5

LEMMA AdmitCovers ==
  ASSUME NEW q, Covers(q), Loaded(q)
  PROVE  /\ Covers(Admit(q)) /\ Loaded(Admit(q)) /\ Block(Admit(q)) = Block(q)
         /\ Admit(q).pending = q.pending /\ Admit(q).completed = q.completed
         /\ Admit(q).reportedLostFrame = q.reportedLostFrame
<1> DEFINE r == Admit(q)
<1>1. q \in QueueType
  BY DEF Covers
<1>2. r \in QueueType /\ SameBut(r, q) /\ r.pending = q.pending
  BY <1>1, AdmitShape
<1> HIDE DEF r
<1>3. /\ Covers(r) /\ Loaded(r) /\ Block(r) = Block(q) /\ r.completed = q.completed
      /\ r.reportedLostFrame = q.reportedLostFrame
  BY <1>1, <1>2, SameCovers DEF SameBut
<1> QED BY <1>2, <1>3 DEF r

LEMMA StageCovers ==
  ASSUME NEW q, Covers(q), Loaded(q)
  PROVE  /\ Covers(Stage(q)) /\ Stage(q).pending = {}
         /\ Stage(q).reportedLostFrame = q.reportedLostFrame
         /\ IF q.multiFecCurrentBlockNumber < q.multiFecLastBlockNumber
            THEN Stage(q).currentFrameNumber = q.currentFrameNumber
            ELSE Stage(q).currentFrameNumber = q.currentFrameNumber + 1
<1> DEFINE v == q.currentFrameNumber
           b == q.multiFecCurrentBlockNumber
           r == Stage(q)
<1>1. /\ q \in QueueType /\ v \in Frames /\ b \in 0 .. LastBlock(v)
      /\ q.multiFecLastBlockNumber = LastBlock(v) /\ q.completed = Staged(v, b)
      /\ Block(q) = <<v, b>>
  BY DEF Covers, Loaded, Block
<1>2. Block(q) \in FecBlocks
  BY <1>1, BlockShape
<1>3. /\ r \in QueueType /\ r.pending = {} /\ r.reportedLostFrame = q.reportedLostFrame
      /\ IF b < LastBlock(v)
         THEN Block(r) = <<v, b + 1>> /\ r.completed = Append(q.completed, Block(q))
         ELSE Block(r) = <<v + 1, 0>> /\ r.completed = << >>
  BY <1>1, <1>2, StageShape
<1> HIDE DEF r, v, b
<1>4. v \in 1 .. Len(Layout) /\ Len(Layout) \in Nat /\ LastBlock(v) \in Nat
  BY <1>1, FrameShape, LastShape, Half
<1>5. v \in 1 .. Len(Layout) + 1 /\ v + 1 \in 1 .. Len(Layout) + 1
  BY <1>4
<1>6. CASE b < LastBlock(v)
  <2>1. r.currentFrameNumber = v /\ r.multiFecCurrentBlockNumber = b + 1
    BY <1>3, <1>6 DEF Block
  <2>2. r.completed = Staged(v, b + 1)
    BY <1>1, <1>3, <1>6, StagedNext
  <2> QED BY <1>1, <1>3, <1>5, <1>6, <2>1, <2>2 DEF Covers, r, v, b
<1>7. CASE ~(b < LastBlock(v))
  <2>1. r.currentFrameNumber = v + 1 /\ r.multiFecCurrentBlockNumber = 0
    BY <1>3, <1>7 DEF Block
  <2>2. r.completed = Staged(v + 1, 0)
    BY <1>3, <1>7, StagedNone
  <2> QED BY <1>1, <1>3, <1>5, <1>7, <2>1, <2>2 DEF Covers, r, v, b
<1> QED BY <1>6, <1>7

\* What FrameFeed allows, said of the calls as they are heard.
Passed(n) == IF \/ n > queue.currentFrameNumber + 1
                \/ n = queue.currentFrameNumber + 1 /\ ~queue.reportedLostFrame
             THEN <<Feed!Lost(n - 1)>> ELSE << >>
Renewed(n) == \/ queue'.reportedLostFrame = FALSE
              \/ /\ n = queue.currentFrameNumber
                 /\ queue'.reportedLostFrame = queue.reportedLostFrame

LEMMA FeedIgnores ==
  ASSUME AllHeard(calls') = << >>, queue' = queue
  PROVE  Feed!Next
<1>1. Feed!Ignore
  BY DEF Feed!Ignore, AllHeard, Heard
<1> QED BY <1>1 DEF Feed!Next

LEMMA FeedSteps ==
  ASSUME NEW n \in Nat, n >= queue.currentFrameNumber,
         LET v == queue.currentFrameNumber
             w == queue'.currentFrameNumber
             t == queue'.reportedLostFrame
             h == AllHeard(calls')
         IN  \/ w = n /\ Renewed(n) /\ h = Passed(n)
             \/ w = n /\ t = TRUE /\ h = Append(Passed(n), Feed!Lost(n))
             \/ w = n + 1 /\ Renewed(n) /\ h = Append(Passed(n), Feed!Whole(n))
             \/ /\ w = n + 1 /\ t = TRUE
                /\ h = IF queue.reportedLostFrame THEN << >> ELSE <<Feed!Lost(v)>>
  PROVE  Feed!Next
<1> DEFINE v == queue.currentFrameNumber
           w == queue'.currentFrameNumber
           t == queue'.reportedLostFrame
           h == AllHeard(calls')
           May == Feed!Keep(n) \/ Feed!Foretell(n) \/ Feed!HandOver(n) \/ Feed!GiveUp(n)
<1>0. Passed(n) = Feed!Passing(n) /\ (Renewed(n) => Feed!Begins(n))
  BY DEF Feed!Passing, Feed!Begins, Passed, Renewed
<1>1. w = n /\ Renewed(n) /\ h = Passed(n) => Feed!Keep(n)
  BY <1>0 DEF Feed!Keep, AllHeard, Heard
<1>2. w = n /\ t = TRUE /\ h = Append(Passed(n), Feed!Lost(n)) => Feed!Foretell(n)
  BY <1>0 DEF Feed!Foretell, AllHeard, Heard
<1>3. w = n + 1 /\ Renewed(n) /\ h = Append(Passed(n), Feed!Whole(n)) => Feed!HandOver(n)
  BY <1>0 DEF Feed!HandOver, AllHeard, Heard
<1>4. w = n + 1 /\ t = TRUE /\ h = (IF queue.reportedLostFrame THEN << >> ELSE <<Feed!Lost(v)>>)
      => Feed!GiveUp(n)
  BY DEF Feed!GiveUp, AllHeard, Heard
<1>5. n \in {v, w, w - 1}
  OBVIOUS
<1>6. May
  BY <1>1, <1>2, <1>3, <1>4
<1> HIDE DEF v, w, h, t, May
<1>7. \E k \in {v, w, w - 1} :
        /\ k >= v
        /\ Feed!Keep(k) \/ Feed!Foretell(k) \/ Feed!HandOver(k) \/ Feed!GiveUp(k)
  BY <1>5, <1>6, Zenon DEF May, v
<1> QED BY <1>7, Zenon DEF Feed!Next, v, w

LEMMA AppendOne ==
  ASSUME NEW e, NEW c PROVE Append(<<e>>, c) = <<e, c>>
<1> DEFINE l == Append(<<e>>, c)
           r == <<e, c>>
<1>1. <<e>> \in Seq({e, c}) /\ Len(<<e>>) = 1 /\ <<e>>[1] = e
  OBVIOUS
<1>2. l \in Seq({e, c}) /\ Len(l) = 2 /\ l[1] = e /\ l[2] = c
  BY <1>1
<1>3. r \in Seq({e, c}) /\ Len(r) = 2 /\ r[1] = e /\ r[2] = c
  OBVIOUS
<1> HIDE DEF l, r
<1>4. l = r
  BY <1>2, <1>3, SeqEqual
<1> QED BY <1>4 DEF l, r

\* The calls before a packet is kept tell of the frames before it.
LEMMA ReadyHeard ==
  ASSUME Covers(queue), NEW p \in Packet, Near(p), Enters(p)
  PROVE  /\ AllHeard(ReadyCalls(p)) = Passed(p.frame)
         /\ p.frame \in Nat /\ p.frame >= queue.currentFrameNumber
         /\ \A c : /\ Append(ReadyCalls(p), c) \in {<<c>>, <<Lost(p.frame - 1), c>>}
                   /\ AllHeard(Append(ReadyCalls(p), c)) = Append(AllHeard(ReadyCalls(p)), Heard(c))
<1> DEFINE Tell == \/ p.frame > queue.currentFrameNumber + 1
                   \/ p.frame = queue.currentFrameNumber + 1 /\ ~queue.reportedLostFrame
<1>1. /\ queue.currentFrameNumber <= p.frame
      /\ ReadyCalls(p) = (IF Tell THEN <<Lost(p.frame - 1)>> ELSE << >>)
      /\ Passed(p.frame) = (IF Tell THEN <<Feed!Lost(p.frame - 1)>> ELSE << >>)
  BY ReadyShape DEF Tells, Passed
<1> HIDE DEF Tell
<1>2. p.frame \in Nat /\ queue.currentFrameNumber \in Nat
  BY PacketShape, LastShape, FrameShape DEF Covers, QueueType
<1>3. CASE ~Tell
  <2>1. AllHeard(ReadyCalls(p)) = << >>
    BY <1>1, <1>3, HeardNone
  <2>2. \A c : Append(ReadyCalls(p), c) = <<c>>
    BY <1>1, <1>3
  <2>3. \A c : AllHeard(Append(ReadyCalls(p), c)) = <<Heard(c)>>
    BY <2>2, HeardOne
  <2>4. \A c : Append(AllHeard(ReadyCalls(p)), Heard(c)) = <<Heard(c)>>
    BY <2>1
  <2> QED BY <1>1, <1>2, <2>1, <2>2, <2>3, <2>4, <1>3
<1>4. CASE Tell
  <2> DEFINE l == Lost(p.frame - 1)
             g == Feed!Lost(p.frame - 1)
  <2>1. AllHeard(ReadyCalls(p)) = <<g>> /\ Heard(l) = g
    BY <1>1, <1>4, HeardOne, HeardLost
  <2> HIDE DEF l, g
  <2>2. ReadyCalls(p) = <<l>>
    BY <1>1, <1>4 DEF l
  <2>a. \A e, c : Append(<<e>>, c) = <<e, c>>
    BY AppendOne
  <2>3. \A c : Append(ReadyCalls(p), c) = <<l, c>>
    BY <2>2, <2>a
  <2>4. \A c : AllHeard(Append(ReadyCalls(p), c)) = <<g, Heard(c)>>
    BY <2>1, <2>3, HeardTwo
  <2>5. \A c : Append(AllHeard(ReadyCalls(p)), Heard(c)) = <<g, Heard(c)>>
    BY <2>1, <2>a
  <2>6. AllHeard(ReadyCalls(p)) = Passed(p.frame)
    BY <1>1, <1>4, <2>1 DEF g
  <2> QED BY <1>1, <1>2, <2>3, <2>4, <2>5, <2>6 DEF l
<1> QED BY <1>1, <1>3, <1>4

LEMMA NotifyHeard ==
  AllHeard(NotifyOnce) =
    IF queue.reportedLostFrame THEN << >> ELSE <<Feed!Lost(queue.currentFrameNumber)>>
<1>1. CASE queue.reportedLostFrame
  BY <1>1, HeardNone DEF NotifyOnce
<1>2. CASE ~queue.reportedLostFrame
  BY <1>2, HeardOne, HeardLost DEF NotifyOnce
<1> QED BY <1>1, <1>2

LEMMA RejectFeeds ==
  ASSUME Covers(queue), NEW p \in Packet, Near(p), Reject(p)
  PROVE  Covers(queue') /\ Feed!Next
<1>1. queue' = queue /\ AllHeard(calls') = << >>
  BY HeardNone DEF Reject, Does
<1> QED BY <1>1, FeedIgnores

LEMMA SkipCovers ==
  ASSUME NEW q \in QueueType, NEW n \in Frames
  PROVE  /\ Covers(SkipTo(q, n + 1)) /\ SkipTo(q, n + 1).currentFrameNumber = n + 1
         /\ SkipTo(q, n + 1).reportedLostFrame = TRUE
<1> DEFINE r == SkipTo(q, n + 1)
<1>1. n + 1 \in Nat /\ n + 1 \in 1 .. Len(Layout) + 1
  BY FrameShape, Half
<1>2. /\ r \in QueueType /\ r.pending = {} /\ r.completed = << >> /\ Block(r) = <<n + 1, 0>>
      /\ r.reportedLostFrame = TRUE
  BY <1>1, SkipToShape
<1> HIDE DEF r
<1>3. r.currentFrameNumber = n + 1 /\ r.multiFecCurrentBlockNumber = 0
  BY <1>2 DEF Block
<1> QED BY <1>1, <1>2, <1>3, StagedNone DEF Covers, r

LEMMA BlockMissedFeeds ==
  ASSUME Covers(queue), NEW p \in Packet, Near(p), BlockMissed(p)
  PROVE  Covers(queue') /\ Feed!Next
<1>1. queue.pending # {}
  BY DEF BlockMissed, MissedBlock
<1>2. PICK n \in Frames : n = queue.currentFrameNumber
  BY <1>1 DEF Covers, Loaded
<1>3. queue' = SkipTo(queue, n + 1) /\ calls' = NotifyOnce
  BY <1>2 DEF BlockMissed, Does
<1>4. Covers(queue') /\ queue'.currentFrameNumber = n + 1 /\ queue'.reportedLostFrame = TRUE
  BY <1>3, SkipCovers DEF Covers
<1>5. AllHeard(calls') =
        IF queue.reportedLostFrame THEN << >> ELSE <<Feed!Lost(queue.currentFrameNumber)>>
  BY <1>3, NotifyHeard
<1>6. n \in Nat /\ n >= queue.currentFrameNumber
  BY <1>2, LastShape
<1> QED BY <1>4, <1>5, <1>6, FeedSteps

LEMMA BlocksLostFeeds ==
  ASSUME Covers(queue), NEW p \in Packet, Near(p), BlocksLost(p)
  PROVE  Covers(queue') /\ Feed!Next
<1>1. PICK n \in Frames : n = p.frame
  BY PacketShape
<1>2. queue.currentFrameNumber <= n
  BY <1>1, NotBehind DEF BlocksLost
<1>3. queue' = SkipTo(queue, n + 1) /\ calls' = NotifyOnce
  BY <1>1 DEF BlocksLost, Does
<1>4. Covers(queue') /\ queue'.currentFrameNumber = n + 1 /\ queue'.reportedLostFrame = TRUE
  BY <1>3, SkipCovers DEF Covers
<1>5. AllHeard(calls') =
        IF queue.reportedLostFrame THEN << >> ELSE <<Feed!Lost(queue.currentFrameNumber)>>
  BY <1>3, NotifyHeard
<1>6. n \in Nat /\ queue.currentFrameNumber \in Nat
  BY LastShape DEF Covers, QueueType
<1>7. n >= queue.currentFrameNumber
  BY <1>2, <1>6
<1> QED BY <1>4, <1>5, <1>6, <1>7, FeedSteps

\* A step that keeps the packet's frame open.
LEMMA KeepFeeds ==
  ASSUME Covers(queue), NEW p \in Packet, Near(p), Enters(p),
         queue'.currentFrameNumber = p.frame,
         \/ /\ calls' = ReadyCalls(p)
            /\ queue'.reportedLostFrame = Ready(p).reportedLostFrame
         \/ /\ calls' = Append(ReadyCalls(p), Lost(p.frame))
            /\ queue'.reportedLostFrame = TRUE
  PROVE  Feed!Next
<1>1. PICK n \in Nat : n = p.frame
  BY ReadyHeard
<1>2. n >= queue.currentFrameNumber /\ AllHeard(ReadyCalls(p)) = Passed(n)
  BY <1>1, ReadyHeard
<1>3. AllHeard(Append(ReadyCalls(p), Lost(n))) = Append(AllHeard(ReadyCalls(p)), Feed!Lost(n))
  BY ReadyHeard, HeardLost
<1>4. queue'.reportedLostFrame = Ready(p).reportedLostFrame => Renewed(n)
  BY <1>1, ReadyShape DEF Renewed
<1>5. CASE calls' = ReadyCalls(p) /\ queue'.reportedLostFrame = Ready(p).reportedLostFrame
  BY <1>1, <1>2, <1>4, <1>5, FeedSteps
<1>6. CASE calls' = Append(ReadyCalls(p), Lost(p.frame)) /\ queue'.reportedLostFrame = TRUE
  BY <1>1, <1>2, <1>3, <1>6, FeedSteps
<1> QED BY <1>5, <1>6

LEMMA RefuseFeeds ==
  ASSUME Covers(queue), NEW p \in Packet, Near(p), Refuse(p)
  PROVE  Covers(queue') /\ Feed!Next
<1>1. Enters(p) /\ queue' = Ready(p) /\ calls' = ReadyCalls(p)
  BY DEF Refuse, Does
<1>2. Covers(queue') /\ queue'.currentFrameNumber = p.frame
  BY <1>1, ReadyShape DEF Block
<1> QED BY <1>1, <1>2, KeepFeeds

LEMMA WaitFeeds ==
  ASSUME Covers(queue), NEW p \in Packet, Near(p), Wait(p)
  PROVE  Covers(queue') /\ Feed!Next
<1> DEFINE q == Queued(p)
           r == [q EXCEPT !.reportedLostFrame = TRUE]
<1>1. Enters(p)
  BY DEF Wait, Accepts
<1>2. /\ q \in QueueType /\ Covers(q) /\ Loaded(q) /\ q.currentFrameNumber = p.frame
      /\ q.reportedLostFrame = Ready(p).reportedLostFrame
  BY <1>1, QueuedCovers DEF Block
<1>3. \/ queue' = q /\ calls' = ReadyCalls(p)
      \/ queue' = r /\ calls' = Append(ReadyCalls(p), Lost(p.frame))
  BY DEF Wait, Does
<1> HIDE DEF q
<1>4. Covers(r) /\ r.currentFrameNumber = p.frame /\ r.reportedLostFrame = TRUE
  <2>1. r \in QueueType /\ SameBut(r, [r EXCEPT !.reportedLostFrame = TRUE])
    BY <1>2 DEF QueueType, SameBut, Block
  <2>2. /\ Block(r) = Block(q) /\ r.completed = q.completed
        /\ r.multiFecLastBlockNumber = q.multiFecLastBlockNumber
        /\ r.bufferLowestSequenceNumber = q.bufferLowestSequenceNumber
        /\ r.bufferDataPackets = q.bufferDataPackets
        /\ r.bufferParityPackets = q.bufferParityPackets
        /\ r.currentFrameNumber = q.currentFrameNumber /\ r.reportedLostFrame = TRUE
    BY <1>2 DEF QueueType, Block
  <2> HIDE DEF r
  <2> QED BY <1>2, <2>1, <2>2, SameCovers
<1> HIDE DEF r
<1>5. Covers(queue') /\ queue'.currentFrameNumber = p.frame
  BY <1>2, <1>3, <1>4
<1> QED BY <1>1, <1>2, <1>3, <1>4, <1>5, KeepFeeds

LEMMA FailToRecoverFeeds ==
  ASSUME Covers(queue), NEW p \in Packet, Near(p), FailToRecover(p)
  PROVE  Covers(queue') /\ Feed!Next
<1> DEFINE q == Admit(Queued(p))
<1>1. Enters(p)
  BY DEF FailToRecover, Accepts
<1>2. Queued(p) \in QueueType /\ Covers(Queued(p)) /\ Loaded(Queued(p))
      /\ Block(Queued(p)) = <<p.frame, p.block>>
      /\ Queued(p).reportedLostFrame = Ready(p).reportedLostFrame
  BY <1>1, QueuedCovers
<1>3. Covers(q) /\ Loaded(q) /\ Block(q) = <<p.frame, p.block>> /\ q \in QueueType
      /\ q.reportedLostFrame = Ready(p).reportedLostFrame
  BY <1>2, AdmitCovers DEF Covers
<1>4. PICK new \in SUBSET Lacking(Queued(p)) :
        /\ queue' = [q EXCEPT !.pending = @ \cup new, !.made = @ \cup new]
        /\ calls' = ReadyCalls(p)
  BY DEF FailToRecover, Does
<1>5. new \in SUBSET Seq16
  <2>1. Lacking(Queued(p)) \subseteq Seq16
    <3>1. \A i \in Int : (Queued(p).bufferLowestSequenceNumber + i) % W \in Seq16
      <4>1. Queued(p).bufferLowestSequenceNumber \in Int
        BY <1>2, Half DEF QueueType, Seq16
      <4> QED BY <4>1, ModRange DEF Seq16
    <3> QED BY <3>1 DEF Lacking, DataNumbers, Numbers
  <2> QED BY <2>1
<1> HIDE DEF q
<1>6. queue' \in QueueType /\ SameBut(queue', q)
  BY <1>3, <1>4, <1>5, MadeShape
<1>7. Covers(queue') /\ Block(queue') = <<p.frame, p.block>>
  BY <1>3, <1>6, SameCovers DEF SameBut
<1>8. /\ queue'.currentFrameNumber = p.frame
      /\ queue'.reportedLostFrame = Ready(p).reportedLostFrame
  BY <1>3, <1>6, <1>7 DEF Block, SameBut
<1> QED BY <1>1, <1>4, <1>7, <1>8, KeepFeeds

LEMMA CompleteFeeds ==
  ASSUME Covers(queue), NEW p \in Packet, Near(p), Complete(p)
  PROVE  /\ Covers(queue') /\ Feed!Next
         /\ IF p.block < LastBlock(p.frame) THEN calls' = ReadyCalls(p)
            ELSE calls' = Append(ReadyCalls(p), Submit(Staged(p.frame, LastBlock(p.frame) + 1)))
<1> DEFINE q == Queued(p)
           a == Admit(q)
<1>1. Enters(p) /\ queue' = Stage(a) /\ calls' = ReadyCalls(p) \o StageCalls(q)
  BY DEF Complete, Accepts, Does
<1>2. /\ q \in QueueType /\ Covers(q) /\ Loaded(q) /\ Block(q) = <<p.frame, p.block>>
      /\ q.reportedLostFrame = Ready(p).reportedLostFrame
  BY <1>1, QueuedCovers
<1> HIDE DEF q
<1>3. /\ Covers(a) /\ Loaded(a) /\ Block(a) = Block(q)
      /\ a.reportedLostFrame = q.reportedLostFrame
  BY <1>2, AdmitCovers
<1>4. Covers(queue') /\ queue'.reportedLostFrame = Ready(p).reportedLostFrame
  BY <1>1, <1>2, <1>3, StageCovers
<1>5. PICK n \in Frames : n = p.frame
  BY PacketShape
<1>6. /\ q.currentFrameNumber = n /\ q.multiFecCurrentBlockNumber = p.block
      /\ a.currentFrameNumber = n /\ a.multiFecCurrentBlockNumber = p.block
      /\ q.multiFecLastBlockNumber = LastBlock(n) /\ a.multiFecLastBlockNumber = LastBlock(n)
      /\ q.completed = Staged(n, p.block) /\ p.block \in 0 .. LastBlock(n)
  BY <1>2, <1>3, <1>5 DEF Block, Loaded, Covers
<1>7. /\ n \in Nat /\ LastBlock(n) \in Nat /\ n >= queue.currentFrameNumber
      /\ AllHeard(ReadyCalls(p)) = Passed(n) /\ Renewed(n)
  <2>1. n \in Nat /\ LastBlock(n) \in Nat
    BY LastShape
  <2>2. n >= queue.currentFrameNumber /\ AllHeard(ReadyCalls(p)) = Passed(n)
    BY <1>1, <1>5, <2>1, ReadyHeard
  <2>3. Renewed(n)
    <3>1. \/ Ready(p).reportedLostFrame = FALSE
          \/ /\ n = queue.currentFrameNumber
             /\ Ready(p).reportedLostFrame = queue.reportedLostFrame
      BY <1>1, <1>5, ReadyShape
    <3> QED BY <1>4, <3>1 DEF Renewed
  <2> QED BY <2>1, <2>2, <2>3
<1>8. CASE p.block < LastBlock(n)
  <2>1. queue'.currentFrameNumber = n
    BY <1>1, <1>3, <1>6, <1>8, StageCovers
  <2>2. StageCalls(q) = << >>
    BY <1>6, <1>7, <1>8 DEF StageCalls, Submits
  <2>3. calls' = ReadyCalls(p)
    <3>1. \A e : <<e>> \o << >> = <<e>>
      OBVIOUS
    <3>2. << >> \o << >> = << >>
      OBVIOUS
    <3>3. ReadyCalls(p) = << >> \/ ReadyCalls(p) = <<Lost(p.frame - 1)>>
      BY <1>1, ReadyShape DEF Tells
    <3> QED BY <1>1, <2>2, <3>1, <3>2, <3>3
  <2>4. Feed!Next
    BY <1>1, <1>4, <1>5, <2>1, <2>3, KeepFeeds
  <2> QED BY <1>4, <1>5, <1>8, <2>3, <2>4
<1>9. CASE p.block = LastBlock(n)
  <2> DEFINE c == Submit(Staged(n, LastBlock(n) + 1))
  <2>1. queue'.currentFrameNumber = n + 1
    BY <1>1, <1>3, <1>6, <1>7, <1>9, StageCovers
  <2>2. StageCalls(q) = <<c>>
    <3>1. Append(Staged(n, p.block), <<n, p.block>>) = Staged(n, LastBlock(n) + 1)
      BY <1>6, <1>9, StagedNext
    <3> QED BY <1>6, <1>9, <3>1 DEF StageCalls, Submits
  <2> HIDE DEF c
  <2>3. calls' = Append(ReadyCalls(p), c)
    <3>1. \A e, f : <<e>> \o <<f>> = Append(<<e>>, f)
      OBVIOUS
    <3>2. \A f : << >> \o <<f>> = Append(<< >>, f)
      OBVIOUS
    <3>3. ReadyCalls(p) = << >> \/ ReadyCalls(p) = <<Lost(p.frame - 1)>>
      BY <1>1, ReadyShape DEF Tells
    <3> QED BY <1>1, <2>2, <3>1, <3>2, <3>3
  <2>4. AllHeard(calls') = Append(AllHeard(ReadyCalls(p)), Feed!Whole(n))
    BY <1>1, <2>3, ReadyHeard, HeardWhole DEF c
  <2>5. Feed!Next
    BY <1>7, <2>1, <2>4, FeedSteps
  <2>6. ~(p.block < LastBlock(p.frame))
    BY <1>5, <1>7, <1>9
  <2> QED BY <1>4, <1>5, <2>3, <2>5, <2>6 DEF c
<1> QED BY <1>6, <1>7, <1>8, <1>9

LEMMA InitCovers == Init => Covers(queue)
<1> SUFFICES ASSUME Init PROVE Covers(queue)
  OBVIOUS
<1>1. queue.currentFrameNumber = 1 /\ queue.multiFecCurrentBlockNumber = 0
      /\ queue.pending = {} /\ queue.completed = << >>
  BY DEF Init
<1>2. queue \in QueueType
  <2>1. 0 \in Seq16 /\ 0 \in Nat /\ 0 \in Int /\ 1 \in Nat /\ 0 \in 0 .. 3
    BY Half DEF Seq16
  <2>2. << >> \in Seq(FecBlocks)
    OBVIOUS
  <2>3. {} \in SUBSET Seq16 /\ TRUE \in BOOLEAN /\ FALSE \in BOOLEAN
    OBVIOUS
  <2> QED BY <2>1, <2>2, <2>3 DEF Init, QueueType
<1>3. 1 \in 1 .. Len(Layout) + 1
  BY FrameShape, Half
<1> QED BY <1>1, <1>2, <1>3, StagedNone DEF Covers

LEMMA PacketFeeds ==
  ASSUME Covers(queue), NEW p \in Packet, Near(p), RtpvAddPacket(p)
  PROVE  Covers(queue') /\ Feed!Next
BY RejectFeeds, BlockMissedFeeds, BlocksLostFeeds, RefuseFeeds, WaitFeeds, CompleteFeeds,
   FailToRecoverFeeds DEF RtpvAddPacket

-------------------------------------------------------------------------------
(***************************************************************************)
(* Where the queue stands in the stream.                                   *)
(***************************************************************************)
LEMMA BlockFields ==
  \A q, n, b : Block(q) = <<n, b>> => q.currentFrameNumber = n /\ q.multiFecCurrentBlockNumber = b
BY DEF Block

\* A packet leaves the queue alone, in the packet's frame, or at the start of the next.
LEMMA PacketLeads ==
  ASSUME Covers(queue), NEW p \in Packet, Near(p), RtpvAddPacket(p)
  PROVE  \/ queue' = queue
         \/ queue'.currentFrameNumber = p.frame
         \/ /\ queue'.currentFrameNumber = p.frame + 1
            /\ queue'.multiFecCurrentBlockNumber = 0 /\ queue'.pending = {}
<1>1. p.frame \in Nat /\ p.frame + 1 \in Nat /\ queue \in QueueType
  BY PacketIs DEF Covers
<1>2. CASE Reject(p)
  BY <1>2 DEF Reject, Does
<1>3. CASE BlockMissed(p) \/ BlocksLost(p)
  <2>1. queue' = SkipTo(queue, p.frame + 1)
    BY <1>3 DEF BlockMissed, BlocksLost, MissedBlock, Does
  <2>2. /\ SkipTo(queue, p.frame + 1).pending = {}
        /\ Block(SkipTo(queue, p.frame + 1)) = <<p.frame + 1, 0>>
    BY <1>1, SkipToShape
  <2> QED BY <2>1, <2>2, BlockFields
<1>4. CASE Refuse(p)
  <2>1. Enters(p) /\ queue' = Ready(p)
    BY <1>4 DEF Refuse, Does
  <2> QED BY <2>1, ReadyShape, BlockFields
<1>5. ASSUME Accepts(p)
      PROVE  /\ Queued(p) \in QueueType /\ Covers(Queued(p)) /\ Loaded(Queued(p))
             /\ Queued(p).currentFrameNumber = p.frame
             /\ Admit(Queued(p)) \in QueueType /\ Covers(Admit(Queued(p)))
             /\ Loaded(Admit(Queued(p))) /\ Admit(Queued(p)).currentFrameNumber = p.frame
  <2>1. Enters(p)
    BY <1>5 DEF Accepts
  <2>2. /\ Queued(p) \in QueueType /\ Covers(Queued(p)) /\ Loaded(Queued(p))
        /\ Block(Queued(p)) = <<p.frame, p.block>>
    BY <2>1, QueuedCovers
  <2>3. /\ Covers(Admit(Queued(p))) /\ Loaded(Admit(Queued(p)))
        /\ Block(Admit(Queued(p))) = <<p.frame, p.block>>
    BY <2>2, AdmitCovers
  <2> QED BY <2>2, <2>3, BlockFields DEF Covers
<1>6. CASE Wait(p)
  <2> DEFINE q == Queued(p)
             r == [q EXCEPT !.reportedLostFrame = TRUE]
  <2>1. queue' = q \/ queue' = r
    BY <1>6 DEF Wait, Does
  <2>2. q \in QueueType /\ q.currentFrameNumber = p.frame
    BY <1>5, <1>6 DEF Wait
  <2> HIDE DEF q
  <2>3. r.currentFrameNumber = p.frame
    BY <2>2 DEF QueueType
  <2> QED BY <2>1, <2>2, <2>3
<1>7. CASE FailToRecover(p)
  <2> DEFINE q == Admit(Queued(p))
  <2>1. q \in QueueType /\ q.currentFrameNumber = p.frame
    BY <1>5, <1>7 DEF FailToRecover
  <2>2. \E new : queue' = [q EXCEPT !.pending = @ \cup new, !.made = @ \cup new]
    BY <1>7 DEF FailToRecover, Does
  <2> HIDE DEF q
  <2> QED BY <2>1, <2>2 DEF QueueType
<1>8. CASE Complete(p)
  <2> DEFINE q == Admit(Queued(p))
  <2>1. /\ q \in QueueType /\ Covers(q) /\ Loaded(q) /\ q.currentFrameNumber = p.frame
    BY <1>5, <1>8 DEF Complete
  <2>2. queue' = Stage(q)
    BY <1>8 DEF Complete, Does
  <2> HIDE DEF q
  <2>3. Block(q) \in FecBlocks
    BY <2>1, BlockShape DEF Loaded, Block
  <2>4. /\ Stage(q).pending = {}
        /\ IF q.multiFecCurrentBlockNumber < q.multiFecLastBlockNumber
           THEN Block(Stage(q)) = <<q.currentFrameNumber, q.multiFecCurrentBlockNumber + 1>>
           ELSE Block(Stage(q)) = <<q.currentFrameNumber + 1, 0>>
    BY <2>1, <2>3, StageShape
  <2> QED BY <2>1, <2>2, <2>4, BlockFields
<1> QED BY <1>2, <1>3, <1>4, <1>6, <1>7, <1>8 DEF RtpvAddPacket

\* The queue is in no frame, and behind none, of which nothing has come or been passed.
Began(q, a) ==
  /\ q.currentFrameNumber > 1 => First(<<q.currentFrameNumber - 1, 0>>) < a
  /\ q.pending # {} \/ q.multiFecCurrentBlockNumber > 0 =>
       q.currentFrameNumber \in Frames /\ First(<<q.currentFrameNumber, 0>>) < a

LEMMA BeganStep ==
  ASSUME Covers(queue), Began(queue, at), NEW p \in Packet, Near(p), RtpvAddPacket(p),
         at \in Nat, at' \in Nat, at' >= at, at' > Position(p)
  PROVE  Began(queue', at')
<1>1. PICK n \in Frames : n = p.frame
  BY PacketIs
<1>2. n \in Nat /\ First(<<n, 0>>) \in Nat /\ First(<<n, 0>>) < at'
  <2>1. First(<<n, 0>>) <= First(Of(p)) /\ First(<<n, 0>>) \in Nat
    <3>1. 0 \in 0 .. LastBlock(n) /\ <<n, 0>> \in FecBlocks
      <4>1. 0 \in 0 .. LastBlock(n)
        BY LastShape
      <4> QED BY <4>1, BlockShape
    <3>2. First(<<n, 0>>) \in Nat /\ End(<<n, 0>>) \in Nat /\ First(<<n, 0>>) <= End(<<n, 0>>)
      BY <3>1, FecBlockIs DEF End
    <3>3. CASE p.block = 0
      BY <1>1, <3>2, <3>3 DEF Of
    <3>4. CASE p.block > 0
      <4>1. Earlier(<<n, 0>>, Of(p))
        BY <1>1, <3>4 DEF Earlier, Of
      <4>2. End(<<n, 0>>) <= First(Of(p))
        BY <3>1, <4>1, BlocksInOrder, PacketIs
      <4> QED BY <3>2, <4>2, PacketIs
    <3> QED BY <3>3, <3>4, PacketIs
  <2>2. First(Of(p)) \in Nat /\ Position(p) \in Nat /\ First(Of(p)) <= Position(p)
    BY PacketIs
  <2> QED BY <2>1, <2>2, LastShape
<1>3. ASSUME n > 1 PROVE First(<<n - 1, 0>>) < at'
  <2>1. n - 1 \in Frames /\ n - 1 <= n
    BY <1>3, FrameShape, Half
  <2>2. First(<<n - 1, 0>>) <= First(<<n, 0>>) /\ First(<<n - 1, 0>>) \in Nat
    BY <2>1, FirstsGrow
  <2> QED BY <1>2, <2>2
<1>4. CASE queue' = queue
  <2>1. \A x : x \in Nat /\ x < at => x < at'
    OBVIOUS
  <2>2. ASSUME queue.currentFrameNumber > 1
        PROVE  First(<<queue.currentFrameNumber - 1, 0>>) < at'
    <3>1. queue.currentFrameNumber - 1 \in Frames
      BY <2>2, FrameShape, Half DEF Covers
    <3>2. First(<<queue.currentFrameNumber - 1, 0>>) \in Nat
      BY <3>1, FirstsGrow, LastShape
    <3> QED BY <2>1, <2>2, <3>2 DEF Began
  <2>3. ASSUME queue.pending # {} \/ queue.multiFecCurrentBlockNumber > 0
        PROVE  /\ queue.currentFrameNumber \in Frames
               /\ First(<<queue.currentFrameNumber, 0>>) < at'
    <3>1. queue.currentFrameNumber \in Frames
      BY <2>3 DEF Began
    <3>2. First(<<queue.currentFrameNumber, 0>>) \in Nat
      BY <3>1, FirstsGrow, LastShape
    <3> QED BY <2>1, <2>3, <3>1, <3>2 DEF Began
  <2> QED BY <1>4, <2>2, <2>3 DEF Began
<1>5. CASE queue'.currentFrameNumber = p.frame
  BY <1>1, <1>2, <1>3, <1>5 DEF Began
<1>6. CASE /\ queue'.currentFrameNumber = p.frame + 1
           /\ queue'.multiFecCurrentBlockNumber = 0 /\ queue'.pending = {}
  <2>1. (p.frame + 1) - 1 = n
    BY <1>1, <1>2
  <2> QED BY <1>2, <1>6, <2>1 DEF Began
<1> QED BY <1>4, <1>5, <1>6, PacketLeads

LEMMA MaxAbove ==
  ASSUME NEW a \in Nat, NEW b \in Nat
  PROVE  Max({a, b}) \in Nat /\ Max({a, b}) >= a /\ Max({a, b}) >= b
<1>1. \E x \in {a, b} : \A y \in {a, b} : x >= y
  <2>1. CASE a >= b
    BY <2>1
  <2>2. CASE b >= a
    BY <2>2
  <2> QED BY <2>1, <2>2
<1>2. Max({a, b}) \in {a, b} /\ \A y \in {a, b} : Max({a, b}) >= y
  BY <1>1 DEF Max
<1> QED BY <1>2

\* The queue stands no further ahead of a late packet's frame than packets are late.
LEMMA ComesNear ==
  ASSUME Covers(queue), Began(queue, at), at \in Nat, NEW p \in Packet,
         Position(p) >= at - Behind
  PROVE  Near(p)
<1>1. PICK v \in Nat, n \in Nat : v = queue.currentFrameNumber /\ n = p.frame
  BY PacketIs, FrameShape DEF Covers
<1>2. v \in 1 .. Len(Layout) + 1 /\ n \in Frames /\ Behind \in Nat /\ Behind <= H
  BY <1>1, PacketIs, RtpVideoAssumption DEF Covers, H
<1>3. CASE v <= n + 1
  <2>1. 1 <= H
    BY RoomForOne
  <2> QED BY <1>1, <1>3, <2>1, Half DEF Near
<1>4. CASE v > n + 1
  <2>1. n + 1 \in Frames /\ v - 1 \in Frames /\ n + 1 <= v - 1 /\ v > 1
    BY <1>2, <1>4, FrameShape, Half
  <2> DEFINE a == First(<<n + 1, 0>>)
             b == First(<<v - 1, 0>>)
  <2>2. a \in Nat /\ b \in Nat /\ a + ((v - 1) - (n + 1)) <= b
    BY <2>1, FirstsGrow, FramesApart
  <2>3. b < at
    BY <1>1, <2>1 DEF Began
  <2>4. Position(p) < a /\ Position(p) \in Nat
    <3>1. <<n + 1, 0>> \in FecBlocks /\ Earlier(Of(p), <<n + 1, 0>>)
      <4>1. 0 \in 0 .. LastBlock(n + 1)
        BY <2>1, LastShape
      <4> QED BY <1>1, <2>1, <4>1, BlockShape, PacketIs DEF Earlier
    <3>2. End(Of(p)) <= a
      BY <3>1, PacketIs, BlocksInOrder
    <3> QED BY <2>2, <3>2, PacketIs
  <2> HIDE DEF a, b
  <2>5. v - n <= Behind
    BY <1>2, <2>2, <2>3, <2>4
  <2> QED BY <1>1, <1>2, <2>5, Half DEF Near
<1> QED BY <1>1, <1>3, <1>4

\* Every packet that comes is near, and moves the place in the stream behind itself.
LEMMA PacketComes ==
  ASSUME Covers(queue), Began(queue, at), at \in Nat,
         NEW p \in Packet, Arrive(p) \/ ArriveInOrder(p)
  PROVE  /\ RtpvAddPacket(p) /\ Near(p)
         /\ at' \in Nat /\ at' >= at /\ at' > Position(p)
<1>1. Position(p) \in Nat /\ Behind \in Nat /\ Ahead \in Nat
  BY PacketIs, RtpVideoAssumption
<1>2. CASE Arrive(p)
  <2>1. RtpvAddPacket(p) /\ Position(p) >= at - Behind /\ at' = Max({at, Position(p) + 1})
    BY <1>1, <1>2 DEF Arrive
  <2>2. Position(p) + 1 \in Nat /\ Position(p) + 1 > Position(p)
    BY <1>1
  <2>3. at' \in Nat /\ at' >= at /\ at' >= Position(p) + 1
    BY <2>1, <2>2, MaxAbove
  <2> QED BY <1>1, <2>1, <2>3, ComesNear
<1>3. CASE ArriveInOrder(p)
  BY <1>1, <1>3, ComesNear DEF ArriveInOrder
<1> QED BY <1>2, <1>3

Follower == Covers(queue) /\ Began(queue, at) /\ at \in Nat

LEMMA StepFeeds ==
  ASSUME Follower, [Next]_vars
  PROVE  Follower' /\ [Feed!Next]_(Feed!vars)
<1>1. Covers(queue) /\ Began(queue, at) /\ at \in Nat
  BY DEF Follower
<1>2. ASSUME NEW p \in Packet, Arrive(p) \/ ArriveInOrder(p)
      PROVE  Follower' /\ [Feed!Next]_(Feed!vars)
  <2>1. /\ RtpvAddPacket(p) /\ Near(p)
        /\ at' \in Nat /\ at' >= at /\ at' > Position(p)
    BY <1>1, <1>2, PacketComes
  <2>2. Covers(queue') /\ Feed!Next
    BY <1>1, <2>1, PacketFeeds
  <2>3. Began(queue', at')
    BY <1>1, <2>1, BeganStep
  <2> QED BY <2>1, <2>2, <2>3 DEF Follower
<1>3. CASE UNCHANGED <<queue, calls, at>>
  BY <1>1, <1>3 DEF Feed!vars, Follower
<1>4. CASE Settle
  BY <1>3, <1>4 DEF Settle
<1>5. CASE UNCHANGED vars
  BY <1>3, <1>5 DEF vars
<1> QED BY <1>2, <1>4, <1>5 DEF Next

LEMMA InitFollows == Init => Follower
<1> SUFFICES ASSUME Init PROVE Follower
  OBVIOUS
<1>1. /\ queue.currentFrameNumber = 1 /\ queue.pending = {}
      /\ queue.multiFecCurrentBlockNumber = 0 /\ at = 0
  BY DEF Init
<1> QED BY <1>1, InitCovers DEF Follower, Began

\* However many frames the stream has, and whatever the network does to its packets
\* (none comes later than by half the space of sequence numbers, and no block is
\* longer), the depacketizer is handed whole frames, every block of each once and
\* in order; it hears of no loss before a frame it has, and of every frame that is
\* passed over unless a loss was reported since a block was last begun.
THEOREM FramesAreWhole == Spec => ImplementsFeed
<1>1. Init => Follower /\ Feed!Init
  <2>1. Init => /\ queue.currentFrameNumber = 1 /\ queue.reportedLostFrame = FALSE
                /\ AllHeard(calls) = << >>
    BY HeardNone DEF Init
  <2>2. Init => Feed!Init
    BY <2>1 DEF Feed!Init, AllHeard, Heard
  <2> QED BY <2>2, InitFollows
<1>2. Follower /\ [Next]_vars => Follower' /\ [Feed!Next]_(Feed!vars)
  BY StepFeeds
<1> QED BY <1>1, <1>2, PTL DEF Spec, ImplementsFeed, Feed!Spec
-------------------------------------------------------------------------------
(***************************************************************************)
(* Places in a block's buffer: how far a number is after the lowest.       *)
(***************************************************************************)
Place(low, x) == (x - low) % W

LEMMA PlaceRange ==
  ASSUME NEW low \in Seq16, NEW x \in Seq16
  PROVE  /\ Place(low, x) \in 0 .. W - 1
         /\ Place(low, x) = IF x >= low THEN x - low ELSE x - low + W
         /\ x = (low + Place(low, x)) % W
<1>1. Place(low, x) = IF x >= low THEN x - low ELSE x - low + W
  BY ModMinus DEF Place
<1>2. Place(low, x) \in 0 .. W - 1
  BY <1>1, Half DEF Seq16
<1>3. low + Place(low, x) \in -W .. 2 * W - 1
  BY <1>2, Half DEF Seq16
<1>4. (low + Place(low, x)) % W = x
  BY <1>1, <1>3, ModNear, Half DEF Seq16
<1> QED BY <1>1, <1>2, <1>4

LEMMA PlaceOf ==
  ASSUME NEW low \in Seq16, NEW i \in 0 .. W - 1
  PROVE  (low + i) % W \in Seq16 /\ Place(low, (low + i) % W) = i
<1> DEFINE x == (low + i) % W
<1>1. low + i \in -W .. 2 * W - 1
  BY Half DEF Seq16
<1>2. x = IF low + i < W THEN low + i ELSE low + i - W
  BY <1>1, ModNear, Half DEF Seq16
<1> HIDE DEF x
<1>3. x \in Seq16
  BY <1>2, Half DEF Seq16
<1>4. Place(low, x) = IF x >= low THEN x - low ELSE x - low + W
  BY <1>3, PlaceRange
<1> QED BY <1>2, <1>3, <1>4, Half DEF x, Seq16

LEMMA PlaceSame ==
  ASSUME NEW low \in Seq16, NEW x \in Seq16, NEW y \in Seq16, Place(low, x) = Place(low, y)
  PROVE  x = y
BY PlaceRange

\* A buffer holds the numbers whose places are below its size.
LEMMA InNumbers ==
  ASSUME NEW low \in Seq16, NEW k \in 0 .. W, NEW x \in Seq16
  PROVE  x \in Numbers(low, k) <=> Place(low, x) < k
<1>1. Place(low, x) \in 0 .. W - 1 /\ x = (low + Place(low, x)) % W
  BY PlaceRange
<1>2. ASSUME Place(low, x) < k PROVE x \in Numbers(low, k)
  <2>1. Place(low, x) \in 0 .. k - 1
    BY <1>1, <1>2, Half
  <2> QED BY <1>1, <2>1 DEF Numbers
<1>3. ASSUME x \in Numbers(low, k) PROVE Place(low, x) < k
  <2>1. PICK i \in 0 .. k - 1 : x = (low + i) % W
    BY <1>3 DEF Numbers
  <2>2. i \in 0 .. W - 1
    BY Half
  <2>3. Place(low, x) = i
    BY <2>1, <2>2, PlaceOf
  <2> QED BY <2>3, Half
<1> QED BY <1>2, <1>3

LEMMA NumbersIn ==
  ASSUME NEW low \in Seq16, NEW k \in 0 .. W PROVE Numbers(low, k) \subseteq Seq16
<1>1. \A i \in 0 .. k - 1 : (low + i) % W \in Seq16
  <2>1. \A i \in 0 .. k - 1 : i \in 0 .. W - 1
    BY Half
  <2> QED BY <2>1, PlaceOf
<1> QED BY <1>1 DEF Numbers

LEMMA NumbersCard ==
  ASSUME NEW low \in Seq16, NEW k \in 0 .. W
  PROVE  IsFiniteSet(Numbers(low, k)) /\ Cardinality(Numbers(low, k)) = k
<1> DEFINE S == 0 .. k - 1
           T == Numbers(low, k)
           f == [i \in S |-> (low + i) % W]
<1>1. IsFiniteSet(S) /\ Cardinality(S) = k
  <2>1. 0 \in Int /\ k - 1 \in Int /\ k \in Nat
    BY Half
  <2>2. IsFiniteSet(S) /\ Cardinality(S) = IF 0 > k - 1 THEN 0 ELSE k - 1 - 0 + 1
    BY <2>1, FS_Interval
  <2> QED BY <2>1, <2>2
<1>2. \A i \in S : i \in 0 .. W - 1
  BY Half
<1>3. f \in [S -> T]
  BY DEF Numbers
<1>4. \A i, j \in S : f[i] = f[j] => i = j
  BY <1>2, PlaceOf
<1>5. \A x \in T : \E i \in S : f[i] = x
  BY DEF Numbers
<1>6. f \in Bijection(S, T)
  BY <1>3, <1>4, <1>5 DEF Bijection, Injection, Surjection, IsInjective
<1>7. ExistsBijection(S, T)
  BY <1>6 DEF ExistsBijection
<1> HIDE DEF S, T, f
<1>8. IsFiniteSet(T) /\ Cardinality(T) = Cardinality(S)
  BY <1>1, <1>7, FS_Bijection
<1> QED BY <1>1, <1>8 DEF T

\* In a buffer of less than half the space, before is before.
LEMMA BeforePlaces ==
  ASSUME NEW low \in Seq16, NEW x \in Seq16, NEW y \in Seq16,
         Place(low, x) <= H, Place(low, y) <= H
  PROVE  /\ isBefore16(x, y) <=> Place(low, x) < Place(low, y)
         /\ Place(low, x) < Place(low, y) =>
              (y - x - 1) % W = Place(low, y) - Place(low, x) - 1
<1> DEFINE a == Place(low, x)
           b == Place(low, y)
<1>1. /\ a \in 0 .. W - 1 /\ a = IF x >= low THEN x - low ELSE x - low + W
      /\ b \in 0 .. W - 1 /\ b = IF y >= low THEN y - low ELSE y - low + W
  BY PlaceRange
<1>2. (x - y) % W = IF x >= y THEN x - y ELSE x - y + W
  BY ModMinus
<1>3. isBefore16(x, y) <=> (x - y) % W > H
  BY DEF isBefore16, H
<1>4. a <= H /\ b <= H /\ x \in 0 .. W - 1 /\ y \in 0 .. W - 1 /\ low \in 0 .. W - 1
  BY DEF Seq16
<1> HIDE DEF a, b
<1>5. isBefore16(x, y) <=> a < b
  BY <1>1, <1>2, <1>3, <1>4, Half
<1>6. ASSUME a < b PROVE (y - x - 1) % W = b - a - 1
  <2>1. y - x - 1 \in -W .. 2 * W - 1
    BY <1>4, Half
  <2>2. (y - x - 1) % W = IF y - x - 1 < 0 THEN y - x - 1 + W
                          ELSE IF y - x - 1 < W THEN y - x - 1 ELSE y - x - 1 - W
    BY <2>1, ModNear
  <2> QED BY <1>1, <1>4, <1>6, <2>2, Half
<1> QED BY <1>5, <1>6 DEF a, b

LEMMA PlaceNext ==
  ASSUME NEW low \in Seq16, NEW x \in Seq16, Place(low, x) + 1 <= W - 1
  PROVE  (x + 1) % W \in Seq16 /\ Place(low, (x + 1) % W) = Place(low, x) + 1
<1> DEFINE i == Place(low, x)
<1>1. i \in 0 .. W - 1 /\ x = (low + i) % W /\ i + 1 \in 0 .. W - 1
  BY PlaceRange, Half
<1>2. (x + 1) % W = (low + (i + 1)) % W
  <2>1. low + i \in Int /\ 1 \in Int
    BY <1>1, Half DEF Seq16
  <2>2. ((low + i) + 1) % W = (((low + i) % W) + 1) % W
    BY <2>1, ModAdd
  <2>3. (low + i) + 1 = low + (i + 1)
    BY <1>1, Half DEF Seq16
  <2> QED BY <1>1, <2>2, <2>3
<1> HIDE DEF i
<1>3. (low + (i + 1)) % W \in Seq16 /\ Place(low, (low + (i + 1)) % W) = i + 1
  BY <1>1, PlaceOf
<1> QED BY <1>2, <1>3 DEF i

\* A packet's place in the buffer of its block is its number in the block.
LEMMA PacketPlace ==
  ASSUME NEW p \in Packet
  PROVE  /\ First(<<p.frame, p.block>>) % W \in Seq16
         /\ Place(First(<<p.frame, p.block>>) % W, SequenceNumber(p)) = p.fecIndex
<1> DEFINE a == First(<<p.frame, p.block>>)
           low == a % W
           i == p.fecIndex
           z == Size(<<p.frame, p.block>>)
<1>1. a \in Nat /\ i \in 0 .. z - 1 /\ z \in 1 .. H /\ Position(p) = a + i
  BY PacketShape, BlockShape
<1> HIDE DEF a, i, z
<1>2. low \in Seq16 /\ i \in 0 .. W - 1
  BY <1>1, ModRange, Half DEF Seq16
<1>3. (a + i) % W = (low + i) % W
  <2>1. a \in Int /\ i \in Int
    BY <1>1, Half
  <2> QED BY <2>1, ModAdd
<1> HIDE DEF low
<1>4. Place(low, (low + i) % W) = i
  BY <1>2, PlaceOf
<1> QED BY <1>1, <1>2, <1>3, <1>4 DEF SequenceNumber, low, a, i
-------------------------------------------------------------------------------
(***************************************************************************)
(* The count of holes, and what is foretold from it.                       *)
(***************************************************************************)
Total(q) == q.bufferDataPackets + q.bufferParityPackets
HighPlace(q) == Place(q.bufferLowestSequenceNumber, q.receivedHighestSequenceNumber)

\* The holes and the packets received fill the buffer up to the highest number.
Gauged(q) ==
  LET high == q.receivedHighestSequenceNumber IN
  /\ high \in Received(q) /\ HighPlace(q) < Total(q)
  /\ Received(q) \subseteq UpTo(q, high)
  /\ q.missingPackets + Cardinality(Received(q)) = HighPlace(q) + 1
  /\ q.useFastQueuePath =>
       q.pending = UpTo(q, high) /\ q.nextContiguousSequenceNumber = (high + 1) % W

\* A block has been reported only if it has too many holes, or was found again since.
Foretold(q) ==
  q.reportedLostFrame =>
    \/ q.missingPackets > q.bufferParityPackets
    \/ q.receivedOosData /\ q.lastOosFrame = q.currentFrameNumber

Untouched(q) ==
  /\ q.missingPackets = 0 /\ ~q.reportedLostFrame
  /\ q.useFastQueuePath => q.nextContiguousSequenceNumber = q.bufferLowestSequenceNumber

Tallied(q) ==
  /\ q.made \subseteq q.pending \cap DataNumbers(q)
  /\ q.receivedDataPackets = Cardinality(Received(q) \cap DataNumbers(q))
  /\ q.receivedParityPackets = Cardinality(Received(q) \ DataNumbers(q))
  /\ q.pending = {} => Untouched(q)
  /\ q.pending # {} => Gauged(q) /\ Foretold(q)

\* A packet of the block that is collected, which queuePacket does not turn away.
Accepting(q, s) ==
  /\ q \in QueueType /\ Total(q) \in 1 .. H
  /\ s \in Seq16 /\ Place(q.bufferLowestSequenceNumber, s) < Total(q)
  /\ ~Duplicate(q, s)

LEMMA SetsAreFinite == \A S \in SUBSET Seq16 : IsFiniteSet(S) /\ Cardinality(S) \in Nat
<1>1. 0 \in Int /\ W - 1 \in Int
  BY Half
<1>2. IsFiniteSet(Seq16)
  BY <1>1, FS_Interval DEF Seq16
<1>3. \A S \in SUBSET Seq16 : IsFiniteSet(S)
  BY <1>2, FS_Subset
<1> QED BY <1>3, FS_CardinalityType

\* The buffer of a block that is collected.
LEMMA BufferShape ==
  ASSUME NEW q \in QueueType, Total(q) \in 1 .. H
  PROVE  /\ q.bufferLowestSequenceNumber \in Seq16 /\ q.receivedHighestSequenceNumber \in Seq16
         /\ q.bufferDataPackets \in Nat /\ q.bufferParityPackets \in Nat
         /\ q.bufferDataPackets \in 0 .. W /\ q.bufferDataPackets <= Total(q)
         /\ HighPlace(q) \in 0 .. W - 1 /\ HighPlace(q) + 1 \in 0 .. W
         /\ \A x \in Seq16 : /\ Place(q.bufferLowestSequenceNumber, x) \in 0 .. W - 1
                             /\ x \in DataNumbers(q) <=>
                                  Place(q.bufferLowestSequenceNumber, x) < q.bufferDataPackets
                             /\ x \in UpTo(q, q.receivedHighestSequenceNumber) <=>
                                  Place(q.bufferLowestSequenceNumber, x) <= HighPlace(q)
<1> DEFINE low == q.bufferLowestSequenceNumber
           high == q.receivedHighestSequenceNumber
           d == q.bufferDataPackets
           f == q.bufferParityPackets
           t == HighPlace(q)
<1>1. low \in Seq16 /\ high \in Seq16 /\ d \in Nat /\ f \in Nat
  BY DEF QueueType
<1>2. Total(q) = d + f
  BY DEF Total
<1>3. t = Place(low, high)
  BY DEF HighPlace
<1>4. DataNumbers(q) = Numbers(low, d)
  BY DEF DataNumbers
<1>5. UpTo(q, high) = Numbers(low, t + 1)
  BY DEF UpTo, HighPlace, Place
<1> HIDE DEF low, high, d, f, t
<1>6. d \in 0 .. W /\ d <= Total(q)
  BY <1>1, <1>2, Half
<1>7. t \in 0 .. W - 1 /\ t + 1 \in 0 .. W
  BY <1>1, <1>3, PlaceRange, Half
<1>8. ASSUME NEW x \in Seq16
      PROVE  /\ Place(low, x) \in 0 .. W - 1
             /\ x \in DataNumbers(q) <=> Place(low, x) < d
             /\ x \in UpTo(q, high) <=> Place(low, x) <= t
  <2>1. Place(low, x) \in 0 .. W - 1
    BY <1>1, PlaceRange
  <2>2. x \in Numbers(low, d) <=> Place(low, x) < d
    BY <1>1, <1>6, InNumbers
  <2>3. x \in Numbers(low, t + 1) <=> Place(low, x) < t + 1
    BY <1>1, <1>7, InNumbers
  <2> QED BY <1>4, <1>5, <1>7, <2>1, <2>2, <2>3, Half
<1> QED BY <1>1, <1>6, <1>7, <1>8 DEF low, high, d, f, t

\* The fast path passes no packet twice: it follows the highest number.
LEMMA FollowsHigh ==
  ASSUME NEW q \in QueueType, Total(q) \in 1 .. H, Tallied(q), NEW s \in Seq16, Follows(q, s)
  PROVE  /\ q.pending = {} => s = q.bufferLowestSequenceNumber
         /\ q.pending # {} =>
              /\ Place(q.bufferLowestSequenceNumber, s) = HighPlace(q) + 1
              /\ q.pending = UpTo(q, q.receivedHighestSequenceNumber)
<1>1. q.useFastQueuePath /\ s = q.nextContiguousSequenceNumber
  BY DEF Follows
<1>2. ASSUME q.pending = {} PROVE s = q.bufferLowestSequenceNumber
  BY <1>1, <1>2 DEF Tallied, Untouched
<1>3. ASSUME q.pending # {}
      PROVE  /\ Place(q.bufferLowestSequenceNumber, s) = HighPlace(q) + 1
             /\ q.pending = UpTo(q, q.receivedHighestSequenceNumber)
  <2> DEFINE low == q.bufferLowestSequenceNumber
             high == q.receivedHighestSequenceNumber
  <2>1. /\ q.pending = UpTo(q, high) /\ s = (high + 1) % W
        /\ HighPlace(q) < Total(q) /\ HighPlace(q) = Place(low, high)
    BY <1>1, <1>3 DEF Tallied, Gauged, HighPlace
  <2>2. low \in Seq16 /\ high \in Seq16 /\ HighPlace(q) \in 0 .. W - 1
    BY BufferShape
  <2> HIDE DEF low, high
  <2>3. Place(low, high) + 1 <= W - 1
    BY <2>1, <2>2, Half
  <2>4. Place(low, s) = Place(low, high) + 1
    BY <2>1, <2>2, <2>3, PlaceNext
  <2> QED BY <2>1, <2>4 DEF low, high
<1> QED BY <1>2, <1>3

LEMMA AcceptedIsNew ==
  ASSUME NEW q, NEW s, Accepting(q, s), Tallied(q)
  PROVE  s \notin q.pending
<1>1. q \in QueueType /\ Total(q) \in 1 .. H /\ s \in Seq16
  BY DEF Accepting
<1>2. CASE ~Follows(q, s)
  BY <1>2 DEF Accepting, Duplicate
<1>3. CASE Follows(q, s)
  <2>1. CASE q.pending = {}
    BY <2>1
  <2>2. CASE q.pending # {}
    <3> DEFINE t == HighPlace(q)
               a == Place(q.bufferLowestSequenceNumber, s)
    <3>1. a = t + 1 /\ q.pending = UpTo(q, q.receivedHighestSequenceNumber)
      BY <1>1, <1>3, <2>2, FollowsHigh
    <3>2. t \in 0 .. W - 1 /\ (s \in UpTo(q, q.receivedHighestSequenceNumber) <=> a <= t)
      BY <1>1, BufferShape
    <3> HIDE DEF t, a
    <3> QED BY <3>1, <3>2, Half
  <2> QED BY <2>1, <2>2
<1> QED BY <1>2, <1>3

\* The queue after a packet that queuePacket takes.
Taken(q, s) == Count(Queue(q, s), s)

LEMMA TakenFields ==
  ASSUME NEW q \in QueueType, NEW s \in Seq16
  PROVE  LET r == Taken(q, s)
             one == Cardinality(q.pending \cup {s}) = 1
             high == q.receivedHighestSequenceNumber
         IN  /\ r \in QueueType /\ Block(r) = Block(q)
             /\ r.pending = q.pending \cup {s} /\ r.made = q.made
             /\ r.reportedLostFrame = q.reportedLostFrame
             /\ r.bufferLowestSequenceNumber = q.bufferLowestSequenceNumber
             /\ r.bufferDataPackets = q.bufferDataPackets
             /\ r.bufferParityPackets = q.bufferParityPackets
             /\ r.useFastQueuePath = Follows(q, s)
             /\ r.nextContiguousSequenceNumber = IF Follows(q, s) THEN (s + 1) % W
                                                 ELSE q.nextContiguousSequenceNumber
             /\ r.lastOosFrame = IF Late(q, s) THEN q.currentFrameNumber ELSE q.lastOosFrame
             /\ r.receivedOosData = (Late(q, s) \/ (q.receivedOosData /\ ~Cool(q)))
             /\ r.receivedHighestSequenceNumber =
                  IF one \/ isBefore16(high, s) THEN s ELSE high
             /\ r.missingPackets =
                  IF one THEN q.missingPackets + Place(q.bufferLowestSequenceNumber, s)
                  ELSE IF isBefore16(high, s) THEN q.missingPackets + ((s - high - 1) % W)
                  ELSE q.missingPackets - 1
             /\ r.receivedDataPackets = IF IsDataNumber(q, s) THEN q.receivedDataPackets + 1
                                        ELSE q.receivedDataPackets
             /\ r.receivedParityPackets = IF IsDataNumber(q, s) THEN q.receivedParityPackets
                                          ELSE q.receivedParityPackets + 1
<1> DEFINE k == Queue(q, s)
           r == Taken(q, s)
<1>1. /\ k \in QueueType
      /\ Block(k) = Block(q) /\ k.pending = q.pending \cup {s} /\ k.made = q.made
      /\ k.reportedLostFrame = q.reportedLostFrame
      /\ k.bufferLowestSequenceNumber = q.bufferLowestSequenceNumber
      /\ k.bufferDataPackets = q.bufferDataPackets
      /\ k.bufferParityPackets = q.bufferParityPackets
      /\ k.receivedDataPackets = q.receivedDataPackets
      /\ k.receivedParityPackets = q.receivedParityPackets
      /\ k.receivedHighestSequenceNumber = q.receivedHighestSequenceNumber
      /\ k.missingPackets = q.missingPackets
      /\ k.useFastQueuePath = Follows(q, s)
      /\ k.nextContiguousSequenceNumber = IF Follows(q, s) THEN (s + 1) % W
                                          ELSE q.nextContiguousSequenceNumber
      /\ k.lastOosFrame = IF Late(q, s) THEN q.currentFrameNumber ELSE q.lastOosFrame
      /\ k.receivedOosData = (Late(q, s) \/ (q.receivedOosData /\ ~Cool(q)))
  BY QueueShape
<1>2. r = Count(k, s)
  BY DEF Taken
<1> HIDE DEF k, r
<1>3. /\ r \in QueueType
      /\ Block(r) = Block(k) /\ r.pending = k.pending /\ r.made = k.made
      /\ r.reportedLostFrame = k.reportedLostFrame
      /\ r.bufferLowestSequenceNumber = k.bufferLowestSequenceNumber
      /\ r.bufferDataPackets = k.bufferDataPackets
      /\ r.bufferParityPackets = k.bufferParityPackets
      /\ r.useFastQueuePath = k.useFastQueuePath
      /\ r.nextContiguousSequenceNumber = k.nextContiguousSequenceNumber
      /\ r.lastOosFrame = k.lastOosFrame /\ r.receivedOosData = k.receivedOosData
      /\ r.receivedHighestSequenceNumber =
           IF Cardinality(k.pending) = 1 \/ isBefore16(k.receivedHighestSequenceNumber, s)
           THEN s ELSE k.receivedHighestSequenceNumber
      /\ r.missingPackets = Holes(k, s)
      /\ r.receivedDataPackets =
           IF IsDataNumber(k, s) THEN k.receivedDataPackets + 1 ELSE k.receivedDataPackets
      /\ r.receivedParityPackets =
           IF IsDataNumber(k, s) THEN k.receivedParityPackets ELSE k.receivedParityPackets + 1
  BY <1>1, <1>2, CountShape
<1>4. IsDataNumber(k, s) <=> IsDataNumber(q, s)
  BY <1>1 DEF IsDataNumber
<1>5. Holes(k, s) =
        IF Cardinality(q.pending \cup {s}) = 1
        THEN q.missingPackets + Place(q.bufferLowestSequenceNumber, s)
        ELSE IF isBefore16(q.receivedHighestSequenceNumber, s)
             THEN q.missingPackets + ((s - q.receivedHighestSequenceNumber - 1) % W)
             ELSE q.missingPackets - 1
  BY <1>1 DEF Holes, Place
<1> QED BY <1>1, <1>3, <1>4, <1>5 DEF r

\* The same, by places in the buffer.
LEMMA TakenShape ==
  ASSUME NEW q, NEW s, Accepting(q, s), Tallied(q)
  PROVE  LET r == Taken(q, s)
             a == Place(q.bufferLowestSequenceNumber, s)
             t == HighPlace(q)
         IN  /\ q.pending = {} => /\ r.receivedHighestSequenceNumber = s
                                  /\ r.missingPackets = a
             /\ q.pending # {} /\ t < a => /\ r.receivedHighestSequenceNumber = s
                                           /\ r.missingPackets = q.missingPackets + (a - t - 1)
             /\ q.pending # {} /\ ~(t < a) =>
                  /\ r.receivedHighestSequenceNumber = q.receivedHighestSequenceNumber
                  /\ r.missingPackets = q.missingPackets - 1
             /\ IF s \in DataNumbers(q)
                THEN /\ r.receivedDataPackets = q.receivedDataPackets + 1
                     /\ r.receivedParityPackets = q.receivedParityPackets
                ELSE /\ r.receivedDataPackets = q.receivedDataPackets
                     /\ r.receivedParityPackets = q.receivedParityPackets + 1
<1> DEFINE r == Taken(q, s)
           low == q.bufferLowestSequenceNumber
           high == q.receivedHighestSequenceNumber
           d == q.bufferDataPackets
           a == Place(low, s)
           t == HighPlace(q)
           one == Cardinality(q.pending \cup {s}) = 1
<1>1. q \in QueueType /\ s \in Seq16 /\ Total(q) \in 1 .. H /\ a < Total(q)
  BY DEF Accepting
<1>2. /\ low \in Seq16 /\ high \in Seq16 /\ d \in Nat /\ d <= Total(q)
      /\ t \in 0 .. W - 1 /\ a \in 0 .. W - 1 /\ (s \in DataNumbers(q) <=> a < d)
      /\ t = Place(low, high)
  BY <1>1, BufferShape DEF HighPlace
<1>3. /\ r.receivedHighestSequenceNumber = IF one \/ isBefore16(high, s) THEN s ELSE high
      /\ r.missingPackets =
           IF one THEN q.missingPackets + a
           ELSE IF isBefore16(high, s) THEN q.missingPackets + ((s - high - 1) % W)
           ELSE q.missingPackets - 1
      /\ r.receivedDataPackets = IF IsDataNumber(q, s) THEN q.receivedDataPackets + 1
                                 ELSE q.receivedDataPackets
      /\ r.receivedParityPackets = IF IsDataNumber(q, s) THEN q.receivedParityPackets
                                   ELSE q.receivedParityPackets + 1
  BY <1>1, TakenFields
<1>4. one <=> q.pending = {}
  <2>1. IsFiniteSet(q.pending) /\ Cardinality(q.pending) \in Nat
    BY <1>1, SetsAreFinite DEF QueueType
  <2>2. Cardinality(q.pending \cup {s}) = Cardinality(q.pending) + 1
    BY <2>1, AcceptedIsNew, FS_AddElement
  <2>3. Cardinality(q.pending) = 0 <=> q.pending = {}
    BY <2>1, FS_EmptySet
  <2> QED BY <2>1, <2>2, <2>3
<1>5. q.missingPackets \in Int /\ (q.pending = {} => q.missingPackets = 0)
  BY <1>1 DEF Tallied, Untouched, QueueType
<1>6. q.pending # {} => /\ isBefore16(high, s) <=> t < a
                        /\ t < a => (s - high - 1) % W = a - t - 1
  <2> SUFFICES ASSUME q.pending # {}
               PROVE  /\ isBefore16(high, s) <=> t < a
                      /\ t < a => (s - high - 1) % W = a - t - 1
    OBVIOUS
  <2>1. t < Total(q)
    BY DEF Tallied, Gauged
  <2> HIDE DEF a, t, low, high
  <2>2. a <= H /\ t <= H
    BY <1>1, <1>2, <2>1, Half
  <2>3. Place(low, high) <= H /\ Place(low, s) <= H
    BY <1>2, <2>2 DEF a
  <2> QED BY <1>1, <1>2, <2>3, BeforePlaces DEF a
<1>7. IsDataNumber(q, s) <=> s \in DataNumbers(q)
  <2> DEFINE e == (low + d) % W
  <2>1. IsDataNumber(q, s) <=> isBefore16(s, e)
    BY DEF IsDataNumber
  <2> HIDE DEF low, d, a
  <2>2. d \in 0 .. W - 1 /\ d <= H /\ a <= H
    BY <1>1, <1>2, Half
  <2>3. e \in Seq16 /\ Place(low, e) = d
    BY <1>2, <2>2, PlaceOf
  <2> HIDE DEF e
  <2>4. isBefore16(s, e) <=> Place(low, s) < Place(low, e)
    <3>1. Place(low, s) <= H /\ Place(low, e) <= H
      BY <2>2, <2>3 DEF a
    <3> QED BY <1>1, <1>2, <2>3, <3>1, BeforePlaces
  <2> QED BY <1>2, <2>1, <2>3, <2>4 DEF a
<1> HIDE DEF r, low, high, d, a, t, one
<1>8. q.pending = {} => r.receivedHighestSequenceNumber = s /\ r.missingPackets = a
  BY <1>2, <1>3, <1>4, <1>5
<1>9. q.pending # {} /\ t < a => /\ r.receivedHighestSequenceNumber = s
                                 /\ r.missingPackets = q.missingPackets + (a - t - 1)
  BY <1>3, <1>4, <1>6
<1>10. q.pending # {} /\ ~(t < a) => /\ r.receivedHighestSequenceNumber = high
                                     /\ r.missingPackets = q.missingPackets - 1
  BY <1>3, <1>4, <1>6
<1> QED BY <1>3, <1>7, <1>8, <1>9, <1>10 DEF r, low, high, a, t

\* A packet that is taken counts as received, once, on its side of the parity.
LEMMA TakenCounts ==
  ASSUME NEW q, NEW s, Accepting(q, s), Tallied(q)
  PROVE  LET r == Taken(q, s)
         IN  /\ Received(r) = Received(q) \cup {s} /\ DataNumbers(r) = DataNumbers(q)
             /\ r.made \subseteq r.pending \cap DataNumbers(r)
             /\ Cardinality(Received(r)) = Cardinality(Received(q)) + 1
             /\ Cardinality(Received(q)) \in Nat
             /\ r.receivedDataPackets = Cardinality(Received(r) \cap DataNumbers(r))
             /\ r.receivedParityPackets = Cardinality(Received(r) \ DataNumbers(r))
<1> DEFINE r == Taken(q, s)
           g == Received(q)
           D == DataNumbers(q)
<1>1. q \in QueueType /\ s \in Seq16 /\ s \notin q.pending
  BY AcceptedIsNew DEF Accepting
<1>2. /\ r.pending = q.pending \cup {s} /\ r.made = q.made
      /\ r.bufferLowestSequenceNumber = q.bufferLowestSequenceNumber
      /\ r.bufferDataPackets = q.bufferDataPackets
  BY <1>1, TakenFields
<1>3. /\ q.made \subseteq q.pending \cap D
      /\ q.receivedDataPackets = Cardinality(g \cap D)
      /\ q.receivedParityPackets = Cardinality(g \ D)
  BY DEF Tallied
<1>4. IF s \in D THEN /\ r.receivedDataPackets = q.receivedDataPackets + 1
                      /\ r.receivedParityPackets = q.receivedParityPackets
      ELSE /\ r.receivedDataPackets = q.receivedDataPackets
           /\ r.receivedParityPackets = q.receivedParityPackets + 1
  BY TakenShape
<1> HIDE DEF r
<1>5. DataNumbers(r) = D
  BY <1>2 DEF DataNumbers
<1>6. Received(r) = g \cup {s} /\ s \notin g
  BY <1>1, <1>2, <1>3 DEF Received
<1>7. g \in SUBSET Seq16
  BY <1>1 DEF Received, QueueType
<1> HIDE DEF g, D
<1>8. IsFiniteSet(g) /\ IsFiniteSet(g \cap D) /\ IsFiniteSet(g \ D) /\ Cardinality(g) \in Nat
  BY <1>7, SetsAreFinite
<1>9. Cardinality(g \cup {s}) = Cardinality(g) + 1
  BY <1>6, <1>8, FS_AddElement
<1>10. CASE s \in D
  <2>1. (g \cup {s}) \cap D = (g \cap D) \cup {s} /\ (g \cup {s}) \ D = g \ D
    BY <1>10
  <2>2. Cardinality((g \cap D) \cup {s}) = Cardinality(g \cap D) + 1
    BY <1>6, <1>8, FS_AddElement
  <2> QED BY <1>2, <1>3, <1>4, <1>5, <1>6, <1>8, <1>9, <1>10, <2>1, <2>2 DEF r, g, D
<1>11. CASE s \notin D
  <2>1. (g \cup {s}) \cap D = g \cap D /\ (g \cup {s}) \ D = (g \ D) \cup {s}
    BY <1>11
  <2>2. Cardinality((g \ D) \cup {s}) = Cardinality(g \ D) + 1
    BY <1>6, <1>8, FS_AddElement
  <2> QED BY <1>2, <1>3, <1>4, <1>5, <1>6, <1>8, <1>9, <1>11, <2>1, <2>2 DEF r, g, D
<1> QED BY <1>10, <1>11

\* The number sets of a queue that has taken a packet, by places.
LEMMA TakenGauged ==
  ASSUME NEW q, NEW s, Accepting(q, s), Tallied(q)
  PROVE  Gauged(Taken(q, s))
<1> DEFINE r == Taken(q, s)
           low == q.bufferLowestSequenceNumber
           high == q.receivedHighestSequenceNumber
           P(x) == Place(low, x)
           a == P(s)
           t == HighPlace(q)
           u == HighPlace(r)
           n == Cardinality(Received(q))
<1>1. q \in QueueType /\ s \in Seq16 /\ Total(q) \in 1 .. H /\ a < Total(q)
  BY DEF Accepting
<1>2. /\ r \in QueueType /\ r.pending = q.pending \cup {s}
      /\ r.bufferLowestSequenceNumber = low /\ Total(r) = Total(q)
      /\ r.useFastQueuePath = Follows(q, s)
      /\ r.nextContiguousSequenceNumber = IF Follows(q, s) THEN (s + 1) % W
                                          ELSE q.nextContiguousSequenceNumber
  BY <1>1, TakenFields DEF Total
<1>3. Received(r) = Received(q) \cup {s} /\ Cardinality(Received(r)) = n + 1 /\ n \in Nat
  BY TakenCounts
<1>4. /\ q.pending = {} => r.receivedHighestSequenceNumber = s /\ r.missingPackets = a
      /\ q.pending # {} /\ t < a => /\ r.receivedHighestSequenceNumber = s
                                    /\ r.missingPackets = q.missingPackets + (a - t - 1)
      /\ q.pending # {} /\ ~(t < a) => /\ r.receivedHighestSequenceNumber = high
                                       /\ r.missingPackets = q.missingPackets - 1
  BY TakenShape
<1>5. /\ low \in Seq16 /\ t \in 0 .. W - 1 /\ a \in 0 .. W - 1
      /\ \A x \in Seq16 : x \in UpTo(q, high) <=> P(x) <= t
  BY <1>1, BufferShape
<1>6. u = P(r.receivedHighestSequenceNumber)
  BY <1>2 DEF HighPlace
<1>7. \A x \in Seq16 : x \in UpTo(r, r.receivedHighestSequenceNumber) <=> P(x) <= u
  BY <1>1, <1>2, BufferShape
<1>8. /\ q.pending \subseteq Seq16 /\ Received(q) \subseteq q.pending
      /\ q.missingPackets \in Int
  BY <1>1 DEF QueueType, Received
<1>9. Follows(q, s) => /\ q.pending = {} => s = low
                       /\ q.pending # {} => a = t + 1 /\ q.pending = UpTo(q, high)
  BY <1>1, FollowsHigh
<1>10. q.pending # {} => /\ high \in Received(q) /\ t < Total(q)
                         /\ Received(q) \subseteq UpTo(q, high)
                         /\ q.missingPackets + n = t + 1
  BY DEF Tallied, Gauged
<1>11. t = P(high)
  BY DEF HighPlace
<1>12. \A x \in Seq16 : P(x) \in 0 .. W - 1
  BY <1>5, PlaceRange
<1>13. \A x, y \in Seq16 : P(x) = P(y) => x = y
  BY <1>5, PlaceSame
<1>14. UpTo(r, r.receivedHighestSequenceNumber) \subseteq Seq16
  <2>1. UpTo(r, r.receivedHighestSequenceNumber) = Numbers(low, u + 1)
    BY <1>2 DEF UpTo, HighPlace, Place
  <2>2. u + 1 \in 0 .. W
    BY <1>1, <1>2, BufferShape
  <2> HIDE DEF u, low
  <2> QED BY <1>5, <2>1, <2>2, NumbersIn
<1> HIDE DEF r, low, high, P, t, u, n
<1>15. ASSUME r.receivedHighestSequenceNumber = s, u = a,
              \A x \in Received(q) : P(x) <= a,
              r.missingPackets + (n + 1) = a + 1,
              Follows(q, s) => \A x \in Seq16 : x \in q.pending \/ x = s <=> P(x) <= a
       PROVE  Gauged(r)
  <2>1. s \in Received(r) /\ u < Total(r)
    BY <1>1, <1>2, <1>3, <1>15
  <2>2. Received(r) \subseteq UpTo(r, s)
    <3>1. \A x \in Received(r) : x \in Seq16 /\ P(x) <= a
      <4>1. a <= a
        BY <1>5, Half
      <4> QED BY <1>1, <1>3, <1>8, <1>15, <4>1
    <3> QED BY <1>7, <1>15, <3>1
  <2>3. r.useFastQueuePath => /\ r.pending = UpTo(r, s)
                              /\ r.nextContiguousSequenceNumber = (s + 1) % W
    <3> SUFFICES ASSUME Follows(q, s)
                 PROVE  /\ r.pending = UpTo(r, s)
                        /\ r.nextContiguousSequenceNumber = (s + 1) % W
      BY <1>2
    <3>1. r.pending \subseteq Seq16 /\ UpTo(r, s) \subseteq Seq16
      BY <1>1, <1>2, <1>8, <1>14, <1>15
    <3>2. \A x \in Seq16 : x \in r.pending <=> x \in UpTo(r, s)
      BY <1>2, <1>7, <1>15
    <3> QED BY <1>2, <3>1, <3>2
  <2> QED BY <1>3, <1>15, <2>1, <2>2, <2>3 DEF Gauged, u
<1>16. CASE q.pending = {}
  <2>1. r.receivedHighestSequenceNumber = s /\ r.missingPackets = a /\ u = a
    BY <1>4, <1>6, <1>16
  <2>2. n = 0 /\ Received(q) = {}
    BY <1>8, <1>16, FS_EmptySet DEF n
  <2>3. r.missingPackets + (n + 1) = a + 1
    BY <1>5, <2>1, <2>2, Half
  <2>4. ASSUME Follows(q, s) PROVE \A x \in Seq16 : x \in q.pending \/ x = s <=> P(x) <= a
    <3>1. a = 0
      <4>1. s = low
        BY <1>9, <1>16, <2>4
      <4>2. Place(low, s) = s - low
        BY <1>1, <1>5, <4>1, PlaceRange, Half DEF Seq16
      <4> QED BY <1>1, <4>1, <4>2, Half DEF P, Seq16
    <3>2. \A x \in Seq16 : P(x) <= 0 <=> P(x) = 0
      BY <1>12
    <3> QED BY <1>1, <1>13, <1>16, <3>1, <3>2
  <2> QED BY <1>15, <2>1, <2>2, <2>3, <2>4 DEF r
<1>17. CASE q.pending # {} /\ t < a
  <2>1. r.receivedHighestSequenceNumber = s /\ u = a
        /\ r.missingPackets = q.missingPackets + (a - t - 1)
    BY <1>4, <1>6, <1>17
  <2>2. r.missingPackets + (n + 1) = a + 1
    BY <1>3, <1>5, <1>8, <1>10, <1>17, <2>1, Half
  <2>3. \A x \in Received(q) : P(x) <= a
    BY <1>5, <1>8, <1>10, <1>12, <1>17
  <2>4. ASSUME Follows(q, s) PROVE \A x \in Seq16 : x \in q.pending \/ x = s <=> P(x) <= a
    <3>1. a = t + 1 /\ \A x \in Seq16 : x \in q.pending <=> P(x) <= t
      BY <1>5, <1>9, <1>17, <2>4
    <3>2. \A x \in Seq16 : P(x) <= t + 1 <=> P(x) <= t \/ P(x) = t + 1
      BY <1>5, <1>12
    <3>3. \A x \in Seq16 : x = s <=> P(x) = t + 1
      BY <1>1, <1>13, <3>1
    <3> QED BY <3>1, <3>2, <3>3
  <2> QED BY <1>15, <2>1, <2>2, <2>3, <2>4 DEF r
<1>18. CASE q.pending # {} /\ ~(t < a)
  <2>1. r.receivedHighestSequenceNumber = high /\ r.missingPackets = q.missingPackets - 1 /\ u = t
    BY <1>4, <1>6, <1>11, <1>18
  <2>2. ~Follows(q, s)
    BY <1>5, <1>9, <1>18
  <2>3. r.missingPackets + (n + 1) = t + 1
    BY <1>3, <1>8, <1>10, <1>18, <2>1
  <2>4. high \in Received(r) /\ u < Total(r)
    BY <1>2, <1>3, <1>10, <1>18, <2>1
  <2>5. Received(r) \subseteq UpTo(r, high)
    <3>1. \A x \in Received(r) : x \in Seq16 /\ P(x) <= t
      <4>1. a <= t
        BY <1>5, <1>18
      <4>2. \A x \in Received(q) : x \in Seq16 /\ P(x) <= t
        BY <1>5, <1>8, <1>10, <1>18
      <4> QED BY <1>1, <1>3, <4>1, <4>2
    <3> QED BY <1>7, <2>1, <3>1
  <2>6. Gauged(r)
    BY <1>2, <1>3, <2>1, <2>2, <2>3, <2>4, <2>5 DEF Gauged, u
  <2> QED BY <2>6 DEF r
<1> QED BY <1>16, <1>17, <1>18 DEF r

\* Too many holes stay too many unless a packet comes late, which is remembered.
LEMMA TakenForetold ==
  ASSUME NEW q, NEW s, Accepting(q, s), Tallied(q)
  PROVE  Foretold(Taken(q, s))
<1> DEFINE r == Taken(q, s)
           low == q.bufferLowestSequenceNumber
           high == q.receivedHighestSequenceNumber
           a == Place(low, s)
           t == HighPlace(q)
<1>1. q \in QueueType /\ s \in Seq16 /\ Total(q) \in 1 .. H /\ a < Total(q) /\ s \notin q.pending
  BY AcceptedIsNew DEF Accepting
<1>2. /\ Block(r) = Block(q) /\ r.bufferParityPackets = q.bufferParityPackets
      /\ r.reportedLostFrame = q.reportedLostFrame
      /\ r.lastOosFrame = IF Late(q, s) THEN q.currentFrameNumber ELSE q.lastOosFrame
      /\ r.receivedOosData = (Late(q, s) \/ (q.receivedOosData /\ ~Cool(q)))
  BY <1>1, TakenFields
<1>3. r.currentFrameNumber = q.currentFrameNumber
  BY <1>2 DEF Block
<1> SUFFICES ASSUME r.reportedLostFrame
             PROVE  \/ r.missingPackets > r.bufferParityPackets
                    \/ r.receivedOosData /\ r.lastOosFrame = r.currentFrameNumber
  BY DEF Foretold
<1>4. q.pending # {} /\ Gauged(q) /\ Foretold(q)
  BY <1>2 DEF Tallied, Untouched
<1>5. q.missingPackets \in Int /\ q.bufferParityPackets \in Nat /\ q.currentFrameNumber \in Nat
  BY <1>1 DEF QueueType
<1>6. CASE q.receivedOosData /\ q.lastOosFrame = q.currentFrameNumber
  <2>1. ~Cool(q)
    BY <1>5, <1>6, RtpVideoAssumption DEF Cool
  <2> QED BY <1>2, <1>3, <1>6, <2>1
<1>7. CASE q.missingPackets > q.bufferParityPackets
  <2>1. t \in 0 .. W - 1 /\ a \in 0 .. W - 1 /\ low \in Seq16 /\ high \in Seq16
        /\ t = Place(low, high)
    BY <1>1, BufferShape DEF HighPlace
  <2>2. CASE t < a
    <3>1. r.missingPackets = q.missingPackets + (a - t - 1)
      BY <1>4, <2>2, TakenShape
    <3> HIDE DEF r, a, t
    <3> QED BY <1>2, <1>5, <1>7, <2>1, <2>2, <3>1, Half
  <2>3. CASE ~(t < a)
    <3>1. high \in q.pending
      BY <1>4 DEF Gauged, Received
    <3>2. a # t
      BY <1>1, <2>1, <3>1, PlaceSame
    <3>3. isBefore16(s, high)
      <4>1. t < Total(q)
        BY <1>4 DEF Gauged
      <4> HIDE DEF a, t, low, high
      <4>2. a < t /\ a <= H /\ t <= H
        BY <1>1, <2>1, <2>3, <3>2, <4>1, Half
      <4>3. Place(low, s) <= H /\ Place(low, high) <= H /\ Place(low, s) < Place(low, high)
        BY <2>1, <4>2 DEF a
      <4> QED BY <1>1, <2>1, <4>3, BeforePlaces
    <3>4. ~Follows(q, s)
      <4>1. Follows(q, s) => a = t + 1
        BY <1>1, <1>4, FollowsHigh
      <4> HIDE DEF a, t
      <4> QED BY <2>1, <2>3, <4>1
    <3>5. Late(q, s)
      BY <3>1, <3>3, <3>4 DEF Late
    <3> QED BY <1>2, <1>3, <3>5
  <2> QED BY <2>2, <2>3
<1> QED BY <1>2, <1>4, <1>6, <1>7 DEF Foretold

LEMMA TakenTallied ==
  ASSUME NEW q, NEW s, Accepting(q, s), Tallied(q)
  PROVE  Tallied(Taken(q, s)) /\ Taken(q, s).pending # {}
<1>1. Taken(q, s).pending = q.pending \cup {s}
  BY TakenFields DEF Accepting
<1>2. Taken(q, s).pending # {}
  BY <1>1
<1> QED BY <1>2, TakenCounts, TakenGauged, TakenForetold DEF Tallied

\* What a tally is about; the early report and recovered data are looked at apart.
LEMMA SameTally ==
  ASSUME NEW q \in QueueType, NEW r \in QueueType, Tallied(q), q.pending # {},
         SameBut(r, [q EXCEPT !.reportedLostFrame = r.reportedLostFrame]),
         Received(r) = Received(q), r.made \subseteq r.pending \cap DataNumbers(q),
         q.useFastQueuePath => r.pending = q.pending,
         Foretold(r)
  PROVE  Tallied(r) /\ r.pending # {}
<1> DEFINE m == [q EXCEPT !.reportedLostFrame = r.reportedLostFrame]
<1>1. /\ m.bufferLowestSequenceNumber = q.bufferLowestSequenceNumber
      /\ m.bufferDataPackets = q.bufferDataPackets /\ m.bufferParityPackets = q.bufferParityPackets
      /\ m.receivedDataPackets = q.receivedDataPackets
      /\ m.receivedParityPackets = q.receivedParityPackets
      /\ m.receivedHighestSequenceNumber = q.receivedHighestSequenceNumber
      /\ m.nextContiguousSequenceNumber = q.nextContiguousSequenceNumber
      /\ m.missingPackets = q.missingPackets /\ m.useFastQueuePath = q.useFastQueuePath
  BY DEF QueueType
<1> HIDE DEF m
<1>2. /\ r.bufferLowestSequenceNumber = q.bufferLowestSequenceNumber
      /\ r.bufferDataPackets = q.bufferDataPackets /\ r.bufferParityPackets = q.bufferParityPackets
      /\ r.receivedDataPackets = q.receivedDataPackets
      /\ r.receivedParityPackets = q.receivedParityPackets
      /\ r.receivedHighestSequenceNumber = q.receivedHighestSequenceNumber
      /\ r.nextContiguousSequenceNumber = q.nextContiguousSequenceNumber
      /\ r.missingPackets = q.missingPackets /\ r.useFastQueuePath = q.useFastQueuePath
  <2>1. SameBut(r, m)
    BY DEF m
  <2> QED BY <1>1, <2>1 DEF SameBut
<1>3. DataNumbers(r) = DataNumbers(q) /\ HighPlace(r) = HighPlace(q) /\ Total(r) = Total(q)
      /\ UpTo(r, q.receivedHighestSequenceNumber) = UpTo(q, q.receivedHighestSequenceNumber)
  BY <1>2 DEF DataNumbers, HighPlace, Total, UpTo
<1>4. Gauged(r)
  BY <1>2, <1>3 DEF Tallied, Gauged
<1>5. r.pending # {}
  BY <1>4 DEF Gauged, Received
<1> QED BY <1>2, <1>3, <1>4, <1>5 DEF Tallied

LEMMA GaugedHoles ==
  ASSUME NEW q \in QueueType, Total(q) \in 1 .. H, Gauged(q)
  PROVE  /\ q.missingPackets \in Nat
         /\ q.missingPackets =
              Cardinality(UpTo(q, q.receivedHighestSequenceNumber) \ Received(q))
<1> DEFINE all == UpTo(q, q.receivedHighestSequenceNumber)
           g == Received(q)
           t == HighPlace(q)
           m == q.missingPackets
<1>1. t + 1 \in 0 .. W /\ q.bufferLowestSequenceNumber \in Seq16
  BY BufferShape
<1>2. all = Numbers(q.bufferLowestSequenceNumber, t + 1)
  BY DEF UpTo, HighPlace, Place
<1>3. IsFiniteSet(all) /\ Cardinality(all) = t + 1
  <2> HIDE DEF t, all
  <2> QED BY <1>1, <1>2, NumbersCard
<1>4. g \subseteq all /\ m + Cardinality(g) = t + 1 /\ m \in Int
  BY DEF Gauged, QueueType
<1> HIDE DEF all, g, t, m
<1>5. IsFiniteSet(g) /\ Cardinality(g) <= t + 1 /\ Cardinality(g) \in Nat
  BY <1>3, <1>4, FS_Subset, FS_CardinalityType
<1>6. Cardinality(all \ g) = Cardinality(all) - Cardinality(all \cap g) /\ all \cap g = g
  BY <1>3, <1>4, FS_Difference
<1>7. m \in Nat /\ m = Cardinality(all \ g)
  <2> DEFINE c == Cardinality(g)
             e == t + 1
  <2>1. Cardinality(all \ g) = e - c
    BY <1>3, <1>6
  <2>2. e \in Int /\ c \in Nat /\ c <= e /\ m + c = e /\ m \in Int
    BY <1>1, <1>4, <1>5, Half
  <2> HIDE DEF c, e
  <2> QED BY <2>1, <2>2
<1> QED BY <1>7 DEF m, all, g
-------------------------------------------------------------------------------
(***************************************************************************)
(* The steps, and what the counters say after each.                        *)
(***************************************************************************)
Sound(q) ==
  /\ Covers(q) /\ q.missingPackets \in Nat
  /\ q.pending # {} => Tallied(q)

LEMMA LoadedTotal ==
  ASSUME NEW q, Loaded(q)
  PROVE  Total(q) = Size(Block(q)) /\ Total(q) \in 1 .. H
<1> DEFINE n == q.currentFrameNumber
           b == q.multiFecCurrentBlockNumber
<1>1. n \in Frames /\ b \in 0 .. LastBlock(n) /\ Block(q) = <<n, b>>
      /\ Total(q) = Data(Block(q)) + Parity(Block(q))
  BY DEF Loaded, Block, Total
<1> HIDE DEF n, b
<1> QED BY <1>1, BlockShape

LEMMA TalliedHoles ==
  ASSUME NEW q, Covers(q), Tallied(q), q.pending # {}
  PROVE  Sound(q)
<1>1. q \in QueueType /\ Total(q) \in 1 .. H /\ Gauged(q)
  BY LoadedTotal DEF Covers, Tallied
<1> QED BY <1>1, GaugedHoles DEF Sound

LEMMA BeginTallied ==
  ASSUME NEW q \in QueueType, NEW p \in Packet
  PROVE  Tallied(Begin(q, p)) /\ Begin(q, p).pending = {} /\ Begin(q, p).missingPackets = 0
<1> DEFINE r == Begin(q, p)
<1>1. /\ r.pending = {} /\ r.made = {}
      /\ r.nextContiguousSequenceNumber = r.bufferLowestSequenceNumber
      /\ r.receivedDataPackets = 0 /\ r.receivedParityPackets = 0
      /\ r.missingPackets = 0 /\ r.reportedLostFrame = FALSE
  BY BeginShape
<1> HIDE DEF r
<1>2. Received(r) \cap DataNumbers(r) = {} /\ Received(r) \ DataNumbers(r) = {}
  BY <1>1 DEF Received
<1>3. Cardinality({}) = 0
  BY FS_EmptySet
<1>4. Tallied(r)
  BY <1>1, <1>2, <1>3 DEF Tallied, Untouched
<1> QED BY <1>1, <1>4 DEF r

\* A packet that is not turned away finds a block whose counters are right.
LEMMA ReadySound ==
  ASSUME Sound(queue), NEW p \in Packet, Near(p), Enters(p)
  PROVE  Sound(Ready(p)) /\ Tallied(Ready(p)) /\ Ready(p) \in QueueType
<1>1. Covers(queue) /\ queue \in QueueType
  BY DEF Sound, Covers
<1>2. Covers(Ready(p)) /\ Ready(p) \in QueueType
  BY <1>1, ReadyShape DEF Covers
<1>3. CASE Starts(queue, p)
  <2>1. Ready(p) = Begin(queue, p)
    BY <1>3 DEF Ready
  <2> QED BY <1>1, <1>2, <2>1, BeginTallied DEF Sound
<1>4. CASE ~Starts(queue, p)
  <2>1. Ready(p) = queue /\ queue.pending # {}
    BY <1>4 DEF Ready, Starts
  <2> QED BY <1>2, <2>1 DEF Sound
<1> QED BY <1>3, <1>4

LEMMA ReadyAccepting ==
  ASSUME Sound(queue), NEW p \in Packet, Near(p), Accepts(p)
  PROVE  Accepting(Ready(p), SequenceNumber(p)) /\ Tallied(Ready(p))
<1> DEFINE r == Ready(p)
           s == SequenceNumber(p)
           c == <<p.frame, p.block>>
<1>1. Enters(p) /\ ~Duplicate(r, s)
  BY DEF Accepts
<1>2. Tallied(r) /\ r \in QueueType
  BY <1>1, ReadySound
<1>3. Loaded(r) /\ Block(r) = c
  BY <1>1, ReadyShape DEF Sound
<1> HIDE DEF r
<1>4. Total(r) = Size(c) /\ Total(r) \in 1 .. H /\ r.bufferLowestSequenceNumber = First(c) % W
  BY <1>3, LoadedTotal DEF Loaded
<1>5. s \in Seq16 /\ p.fecIndex \in 0 .. Size(c) - 1 /\ Place(First(c) % W, s) = p.fecIndex
  BY PacketShape, PacketPlace
<1>6. p.fecIndex < Total(r)
  <2> DEFINE z == Size(c)
  <2>1. z \in 1 .. H /\ p.fecIndex \in 0 .. z - 1 /\ Total(r) = z
    BY <1>4, <1>5
  <2> HIDE DEF z
  <2> QED BY <2>1, Half
<1>7. Accepting(r, s)
  BY <1>1, <1>2, <1>4, <1>5, <1>6 DEF Accepting
<1> QED BY <1>2, <1>7 DEF r

LEMMA QueuedSound ==
  ASSUME Sound(queue), NEW p \in Packet, Near(p), Accepts(p)
  PROVE  /\ Queued(p) \in QueueType /\ Sound(Queued(p)) /\ Loaded(Queued(p))
         /\ Tallied(Queued(p)) /\ Queued(p).pending # {}
<1>1. Queued(p) = Taken(Ready(p), SequenceNumber(p))
  BY DEF Queued, Taken
<1>2. Tallied(Queued(p)) /\ Queued(p).pending # {}
  BY <1>1, ReadyAccepting, TakenTallied
<1>3. Queued(p) \in QueueType /\ Covers(Queued(p)) /\ Loaded(Queued(p))
  BY QueuedCovers DEF Sound, Accepts
<1> QED BY <1>2, <1>3, TalliedHoles

\* What is pending and given up has nothing left to count.
LEMMA EmptySound ==
  ASSUME NEW q, Covers(q), q.pending = {}, q.missingPackets \in Nat
  PROVE  Sound(q)
BY DEF Sound

LEMMA AdmitTallied ==
  ASSUME NEW q \in QueueType, Tallied(q), q.pending # {}
  PROVE  /\ Admit(q) \in QueueType /\ Tallied(Admit(q)) /\ Admit(q).pending = q.pending
         /\ Admit(q).missingPackets = q.missingPackets
<1> DEFINE r == Admit(q)
<1>1. /\ r \in QueueType /\ SameBut(r, q) /\ r.pending = q.pending /\ r.made = q.made
      /\ r.receivedOosData = (q.receivedOosData \/ q.reportedLostFrame)
      /\ r.lastOosFrame = IF q.reportedLostFrame /\ ~q.receivedOosData
                          THEN q.currentFrameNumber ELSE q.lastOosFrame
  BY AdmitShape
<1> HIDE DEF r
<1>2. [q EXCEPT !.reportedLostFrame = r.reportedLostFrame] = q
  BY <1>1 DEF SameBut, QueueType
<1>3. Received(r) = Received(q) /\ r.made \subseteq r.pending \cap DataNumbers(q)
  BY <1>1 DEF Received, Tallied
<1>4. Foretold(r)
  <2>1. Foretold(q) /\ q.receivedOosData \in BOOLEAN /\ q.reportedLostFrame \in BOOLEAN
    BY DEF Tallied, QueueType
  <2>2. /\ r.reportedLostFrame = q.reportedLostFrame /\ r.missingPackets = q.missingPackets
        /\ r.bufferParityPackets = q.bufferParityPackets
        /\ r.currentFrameNumber = q.currentFrameNumber
    BY <1>1 DEF SameBut, Block
  <2> QED BY <1>1, <2>1, <2>2 DEF Foretold
<1>5. Tallied(r)
  BY <1>1, <1>2, <1>3, <1>4, SameTally
<1> QED BY <1>1, <1>5 DEF SameBut, r

LEMMA WaitSound ==
  ASSUME Sound(queue), NEW p \in Packet, Near(p), Wait(p)
  PROVE  Sound(queue')
<1> DEFINE q == Queued(p)
           r == [q EXCEPT !.reportedLostFrame = TRUE]
<1>1. Covers(queue') /\ Accepts(p)
  BY WaitFeeds DEF Sound, Wait
<1>2. q \in QueueType /\ Sound(q) /\ Tallied(q) /\ q.pending # {}
  BY <1>1, QueuedSound
<1>3. queue' = q \/ (queue' = r /\ Hopeless(q))
  BY DEF Wait, Does
<1> HIDE DEF q
<1>4. ASSUME Hopeless(q) PROVE Tallied(r) /\ r.pending # {}
  <2>1. /\ r \in QueueType /\ r.pending = q.pending /\ r.made = q.made
        /\ r.reportedLostFrame = TRUE
        /\ r.missingPackets = q.missingPackets /\ r.bufferParityPackets = q.bufferParityPackets
        /\ SameBut(r, r)
    BY <1>2 DEF QueueType, SameBut
  <2>2. [q EXCEPT !.reportedLostFrame = r.reportedLostFrame] = r
    BY <2>1
  <2> HIDE DEF r
  <2>3. Received(r) = Received(q) /\ r.made \subseteq r.pending \cap DataNumbers(q)
    BY <1>2, <2>1 DEF Received, Tallied
  <2>4. Foretold(r)
    BY <1>4, <2>1 DEF Hopeless, Foretold
  <2> QED BY <1>2, <2>1, <2>2, <2>3, <2>4, SameTally
<1> HIDE DEF r
<1>5. Tallied(queue') /\ queue'.pending # {}
  BY <1>2, <1>3, <1>4
<1> QED BY <1>1, <1>5, TalliedHoles

\* On the fast path nothing is lacking once there are packets enough.
LEMMA FastLacksNothing ==
  ASSUME NEW q \in QueueType, Total(q) \in 1 .. H, Gauged(q), ~Short(q), q.useFastQueuePath
  PROVE  Lacking(q) = {}
<1> DEFINE high == q.receivedHighestSequenceNumber
           t == HighPlace(q)
           d == q.bufferDataPackets
           low == q.bufferLowestSequenceNumber
<1>1. /\ low \in Seq16 /\ d \in Nat /\ d \in 0 .. W /\ t + 1 \in 0 .. W /\ t \in 0 .. W - 1
      /\ \A x \in Seq16 : /\ Place(low, x) \in 0 .. W - 1
                          /\ x \in DataNumbers(q) <=> Place(low, x) < d
                          /\ x \in UpTo(q, high) <=> Place(low, x) <= t
  BY BufferShape
<1>2. q.pending = UpTo(q, high)
  BY DEF Gauged
<1>3. UpTo(q, high) = Numbers(low, t + 1) /\ DataNumbers(q) = Numbers(low, d)
  BY DEF UpTo, HighPlace, Place, DataNumbers
<1>4. ~(Cardinality(q.pending) < d)
  BY DEF Short
<1> HIDE DEF high, t, d, low
<1>5. Cardinality(Numbers(low, t + 1)) = t + 1 /\ DataNumbers(q) \subseteq Seq16
  BY <1>1, <1>3, NumbersCard, NumbersIn
<1>6. d <= t + 1
  BY <1>1, <1>2, <1>3, <1>4, <1>5, Half
<1>7. \A x \in DataNumbers(q) : x \in q.pending
  <2> SUFFICES ASSUME NEW x \in DataNumbers(q) PROVE x \in UpTo(q, high)
    BY <1>2
  <2>1. x \in Seq16 /\ Place(low, x) < d /\ Place(low, x) \in 0 .. W - 1
    BY <1>1, <1>5
  <2>2. Place(low, x) <= t
    BY <1>1, <1>6, <2>1, Half
  <2> QED BY <1>1, <2>1, <2>2
<1> QED BY <1>7 DEF Lacking

LEMMA FailToRecoverSound ==
  ASSUME Sound(queue), NEW p \in Packet, Near(p), FailToRecover(p)
  PROVE  Sound(queue')
<1> DEFINE q == Queued(p)
           a == Admit(q)
<1>1. Covers(queue') /\ Accepts(p) /\ ~Short(q)
  BY FailToRecoverFeeds DEF Sound, FailToRecover
<1>2. q \in QueueType /\ Loaded(q) /\ Tallied(q) /\ q.pending # {}
  BY <1>1, QueuedSound
<1>3. PICK new \in SUBSET Lacking(q) :
        queue' = [a EXCEPT !.pending = @ \cup new, !.made = @ \cup new]
  BY DEF FailToRecover, Does
<1> HIDE DEF q
<1>4. Total(q) \in 1 .. H /\ Gauged(q)
  BY <1>2, LoadedTotal DEF Tallied
<1>5. /\ a \in QueueType /\ Tallied(a) /\ a.pending = q.pending /\ SameBut(a, q)
      /\ a.made = q.made
  BY <1>2, AdmitTallied, AdmitShape
<1> HIDE DEF a
<1>6. DataNumbers(a) = DataNumbers(q)
  BY <1>5 DEF SameBut, DataNumbers
<1>7. new \subseteq DataNumbers(a) /\ new \cap a.pending = {} /\ new \in SUBSET Seq16
  <2>1. DataNumbers(q) \subseteq Seq16
    <3>1. q.bufferLowestSequenceNumber \in Seq16 /\ q.bufferDataPackets \in 0 .. W
      BY <1>2, <1>4, BufferShape
    <3> QED BY <3>1, NumbersIn DEF DataNumbers
  <2> QED BY <1>3, <1>5, <1>6, <2>1 DEF Lacking
<1> DEFINE r == [a EXCEPT !.pending = @ \cup new, !.made = @ \cup new]
<1>8. /\ r \in QueueType /\ SameBut(r, a)
      /\ r.pending = a.pending \cup new /\ r.made = a.made \cup new
      /\ r.receivedOosData = a.receivedOosData /\ r.lastOosFrame = a.lastOosFrame
  BY <1>5, <1>7, MadeShape
<1>9. queue' = r
  BY <1>3
<1> HIDE DEF r
<1>10. [a EXCEPT !.reportedLostFrame = r.reportedLostFrame] = a
  BY <1>5, <1>8 DEF SameBut, QueueType
<1>11. Received(r) = Received(a) /\ r.made \subseteq r.pending \cap DataNumbers(a)
  <2>1. a.made \subseteq a.pending \cap DataNumbers(a)
    BY <1>5 DEF Tallied
  <2> QED BY <1>7, <1>8, <2>1 DEF Received
<1>12. a.useFastQueuePath => r.pending = a.pending
  <2> SUFFICES ASSUME a.useFastQueuePath PROVE r.pending = a.pending
    OBVIOUS
  <2>1. q.useFastQueuePath
    BY <1>5 DEF SameBut
  <2>2. Lacking(q) = {}
    BY <1>1, <1>2, <1>4, <2>1, FastLacksNothing DEF q
  <2>3. new = {}
    BY <1>3, <2>2
  <2> QED BY <1>8, <2>3
<1>13. Foretold(r)
  <2>1. Foretold(a)
    BY <1>2, <1>5 DEF Tallied
  <2> QED BY <1>8, <2>1 DEF Foretold, SameBut, Block
<1>14. Tallied(r) /\ r.pending # {}
  BY <1>2, <1>5, <1>8, <1>10, <1>11, <1>12, <1>13, SameTally
<1> QED BY <1>1, <1>9, <1>14, TalliedHoles

LEMMA CompleteSound ==
  ASSUME Sound(queue), NEW p \in Packet, Near(p), Complete(p)
  PROVE  Sound(queue')
<1> DEFINE q == Queued(p)
           a == Admit(q)
<1>1. Covers(queue') /\ Accepts(p) /\ queue' = Stage(a)
  BY CompleteFeeds DEF Sound, Complete, Does
<1>2. /\ q \in QueueType /\ Sound(q) /\ Loaded(q) /\ Tallied(q) /\ q.pending # {}
  BY <1>1, QueuedSound
<1> HIDE DEF q
<1>3. a \in QueueType /\ a.missingPackets = q.missingPackets /\ SameBut(a, q)
  BY <1>2, AdmitTallied, AdmitShape
<1>4. Block(a) \in FecBlocks
  <2>1. Block(a) = Block(q)
    BY <1>3 DEF SameBut
  <2>2. /\ q.currentFrameNumber \in Frames
        /\ q.multiFecCurrentBlockNumber \in 0 .. LastBlock(q.currentFrameNumber)
        /\ Block(q) = <<q.currentFrameNumber, q.multiFecCurrentBlockNumber>>
    BY <1>2 DEF Loaded, Block
  <2> QED BY <2>1, <2>2, BlockShape
<1> HIDE DEF a
<1>5. queue'.pending = {} /\ queue'.missingPackets = a.missingPackets
  BY <1>1, <1>3, <1>4, StageShape
<1> QED BY <1>1, <1>2, <1>3, <1>5, EmptySound DEF Sound

LEMMA PacketSound ==
  ASSUME Sound(queue), NEW p \in Packet, Near(p), RtpvAddPacket(p)
  PROVE  Sound(queue')
<1>1. Covers(queue) /\ Covers(queue') /\ queue \in QueueType
  BY PacketFeeds DEF Sound, Covers
<1>2. CASE Reject(p)
  <2>1. queue' = queue
    BY <1>2 DEF Reject, Does
  <2> QED BY <2>1
<1>3. CASE BlockMissed(p)
  <2>1. queue' = SkipTo(queue, queue.currentFrameNumber + 1)
        /\ queue.currentFrameNumber + 1 \in Nat
    BY <1>1, <1>3 DEF BlockMissed, Does, QueueType
  <2>2. queue'.pending = {} /\ queue'.missingPackets = queue.missingPackets
    BY <1>1, <2>1, SkipToShape
  <2> QED BY <1>1, <2>2, EmptySound DEF Sound
<1>4. CASE BlocksLost(p)
  <2>1. queue' = SkipTo(queue, p.frame + 1) /\ p.frame + 1 \in Nat
    <3>1. p.frame \in Nat
      BY PacketShape, LastShape
    <3> QED BY <1>4, <3>1 DEF BlocksLost, Does
  <2>2. queue'.pending = {} /\ queue'.missingPackets = queue.missingPackets
    BY <1>1, <2>1, SkipToShape
  <2> QED BY <1>1, <2>2, EmptySound DEF Sound
<1>5. CASE Refuse(p)
  BY <1>5, ReadySound DEF Refuse, Does
<1> QED BY <1>2, <1>3, <1>4, <1>5, WaitSound, CompleteSound, FailToRecoverSound
        DEF RtpvAddPacket
-------------------------------------------------------------------------------
(***************************************************************************)
(* The rest of the state.                                                  *)
(***************************************************************************)
LEMMA MaxIn ==
  ASSUME NEW S, NEW x \in S, \A y \in S : x >= y PROVE Max(S) \in S
BY DEF Max

LEMMA MaxOfTwo == \A S \in SUBSET {1, 2} : S # {} => Max(S) \in S
<1> SUFFICES ASSUME NEW S \in SUBSET {1, 2}, S # {} PROVE Max(S) \in S
  OBVIOUS
<1>1. CASE 2 \in S
  <2>1. \A y \in S : 2 >= y
    OBVIOUS
  <2> QED BY <1>1, <2>1, MaxIn
<1>2. CASE 2 \notin S
  <2>1. 1 \in S /\ \A y \in S : 1 >= y
    <3>1. \A y \in S : y = 1
      BY <1>2
    <3>2. PICK y : y \in S
      OBVIOUS
    <3>3. 1 \in S
      BY <3>1, <3>2
    <3>4. \A z \in S : 1 >= z
      BY <3>1
    <3> QED BY <3>3, <3>4
  <2> QED BY <2>1, MaxIn
<1> QED BY <1>1, <1>2

LEMMA MaxOfPair == \A a, b \in Nat : Max({a, b}) \in Nat
<1> SUFFICES ASSUME NEW a \in Nat, NEW b \in Nat PROVE Max({a, b}) \in Nat
  OBVIOUS
<1>1. \E x \in {a, b} : \A y \in {a, b} : x >= y
  <2>1. CASE a >= b
    BY <2>1
  <2>2. CASE b >= a
    BY <2>2
  <2> QED BY <2>1, <2>2
<1>2. Max({a, b}) \in {a, b}
  BY <1>1, MaxIn
<1> QED BY <1>2

Reports(c) == c.call = "notifyFrameLost" /\ c.frame \in Nat
Hands(c) == c.call = "queueRtpPacket" /\ c.blocks[1][1] \in Nat
Speaks(cs) ==
  \/ cs = << >>
  \/ \E c : (Reports(c) \/ Hands(c)) /\ cs = <<c>>
  \/ \E c, d : (Reports(c) \/ Hands(c)) /\ (Reports(d) \/ Hands(d)) /\ cs = <<c, d>>

LEMMA SpeaksShape ==
  ASSUME NEW cs, Speaks(cs)
  PROVE  /\ DOMAIN cs \subseteq {1, 2}
         /\ \A i \in DOMAIN cs : Reports(cs[i]) \/ Hands(cs[i])
<1>1. CASE cs = << >>
  BY <1>1
<1>2. CASE \E c : (Reports(c) \/ Hands(c)) /\ cs = <<c>>
  <2>1. PICK c : (Reports(c) \/ Hands(c)) /\ cs = <<c>>
    BY <1>2
  <2>2. DOMAIN cs = {1} /\ cs[1] = c
    BY <2>1
  <2> QED BY <2>1, <2>2
<1>3. CASE \E c, d : (Reports(c) \/ Hands(c)) /\ (Reports(d) \/ Hands(d)) /\ cs = <<c, d>>
  <2>1. PICK c, d : (Reports(c) \/ Hands(c)) /\ (Reports(d) \/ Hands(d)) /\ cs = <<c, d>>
    BY <1>3
  <2>2. DOMAIN cs = {1, 2} /\ cs[1] = c /\ cs[2] = d
    BY <2>1
  <2> QED BY <2>1, <2>2
<1> QED BY <1>1, <1>2, <1>3 DEF Speaks

LEMMA SpeaksTold ==
  ASSUME NEW cs, Speaks(cs), told \in Nat, given \in Nat
  PROVE  /\ Told(cs) \in Nat /\ Given(cs) \in Nat
         /\ \A i \in DOMAIN cs : cs[i].call \in {"notifyFrameLost", "queueRtpPacket"}
<1> DEFINE A == {i \in DOMAIN cs : cs[i].call = "notifyFrameLost"}
           B == {i \in DOMAIN cs : cs[i].call = "queueRtpPacket"}
<1>1. /\ A \in SUBSET {1, 2} /\ B \in SUBSET {1, 2}
      /\ \A i \in DOMAIN cs : Reports(cs[i]) \/ Hands(cs[i])
  BY SpeaksShape
<1>2. \A i \in A : cs[i].frame \in Nat
  BY <1>1 DEF Reports, Hands
<1>3. \A i \in B : cs[i].blocks[1][1] \in Nat
  BY <1>1 DEF Reports, Hands
<1>4. /\ Told(cs) = IF A = {} THEN told ELSE cs[Max(A)].frame
      /\ Given(cs) = IF B = {} THEN given ELSE cs[Max(B)].blocks[1][1]
  BY DEF Told, Given
<1>5. \A i \in DOMAIN cs : cs[i].call \in {"notifyFrameLost", "queueRtpPacket"}
  BY <1>1 DEF Reports, Hands
<1> HIDE DEF A, B
<1>6. Told(cs) \in Nat
  BY <1>1, <1>2, <1>4, MaxOfTwo
<1>7. Given(cs) \in Nat
  BY <1>1, <1>3, <1>4, MaxOfTwo
<1> QED BY <1>5, <1>6, <1>7

\* What a packet may cause to be said.
LEMMA PacketSpeaks ==
  ASSUME Covers(queue), NEW p \in Packet, Near(p), RtpvAddPacket(p)
  PROVE  Speaks(calls') /\ told' = Told(calls') /\ given' = Given(calls')
<1>1. told' = Told(calls') /\ given' = Given(calls')
  BY DEF RtpvAddPacket, Reject, BlockMissed, BlocksLost, Refuse, Wait, Complete,
         FailToRecover, Does
<1>2. Speaks(<< >>)
  BY DEF Speaks
<1>3. \A n \in Nat : Reports(Lost(n)) /\ Speaks(<<Lost(n)>>)
  BY DEF Reports, Lost, Speaks
<1>4. p.frame \in Frames /\ p.frame \in Nat /\ queue.currentFrameNumber \in Nat
  BY PacketShape, LastShape DEF Covers, QueueType
<1>5. ASSUME calls' = << >> \/ calls' = NotifyOnce PROVE Speaks(calls')
  BY <1>2, <1>3, <1>4, <1>5 DEF NotifyOnce
<1>6. ASSUME Enters(p)
      PROVE  /\ Speaks(ReadyCalls(p))
             /\ \A c : Reports(c) \/ Hands(c) => Speaks(Append(ReadyCalls(p), c))
  <2>1. ReadyCalls(p) = << >> \/ (ReadyCalls(p) = <<Lost(p.frame - 1)>> /\ p.frame - 1 \in Nat)
    <3>1. ReadyCalls(p) = << >> \/ ReadyCalls(p) = <<Lost(p.frame - 1)>>
      BY <1>6, ReadyShape DEF Tells
    <3>2. p.frame - 1 \in Nat
      BY <1>4, FrameShape, Half
    <3> QED BY <3>1, <3>2
  <2>2. \A c : \/ Append(ReadyCalls(p), c) = <<c>>
               \/ /\ Append(ReadyCalls(p), c) = <<Lost(p.frame - 1), c>>
                  /\ p.frame - 1 \in Nat
    <3>1. \A c : Append(<< >>, c) = <<c>>
      OBVIOUS
    <3> QED BY <2>1, <3>1, AppendOne
  <2>3. Speaks(ReadyCalls(p))
    BY <1>2, <1>3, <2>1
  <2>4. ASSUME NEW c, Reports(c) \/ Hands(c) PROVE Speaks(Append(ReadyCalls(p), c))
    <3>1. CASE Append(ReadyCalls(p), c) = <<c>>
      BY <2>4, <3>1 DEF Speaks
    <3>2. CASE Append(ReadyCalls(p), c) = <<Lost(p.frame - 1), c>> /\ p.frame - 1 \in Nat
      <4>1. Reports(Lost(p.frame - 1))
        BY <1>3, <3>2
      <4> QED BY <2>4, <3>2, <4>1 DEF Speaks
    <3> QED BY <2>2, <3>1, <3>2
  <2> QED BY <2>3, <2>4
<1>7. Hands(Submit(Staged(p.frame, LastBlock(p.frame) + 1)))
  <2> DEFINE b == Staged(p.frame, LastBlock(p.frame) + 1)
  <2>1. LastBlock(p.frame) + 1 \in 1 .. 4
    BY <1>4, LastShape
  <2>2. b[1][1] = p.frame
    <3>1. 1 \in 1 .. LastBlock(p.frame) + 1
      BY <2>1
    <3> QED BY <3>1 DEF Staged
  <2> HIDE DEF b
  <2>3. Submit(b).call = "queueRtpPacket" /\ Submit(b).blocks = b
    BY DEF Submit
  <2> QED BY <1>4, <2>2, <2>3 DEF Hands, b
<1>8. ASSUME Reject(p) PROVE Speaks(calls')
  BY <1>5, <1>8 DEF Reject, Does
<1>9. ASSUME BlockMissed(p) \/ BlocksLost(p) PROVE Speaks(calls')
  BY <1>5, <1>9 DEF BlockMissed, BlocksLost, Does
<1>10. ASSUME Refuse(p) \/ FailToRecover(p) PROVE Speaks(calls')
  BY <1>6, <1>10 DEF Refuse, FailToRecover, Accepts, Does
<1>11. ASSUME Wait(p) PROVE Speaks(calls')
  <2>1. Enters(p) /\ (calls' = ReadyCalls(p) \/ calls' = Append(ReadyCalls(p), Lost(p.frame)))
    BY <1>11 DEF Wait, Accepts, Does
  <2> QED BY <1>3, <1>4, <1>6, <2>1
<1>12. ASSUME Complete(p) PROVE Speaks(calls')
  <2>1. Enters(p)
    BY <1>12 DEF Complete, Accepts
  <2> QED BY <1>6, <1>7, <1>12, <2>1, CompleteFeeds
<1> QED BY <1>1, <1>8, <1>9, <1>10, <1>11, <1>12 DEF RtpvAddPacket

\* The inductive invariant: the queue is sound and stands where the stream has come
\* to, and the rest has its type.
VInv ==
  /\ Sound(queue) /\ Began(queue, at)
  /\ \A i \in DOMAIN calls : calls[i].call \in {"notifyFrameLost", "queueRtpPacket"}
  /\ given \in Nat /\ told \in Nat /\ at \in Nat /\ settled \in Nat \cup {-1}

LEMMA InitVInv == Init => VInv
<1> SUFFICES ASSUME Init PROVE VInv
  OBVIOUS
<1>1. queue.pending = {} /\ queue.missingPackets = 0
  BY DEF Init
<1>2. Sound(queue) /\ Began(queue, at)
  BY <1>1, InitCovers, EmptySound, InitFollows DEF Follower
<1> QED BY <1>2 DEF Init, VInv

LEMMA StepVInv ==
  ASSUME VInv, [Next]_vars PROVE VInv'
<1>1. ASSUME NEW p \in Packet, Arrive(p) \/ ArriveInOrder(p) PROVE VInv'
  <2>1. settled' = settled
    BY <1>1 DEF Arrive, ArriveInOrder
  <2>2. /\ Sound(queue) /\ Covers(queue) /\ told \in Nat /\ given \in Nat /\ at \in Nat
        /\ Began(queue, at)
    BY DEF VInv, Sound
  <2>3. /\ RtpvAddPacket(p) /\ Near(p)
        /\ at' \in Nat /\ at' >= at /\ at' > Position(p)
    BY <1>1, <2>2, PacketComes
  <2>4. Sound(queue') /\ Began(queue', at')
    BY <2>2, <2>3, PacketSound, BeganStep
  <2>5. Speaks(calls') /\ told' = Told(calls') /\ given' = Given(calls')
    BY <2>2, <2>3, PacketSpeaks
  <2>6. /\ told' \in Nat /\ given' \in Nat
        /\ \A i \in DOMAIN calls' : calls'[i].call \in {"notifyFrameLost", "queueRtpPacket"}
    BY <2>2, <2>5, SpeaksTold
  <2>7. settled' \in Nat \cup {-1}
    BY <2>1 DEF VInv
  <2> QED BY <2>3, <2>4, <2>6, <2>7 DEF VInv, Began
<1>2. CASE Settle
  BY <1>2 DEF Settle, VInv, Began
<1>3. CASE UNCHANGED vars
  BY <1>3 DEF vars, VInv, Began
<1> QED BY <1>1, <1>2, <1>3 DEF Next

THEOREM VInvHolds == Spec => []VInv
<1>1. VInv /\ [Next]_vars => VInv'
  BY StepVInv
<1> QED BY <1>1, InitVInv, PTL DEF Spec

\* The counters of holes and of received packets are those of the packets that
\* are pending, whatever came late, twice or was recovered, and the fast path
\* passes no packet a second time.
THEOREM HolesAreCounted == Spec => []HolesCounted
<1>1. VInv => HolesCounted
  <2> SUFFICES ASSUME VInv PROVE HolesCounted
    OBVIOUS
  <2>1. queue \in QueueType /\ queue.missingPackets \in Nat
    BY DEF VInv, Sound, Covers
  <2>2. TypeOK
    BY <2>1 DEF VInv, TypeOK, QueueType
  <2>3. ASSUME queue.pending # {}
        PROVE  LET all == UpTo(queue, queue.receivedHighestSequenceNumber) IN
               /\ Received(queue) \subseteq all /\ queue.made \subseteq DataNumbers(queue)
               /\ queue.missingPackets = Cardinality(all \ Received(queue))
               /\ queue.receivedDataPackets = Cardinality(Received(queue) \cap DataNumbers(queue))
               /\ queue.receivedParityPackets = Cardinality(Received(queue) \ DataNumbers(queue))
               /\ queue.useFastQueuePath =>
                    queue.pending = all /\ queue.nextContiguousSequenceNumber =
                                              (queue.receivedHighestSequenceNumber + 1) % W
    <3>1. Tallied(queue) /\ Loaded(queue)
      BY <2>3 DEF VInv, Sound, Covers
    <3>2. Gauged(queue) /\ Total(queue) \in 1 .. H
      BY <2>3, <3>1, LoadedTotal DEF Tallied
    <3>3. queue.missingPackets =
            Cardinality(UpTo(queue, queue.receivedHighestSequenceNumber) \ Received(queue))
      BY <2>1, <3>2, GaugedHoles
    <3> QED BY <3>1, <3>2, <3>3 DEF Tallied, Gauged
  <2> QED BY <2>2, <2>3 DEF HolesCounted
<1> QED BY <1>1, VInvHolds, PTL

\* A frame reported ahead of time has more holes than parity packets for as long
\* as nothing came out of order: it is never one that only had to be waited for.
THEOREM ForetoldAreHopeless == Spec => []ForetoldIsHopeless
<1>1. VInv => ForetoldIsHopeless
  BY DEF VInv, Sound, Tallied, Foretold, ForetoldIsHopeless
<1> QED BY <1>1, VInvHolds, PTL

-------------------------------------------------------------------------------
(***************************************************************************)
(* What the queue is like when the packets come in order.                  *)
(***************************************************************************)
Gap(p, q) == (Position(p) - q.nextContiguousSequenceNumber) % W

Awaits(q, p) ==
  LET c == Of(p) IN
  /\ p.fecIndex = 0 /\ p.block = 0 =>
       /\ q.currentFrameNumber <= p.frame /\ ~isBefore16(p.frame, q.currentFrameNumber)
       /\ Gap(p, q) <= H
       /\ q.currentFrameNumber = p.frame => q.pending = {} /\ q.multiFecCurrentBlockNumber = 0
  /\ p.fecIndex = 0 /\ p.block > 0 => Block(q) = c /\ q.pending = {} /\ Gap(p, q) <= H
  /\ p.fecIndex > 0 /\ p.fecIndex < Data(c) =>
       /\ Block(q) = c /\ q.pending = Numbers(First(c) % W, p.fecIndex) /\ q.made = {}
       /\ q.useFastQueuePath /\ q.nextContiguousSequenceNumber = SequenceNumber(p)
  /\ p.fecIndex >= Data(c) =>
       /\ q.pending = {} /\ Block(q) = NextBlock(c)
       /\ q.nextContiguousSequenceNumber = (First(c) + Data(c)) % W

\* A position less a number of the stream.
LEMMA GapIs ==
  ASSUME NEW a \in Int, NEW b \in Int, a - b \in 0 .. H
  PROVE  (a - (b % W)) % W = a - b
<1>1. PICK d \in Int : b = d * W + (b % W)
  BY ModDef
<1>2. b % W \in Int /\ d * W \in Int
  BY ModRange, Half
<1>3. a - (b % W) = d * W + (a - b)
  BY <1>1, <1>2
<1>4. a - b \in 0 .. W - 1 /\ a - (b % W) \in Int
  BY <1>2, Half
<1> QED BY <1>3, <1>4, ModUnique

LEMMA GapMod ==
  ASSUME NEW a \in Int, NEW b \in Int PROVE ((a % W) - b) % W = (a - b) % W
<1>1. PICK i \in Int : i = 0 - b
  OBVIOUS
<1>2. (a + i) % W = ((a % W) + i) % W
  BY ModAdd
<1>3. a + i = a - b /\ (a % W) + i = (a % W) - b
  <2>1. PICK m \in Int : m = a % W
    BY ModRange, Half
  <2>2. a + i = a - b /\ m + i = m - b
    BY <1>1
  <2> QED BY <2>1, <2>2
<1> QED BY <1>2, <1>3

LEMMA NumbersFew ==
  /\ \A low : Numbers(low, 0) = {}
  /\ \A low : \A i \in Nat : Numbers(low, i + 1) = Numbers(low, i) \cup {(low + i) % W}
<1>1. \A low : Numbers(low, 0) = {}
  BY DEF Numbers
<1>2. ASSUME NEW low, NEW i \in Nat
      PROVE  Numbers(low, i + 1) = Numbers(low, i) \cup {(low + i) % W}
  <2>1. 0 .. (i + 1) - 1 = (0 .. i - 1) \cup {i}
    OBVIOUS
  <2>2. \A S, T : S = T \cup {i} =>
          {(low + j) % W : j \in S} = {(low + j) % W : j \in T} \cup {(low + i) % W}
    OBVIOUS
  <2> QED BY <2>1, <2>2 DEF Numbers
<1> QED BY <1>1, <1>2

\* A packet that is awaited and carries data enters; the block it finds is its own
\* and holds the packets before it.
LEMMA NotBeforeItself == \A y \in Int : ~isBefore16(y, y)
<1>1. \A y \in Int : y - y = 0
  OBVIOUS
<1>2. 0 % W = 0 /\ ~(0 > (W - 1) \div 2)
  BY Half DEF H
<1> QED BY <1>1, <1>2 DEF isBefore16

LEMMA AwaitedEnters ==
  ASSUME Sound(queue), NEW p \in Packet, Near(p), Awaits(queue, p), p.fecIndex < Data(Of(p))
  PROVE  /\ Enters(p)
         /\ Starts(queue, p) <=> p.fecIndex = 0
<1> DEFINE s == SequenceNumber(p)
           x == queue.nextContiguousSequenceNumber
           v == queue.currentFrameNumber
           b == queue.multiFecCurrentBlockNumber
<1>1. /\ Covers(queue) /\ queue \in QueueType /\ x \in Seq16 /\ v \in Nat /\ b \in 0 .. 3
      /\ v \in 1 .. Len(Layout) + 1
  BY DEF Sound, Covers, QueueType
<1>2. /\ p.frame \in Nat /\ p.frame \in Frames /\ p.block \in Nat /\ p.fecIndex \in Nat
      /\ Position(p) \in Int /\ s = Position(p) % W
  BY PacketIs DEF SequenceNumber
<1>3. x \in Int /\ s \in Seq16 /\ s \in Int
  <2>1. s \in Seq16
    BY PacketShape
  <2> QED BY <1>1, <2>1, Half DEF Seq16
<1>4. CASE p.fecIndex = 0
  <2>1. ~isBefore16(s, x)
    <3>1. (s - x) % W = Gap(p, queue)
      BY <1>2, <1>3, GapMod DEF Gap
    <3>2. Gap(p, queue) <= H
      BY <1>2, <1>4 DEF Awaits
    <3>3. Gap(p, queue) \in Int
      BY <1>2, <1>3, ModRange, Half DEF Gap
    <3> QED BY <3>1, <3>2, <3>3, Half DEF isBefore16, H
  <2>2. v <= p.frame /\ (v = p.frame => b <= p.block /\ b = p.block /\ queue.pending = {})
    <3>1. CASE p.block = 0
      BY <1>4, <3>1 DEF Awaits
    <3>2. CASE p.block > 0
      <4>1. Block(queue) = <<p.frame, p.block>> /\ queue.pending = {}
        BY <1>4, <3>2 DEF Awaits, Of
      <4>2. v = p.frame /\ b = p.block
        BY <4>1, BlockFields
      <4> QED BY <1>2, <4>1, <4>2
    <3> QED BY <1>2, <3>1, <3>2
  <2>3. ~isBefore16(p.frame, v)
    <3>1. CASE p.block = 0
      BY <1>4, <3>1 DEF Awaits
    <3>2. CASE p.block > 0
      <4>1. Block(queue) = <<p.frame, p.block>>
        BY <1>4, <3>2 DEF Awaits, Of
      <4> QED BY <1>2, <4>1, BlockFields, NotBeforeItself
    <3> QED BY <1>2, <3>1, <3>2
  <2>4. ~Stale(queue, p)
    BY <1>1, <1>2, <2>1, <2>2, <2>3 DEF Stale
  <2>5. Starts(queue, p)
    BY <2>2 DEF Starts, SameBlock
  <2>6. ~MissedBlock(queue, p)
    BY <2>2 DEF MissedBlock
  <2>7. ~LostBlocks(queue, p)
    <3>1. CASE p.block = 0
      BY <2>2, <3>1 DEF LostBlocks
    <3>2. CASE p.block > 0
      <4>1. Block(queue) = <<p.frame, p.block>>
        BY <1>4, <3>2 DEF Awaits, Of
      <4> QED BY <4>1, BlockFields DEF LostBlocks
    <3> QED BY <1>2, <3>1, <3>2
  <2> QED BY <1>4, <2>4, <2>5, <2>6, <2>7 DEF Enters
<1>5. CASE p.fecIndex > 0
  <2>1. /\ Block(queue) = <<p.frame, p.block>> /\ x = s
        /\ queue.pending = Numbers(First(Of(p)) % W, p.fecIndex)
    BY <1>5 DEF Awaits, Of
  <2>2. v = p.frame /\ b = p.block
    BY <2>1, BlockFields
  <2>3. queue.pending # {}
    <3>1. 0 \in 0 .. p.fecIndex - 1
      BY <1>2, <1>5
    <3> QED BY <2>1, <3>1 DEF Numbers
  <2>4. ~Starts(queue, p)
    BY <2>2, <2>3 DEF Starts, SameBlock
  <2>6. ~Stale(queue, p)
    BY <1>1, <1>2, <1>3, <2>1, <2>2, NotBeforeItself DEF Stale
  <2> QED BY <1>5, <2>4, <2>6 DEF Enters
<1> QED BY <1>2, <1>4, <1>5

LEMMA AwaitedReady ==
  ASSUME Sound(queue), NEW p \in Packet, Near(p), Awaits(queue, p), p.fecIndex < Data(Of(p))
  PROVE  LET r == Ready(p)
         IN  /\ r \in QueueType /\ Loaded(r) /\ Block(r) = Of(p)
             /\ r.pending = Numbers(First(Of(p)) % W, p.fecIndex) /\ r.made = {}
             /\ r.useFastQueuePath /\ r.nextContiguousSequenceNumber = SequenceNumber(p)
<1> DEFINE r == Ready(p)
<1>1. Enters(p) /\ (Starts(queue, p) <=> p.fecIndex = 0)
  BY AwaitedEnters
<1>2. r \in QueueType /\ Loaded(r) /\ Block(r) = Of(p)
  BY <1>1, ReadyShape, ReadySound DEF Sound, Of
<1>3. CASE p.fecIndex = 0
  <2> DEFINE n == Begin(queue, p)
  <2>1. r = n
    BY <1>1, <1>3 DEF Ready
  <2>2. queue \in QueueType
    BY DEF Sound, Covers
  <2>3. /\ n.pending = {} /\ n.made = {} /\ n.useFastQueuePath = TRUE
        /\ n.nextContiguousSequenceNumber = First(Of(p)) % W
    BY <2>2, BeginShape DEF Of
  <2> HIDE DEF n
  <2>4. SequenceNumber(p) = First(Of(p)) % W
    <3>1. Position(p) = First(Of(p))
      BY <1>3, PacketIs
    <3> QED BY <3>1 DEF SequenceNumber
  <2>5. Numbers(First(Of(p)) % W, 0) = {}
    BY NumbersFew
  <2> HIDE DEF r
  <2> QED BY <1>2, <1>3, <2>1, <2>3, <2>4, <2>5 DEF r
<1>4. CASE p.fecIndex > 0
  <2>1. r = queue
    BY <1>1, <1>4 DEF Ready
  <2> HIDE DEF r
  <2> QED BY <1>2, <1>4, <2>1 DEF Awaits, r
<1> QED BY <1>3, <1>4, PacketIs

LEMMA AwaitedAccepts ==
  ASSUME Sound(queue), NEW p \in Packet, Near(p), Awaits(queue, p), p.fecIndex < Data(Of(p))
  PROVE  Accepts(p) /\ Follows(Ready(p), SequenceNumber(p))
<1> DEFINE r == Ready(p)
           s == SequenceNumber(p)
           c == Of(p)
           low == First(c) % W
           z == Size(c)
           high == bufferHighest(r)
<1>1. Enters(p)
  BY AwaitedEnters
<1>2. /\ r \in QueueType /\ Loaded(r) /\ Block(r) = c
      /\ r.useFastQueuePath /\ r.nextContiguousSequenceNumber = s
  BY AwaitedReady
<1> HIDE DEF r
<1>3. Follows(r, s)
  BY <1>2 DEF Follows
<1>4. z \in 1 .. H /\ r.bufferLowestSequenceNumber = low
      /\ r.bufferDataPackets + r.bufferParityPackets = z
  <2>1. Total(r) = z /\ Total(r) \in 1 .. H
    BY <1>2, LoadedTotal
  <2>2. r.bufferLowestSequenceNumber = low
    BY <1>2 DEF Loaded
  <2> QED BY <2>1, <2>2 DEF Total
<1>5. /\ low \in Seq16 /\ s \in Seq16 /\ Place(low, s) = p.fecIndex
      /\ p.fecIndex \in Nat /\ p.fecIndex < z
  <2>1. low \in Seq16 /\ Place(low, s) = p.fecIndex
    BY PacketPlace DEF Of
  <2>2. s \in Seq16
    BY PacketShape
  <2> QED BY <2>1, <2>2, PacketIs
<1>6. high = (low + (z - 1)) % W
  <2>1. PICK d \in Int, f \in Int : d = r.bufferDataPackets /\ f = r.bufferParityPackets
    BY <1>2 DEF QueueType
  <2>2. PICK l \in Int : l = low
    BY <1>5, Half DEF Seq16
  <2>3. PICK y \in Int : y = z
    BY <1>4
  <2>4. l + d + f - 1 = l + (y - 1)
    BY <1>4, <2>1, <2>3
  <2> QED BY <1>4, <2>1, <2>2, <2>3, <2>4 DEF high, bufferHighest
<1> HIDE DEF high, low, z
<1>7. high \in Seq16 /\ Place(low, high) = z - 1
  <2>1. z - 1 \in 0 .. W - 1
    BY <1>4, Half
  <2> QED BY <1>5, <1>6, <2>1, PlaceOf
<1>8. ~isBefore16(high, s)
  <2>1. Place(low, high) <= H /\ Place(low, s) <= H /\ ~(Place(low, high) < Place(low, s))
    BY <1>4, <1>5, <1>7, Half
  <2> QED BY <1>5, <1>7, <2>1, BeforePlaces
<1>9. ~Duplicate(r, s)
  BY <1>3 DEF Duplicate
<1> QED BY <1>1, <1>3, <1>8, <1>9 DEF Accepts, r, high

LEMMA AwaitedQueued ==
  ASSUME Sound(queue), NEW p \in Packet, Near(p), Awaits(queue, p), p.fecIndex < Data(Of(p))
  PROVE  LET q == Queued(p)
             c == Of(p)
         IN  /\ q \in QueueType /\ Covers(q) /\ Loaded(q) /\ Block(q) = c
             /\ q.pending = Numbers(First(c) % W, p.fecIndex + 1) /\ q.made = {}
             /\ q.useFastQueuePath /\ q.nextContiguousSequenceNumber = (SequenceNumber(p) + 1) % W
             /\ q.bufferDataPackets = Data(c)
             /\ Cardinality(q.pending) = p.fecIndex + 1
             /\ q.receivedDataPackets = p.fecIndex + 1
<1> DEFINE r == Ready(p)
           s == SequenceNumber(p)
           c == Of(p)
           low == First(c) % W
           i == p.fecIndex
           q == Queued(p)
<1>1. Accepts(p) /\ Follows(r, s) /\ Enters(p) /\ s \in Seq16
  BY AwaitedAccepts, AwaitedEnters, PacketShape
<1>2. r \in QueueType /\ Block(r) = c /\ r.pending = Numbers(low, i) /\ r.made = {}
  BY AwaitedReady
<1>3. q = Taken(r, s)
  BY DEF Queued, Taken
<1>4. q \in QueueType /\ Covers(q) /\ Loaded(q) /\ Tallied(q) /\ q.pending # {}
  BY <1>1, QueuedSound DEF Sound
<1> HIDE DEF r, q
<1>5. /\ Block(q) = c /\ q.pending = r.pending \cup {s} /\ q.made = {}
      /\ q.useFastQueuePath /\ q.nextContiguousSequenceNumber = (s + 1) % W
  BY <1>1, <1>2, <1>3, TakenFields
<1>6. i \in Nat /\ low \in Seq16 /\ i + 1 \in 0 .. W /\ s = (low + i) % W
      /\ Data(c) \in 0 .. W /\ i + 1 <= Data(c)
  <2>1. low \in Seq16 /\ Place(low, s) = i
    BY PacketPlace DEF Of
  <2>2. s = (low + Place(low, s)) % W
    BY <1>1, <2>1, PlaceRange
  <2>3. i \in Nat /\ Data(c) \in 1 .. Size(c) /\ Size(c) \in 1 .. H
    <3>1. c \in FecBlocks
      BY PacketIs
    <3>2. Size(c) \in 1 .. H
      BY PacketIs, BlockShape DEF Of
    <3> QED BY <3>1, <3>2, PacketIs, FecBlockIs
  <2>4. Data(c) \in Nat /\ Data(c) <= H
    BY <2>3, Half
  <2> QED BY <2>1, <2>2, <2>3, <2>4, Half
<1> HIDE DEF low, i, s
<1>7. q.pending = Numbers(low, i + 1)
  BY <1>2, <1>5, <1>6, NumbersFew
<1>8. Cardinality(q.pending) = i + 1
  BY <1>6, <1>7, NumbersCard
<1>9. q.bufferLowestSequenceNumber = low /\ q.bufferDataPackets = Data(c)
  BY <1>4, <1>5 DEF Loaded, low
<1>10. q.pending \subseteq DataNumbers(q)
  <2>1. DataNumbers(q) = Numbers(low, Data(c))
    BY <1>9 DEF DataNumbers
  <2>2. 0 .. (i + 1) - 1 \subseteq 0 .. Data(c) - 1
    BY <1>6
  <2> QED BY <1>7, <2>1, <2>2 DEF Numbers
<1>11. q.receivedDataPackets = i + 1
  <2>1. Received(q) \cap DataNumbers(q) = q.pending
    BY <1>5, <1>10 DEF Received
  <2> QED BY <1>4, <1>8, <2>1 DEF Tallied
<1> QED BY <1>4, <1>5, <1>7, <1>8, <1>9, <1>11 DEF q, low, i, s

-------------------------------------------------------------------------------
(***************************************************************************)
(* What an awaited packet does.                                            *)
(***************************************************************************)
LEMMA GivenNone ==
  ASSUME NEW cs, \A i \in DOMAIN cs : cs[i].call # "queueRtpPacket"
  PROVE  Given(cs) = given
<1> DEFINE B == {i \in DOMAIN cs : cs[i].call = "queueRtpPacket"}
<1>1. B = {}
  OBVIOUS
<1> QED BY <1>1 DEF Given

LEMMA GivenReady ==
  ASSUME Covers(queue), NEW p \in Packet, Near(p), Enters(p)
  PROVE  /\ Given(ReadyCalls(p)) = given
         /\ \A n : Given(Append(ReadyCalls(p), Lost(n))) = given
<1>1. ReadyCalls(p) = << >> \/ \E m : ReadyCalls(p) = <<Lost(m)>>
  BY ReadyShape DEF Tells
<1>2. \A m : Lost(m).call # "queueRtpPacket"
  BY DEF Lost
<1>3. /\ \A i \in DOMAIN << >> : FALSE
      /\ \A c : DOMAIN <<c>> = {1} /\ <<c>>[1] = c
      /\ \A c, d : DOMAIN <<c, d>> = {1, 2} /\ <<c, d>>[1] = c /\ <<c, d>>[2] = d
  OBVIOUS
<1>4. Given(<< >>) = given
  BY GivenNone
<1>5. ASSUME NEW m PROVE Given(<<Lost(m)>>) = given
  <2> DEFINE c == Lost(m)
             cs == <<c>>
  <2>1. DOMAIN cs = {1} /\ cs[1] = c /\ c.call # "queueRtpPacket"
    BY <1>2, <1>3
  <2> HIDE DEF c, cs
  <2>2. Given(cs) = given
    BY <2>1, GivenNone
  <2> QED BY <2>2 DEF c, cs
<1>6. ASSUME NEW m, NEW n PROVE Given(<<Lost(m), Lost(n)>>) = given
  <2> DEFINE c == Lost(m)
             d == Lost(n)
             cs == <<c, d>>
  <2>1. DOMAIN cs = {1, 2} /\ cs[1] = c /\ cs[2] = d
        /\ c.call # "queueRtpPacket" /\ d.call # "queueRtpPacket"
    BY <1>2, <1>3
  <2> HIDE DEF c, d, cs
  <2>2. Given(cs) = given
    BY <2>1, GivenNone
  <2> QED BY <2>2 DEF c, d, cs
<1>7. ASSUME NEW n PROVE Given(Append(ReadyCalls(p), Lost(n))) = given
  <2>1. CASE ReadyCalls(p) = << >>
    <3>1. \A c : Append(<< >>, c) = <<c>>
      OBVIOUS
    <3> QED BY <1>5, <2>1, <3>1
  <2>2. CASE \E m : ReadyCalls(p) = <<Lost(m)>>
    <3>1. PICK m : ReadyCalls(p) = <<Lost(m)>>
      BY <2>2
    <3>2. Append(ReadyCalls(p), Lost(n)) = <<Lost(m), Lost(n)>>
      BY <3>1, AppendOne
    <3> QED BY <1>6, <3>2
  <2> QED BY <1>1, <2>1, <2>2
<1> QED BY <1>1, <1>4, <1>5, <1>7

LEMMA GivenWhole ==
  ASSUME Covers(queue), NEW p \in Packet, Near(p), Enters(p)
  PROVE  Given(Append(ReadyCalls(p), Submit(Staged(p.frame, LastBlock(p.frame) + 1)))) = p.frame
<1> DEFINE b == Staged(p.frame, LastBlock(p.frame) + 1)
           c == Submit(b)
           cs == Append(ReadyCalls(p), c)
<1>1. c.call = "queueRtpPacket" /\ c.blocks = b
  BY DEF Submit
<1>2. b[1][1] = p.frame
  <2>1. 1 \in 1 .. LastBlock(p.frame) + 1
    <3>1. LastBlock(p.frame) \in 0 .. 3
      BY PacketIs
    <3> QED BY <3>1
  <2> QED BY <2>1 DEF Staged
<1> HIDE DEF b, c
<1>3. cs = <<c>> \/ cs = <<Lost(p.frame - 1), c>>
  BY ReadyHeard
<1>4. Lost(p.frame - 1).call # "queueRtpPacket"
  BY DEF Lost
<1> HIDE DEF cs
<1>5. PICK k \in {1, 2} : {i \in DOMAIN cs : cs[i].call = "queueRtpPacket"} = {k} /\ cs[k] = c
  <2>1. CASE cs = <<c>>
    <3>1. DOMAIN cs = {1} /\ cs[1] = c
      BY <2>1
    <3>2. {i \in DOMAIN cs : cs[i].call = "queueRtpPacket"} = {1}
      BY <1>1, <3>1
    <3> QED BY <3>1, <3>2
  <2>2. CASE cs = <<Lost(p.frame - 1), c>>
    <3>1. DOMAIN cs = {1, 2} /\ cs[1] = Lost(p.frame - 1) /\ cs[2] = c
      BY <2>2
    <3>2. {i \in DOMAIN cs : cs[i].call = "queueRtpPacket"} = {2}
      BY <1>1, <1>4, <3>1
    <3> QED BY <3>1, <3>2
  <2> QED BY <1>3, <2>1, <2>2
<1>6. Max({k}) = k
  <2>1. {k} \in SUBSET {1, 2} /\ {k} # {}
    OBVIOUS
  <2>2. Max({k}) \in {k}
    BY <2>1, MaxOfTwo
  <2> QED BY <2>2
<1>7. Given(cs) = cs[k].blocks[1][1]
  BY <1>5, <1>6 DEF Given
<1>8. Given(cs) = p.frame
  BY <1>1, <1>2, <1>5, <1>7
<1> QED BY <1>8 DEF cs, c, b

LEMMA StageNext ==
  ASSUME NEW q \in QueueType, Loaded(q)
  PROVE  /\ Stage(q).pending = {} /\ Block(Stage(q)) = NextBlock(Block(q))
         /\ Stage(q).nextContiguousSequenceNumber = q.nextContiguousSequenceNumber
<1> DEFINE n == q.currentFrameNumber
           b == q.multiFecCurrentBlockNumber
<1>1. /\ n \in Frames /\ b \in 0 .. LastBlock(n) /\ q.multiFecLastBlockNumber = LastBlock(n)
      /\ LastBlock(n) \in 0 .. 3 /\ Block(q) = <<n, b>> /\ Block(q) \in FecBlocks
  BY BlockShape, LastShape DEF Loaded, Block
<1>2. Stage(q).pending = {} /\ Block(Stage(q)) = NextBlock(Block(q))
  <2>1. NextBlock(Block(q)) = IF b < q.multiFecLastBlockNumber THEN <<n, b + 1>> ELSE <<n + 1, 0>>
    BY <1>1 DEF NextBlock
  <2>2. /\ Stage(q).pending = {}
        /\ IF b < q.multiFecLastBlockNumber
           THEN Block(Stage(q)) = <<n, b + 1>>
           ELSE Block(Stage(q)) = <<n + 1, 0>>
    BY <1>1, StageShape
  <2> QED BY <2>1, <2>2
<1>3. Stage(q).nextContiguousSequenceNumber = q.nextContiguousSequenceNumber
  <2> DEFINE u == [q EXCEPT !.pending = {}, !.made = {},
                            !.completed = Append(q.completed, <<n, b>>)]
  <2>1. /\ DOMAIN u = DOMAIN q
        /\ u.nextContiguousSequenceNumber = q.nextContiguousSequenceNumber
    BY DEF QueueType
  <2>2. \/ Stage(q) = [u EXCEPT !.multiFecCurrentBlockNumber = @ + 1]
        \/ Stage(q) = [u EXCEPT !.completed = << >>, !.currentFrameNumber = @ + 1,
                                !.multiFecCurrentBlockNumber = 0]
    BY DEF Stage
  <2>3. "nextContiguousSequenceNumber" \in DOMAIN q
    BY DEF QueueType
  <2> HIDE DEF u
  <2> QED BY <2>1, <2>2, <2>3
<1> QED BY <1>2, <1>3

\* Behind the data of its block a packet is stale: the block has been staged.
LEMMA AwaitedParity ==
  ASSUME Sound(queue), NEW p \in Packet, Near(p), Awaits(queue, p), p.fecIndex >= Data(Of(p)),
         RtpvAddPacket(p)
  PROVE  queue' = queue /\ given' = given
<1>1. Block(queue) = NextBlock(<<p.frame, p.block>>)
  BY DEF Awaits, Of
<1>2. /\ p.frame \in Nat /\ p.frame \in Frames /\ p.block \in Nat
  BY PacketIs
<1>3. Stale(queue, p)
  <2>1. CASE p.block < LastBlock(p.frame)
    <3>1. Block(queue) = <<p.frame, p.block + 1>>
      BY <1>1, <2>1 DEF NextBlock
    <3>2. queue.currentFrameNumber = p.frame /\ queue.multiFecCurrentBlockNumber = p.block + 1
      BY <3>1, BlockFields
    <3> QED BY <1>2, <3>2 DEF Stale
  <2>2. CASE ~(p.block < LastBlock(p.frame))
    <3>1. Block(queue) = <<p.frame + 1, 0>>
      BY <1>1, <2>2 DEF NextBlock
    <3>2. queue.currentFrameNumber = p.frame + 1
      BY <3>1, BlockFields
    <3>3. p.frame - (p.frame + 1) \in -H .. H
      <4>1. 1 <= H
        BY RoomForOne
      <4> QED BY <1>2, <4>1, Half
    <3>4. isBefore16(p.frame, p.frame + 1)
      BY <1>2, <3>3, BeforeNear
    <3> QED BY <3>2, <3>4 DEF Stale
  <2> QED BY <2>1, <2>2
<1>4. Reject(p)
  BY <1>3 DEF RtpvAddPacket, BlockMissed, BlocksLost, Refuse, Wait, Complete, FailToRecover,
              Accepts, Enters
<1>5. queue' = queue /\ given' = Given(<< >>)
  BY <1>4 DEF Reject, Does
<1>6. Given(<< >>) = given
  BY GivenNone
<1> QED BY <1>5, <1>6

\* Before that it is queued, and completes its block if it is the last of the data.
LEMMA AwaitedData ==
  ASSUME Sound(queue), NEW p \in Packet, Near(p), Awaits(queue, p), p.fecIndex < Data(Of(p)),
         RtpvAddPacket(p)
  PROVE  IF p.fecIndex + 1 < Data(Of(p)) THEN Wait(p) ELSE Complete(p)
<1> DEFINE q == Queued(p)
<1>1. Accepts(p) /\ Enters(p)
  BY AwaitedAccepts, AwaitedEnters
<1>2. Wait(p) \/ Complete(p) \/ FailToRecover(p)
  <2>1. ~Stale(queue, p) /\ (Starts(queue, p) => ~MissedBlock(queue, p) /\ ~LostBlocks(queue, p))
    BY <1>1 DEF Enters
  <2>2. ~Reject(p) /\ ~BlockMissed(p) /\ ~BlocksLost(p)
    BY <2>1 DEF Reject, BlockMissed, BlocksLost
  <2>3. ~Refuse(p)
    BY <1>1 DEF Refuse, Accepts
  <2> QED BY <2>2, <2>3 DEF RtpvAddPacket
<1>3. /\ Cardinality(q.pending) = p.fecIndex + 1 /\ q.receivedDataPackets = p.fecIndex + 1
      /\ q.bufferDataPackets = Data(Of(p))
  BY AwaitedQueued
<1>4. p.fecIndex \in Nat /\ Data(Of(p)) \in Nat
  BY PacketIs, FecBlockIs
<1> HIDE DEF q
<1>5. Short(q) <=> p.fecIndex + 1 < Data(Of(p))
  BY <1>3 DEF Short
<1>6. ASSUME ~Short(q) PROVE ~FailToRecover(p)
  <2>1. q.receivedDataPackets = q.bufferDataPackets
    BY <1>3, <1>4, <1>5, <1>6
  <2>2. \A new : ~Reconstructs(q, new, FALSE)
    BY <2>1 DEF Reconstructs
  <2> QED BY <2>2 DEF FailToRecover, q
<1> QED BY <1>2, <1>5, <1>6 DEF Wait, Complete, FailToRecover, q

LEMMA AwaitedWaits ==
  ASSUME Sound(queue), NEW p \in Packet, Near(p), Awaits(queue, p), p.fecIndex + 1 < Data(Of(p)),
         RtpvAddPacket(p)
  PROVE  /\ Block(queue') = Of(p) /\ queue'.made = {}
         /\ queue'.pending = Numbers(First(Of(p)) % W, p.fecIndex + 1)
         /\ queue'.useFastQueuePath
         /\ queue'.nextContiguousSequenceNumber = (SequenceNumber(p) + 1) % W
         /\ given' = given
<1> DEFINE q == Queued(p)
           r == [q EXCEPT !.reportedLostFrame = TRUE]
<1>1. p.fecIndex < Data(Of(p)) /\ p.fecIndex \in Nat
  BY PacketIs, FecBlockIs
<1>2. Wait(p) /\ Enters(p) /\ Covers(queue)
  BY <1>1, AwaitedData, AwaitedEnters DEF Sound
<1>3. \/ queue' = q /\ given' = Given(ReadyCalls(p))
      \/ queue' = r /\ given' = Given(Append(ReadyCalls(p), Lost(p.frame)))
  BY <1>2 DEF Wait, Does
<1>4. given' = given
  BY <1>2, <1>3, GivenReady
<1>5. /\ q \in QueueType /\ Block(q) = Of(p) /\ q.made = {}
      /\ q.pending = Numbers(First(Of(p)) % W, p.fecIndex + 1)
      /\ q.useFastQueuePath /\ q.nextContiguousSequenceNumber = (SequenceNumber(p) + 1) % W
  BY <1>1, AwaitedQueued
<1> HIDE DEF q
<1>6. /\ Block(r) = Block(q) /\ r.made = q.made /\ r.pending = q.pending
      /\ r.useFastQueuePath = q.useFastQueuePath
      /\ r.nextContiguousSequenceNumber = q.nextContiguousSequenceNumber
  BY <1>5 DEF QueueType, Block
<1> HIDE DEF r
<1> QED BY <1>3, <1>4, <1>5, <1>6

LEMMA AwaitedCompletes ==
  ASSUME Sound(queue), NEW p \in Packet, Near(p), Awaits(queue, p), p.fecIndex + 1 = Data(Of(p)),
         RtpvAddPacket(p)
  PROVE  /\ queue'.pending = {} /\ Block(queue') = NextBlock(Of(p))
         /\ queue'.nextContiguousSequenceNumber = (SequenceNumber(p) + 1) % W
         /\ given' = IF p.block = LastBlock(p.frame) THEN p.frame ELSE given
<1> DEFINE q == Queued(p)
           a == Admit(q)
<1>1. p.fecIndex < Data(Of(p)) /\ ~(p.fecIndex + 1 < Data(Of(p)))
  BY PacketIs, FecBlockIs
<1>2. Complete(p) /\ Enters(p) /\ Covers(queue)
  BY <1>1, AwaitedData, AwaitedEnters DEF Sound
<1>3. /\ q \in QueueType /\ Covers(q) /\ Loaded(q) /\ Block(q) = Of(p)
      /\ q.nextContiguousSequenceNumber = (SequenceNumber(p) + 1) % W
  BY <1>1, AwaitedQueued
<1>4. queue' = Stage(a) /\ calls' = ReadyCalls(p) \o StageCalls(q) /\ given' = Given(calls')
  BY <1>2 DEF Complete, Does
<1> HIDE DEF q
<1>5. a \in QueueType /\ Loaded(a) /\ Block(a) = Of(p) /\ SameBut(a, q)
  BY <1>3, AdmitCovers, AdmitShape
<1>6. a.nextContiguousSequenceNumber = (SequenceNumber(p) + 1) % W
  BY <1>3, <1>5 DEF SameBut
<1> HIDE DEF a
<1>7. /\ queue'.pending = {} /\ Block(queue') = NextBlock(Of(p))
      /\ queue'.nextContiguousSequenceNumber = (SequenceNumber(p) + 1) % W
  BY <1>4, <1>5, <1>6, StageNext
<1>8. given' = IF p.block = LastBlock(p.frame) THEN p.frame ELSE given
  <2>1. IF p.block < LastBlock(p.frame) THEN calls' = ReadyCalls(p)
        ELSE calls' = Append(ReadyCalls(p), Submit(Staged(p.frame, LastBlock(p.frame) + 1)))
    BY <1>2, CompleteFeeds
  <2>2. p.block < LastBlock(p.frame) <=> p.block # LastBlock(p.frame)
    BY PacketIs
  <2> QED BY <1>2, <1>4, <2>1, <2>2, GivenReady, GivenWhole
<1> QED BY <1>7, <1>8

LEMMA NextNumber ==
  ASSUME NEW p \in Packet
  PROVE  (SequenceNumber(p) + 1) % W = (Position(p) + 1) % W
<1>1. Position(p) \in Int /\ 1 \in Int
  BY PacketIs
<1> QED BY <1>1, ModAdd DEF SequenceNumber

\* Once the data of a block is through, the next packet that enters is the first of
\* the block behind it.
LEMMA AwaitsBehindData ==
  ASSUME NEW q, NEW p \in Packet, NEW r \in Packet, Position(r) = Position(p) + 1,
         p.fecIndex + 1 >= Data(Of(p)), q.pending = {}, Block(q) = NextBlock(Of(p)),
         q.nextContiguousSequenceNumber = (First(Of(p)) + Data(Of(p))) % W
  PROVE  Awaits(q, r)
<1> DEFINE c == Of(p)
<1>1. /\ c \in FecBlocks /\ First(c) \in Nat /\ Data(c) \in 1 .. Size(c) /\ Size(c) \in 1 .. H
      /\ p.fecIndex \in Nat /\ p.fecIndex < Size(c)
      /\ Position(p) = First(c) + p.fecIndex
  BY PacketIs, FecBlockIs, BlockShape DEF Of
<1>2. CASE p.fecIndex + 1 < Size(c)
  <2>1. Of(r) = c /\ r.fecIndex = p.fecIndex + 1
    BY <1>2, PacketBehind
  <2>2. r.fecIndex > 0 /\ r.fecIndex >= Data(Of(r)) /\ ~(r.fecIndex < Data(Of(r)))
    BY <1>1, <2>1
  <2> QED BY <2>1, <2>2 DEF Awaits
<1>3. CASE ~(p.fecIndex + 1 < Size(c))
  <2>1. Of(r) = NextBlock(c) /\ r.fecIndex = 0
    BY <1>3, PacketBehind
  <2>2. Gap(r, q) <= H
    <3>1. PICK f \in Int, d \in Int, z \in 0 .. H : f = First(c) /\ d = Data(c) /\ z = Size(c)
      BY <1>1, Half
    <3>2. Position(r) = f + z /\ (f + z) - (f + d) \in 0 .. H
      BY <1>1, <1>3, <3>1, Half
    <3>3. ((f + z) - ((f + d) % W)) % W = (f + z) - (f + d)
      <4>1. PICK a \in Int, b \in Int : a = f + z /\ b = f + d /\ a - b \in 0 .. H
        BY <3>1, <3>2
      <4>2. (a - (b % W)) % W = a - b
        BY <4>1, GapIs
      <4> QED BY <4>1, <4>2
    <3> QED BY <3>1, <3>2, <3>3, Half DEF Gap
  <2>3. Block(q) = <<r.frame, r.block>> /\ 0 < Data(Of(r))
    <3>1. Data(Of(r)) \in 1 .. Size(Of(r)) /\ Size(Of(r)) \in Nat
      BY PacketIs, FecBlockIs
    <3> QED BY <2>1, <3>1 DEF Of
  <2>4. q.currentFrameNumber = r.frame /\ q.multiFecCurrentBlockNumber = r.block
    BY <2>3, BlockFields
  <2>5. r.frame <= r.frame /\ ~isBefore16(r.frame, r.frame)
    BY PacketIs, NotBeforeItself
  <2>6. ~(r.fecIndex > 0) /\ ~(r.fecIndex >= Data(Of(r)))
    <3>1. PICK d \in Nat : d = Data(Of(r)) /\ 0 < d
      BY PacketIs, FecBlockIs
    <3> QED BY <2>1, <3>1
  <2>7. r.block = 0 => q.multiFecCurrentBlockNumber = 0
    BY <2>4
  <2>8. Block(q) = Of(r)
    BY <2>1
  <2> QED BY <2>2, <2>4, <2>5, <2>6, <2>7, <2>8 DEF Awaits
<1> QED BY <1>2, <1>3

LEMMA AwaitsNext ==
  ASSUME Sound(queue), NEW p \in Packet, Near(p), Awaits(queue, p), RtpvAddPacket(p),
         NEW r \in Packet, Position(r) = Position(p) + 1
  PROVE  Awaits(queue', r)
<1> DEFINE c == Of(p)
<1>1. /\ c \in FecBlocks /\ First(c) \in Nat /\ Data(c) \in 1 .. Size(c) /\ Size(c) \in Nat
      /\ p.fecIndex \in Nat /\ Position(p) = First(c) + p.fecIndex
  BY PacketIs, FecBlockIs
<1>2. CASE p.fecIndex >= Data(c)
  <2>1. queue' = queue
    BY <1>2, AwaitedParity
  <2>2. /\ queue.pending = {} /\ Block(queue) = NextBlock(c)
        /\ queue.nextContiguousSequenceNumber = (First(c) + Data(c)) % W
    BY <1>2 DEF Awaits
  <2>3. p.fecIndex + 1 >= Data(c)
    BY <1>1, <1>2
  <2>4. Awaits(queue, r)
    BY <2>2, <2>3, AwaitsBehindData
  <2> QED BY <2>1, <2>4
<1>3. CASE p.fecIndex + 1 = Data(c)
  <2>1. /\ queue'.pending = {} /\ Block(queue') = NextBlock(c)
        /\ queue'.nextContiguousSequenceNumber = (SequenceNumber(p) + 1) % W
    BY <1>3, AwaitedCompletes
  <2>2. Position(p) + 1 = First(c) + Data(c)
    BY <1>1, <1>3
  <2>3. queue'.nextContiguousSequenceNumber = (First(c) + Data(c)) % W
    BY <2>1, <2>2, NextNumber
  <2>4. p.fecIndex + 1 >= Data(c)
    BY <1>1, <1>3
  <2>5. PICK q : q = queue'
    OBVIOUS
  <2>6. Awaits(q, r)
    BY <2>1, <2>3, <2>4, <2>5, AwaitsBehindData
  <2> QED BY <2>5, <2>6
<1>4. CASE p.fecIndex + 1 < Data(c)
  <2>1. p.fecIndex + 1 < Size(c)
    BY <1>1, <1>4
  <2>2. Of(r) = c /\ r.fecIndex = p.fecIndex + 1
    BY <2>1, PacketBehind
  <2>3. /\ Block(queue') = c /\ queue'.made = {}
        /\ queue'.pending = Numbers(First(c) % W, p.fecIndex + 1)
        /\ queue'.useFastQueuePath
        /\ queue'.nextContiguousSequenceNumber = (SequenceNumber(p) + 1) % W
    BY <1>4, AwaitedWaits
  <2>4. SequenceNumber(r) = (SequenceNumber(p) + 1) % W
    BY NextNumber DEF SequenceNumber
  <2>5. r.fecIndex > 0 /\ r.fecIndex < Data(Of(r)) /\ ~(r.fecIndex >= Data(Of(r)))
    BY <1>1, <1>4, <2>2
  <2> QED BY <2>2, <2>3, <2>4, <2>5 DEF Awaits
<1> QED BY <1>1, <1>2, <1>3, <1>4

\* The frames are given as their last data comes.
Played(n, a, g) == settled <= First(<<n, 0>>) /\ Comes(n) <= a => g >= n

LEMMA ComesShape ==
  ASSUME NEW n \in Frames
  PROVE  /\ n \in Nat /\ <<n, LastBlock(n)>> \in FecBlocks /\ Comes(n) \in Nat
         /\ First(<<n, LastBlock(n)>>) < Comes(n) /\ Comes(n) <= End(<<n, LastBlock(n)>>)
         /\ First(<<n, 0>>) <= First(<<n, LastBlock(n)>>) /\ First(<<n, 0>>) \in Nat
         /\ First(<<n, LastBlock(n)>>) \in Nat
<1> DEFINE l == LastBlock(n)
           c == <<n, l>>
<1>1. n \in Nat /\ l \in 0 .. l /\ 0 \in 0 .. l /\ l \in 0 .. 3
  BY LastShape
<1>2. c \in FecBlocks /\ <<n, 0>> \in FecBlocks
  BY <1>1, BlockShape
<1>3. /\ First(c) \in Nat /\ Data(c) \in 1 .. Size(c) /\ Size(c) \in Nat /\ First(<<n, 0>>) \in Nat
      /\ Comes(n) = First(c) + Data(c) /\ End(c) = First(c) + Size(c)
  BY <1>2, FecBlockIs DEF Comes, End
<1>4. First(<<n, 0>>) <= First(c)
  <2>1. CASE 0 < l
    <3>1. End(<<n, 0>>) <= First(c)
      BY <1>1, <2>1, WithinFrame
    <3> QED BY <1>2, <1>3, <3>1, FecBlockIs DEF End
  <2>2. CASE l = 0
    BY <1>3, <2>2
  <2> QED BY <1>1, <2>1, <2>2
<1> QED BY <1>1, <1>2, <1>3, <1>4

LEMMA PlayedNext ==
  ASSUME Sound(queue), NEW p \in Packet, Near(p), Awaits(queue, p), RtpvAddPacket(p),
         given \in Nat, settled \in Int, NEW n \in Frames, Played(n, Position(p), given)
  PROVE  Played(n, Position(p) + 1, given')
<1> SUFFICES ASSUME settled <= First(<<n, 0>>), Comes(n) <= Position(p) + 1 PROVE given' >= n
  BY DEF Played
<1> DEFINE c == Of(p)
           l == LastBlock(n)
<1>1. /\ c \in FecBlocks /\ First(c) \in Nat /\ Data(c) \in 1 .. Size(c) /\ Size(c) \in Nat
      /\ p.fecIndex \in Nat /\ Position(p) = First(c) + p.fecIndex /\ p.frame \in Nat
      /\ Position(p) \in Nat
  BY PacketIs, FecBlockIs
<1>2. n \in Nat /\ Comes(n) \in Nat
  BY ComesShape
<1>3. CASE p.fecIndex + 1 = Data(c) /\ p.block = LastBlock(p.frame)
  <2>1. given' = p.frame
    BY <1>3, AwaitedCompletes
  <2>2. ~(p.frame < n)
    <3> SUFFICES ASSUME p.frame < n PROVE FALSE
      OBVIOUS
    <3>1. End(c) <= First(<<n, 0>>)
      BY <1>3, PacketIs, AcrossFrames DEF Of
    <3>2. Position(p) + 1 <= End(c) /\ End(c) \in Nat
      <4>1. PICK a \in Nat, e \in Nat : a = Position(p) /\ e = End(c) /\ a < e
        BY PacketIs
      <4> QED BY <4>1
    <3>3. First(<<n, 0>>) < Comes(n) /\ First(<<n, 0>>) \in Nat
      <4>1. PICK a \in Nat, b \in Nat, e \in Nat :
               /\ a = First(<<n, 0>>) /\ b = First(<<n, LastBlock(n)>>) /\ e = Comes(n)
               /\ a <= b /\ b < e
        BY ComesShape
      <4> QED BY <4>1
    <3> QED BY <1>1, <1>2, <3>1, <3>2, <3>3
  <2> QED BY <1>1, <1>2, <2>1, <2>2
<1>4. CASE ~(p.fecIndex + 1 = Data(c) /\ p.block = LastBlock(p.frame))
  <2>1. given' = given
    <3>1. CASE p.fecIndex >= Data(c)
      BY <3>1, AwaitedParity
    <3>2. CASE p.fecIndex + 1 < Data(c)
      BY <3>2, AwaitedWaits
    <3>3. CASE p.fecIndex + 1 = Data(c)
      BY <1>4, <3>3, AwaitedCompletes
    <3> QED BY <1>1, <3>1, <3>2, <3>3
  <2>2. Comes(n) # Position(p) + 1
    <3> SUFFICES ASSUME Comes(n) = Position(p) + 1 PROVE FALSE
      OBVIOUS
    <3> DEFINE d == <<n, l>>
    <3>1. PICK i \in Nat : i + 1 = Data(d) /\ i < Size(d)
      <4>1. Data(d) \in 1 .. Size(d) /\ Size(d) \in Nat
        BY ComesShape, FecBlockIs
      <4>2. Data(d) - 1 \in Nat
        BY <4>1
      <4> QED BY <4>1, <4>2
    <3>2. PICK r \in Packet : Of(r) = d /\ r.fecIndex = i /\ r.frame = n /\ r.block = l
      BY <3>1, LastPacket
    <3>3. Position(r) = First(d) + i /\ Comes(n) = First(d) + Data(d) /\ First(d) \in Nat
      BY <3>2, PacketIs DEF Comes
    <3>4. Position(r) = Position(p)
      BY <1>1, <3>1, <3>3
    <3>5. r = p
      BY <3>4, OnePacket
    <3> QED BY <1>4, <3>1, <3>2, <3>5
  <2>3. Comes(n) <= Position(p)
    BY <1>1, <1>2, <2>2
  <2> QED BY <2>1, <2>3 DEF Played
<1> QED BY <1>3, <1>4

\* At the end of a frame the queue awaits the next, however the storm has left it.
LEMMA SettleAwaits ==
  ASSUME Covers(queue), Began(queue, at), at \in Nat,
         ~isBefore16(at, queue.nextContiguousSequenceNumber),
         NEW m \in Frames, at = End(<<m, LastBlock(m)>>),
         ~isBefore16(m + 1, queue.currentFrameNumber),
         NEW p \in Packet, Position(p) = at
  PROVE  Awaits(queue, p)
<1> DEFINE v == queue.currentFrameNumber
           x == queue.nextContiguousSequenceNumber
<1>1. p.frame = m + 1 /\ p.block = 0 /\ p.fecIndex = 0
  BY PacketAtEnd
<1>2. PICK n \in Frames : n = p.frame /\ Of(p) = <<n, 0>>
  BY <1>1, PacketIs DEF Of
<1>3. n \in Nat /\ First(<<n, 0>>) = at /\ 0 < Data(Of(p))
  <2>1. Data(Of(p)) \in 1 .. Size(Of(p)) /\ Size(Of(p)) \in Nat
    BY PacketIs, FecBlockIs
  <2> QED BY <1>1, <1>2, <2>1, PacketIs
<1>4. v \in Nat /\ v \in 1 .. Len(Layout) + 1 /\ x \in Seq16
      /\ queue.multiFecCurrentBlockNumber \in 0 .. 3
  BY DEF Covers, QueueType
<1>5. Gap(p, queue) <= H
  <2>1. Gap(p, queue) = (at - x) % W
    BY DEF Gap
  <2>2. PICK a \in Int : a = at - x
    BY <1>4, Half DEF Seq16
  <2>3. PICK g \in Int : g = a % W
    <3>1. a % W \in Int
      BY ModRange, Half
    <3> QED BY <3>1
  <2>4. ~(g > H)
    BY <2>2, <2>3 DEF isBefore16, H
  <2> QED BY <2>1, <2>2, <2>3, <2>4, Half
<1>6. v <= n
  <2> SUFFICES ASSUME v > n PROVE FALSE
    BY <1>3, <1>4
  <2>1. v > 1 /\ v - 1 \in Frames /\ n <= v - 1
    BY <1>2, <1>3, <1>4, FrameShape, Half
  <2>2. First(<<v - 1, 0>>) < at
    BY <2>1 DEF Began
  <2>3. First(<<n, 0>>) <= First(<<v - 1, 0>>) /\ First(<<v - 1, 0>>) \in Nat
    BY <2>1, FirstsGrow
  <2> QED BY <1>3, <2>2, <2>3
<1>7. ASSUME v = n PROVE queue.pending = {} /\ queue.multiFecCurrentBlockNumber = 0
  <2>1. ~(First(<<v, 0>>) < at)
    BY <1>3, <1>7
  <2>2. ~(queue.pending # {} \/ queue.multiFecCurrentBlockNumber > 0)
    BY <2>1 DEF Began
  <2> QED BY <1>4, <2>2
<1>8. ~(p.fecIndex > 0) /\ ~(p.fecIndex >= Data(Of(p))) /\ ~(p.block > 0)
  <2>1. PICK d \in Nat : d = Data(Of(p)) /\ 0 < d
    BY PacketIs, FecBlockIs
  <2> QED BY <1>1, <2>1
<1>9. ~isBefore16(n, v)
  BY <1>1, <1>2
<1> QED BY <1>2, <1>5, <1>6, <1>7, <1>8, <1>9 DEF Awaits

PlayInv ==
  /\ VInv
  /\ ~Stormy => /\ \A p \in Packet : Position(p) = at => Awaits(queue, p)
                /\ \A n \in Frames : Played(n, at, given)

LEMMA PlayStep ==
  ASSUME PlayInv, [Next]_vars PROVE PlayInv'
<1>1. VInv' /\ Sound(queue) /\ Covers(queue) /\ at \in Nat /\ at' \in Nat
      /\ given \in Nat /\ settled \in Nat \cup {-1} /\ Began(queue, at)
  BY StepVInv DEF PlayInv, VInv, Sound
<1>2. ASSUME NEW p \in Packet, Arrive(p) PROVE PlayInv'
  <2>1. settled' = settled /\ Stormy
    BY <1>2 DEF Arrive
  <2> QED BY <1>1, <2>1 DEF PlayInv, Stormy
<1>3. ASSUME NEW p \in Packet, ArriveInOrder(p) PROVE PlayInv'
  <2>1. RtpvAddPacket(p) /\ Position(p) = at /\ at' = at + 1 /\ settled' = settled /\ ~Stormy
    BY <1>3 DEF ArriveInOrder
  <2>2. Awaits(queue, p) /\ \A n \in Frames : Played(n, at, given)
    BY <2>1 DEF PlayInv
  <2>3. Near(p)
    BY <1>1, <1>3, PacketComes
  <2>4. ASSUME NEW r \in Packet, Position(r) = at + 1 PROVE Awaits(queue', r)
    BY <1>1, <2>1, <2>2, <2>3, <2>4, AwaitsNext
  <2>5. ASSUME NEW n \in Frames PROVE Played(n, at + 1, given')
    BY <1>1, <2>1, <2>2, <2>3, PlayedNext
  <2> QED BY <1>1, <2>1, <2>4, <2>5 DEF PlayInv, Awaits, Gap, Played, Stormy
<1>4. CASE Settle
  <2>1. /\ queue' = queue /\ given' = given /\ at' = at /\ settled' = at
        /\ ~isBefore16(at, queue.nextContiguousSequenceNumber)
    BY <1>4 DEF Settle
  <2>2. ASSUME NEW p \in Packet, Position(p) = at PROVE Awaits(queue, p)
    <3>1. PICK m \in Frames : /\ at = End(<<m, LastBlock(m)>>)
                              /\ ~isBefore16(m + 1, queue.currentFrameNumber)
      BY <1>4 DEF Settle
    <3> QED BY <1>1, <2>1, <2>2, <3>1, SettleAwaits
  <2>3. ASSUME NEW n \in Frames PROVE ~(at <= First(<<n, 0>>) /\ Comes(n) <= at)
    <3>1. PICK f \in Nat, l \in Nat, z \in Nat :
             /\ f = First(<<n, 0>>) /\ l = First(<<n, LastBlock(n)>>) /\ z = Comes(n)
             /\ f <= l /\ l < z
      BY ComesShape
    <3> QED BY <1>1, <3>1
  <2> QED BY <1>1, <2>1, <2>2, <2>3 DEF PlayInv, Awaits, Gap, Played
<1>5. CASE UNCHANGED vars
  BY <1>1, <1>5 DEF vars, PlayInv, Awaits, Gap, Played, Stormy
<1> QED BY <1>2, <1>3, <1>4, <1>5 DEF Next

\* However many frames the stream has and however the network has behaved: once it
\* has settled, every frame that begins from then on is handed over with its last
\* data packet, whatever losses, gaps and late packets have left in the queue.
\* Settle leaves out a queue that the losses have left half the space of packets
\* or of frames behind, which turns everything away until the numbers come round.
THEOREM FramesPlayOnceSettled == Spec => []SettledFramesPlay
<1>1. Init => PlayInv
  <2> SUFFICES ASSUME Init PROVE PlayInv
    OBVIOUS
  <2>1. Stormy
    BY DEF Init, Stormy
  <2> QED BY <2>1, InitVInv DEF PlayInv
<1>2. PlayInv /\ [Next]_vars => PlayInv'
  BY PlayStep
<1>3. PlayInv => SettledFramesPlay
  BY DEF PlayInv, SettledFramesPlay, Played
<1> QED BY <1>1, <1>2, <1>3, PTL DEF Spec
===============================================================================
