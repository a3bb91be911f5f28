----------------------------- MODULE RtpVideoQueue -----------------------------
(***************************************************************************)
(* RtpVideoQueue.c: the video receive thread collects the packets of one   *)
(* FEC block, recovers the data it lacks, stages the block, and hands the  *)
(* packets of a frame to the depacketizer when its last block is there.    *)
(* A frame that cannot become whole is reported lost, as early as it is    *)
(* known.  Sequence numbers wrap.                                          *)
(*                                                                         *)
(* The host sends Layout[n], frame after frame; the network loses, delays, *)
(* reorders and duplicates packets, and one day it settles.  A block's     *)
(* packets are a set of sequence numbers.  Left out: debug builds'         *)
(* validation mode, hosts before generation 5, statistics for the host.    *)
(***************************************************************************)
EXTENDS Integers, Sequences, FiniteSets, FiniteSetsExt

CONSTANTS W,         \* 2^16 in the code
          Layout,    \* for each frame its blocks: data shards, FEC percentage, and the
                     \* place of the first packet in the stream
          Behind,    \* how many places late a packet may come
          Ahead,     \* how many packets may be missing in front of one
          COOLDOWN   \* frames in the 5 minutes without speculation

isBefore16(x, y) == (x - y) % W > (W - 1) \div 2

Seq16 == 0 .. W - 1
Frames == DOMAIN Layout
FecBlocks == UNION {{n} \X (0 .. Len(Layout[n]) - 1) : n \in Frames}
LastBlock(n) == Len(Layout[n]) - 1
First(c) == Layout[c[1]][c[2] + 1].first
Data(c) == Layout[c[1]][c[2] + 1].data

\* The client computes the parity packets from the percentage, rounding up.
Parity(c) == (Data(c) * Layout[c[1]][c[2] + 1].percent + 99) \div 100
Size(c) == Data(c) + Parity(c)
End(c) == First(c) + Size(c)

\* The host numbers its packets one after another, block after block.
NextBlock(c) == IF c[2] < LastBlock(c[1]) THEN <<c[1], c[2] + 1>> ELSE <<c[1] + 1, 0>>

\* The packets of all blocks in one order.
Packet == UNION {{[frame |-> c[1], block |-> c[2], fecIndex |-> i] : i \in 0 .. Size(c) - 1}
                 : c \in FecBlocks}
Position(p) == First(<<p.frame, p.block>>) + p.fecIndex
SequenceNumber(p) == Position(p) % W

ASSUME RtpVideoAssumption ==
  /\ W \in Nat \ {0} /\ {Behind, COOLDOWN} \subseteq Nat /\ Ahead \in Nat \ {0}
  /\ Layout \in Seq(Seq([first : Nat, data : Nat \ {0}, percent : Nat])) /\ Layout # << >>
  /\ Behind <= (W - 1) \div 2
  /\ \A n \in Frames : Len(Layout[n]) \in 1 .. 4
  /\ \A c \in FecBlocks : Size(c) <= (W - 1) \div 2       \* DATA_SHARDS_MAX is 255
  /\ First(<<1, 0>>) = 0
  /\ \A c \in FecBlocks : NextBlock(c) \in FecBlocks => First(NextBlock(c)) = End(c)
-------------------------------------------------------------------------------
VARIABLES
  queue,   \* RTP_VIDEO_QUEUE
  calls,   \* into the depacketizer, by the last packet
  given,   \* the frame last handed over
  told,    \* the frame last reported lost
  at,      \* packets of the stream that have come or been passed by one that has
  settled  \* from this place on every packet comes, in its order; -1 until then

vars == <<queue, calls, given, told, at, settled>>

Stormy == settled = -1

Lost(n) == [call |-> "notifyFrameLost", frame |-> n]
Submit(blocks) == [call |-> "queueRtpPacket", blocks |-> blocks]

TypeOK ==
  /\ queue \in [pending : SUBSET Seq16,           \* pendingFecBlockList
                made : SUBSET Seq16,              \* those of them recovered
                completed : Seq(FecBlocks),       \* completedFecBlockList
                bufferLowestSequenceNumber : Seq16,
                bufferDataPackets : Nat, bufferParityPackets : Nat,
                receivedDataPackets : Nat, receivedParityPackets : Nat,
                receivedHighestSequenceNumber : Seq16,
                nextContiguousSequenceNumber : Seq16,
                missingPackets : Nat,
                useFastQueuePath : BOOLEAN, reportedLostFrame : BOOLEAN,
                currentFrameNumber : Nat,
                multiFecCurrentBlockNumber : 0 .. 3, multiFecLastBlockNumber : 0 .. 3,
                lastOosFrame : Nat, receivedOosData : BOOLEAN]
  /\ \A i \in DOMAIN calls : calls[i].call \in {"notifyFrameLost", "queueRtpPacket"}
  /\ given \in Nat /\ told \in Nat /\ at \in Nat /\ settled \in Nat \cup {-1}

\* RtpvInitializeQueue
Init ==
  /\ queue = [pending |-> {}, made |-> {}, completed |-> << >>,
              bufferLowestSequenceNumber |-> 0,
              bufferDataPackets |-> 0, bufferParityPackets |-> 0,
              receivedDataPackets |-> 0, receivedParityPackets |-> 0,
              receivedHighestSequenceNumber |-> 0,
              nextContiguousSequenceNumber |-> 0,
              missingPackets |-> 0,
              useFastQueuePath |-> FALSE, reportedLostFrame |-> FALSE,
              currentFrameNumber |-> 1,
              multiFecCurrentBlockNumber |-> 0, multiFecLastBlockNumber |-> 0,
              lastOosFrame |-> 0, receivedOosData |-> FALSE]
  /\ calls = << >>
  /\ given = 0 /\ told = 0 /\ at = 0 /\ settled = -1
-------------------------------------------------------------------------------
(* Parts of RtpvAddPacket, as functions of the queue. *)
Numbers(low, size) == {(low + i) % W : i \in 0 .. size - 1}
DataNumbers(q) == Numbers(q.bufferLowestSequenceNumber, q.bufferDataPackets)
bufferHighest(q) ==
  (q.bufferLowestSequenceNumber + q.bufferDataPackets + q.bufferParityPackets - 1) % W

\* Behind what has been delivered or given up.
Stale(q, p) ==
  \/ isBefore16(SequenceNumber(p), q.nextContiguousSequenceNumber)
  \/ isBefore16(p.frame, q.currentFrameNumber)
  \/ p.frame = q.currentFrameNumber /\ p.block < q.multiFecCurrentBlockNumber

SameBlock(q, p) ==
  p.frame = q.currentFrameNumber /\ p.block = q.multiFecCurrentBlockNumber
Starts(q, p) == q.pending = {} \/ ~SameBlock(q, p)

\* The packet is of a later block of a frame whose current block never became whole.
MissedBlock(q, p) ==
  /\ q.pending # {} /\ q.multiFecLastBlockNumber # 0
  /\ p.frame = q.currentFrameNumber /\ p.block # q.multiFecCurrentBlockNumber

\* The packet's block is not the next one of its frame.
LostBlocks(q, p) ==
  p.block # IF p.frame = q.currentFrameNumber THEN q.multiFecCurrentBlockNumber ELSE 0

\* What is pending is dropped and the stream taken up at the frame after n.
SkipTo(q, n) ==
  [q EXCEPT !.pending = {}, !.made = {}, !.completed = << >>,
            !.reportedLostFrame = TRUE,
            !.currentFrameNumber = n, !.multiFecCurrentBlockNumber = 0]

\* A new block, perhaps of a new frame.
NewBlock(q, p) ==
  LET c == <<p.frame, p.block>> IN
  [q EXCEPT !.pending = {}, !.made = {},
            !.bufferLowestSequenceNumber = (SequenceNumber(p) - p.fecIndex) % W,
            !.nextContiguousSequenceNumber = (SequenceNumber(p) - p.fecIndex) % W,
            !.receivedDataPackets = 0, !.receivedParityPackets = 0,
            !.receivedHighestSequenceNumber = 0, !.missingPackets = 0,
            !.useFastQueuePath = TRUE, !.reportedLostFrame = FALSE,
            !.bufferDataPackets = Data(c), !.bufferParityPackets = Parity(c),
            !.currentFrameNumber = p.frame,
            !.multiFecCurrentBlockNumber = p.block, !.multiFecLastBlockNumber = LastBlock(p.frame)]

\* Mutant of Begin: the frame number is taken over before it is compared.
BeginKeepsCompleted(q, p) == NewBlock(q, p)

Begin(q, p) ==
  [NewBlock(q, p) EXCEPT !.completed = IF p.frame = q.currentFrameNumber THEN @ ELSE << >>]

\* The report of the frames the network dropped as a whole.
BeginCalls(q, p) ==
  IF p.frame # q.currentFrameNumber
     /\ (q.currentFrameNumber + 1 # p.frame \/ ~q.reportedLostFrame)
  THEN <<Lost(p.frame - 1)>> ELSE << >>

Follows(q, s) == q.useFastQueuePath /\ s = q.nextContiguousSequenceNumber

Duplicate(q, s) == ~Follows(q, s) /\ s \in q.pending

\* Mutant of FastPath: a gap leaves the fast path open.
FastPathStaysOpen(q, s) == q.useFastQueuePath

FastPath(q, s) == Follows(q, s)

\* queuePacket, of a packet that was received.
Queue(q, s) ==
  LET late == ~Follows(q, s) /\ \E m \in q.pending : isBefore16(s, m)
      cool == q.currentFrameNumber > q.lastOosFrame + COOLDOWN
  IN [q EXCEPT !.pending = @ \cup {s},
               !.nextContiguousSequenceNumber = IF Follows(q, s) THEN (s + 1) % W ELSE @,
               !.useFastQueuePath = FastPath(q, s),
               !.lastOosFrame = IF late THEN q.currentFrameNumber ELSE @,
               !.receivedOosData = late \/ (@ /\ ~cool)]

\* Holes below the highest number, and what has come, recounted with each packet.
Count(q, s) ==
  LET high == q.receivedHighestSequenceNumber
      first == Cardinality(q.pending) = 1
      isData == isBefore16(s, (q.bufferLowestSequenceNumber + q.bufferDataPackets) % W)
  IN [q EXCEPT
       !.receivedHighestSequenceNumber = IF first \/ isBefore16(high, s) THEN s ELSE @,
       !.missingPackets = IF first THEN @ + ((s - q.bufferLowestSequenceNumber) % W)
                          ELSE IF isBefore16(high, s) THEN @ + ((s - high - 1) % W)
                          ELSE @ - 1,
       !.receivedDataPackets = IF isData THEN @ + 1 ELSE @,
       !.receivedParityPackets = IF isData THEN @ ELSE @ + 1]
-------------------------------------------------------------------------------
(* reconstructFrame *)
Short(q) == Cardinality(q.pending) < q.bufferDataPackets

\* Mutant of Hopeless: a frame as short as there are parity packets is given up.
HopelessEarly(q) ==
  /\ ~q.reportedLostFrame /\ ~q.receivedOosData
  /\ q.missingPackets > 0 /\ q.missingPackets >= q.bufferParityPackets

Hopeless(q) ==
  /\ ~q.reportedLostFrame /\ ~q.receivedOosData
  /\ q.missingPackets > q.bufferParityPackets

\* Enough has come of a frame that was given up: no more speculation for a while.
Admit(q) ==
  IF q.reportedLostFrame /\ ~q.receivedOosData
  THEN [q EXCEPT !.receivedOosData = TRUE, !.lastOosFrame = q.currentFrameNumber]
  ELSE q

Lacking(q) == DataNumbers(q) \ q.pending

\* Of the data that is lacking the decoder makes the packets of new; all is well
\* when that is all of it, there was memory, and each of them looks sane.
Reconstructs(q, new, ok) ==
  IF q.receivedDataPackets = q.bufferDataPackets THEN ok /\ new = {}
  ELSE /\ new \subseteq Lacking(q)
       /\ ok => new = Lacking(q)
       /\ ~ok => new # Lacking(q) \/ new = {}

\* Mutant of Stage: the block number is not taken back with the frame.
StageKeepsBlock(q) ==
  LET staged == [q EXCEPT !.pending = {}, !.made = {},
                          !.completed = Append(@, <<q.currentFrameNumber,
                                                    q.multiFecCurrentBlockNumber>>)]
  IN IF q.multiFecCurrentBlockNumber < q.multiFecLastBlockNumber
     THEN [staged EXCEPT !.multiFecCurrentBlockNumber = @ + 1]
     ELSE [staged EXCEPT !.completed = << >>, !.currentFrameNumber = @ + 1]

\* stageCompleteFecBlock, and the advance to the next block or frame.
Stage(q) ==
  LET staged == [q EXCEPT !.pending = {}, !.made = {},
                          !.completed = Append(@, <<q.currentFrameNumber,
                                                    q.multiFecCurrentBlockNumber>>)]
  IN IF q.multiFecCurrentBlockNumber < q.multiFecLastBlockNumber
     THEN [staged EXCEPT !.multiFecCurrentBlockNumber = @ + 1]
     ELSE [staged EXCEPT !.completed = << >>, !.currentFrameNumber = @ + 1,
                         !.multiFecCurrentBlockNumber = 0]

Submits(q) == q.multiFecCurrentBlockNumber = q.multiFecLastBlockNumber
StageCalls(q) ==
  IF Submits(q)
  THEN <<Submit(Append(q.completed, <<q.currentFrameNumber, q.multiFecCurrentBlockNumber>>))>>
  ELSE << >>
-------------------------------------------------------------------------------
(* RtpvAddPacket, one action for each way through it. *)
Told(cs) == LET reports == {i \in DOMAIN cs : cs[i].call = "notifyFrameLost"} IN
            IF reports = {} THEN told ELSE cs[Max(reports)].frame
Given(cs) == LET frames == {i \in DOMAIN cs : cs[i].call = "queueRtpPacket"} IN
             IF frames = {} THEN given ELSE cs[Max(frames)].blocks[1][1]

Does(q, cs) == queue' = q /\ calls' = cs /\ told' = Told(cs) /\ given' = Given(cs)

Reject(p) == Stale(queue, p) /\ Does(queue, << >>)

NotifyOnce == IF queue.reportedLostFrame THEN << >> ELSE <<Lost(queue.currentFrameNumber)>>

BlockMissed(p) ==
  /\ ~Stale(queue, p) /\ Starts(queue, p) /\ MissedBlock(queue, p)
  /\ Does(SkipTo(queue, queue.currentFrameNumber + 1), NotifyOnce)

BlocksLost(p) ==
  /\ ~Stale(queue, p) /\ Starts(queue, p) /\ ~MissedBlock(queue, p) /\ LostBlocks(queue, p)
  /\ Does(SkipTo(queue, p.frame + 1), NotifyOnce)

Ready(p) == IF Starts(queue, p) THEN Begin(queue, p) ELSE queue
ReadyCalls(p) == IF Starts(queue, p) THEN BeginCalls(queue, p) ELSE << >>
Enters(p) ==
  /\ ~Stale(queue, p)
  /\ Starts(queue, p) => ~MissedBlock(queue, p) /\ ~LostBlocks(queue, p)

\* Received already, or of a block that ends before it.
Refuse(p) ==
  /\ Enters(p)
  /\ \/ isBefore16(bufferHighest(Ready(p)), SequenceNumber(p))
     \/ Duplicate(Ready(p), SequenceNumber(p))
  /\ Does(Ready(p), ReadyCalls(p))

Queued(p) == Count(Queue(Ready(p), SequenceNumber(p)), SequenceNumber(p))
Accepts(p) ==
  /\ Enters(p)
  /\ ~isBefore16(bufferHighest(Ready(p)), SequenceNumber(p))
  /\ ~Duplicate(Ready(p), SequenceNumber(p))

\* Too little yet; with too many holes the frame is reported ahead of time.
Wait(p) ==
  /\ Accepts(p) /\ Short(Queued(p))
  /\ IF Hopeless(Queued(p))
     THEN Does([Queued(p) EXCEPT !.reportedLostFrame = TRUE],
               Append(ReadyCalls(p), Lost(p.frame)))
     ELSE Does(Queued(p), ReadyCalls(p))

Complete(p) ==
  /\ Accepts(p) /\ ~Short(Queued(p))
  /\ Reconstructs(Queued(p), Lacking(Queued(p)), TRUE)
     \/ Reconstructs(Queued(p), {}, TRUE)
  /\ Does(Stage(Admit(Queued(p))), ReadyCalls(p) \o StageCalls(Queued(p)))

\* The recovery fails for want of memory, or makes a packet that is not sane.
FailToRecover(p) ==
  /\ Accepts(p) /\ ~Short(Queued(p))
  /\ \E new \in SUBSET Lacking(Queued(p)) :
       /\ Reconstructs(Queued(p), new, FALSE)
       /\ Does([Admit(Queued(p)) EXCEPT !.pending = @ \cup new, !.made = @ \cup new],
               ReadyCalls(p))

RtpvAddPacket(p) ==
  \/ Reject(p) \/ BlockMissed(p) \/ BlocksLost(p) \/ Refuse(p)
  \/ Wait(p) \/ Complete(p) \/ FailToRecover(p)
-------------------------------------------------------------------------------

\* Any packet near the newest: those in between are late or lost.
Arrive(p) ==
  /\ Stormy /\ Position(p) \in at - Behind .. at + Ahead
  /\ at' = Max({at, Position(p) + 1})
  /\ RtpvAddPacket(p)
  /\ UNCHANGED settled

\* From the end of some frame on nothing is lost and nothing overtaken; the queue
\* has not been left half the space of packets or of frames behind.
Settle ==
  /\ Stormy /\ ~isBefore16(at, queue.nextContiguousSequenceNumber)
  /\ \E n \in Frames : at = End(<<n, LastBlock(n)>>) /\ ~isBefore16(n + 1, queue.currentFrameNumber)
  /\ settled' = at
  /\ UNCHANGED <<queue, calls, given, told, at>>

ArriveInOrder(p) ==
  /\ ~Stormy /\ Position(p) = at
  /\ at' = at + 1
  /\ RtpvAddPacket(p)
  /\ UNCHANGED settled

Next == Settle \/ \E p \in Packet : Arrive(p) \/ ArriveInOrder(p)

Spec == Init /\ [][Next]_vars
-------------------------------------------------------------------------------
(* Properties. *)

Received(q) == q.pending \ q.made
UpTo(q, s) == Numbers(q.bufferLowestSequenceNumber, ((s - q.bufferLowestSequenceNumber) % W) + 1)

\* The counters on which the early report and the recovery rely agree with the
\* packets that are pending, whatever came late, twice or was recovered, as the
\* assertions of RtpVideoQueue.c:230-233 and 733-764 suppose; and while the fast
\* path is open no packet it passes can be a duplicate (lines 122-127).
HolesCounted ==
  TypeOK /\
  (queue.pending # {} =>
    LET all == UpTo(queue, queue.receivedHighestSequenceNumber) IN
    /\ Received(queue) \subseteq all /\ queue.made \subseteq DataNumbers(queue)
    /\ queue.missingPackets = Cardinality(all \ Received(queue))
    /\ queue.receivedDataPackets = Cardinality(Received(queue) \cap DataNumbers(queue))
    /\ queue.receivedParityPackets = Cardinality(Received(queue) \ DataNumbers(queue))
    /\ queue.useFastQueuePath =>
         queue.pending = all /\ queue.nextContiguousSequenceNumber =
                                   (queue.receivedHighestSequenceNumber + 1) % W)

\* A frame that was reported ahead of time stays hopeless unless some packet came
\* out of order, RtpVideoQueue.c:226-229: the host is not asked to repair a frame
\* that only had to be waited for.
ForetoldIsHopeless ==
  queue.pending # {} /\ queue.reportedLostFrame /\ ~queue.receivedOosData =>
    queue.missingPackets > queue.bufferParityPackets

\* Once the network has settled (and Settle finds the queue less than half the
\* space behind), every frame is handed over with its last data packet, whatever
\* state losses, gaps and late packets have left the queue in.
Comes(n) == First(<<n, LastBlock(n)>>) + Data(<<n, LastBlock(n)>>)
SettledFramesPlay ==
  ~Stormy => \A n \in Frames : settled <= First(<<n, 0>>) /\ Comes(n) <= at => given >= n

\* The depacketizer gets whole frames, every block of each, in order and once; it
\* hears of no loss before a frame it has, and of the frames passed over it hears
\* unless a loss was reported since a block was last begun (reportedLostFrame).
WholeFrame(blocks) ==
  LET n == blocks[1][1] IN blocks = [i \in 1 .. Len(Layout[n]) |-> <<n, i - 1>>]
Feed == INSTANCE FrameFeed WITH
          current <- queue.currentFrameNumber, reported <- queue.reportedLostFrame,
          calls <- [i \in DOMAIN calls |->
                      IF calls[i].call = "notifyFrameLost" THEN calls[i]
                      ELSE [call |-> IF WholeFrame(calls[i].blocks)
                                     THEN "queueRtpPacket" ELSE "partial",
                            frame |-> calls[i].blocks[1][1]]]
ImplementsFeed == Feed!Spec
===============================================================================
