----------------------------- MODULE RtpAudioQueue -----------------------------
(***************************************************************************)
(* RtpAudioQueue.c and its caller in AudioStream.c: the audio receive      *)
(* thread sorts the packets of the host into blocks of data and FEC        *)
(* shards, plays packets that come in order at once, recovers lost ones    *)
(* from a block with enough shards, and gives up on blocks that will not   *)
(* become whole.  Sequence numbers wrap.                                   *)
(*                                                                         *)
(* The host sends block after block; the network loses, delays, reorders   *)
(* and duplicates the shards of the last Reach of them.  The linked list   *)
(* of blocks is a sequence; the cache of free blocks is left out.          *)
(***************************************************************************)
EXTENDS Integers, Sequences, FiniteSets, SequencesExt

CONSTANTS W,                  \* 2^16 in the code
          RTPA_DATA_SHARDS,   \* 4
          RTPA_FEC_SHARDS,    \* 2
          OldHost,            \* sizes may vary in a block, blocks start anywhere
          Reach,              \* blocks back from the newest that may still arrive
          Lead,               \* blocks the host is at most ahead of the playback
          Starts,             \* blocks the host may be at when the stream is joined
          Concealed

ASSUME RtpAudioAssumption ==
  /\ RTPA_DATA_SHARDS \in Nat \ {0} /\ RTPA_FEC_SHARDS \in Nat
  /\ W \in Nat \ {0} /\ W % RTPA_DATA_SHARDS = 0
  /\ {Reach, Lead} \subseteq Nat \ {0}
  /\ (Lead + 1) * RTPA_DATA_SHARDS <= W \div 2
  /\ Reach * RTPA_DATA_SHARDS <= W \div 2
  /\ OldHost \in BOOLEAN

Seq16 == 0 .. W - 1
BaseOf(n) == (n \div RTPA_DATA_SHARDS) * RTPA_DATA_SHARDS
Bases == {BaseOf(n) : n \in Seq16}
DataShards == 0 .. RTPA_DATA_SHARDS - 1
Shards == 0 .. RTPA_DATA_SHARDS + RTPA_FEC_SHARDS - 1

\* 0 is also the mark for a base that is not known yet, RtpAudioQueue.c:284: the client
\* is through its first block before the numbers wrap.
ASSUME StartsAssumption ==
  \A n \in Starts : n \in Bases /\ n + (Lead + 1) * RTPA_DATA_SHARDS < W

isBefore16(x, y) == (x - y) % W > (W - 1) \div 2

VARIABLES
  blocks,                      \* blockHead .. blockTail
  nextRtpSequenceNumber,
  oldestRtpBaseSequenceNumber,
  lastOosSequenceNumber, receivedOosData,
  synchronizing,
  incompatibleServer,
  pc,                          \* the receive thread waits for a packet or drains the queue
  out,                         \* the packet the queue last handed to the decoder
  sent,                        \* the block the host sends
  arrived                      \* shards that came before their block was over

numbers == <<nextRtpSequenceNumber, oldestRtpBaseSequenceNumber>>
order == <<lastOosSequenceNumber, receivedOosData>>
vars == <<blocks, nextRtpSequenceNumber, oldestRtpBaseSequenceNumber,
          lastOosSequenceNumber, receivedOosData, synchronizing, incompatibleServer,
          pc, out, sent, arrived>>

Block == [base : Bases, got : SUBSET Shards, nextDataPacketIndex : DataShards,
          fullyReassembled : BOOLEAN, allowDiscontinuity : BOOLEAN]

TypeOK ==
  /\ blocks \in Seq(Block)
  /\ nextRtpSequenceNumber \in Seq16 /\ oldestRtpBaseSequenceNumber \in Bases
  /\ lastOosSequenceNumber \in Seq16 /\ receivedOosData \in BOOLEAN
  /\ synchronizing \in BOOLEAN /\ incompatibleServer \in BOOLEAN
  /\ pc \in {"receive", "drain"}
  /\ out \in Seq16 \cup {Concealed}
  /\ sent \in Bases
  /\ arrived \subseteq Bases \X Shards

Init ==
  /\ blocks = << >>
  /\ nextRtpSequenceNumber = 0 /\ oldestRtpBaseSequenceNumber = 0
  /\ lastOosSequenceNumber = 0 /\ receivedOosData = FALSE
  /\ synchronizing = TRUE
  /\ incompatibleServer \in (IF OldHost THEN BOOLEAN ELSE {FALSE})
  /\ pc = "receive"
  /\ out = Concealed
  /\ sent \in Starts
  /\ arrived = {}
-------------------------------------------------------------------------------
(* The stream. *)

\* No packet has been seen: 0 stands for an unknown base.
Tuning == synchronizing /\ oldestRtpBaseSequenceNumber = 0

\* How far a sequence number is behind the end of the newest block.
Age(n) == (sent + RTPA_DATA_SHARDS - n) % W
OverAt(next, base) == Age(BaseOf(next)) < Age(base)

\* May still arrive.  The host numbers its packets from 0.
Sent(base) == /\ Age(base) \in 1 .. Reach * RTPA_DATA_SHARDS
              /\ Tuning => base <= sent

SendBlock ==
  /\ ~Tuning /\ ~incompatibleServer
  /\ Age(BaseOf(nextRtpSequenceNumber)) <= Lead * RTPA_DATA_SHARDS
  /\ sent' = (sent + RTPA_DATA_SHARDS) % W
  /\ UNCHANGED <<blocks, numbers, order, synchronizing, incompatibleServer, pc, out, arrived>>

\* A data packet carries base + index, a FEC packet the base in its header.
Packet == [base : Bases, index : Shards]
IsData(p) == p.index \in DataShards
SequenceNumber(p) == p.base + p.index

\* Shards that have come for the blocks from next on.
Since(next, shards) == {s \in shards : ~OverAt(next, s[1])}
-------------------------------------------------------------------------------
(* Finding the block of a packet. *)
Stop(p) == {i \in DOMAIN blocks : blocks[i].base = p.base \/ isBefore16(p.base, blocks[i].base)}
Place(p) == IF Stop(p) = {} THEN Len(blocks) + 1
            ELSE CHOOSE i \in Stop(p) : \A j \in Stop(p) : i <= j
Known(p) == Place(p) <= Len(blocks) /\ blocks[Place(p)].base = p.base

NewBlock(p) == [base |-> p.base, got |-> {}, nextDataPacketIndex |-> 0,
                fullyReassembled |-> FALSE, allowDiscontinuity |-> FALSE]
WithBlock(p) == IF Known(p) THEN blocks ELSE InsertAt(blocks, Place(p), NewBlock(p))

Head16(bs) == bs[1].base
Ready(bs, next) ==
  /\ bs # << >>
  /\ \/ /\ bs[1].nextDataPacketIndex \in bs[1].got
        /\ Head16(bs) + bs[1].nextDataPacketIndex = next
     \/ bs[1].allowDiscontinuity

\* Mutant of Completed: one shard more than needed.
CompletedLater(b) ==
  IF Cardinality(b.got) > RTPA_DATA_SHARDS
  THEN [b EXCEPT !.got = @ \cup DataShards, !.fullyReassembled = TRUE]
  ELSE b

\* Enough shards make all the data.
Completed(b) ==
  IF Cardinality(b.got) >= RTPA_DATA_SHARDS
  THEN [b EXCEPT !.got = @ \cup DataShards, !.fullyReassembled = TRUE]
  ELSE b

\* Out of sequence now, or not for half the sequence space.  The number of the
\* last such packet is dropped with the flag: it is read only under it.
NoteOrder(p) ==
  IF ~IsData(p) THEN UNCHANGED order
  ELSE IF ~synchronizing /\ isBefore16(SequenceNumber(p), oldestRtpBaseSequenceNumber)
       THEN lastOosSequenceNumber' = SequenceNumber(p) /\ receivedOosData' = TRUE
       ELSE /\ receivedOosData' =
                 (receivedOosData /\ ~isBefore16(oldestRtpBaseSequenceNumber, lastOosSequenceNumber))
            /\ lastOosSequenceNumber' = IF receivedOosData' THEN lastOosSequenceNumber ELSE 0

\* Mutant of FreeHead: the oldest base stays.
FreeHeadForgets(bs) ==
  /\ blocks' = Tail(bs)
  /\ UNCHANGED oldestRtpBaseSequenceNumber
  /\ synchronizing' = FALSE

\* freeFecBlockHead
FreeHead(bs) ==
  /\ blocks' = Tail(bs)
  /\ oldestRtpBaseSequenceNumber' = (Head16(bs) + RTPA_DATA_SHARDS) % W
  /\ synchronizing' = FALSE

NextPacket == nextRtpSequenceNumber' = (nextRtpSequenceNumber + 1) % W

\* The history of what came in time, with what can be made of it, and without.
InTimeAt(p) == ~OverAt(nextRtpSequenceNumber, p.base)
Came(p) == arrived \cup {<<p.base, p.index>>}
Makes(p) == IF /\ <<p.base, p.index>> \notin arrived
               /\ Cardinality({s \in Came(p) : s[1] = p.base}) >= RTPA_DATA_SHARDS
            THEN {p.base} \X DataShards
            ELSE {}
Arrive(p) ==
  arrived' = Since(nextRtpSequenceNumber', IF InTimeAt(p) THEN Came(p) \cup Makes(p) ELSE arrived)
ArriveAndGo(p) == arrived' = Since(nextRtpSequenceNumber', Came(p))
-------------------------------------------------------------------------------
(* RtpaAddPacket, one action for each way through it.  A packet that is    *)
(* rejected changes nothing but the order it was seen in.                  *)
Passthrough(p) ==
  /\ incompatibleServer
  /\ UNCHANGED vars

FecOff == incompatibleServer' = TRUE /\ arrived' = {}

Unaligned(p) ==
  /\ OldHost /\ ~incompatibleServer
  /\ ~IsData(p)
  /\ FecOff
  /\ UNCHANGED <<blocks, numbers, order, synchronizing, sent, out, pc>>

Tune(p) ==
  /\ ~incompatibleServer
  /\ Tuning
  /\ NoteOrder(p)
  /\ nextRtpSequenceNumber' = (p.base + RTPA_DATA_SHARDS) % W
  /\ oldestRtpBaseSequenceNumber' = (p.base + RTPA_DATA_SHARDS) % W
  /\ UNCHANGED <<blocks, synchronizing, incompatibleServer, sent, arrived, out, pc>>

\* The block is over.
TooLate(p) ==
  /\ ~incompatibleServer /\ ~Tuning
  /\ isBefore16(p.base, oldestRtpBaseSequenceNumber)
  /\ NoteOrder(p)
  /\ UNCHANGED <<blocks, numbers, synchronizing, incompatibleServer, sent, out, pc>>
  /\ Arrive(p)

InTime(p) == ~incompatibleServer /\ ~Tuning /\ ~isBefore16(p.base, oldestRtpBaseSequenceNumber)
Wanted(p) == /\ InTime(p)
             /\ Known(p) => /\ ~blocks[Place(p)].fullyReassembled
                            /\ p.index \notin blocks[Place(p)].got

SizeDiffers(p) ==
  /\ OldHost /\ InTime(p) /\ Known(p)
  /\ NoteOrder(p)
  /\ FecOff
  /\ UNCHANGED <<blocks, numbers, synchronizing, sent, out, pc>>

\* Recovered already, or received.
Duplicate(p) ==
  /\ InTime(p) /\ ~Wanted(p)
  /\ NoteOrder(p)
  /\ UNCHANGED <<blocks, numbers, synchronizing, incompatibleServer, sent, out, pc>>
  /\ Arrive(p)

\* malloc of a new block fails.
NoMemory(p) ==
  /\ Wanted(p) /\ ~Known(p)
  /\ NoteOrder(p)
  /\ UNCHANGED <<blocks, numbers, synchronizing, incompatibleServer, sent, arrived, out, pc>>

Received(p) == [WithBlock(p) EXCEPT ![Place(p)].got = @ \cup {p.index}]

\* The next packet: it is played at once and never queued.
InOrder(p) ==
  /\ Wanted(p)
  /\ IsData(p) /\ SequenceNumber(p) = nextRtpSequenceNumber
  /\ NoteOrder(p)
  /\ NextPacket
  /\ LET bs == [Received(p) EXCEPT ![Place(p)].nextDataPacketIndex = @ + 1] IN
     IF nextRtpSequenceNumber' = (p.base + RTPA_DATA_SHARDS) % W
     THEN FreeHead(bs)
     ELSE blocks' = bs /\ UNCHANGED <<oldestRtpBaseSequenceNumber, synchronizing>>
  /\ out' = SequenceNumber(p)
  /\ ArriveAndGo(p)
  /\ UNCHANGED <<incompatibleServer, sent, pc>>

\* Mutant of HandleMissing: with packets out of sequence it waits for ever.
HandleMissingWaits(bs, late) ==
  IF isBefore16(nextRtpSequenceNumber, Head16(bs))
  THEN /\ nextRtpSequenceNumber' = Head16(bs)
       /\ oldestRtpBaseSequenceNumber' = Head16(bs)
       /\ blocks' = bs
  ELSE /\ blocks' = IF Len(bs) > 1 /\ ~receivedOosData'
                    THEN [bs EXCEPT ![1].allowDiscontinuity = TRUE]
                    ELSE bs
       /\ UNCHANGED numbers

\* handleMissingPackets.  late says whether the head has waited for longer than
\* its block and the out of sequence time; it has when the host is Lead ahead.
HandleMissing(bs, late) ==
  IF isBefore16(nextRtpSequenceNumber, Head16(bs))
  THEN /\ nextRtpSequenceNumber' = Head16(bs)
       /\ oldestRtpBaseSequenceNumber' = Head16(bs)
       /\ blocks' = bs
  ELSE /\ blocks' = IF Len(bs) > 1 /\ (~receivedOosData' \/ late)
                    THEN [bs EXCEPT ![1].allowDiscontinuity = TRUE]
                    ELSE bs
       /\ UNCHANGED numbers

Store(p, late) ==
  /\ Wanted(p)
  /\ ~(IsData(p) /\ SequenceNumber(p) = nextRtpSequenceNumber)
  /\ late \/ Age(BaseOf(nextRtpSequenceNumber)) <= Lead * RTPA_DATA_SHARDS
  /\ NoteOrder(p)
  /\ LET bs == [Received(p) EXCEPT ![Place(p)] = Completed(@)] IN
     IF Ready(bs, nextRtpSequenceNumber)
     THEN blocks' = bs /\ UNCHANGED numbers
     ELSE HandleMissing(bs, late)
  /\ pc' = IF Ready(blocks', nextRtpSequenceNumber') THEN "drain" ELSE "receive"
  /\ Arrive(p)
  /\ UNCHANGED <<synchronizing, incompatibleServer, sent, out>>

Receive(p) ==
  /\ pc = "receive"
  /\ Sent(p.base)
  /\ \/ Passthrough(p) \/ Unaligned(p) \/ Tune(p) \/ TooLate(p) \/ SizeDiffers(p)
     \/ Duplicate(p) \/ NoMemory(p) \/ InOrder(p) \/ \E late \in BOOLEAN : Store(p, late)
-------------------------------------------------------------------------------
(* RtpaGetQueuedPacket, until it returns NULL. *)
GetQueuedPacket ==
  /\ pc = "drain"
  /\ Ready(blocks, nextRtpSequenceNumber)
  /\ out' = IF blocks[1].nextDataPacketIndex \in blocks[1].got
            THEN Head16(blocks) + blocks[1].nextDataPacketIndex
            ELSE Concealed
  /\ NextPacket
  /\ IF blocks[1].nextDataPacketIndex + 1 = RTPA_DATA_SHARDS
     THEN FreeHead(blocks)
     ELSE /\ blocks' = [blocks EXCEPT ![1].nextDataPacketIndex = @ + 1]
          /\ UNCHANGED <<oldestRtpBaseSequenceNumber, synchronizing>>
  /\ arrived' = Since(nextRtpSequenceNumber', arrived)
  /\ UNCHANGED <<order, incompatibleServer, sent, pc>>

\* Nothing more is ready.
GetsNull ==
  /\ pc = "drain"
  /\ ~Ready(blocks, nextRtpSequenceNumber)
  /\ pc' = "receive"
  /\ UNCHANGED <<blocks, numbers, order, synchronizing, incompatibleServer, sent, out, arrived>>

Next ==
  \/ SendBlock
  \/ \E p \in Packet : Receive(p)
  \/ GetQueuedPacket
  \/ GetsNull

\* Some shard of the newest block comes, again and again, and finds memory.
NewestComes ==
  /\ pc = "receive"
  /\ \E i \in Shards : LET p == [base |-> sent, index |-> i] IN
       Tune(p) \/ InOrder(p) \/ \E late \in BOOLEAN : Store(p, late)

Spec == /\ Init /\ [][Next]_vars
        /\ WF_vars(SendBlock) /\ WF_vars(GetsNull) /\ SF_vars(NewestComes) /\ WF_vars(GetQueuedPacket)
-------------------------------------------------------------------------------
\* validateFecBlockState, RtpAudioQueue.c:62-104: the next packet is in the first
\* block or before it, never in a block that is over, and the blocks are sorted,
\* across the wrap of the sequence numbers.
FecBlockState ==
  /\ TypeOK
  /\ isBefore16(nextRtpSequenceNumber, oldestRtpBaseSequenceNumber) => synchronizing
  /\ blocks # << >> =>
       /\ isBefore16(nextRtpSequenceNumber, Head16(blocks) + RTPA_DATA_SHARDS)
       /\ ~isBefore16(Head16(blocks), oldestRtpBaseSequenceNumber)
  /\ \A i \in 1 .. Len(blocks) - 1 : isBefore16(blocks[i].base, blocks[i + 1].base)

\* While the host is heard the playback goes on: no block that stays short, no
\* lost block and no packet out of sequence holds it up for good.
PlaysOn == <>incompatibleServer \/ []<><<NextPacket>>_nextRtpSequenceNumber

\* Packets are played in sequence, each once, and none that has come or was
\* recovered in time is concealed or skipped.
Playout == INSTANCE AudioPlayout WITH pos <- nextRtpSequenceNumber, direct <- incompatibleServer
ImplementsPlayout == Playout!Spec
===============================================================================
