------------------------------ MODULE AudioProofs ------------------------------
(***************************************************************************)
(* The two halves of the audio path, each a specification of its own: the  *)
(* ring of decoded samples (AudioRing), and the queue that sorts the       *)
(* packets before they are decoded (RtpAudioQueue).                        *)
(***************************************************************************)
EXTENDS RtpAudioQueue, AudioRing, FiniteSetTheorems, SequenceTheorems, NaturalsInduction,
        WellFoundedInduction, TLAPS
-------------------------------------------------------------------------------
(***************************************************************************)
(* The index discipline of the ring, for every ring size of at least two   *)
(* slots and every set of samples, whether or not the CPU reorders loads;  *)
(* and, when it does not, that the device is given whole samples.          *)
(***************************************************************************)
\* The wrap-around increment in a form without division.
LEMMA SuccWraps ==
  ASSUME NEW i \in Slot
  PROVE  /\ Succ(i) \in Slot
         /\ Succ(i) = IF i = CIRCULAR_BUFFER_SIZE - 1 THEN 0 ELSE i + 1
<1>1. CASE i = CIRCULAR_BUFFER_SIZE - 1
  <2>1. (i + 1) % CIRCULAR_BUFFER_SIZE = 0
    BY <1>1, RingAssumption, Z3 DEF Slot
  <2> QED BY <2>1, <1>1, RingAssumption DEF Succ, Slot
<1>2. CASE i # CIRCULAR_BUFFER_SIZE - 1
  <2>1. i + 1 \in Nat /\ i + 1 < CIRCULAR_BUFFER_SIZE
    BY <1>2, RingAssumption DEF Slot
  <2>2. (i + 1) % CIRCULAR_BUFFER_SIZE = i + 1
    BY <2>1, RingAssumption, Z3
  <2> QED BY <2>1, <2>2, <1>2, RingAssumption DEF Succ, Slot
<1> QED BY <1>1, <1>2

\* Each step leaves every variable in its type (auddec.cpp as a whole).
THEOREM RingTypeCorrect == RingSpec => []RingTypeOK
<1>1. RingInit => RingTypeOK
  <2> SUFFICES ASSUME RingInit PROVE RingTypeOK
    OBVIOUS
  <2>1. 0 \in Slot
    BY RingAssumption DEF Slot
  <2>2. s_CircularBuffer \in [Slot -> Sample \cup {Garbage}]
    BY DEF RingInit
  <2>3. playing \in BOOLEAN /\ loadsReorder \in BOOLEAN
    BY DEF RingInit
  <2> QED BY <2>1, <2>2, <2>3 DEF RingInit, RingTypeOK
<1>2. RingTypeOK /\ [RingNext]_ringVars => RingTypeOK'
  <2> SUFFICES ASSUME RingTypeOK, [RingNext]_ringVars PROVE RingTypeOK'
    OBVIOUS
  <2> USE DEF RingTypeOK
  <2>1. CASE AudDecInit
    BY <2>1, RingAssumption DEF AudDecInit, Slot
  <2>2. CASE AudDecCleanup
    BY <2>2 DEF AudDecCleanup
  <2>3. CASE DecodeBegin
    BY <2>3 DEF DecodeBegin
  <2>4. ASSUME NEW s \in Sample, DecodeEnd(s) PROVE RingTypeOK'
    BY <2>4 DEF DecodeEnd
  <2>5. CASE DecodeError
    BY <2>5 DEF DecodeError
  <2>6. CASE Publish
    BY <2>6, SuccWraps DEF Publish
  <2>7. CASE CallbackEmpty
    BY <2>7 DEF CallbackEmpty
  <2>8. CASE CallbackBegin
    BY <2>8 DEF CallbackBegin
  <2>9. CASE CallbackCopy
    BY <2>9 DEF CallbackCopy
  <2>10. CASE CallbackAdvance
    BY <2>10, SuccWraps DEF CallbackAdvance
  <2>11. CASE CallbackPrefetch
    BY <2>11 DEF CallbackPrefetch
  <2>12. CASE CallbackLateTest
    BY <2>12 DEF CallbackLateTest
  <2>13. CASE UNCHANGED ringVars
    BY <2>13 DEF ringVars
  <2> QED
    BY <2>1, <2>2, <2>3, <2>4, <2>5, <2>6, <2>7, <2>8, <2>9, <2>10,
       <2>11, <2>12, <2>13 DEF RingNext, Decoder, Callback
<1> QED BY <1>1, <1>2, PTL DEF RingSpec
-------------------------------------------------------------------------------
(***************************************************************************)
(* The strengthening: neither side's test can be falsified by the other    *)
(* while the test is being relied on, and the slot about to be published   *)
(* holds a sample.  Playback stops only when both sides are idle, which is *)
(* what makes the reset of the indexes safe.                               *)
(***************************************************************************)
RingInv == /\ RingTypeOK
           /\ ChecksStayTrue
           /\ LiveSlotsWhole
           /\ decoder = "publish" => s_CircularBuffer[s_WriteIndex] \in Sample
           /\ ~playing => decoder = "idle" /\ callback = "idle"

LEMMA RingInvInit == RingInit /\ RingTypeOK => RingInv
<1> SUFFICES ASSUME RingInit, RingTypeOK PROVE RingInv
  OBVIOUS
<1>1. \A i \in Slot : ~Live(i)
  BY DEF RingInit, Live, Slot
<1> QED BY <1>1 DEF RingInit, RingInv, ChecksStayTrue, LiveSlotsWhole

\* A decoder that found room fills a slot outside the live ones.
LEMMA DecoderSlotNotLive ==
  ASSUME RingTypeOK PROVE ~Live(s_WriteIndex)
BY DEF RingTypeOK, Live, Slot

LEMMA RingInvStep == RingInv /\ RingTypeOK' /\ [RingNext]_ringVars => RingInv'
<1> SUFFICES ASSUME RingInv, RingTypeOK', [RingNext]_ringVars PROVE RingInv'
  OBVIOUS
<1> USE DEF RingInv
<1>1. CASE AudDecInit
  BY <1>1, RingAssumption DEF AudDecInit, ChecksStayTrue, LiveSlotsWhole, Live, Slot
<1>2. CASE AudDecCleanup
  BY <1>2 DEF AudDecCleanup, ChecksStayTrue, LiveSlotsWhole, Live
<1>3. CASE DecodeBegin
  <2>1. ChecksStayTrue'
    BY <1>3 DEF DecodeBegin, ChecksStayTrue
  <2>2. LiveSlotsWhole'
    BY <1>3, DecoderSlotNotLive DEF DecodeBegin, LiveSlotsWhole, Live, RingTypeOK
  <2> QED BY <2>1, <2>2, <1>3 DEF DecodeBegin
<1>4. ASSUME NEW s \in Sample, DecodeEnd(s) PROVE RingInv'
  <2>1. ChecksStayTrue'
    BY <1>4 DEF DecodeEnd, ChecksStayTrue
  <2>2. LiveSlotsWhole'
    BY <1>4 DEF DecodeEnd, LiveSlotsWhole, Live, RingTypeOK
  <2> QED BY <2>1, <2>2, <1>4 DEF DecodeEnd, RingTypeOK
<1>5. CASE DecodeError
  BY <1>5 DEF DecodeError, ChecksStayTrue, LiveSlotsWhole, Live
<1>6. CASE Publish
  <2>1. s_WriteIndex' = IF s_WriteIndex = CIRCULAR_BUFFER_SIZE - 1
                        THEN 0 ELSE s_WriteIndex + 1
    BY <1>6, SuccWraps DEF Publish, RingTypeOK
  <2>2. s_WriteIndex' # s_ReadIndex
    BY <1>6 DEF Publish, ChecksStayTrue
  <2>3. ChecksStayTrue'
    BY <1>6, <2>2 DEF Publish, ChecksStayTrue
  <2>4. ASSUME NEW i \in Slot, Live(i)' PROVE i = s_WriteIndex \/ Live(i)
    BY <1>6, <2>1, <2>2, <2>4, RingAssumption DEF Publish, Live, RingTypeOK, Slot
  <2>5. LiveSlotsWhole'
    BY <1>6, <2>4 DEF Publish, LiveSlotsWhole
  <2> QED BY <2>3, <2>5, <1>6 DEF Publish
<1>7. CASE CallbackEmpty
  BY <1>7 DEF CallbackEmpty, ChecksStayTrue, LiveSlotsWhole, Live
<1>8. CASE CallbackBegin
  BY <1>8 DEF CallbackBegin, ChecksStayTrue, LiveSlotsWhole, Live
<1>9. CASE CallbackCopy
  BY <1>9 DEF CallbackCopy, ChecksStayTrue, LiveSlotsWhole, Live
<1>10. CASE CallbackAdvance
  <2>1. s_ReadIndex' = IF s_ReadIndex = CIRCULAR_BUFFER_SIZE - 1
                       THEN 0 ELSE s_ReadIndex + 1
    BY <1>10, SuccWraps DEF CallbackAdvance, RingTypeOK
  <2>2. s_WriteIndex # s_ReadIndex
    BY <1>10 DEF CallbackAdvance, ChecksStayTrue
  <2>3. Succ(s_WriteIndex) = IF s_WriteIndex = CIRCULAR_BUFFER_SIZE - 1
                             THEN 0 ELSE s_WriteIndex + 1
    BY SuccWraps DEF RingTypeOK
  <2>4. Succ(s_WriteIndex) # s_ReadIndex'
    BY <2>1, <2>2, <2>3 DEF RingTypeOK, Slot
  <2>5. ChecksStayTrue'
    BY <1>10, <2>4 DEF CallbackAdvance, ChecksStayTrue, Succ
  <2>6. ASSUME NEW i \in Slot, Live(i)' PROVE Live(i)
    BY <1>10, <2>1, <2>2, <2>6, RingAssumption DEF CallbackAdvance, Live, RingTypeOK, Slot
  <2>7. LiveSlotsWhole'
    BY <1>10, <2>6 DEF CallbackAdvance, LiveSlotsWhole
  <2> QED BY <2>5, <2>7, <1>10 DEF CallbackAdvance
<1>11. CASE CallbackPrefetch
  BY <1>11 DEF CallbackPrefetch, ChecksStayTrue, LiveSlotsWhole, Live
<1>12. CASE CallbackLateTest
  BY <1>12 DEF CallbackLateTest, ChecksStayTrue, LiveSlotsWhole, Live
<1>13. CASE UNCHANGED ringVars
  BY <1>13 DEF ringVars, ChecksStayTrue, LiveSlotsWhole, Live
<1> QED
  BY <1>1, <1>2, <1>3, <1>4, <1>5, <1>6, <1>7, <1>8, <1>9, <1>10, <1>11,
     <1>12, <1>13 DEF RingNext, Decoder, Callback

LEMMA RingInvariant == RingSpec => []RingInv
<1>1. RingInv /\ RingTypeOK' /\ [RingNext]_ringVars => RingInv'
  BY RingInvStep
<1> QED BY RingInvInit, <1>1, RingTypeCorrect, PTL DEF RingSpec

\* The tests of auddec.cpp:22 and :73 remain true for as long as the code
\* relies on them, although they are made without a lock.
THEOREM ChecksHold == RingSpec => []ChecksStayTrue
BY RingInvariant, PTL DEF RingInv

\* Every published, unreleased slot holds a completely decoded sample: the
\* decoder never overwrites one, whatever the two threads' speeds.
THEOREM NoOverwrite == RingSpec => []LiveSlotsWhole
BY RingInvariant, PTL DEF RingInv
-------------------------------------------------------------------------------
\* Without reordering of loads, what the callback hands over is a sample.
CopyInv == /\ ~loadsReorder => callback # "prefetched"
           /\ ReleasesSamples

\* auddec.cpp:21 is right on a machine that keeps loads in order.
THEOREM WholeSamples == RingSpec => []ReleasesSamples
<1>1. RingInit => CopyInv
  BY DEF RingInit, CopyInv, ReleasesSamples
<1>2. CopyInv /\ RingInv /\ [RingNext]_ringVars => CopyInv'
  <2> SUFFICES ASSUME CopyInv, RingInv, [RingNext]_ringVars PROVE CopyInv'
    OBVIOUS
  <2>1. CASE CallbackCopy
    <3>1. Live(s_ReadIndex)
      BY <2>1 DEF CallbackCopy, RingInv, RingTypeOK, ChecksStayTrue, Live, Slot
    <3>2. s_CircularBuffer[s_ReadIndex] \in Sample
      BY <3>1 DEF RingInv, RingTypeOK, LiveSlotsWhole
    <3> QED BY <3>2, <2>1 DEF CallbackCopy, CopyInv, ReleasesSamples
  <2>2. CASE ~CallbackCopy
    BY <2>2 DEF CopyInv, ReleasesSamples, RingNext, ringVars, AudDecInit, AudDecCleanup,
         Decoder, DecodeBegin, DecodeEnd, DecodeError, Publish, Callback, CallbackEmpty,
         CallbackBegin, CallbackAdvance, CallbackPrefetch, CallbackLateTest
  <2> QED BY <2>1, <2>2
<1>3. CopyInv => ReleasesSamples
  BY DEF CopyInv
<1> QED BY <1>1, <1>2, <1>3, RingInvariant, PTL DEF RingSpec
-------------------------------------------------------------------------------
(***************************************************************************)
(* The ring implements SampleFifo: its safety half, for every size.  The   *)
(* queue is what the slots from the read index on hold; only Publish and   *)
(* CallbackAdvance change it, since the decoder writes past its end.       *)
(***************************************************************************)
Queue == [k \in 1 .. Waiting |->
            s_CircularBuffer[(s_ReadIndex + k - 1) % CIRCULAR_BUFFER_SIZE]]

\* The k-th slot from the read index on, without division.
At(k) == IF s_ReadIndex + k - 1 < CIRCULAR_BUFFER_SIZE
         THEN s_ReadIndex + k - 1 ELSE s_ReadIndex + k - 1 - CIRCULAR_BUFFER_SIZE

LEMMA IndexWraps ==
  ASSUME NEW n \in Nat, n < 2 * CIRCULAR_BUFFER_SIZE
  PROVE  /\ n < CIRCULAR_BUFFER_SIZE => n % CIRCULAR_BUFFER_SIZE = n
         /\ n >= CIRCULAR_BUFFER_SIZE => n % CIRCULAR_BUFFER_SIZE = n - CIRCULAR_BUFFER_SIZE
<1>1. CASE n < CIRCULAR_BUFFER_SIZE
  BY <1>1, RingAssumption, Z3
<1>2. CASE ~(n < CIRCULAR_BUFFER_SIZE)
  <2>1. n - CIRCULAR_BUFFER_SIZE \in 0 .. CIRCULAR_BUFFER_SIZE - 1
    BY <1>2, RingAssumption
  <2>2. n % CIRCULAR_BUFFER_SIZE = n - CIRCULAR_BUFFER_SIZE
    BY <1>2, <2>1, RingAssumption, Z3
  <2> QED BY <1>2, <2>2
<1> QED BY <1>1, <1>2, RingAssumption

LEMMA QueueIs ==
  RingTypeOK => /\ Waiting \in 0 .. CIRCULAR_BUFFER_SIZE - 1
            /\ Queue = [k \in 1 .. Waiting |-> s_CircularBuffer[At(k)]]
            /\ \A k \in 1 .. Waiting : At(k) \in Slot /\ Live(At(k))
            /\ Queue \in Seq(Sample \cup {Garbage}) /\ Len(Queue) = Waiting
<1> SUFFICES ASSUME RingTypeOK
             PROVE  /\ Waiting \in 0 .. CIRCULAR_BUFFER_SIZE - 1
                    /\ Queue = [k \in 1 .. Waiting |-> s_CircularBuffer[At(k)]]
                    /\ \A k \in 1 .. Waiting : At(k) \in Slot /\ Live(At(k))
                    /\ Queue \in Seq(Sample \cup {Garbage}) /\ Len(Queue) = Waiting
  OBVIOUS
<1>1. /\ CIRCULAR_BUFFER_SIZE \in Nat /\ s_ReadIndex \in 0 .. CIRCULAR_BUFFER_SIZE - 1
      /\ s_WriteIndex \in 0 .. CIRCULAR_BUFFER_SIZE - 1
      /\ s_CircularBuffer \in [Slot -> Sample \cup {Garbage}]
  BY RingAssumption DEF RingTypeOK, Slot
<1>2. Waiting \in 0 .. CIRCULAR_BUFFER_SIZE - 1
  BY <1>1 DEF Waiting
<1>3. ASSUME NEW k \in 1 .. Waiting
      PROVE  /\ (s_ReadIndex + k - 1) % CIRCULAR_BUFFER_SIZE = At(k)
             /\ At(k) \in Slot /\ Live(At(k))
  <2>1. s_ReadIndex + k - 1 \in Nat /\ s_ReadIndex + k - 1 < 2 * CIRCULAR_BUFFER_SIZE
    BY <1>1, <1>2
  <2>2. (s_ReadIndex + k - 1) % CIRCULAR_BUFFER_SIZE = At(k)
    <3> DEFINE n == s_ReadIndex + k - 1
    <3>1. n \in Nat /\ n < 2 * CIRCULAR_BUFFER_SIZE
      BY <2>1
    <3> HIDE DEF n
    <3>2. /\ n < CIRCULAR_BUFFER_SIZE => n % CIRCULAR_BUFFER_SIZE = n
          /\ n >= CIRCULAR_BUFFER_SIZE => n % CIRCULAR_BUFFER_SIZE = n - CIRCULAR_BUFFER_SIZE
      BY <3>1, IndexWraps
    <3>3. n % CIRCULAR_BUFFER_SIZE =
            IF n < CIRCULAR_BUFFER_SIZE THEN n ELSE n - CIRCULAR_BUFFER_SIZE
      BY <3>1, <3>2, RingAssumption
    <3>4. At(k) = IF n < CIRCULAR_BUFFER_SIZE THEN n ELSE n - CIRCULAR_BUFFER_SIZE
      BY <1>1, <1>2, <2>1 DEF n, At
    <3>5. n % CIRCULAR_BUFFER_SIZE = At(k)
      BY <3>3, <3>4
    <3> QED BY <3>5, Zenon DEF n
  <2>3. At(k) \in Slot /\ Live(At(k))
    BY <1>1, <1>2 DEF At, Slot, Live, Waiting
  <2> QED BY <2>2, <2>3
<1>4. Queue = [k \in 1 .. Waiting |-> s_CircularBuffer[At(k)]]
  BY <1>3 DEF Queue
<1>5. \A k \in 1 .. Waiting : s_CircularBuffer[At(k)] \in Sample \cup {Garbage}
  BY <1>1, <1>3
<1>6. Queue \in Seq(Sample \cup {Garbage}) /\ Len(Queue) = Waiting
  BY <1>2, <1>4, <1>5
<1> QED BY <1>2, <1>3, <1>4, <1>6

LEMMA QueueIsSeq ==
  RingTypeOK => /\ Queue = [k \in 1 .. Waiting |-> s_CircularBuffer[At(k)]]
            /\ Queue \in Seq(Sample \cup {Garbage}) /\ Len(Queue) = Waiting
BY QueueIs

LEMMA QueueIsNext ==
  RingTypeOK' => /\ Queue' = [k \in 1 .. Waiting' |-> s_CircularBuffer'[At(k)']]
             /\ Queue' \in Seq(Sample \cup {Garbage}) /\ Len(Queue') = Waiting'
<1>1. (RingTypeOK => /\ Queue = [k \in 1 .. Waiting |-> s_CircularBuffer[At(k)]]
                 /\ Queue \in Seq(Sample \cup {Garbage}) /\ Len(Queue) = Waiting)'
  BY QueueIsSeq, PTL
<1> QED BY <1>1

\* A step that moves no index and writes to no live slot is no step of the queue.
LEMMA QueueKept ==
  ASSUME RingTypeOK, RingTypeOK', UNCHANGED <<s_ReadIndex, s_WriteIndex>>,
         \A i \in Slot : Live(i) => s_CircularBuffer'[i] = s_CircularBuffer[i]
  PROVE  Queue' = Queue
<1>1. Waiting' = Waiting /\ \A k \in 1 .. Waiting : At(k)' = At(k)
  BY DEF At, Waiting
<1>2. /\ Queue = [k \in 1 .. Waiting |-> s_CircularBuffer[At(k)]]
      /\ \A k \in 1 .. Waiting : At(k) \in Slot /\ Live(At(k))
  BY QueueIs
<1>3. Queue' = [k \in 1 .. Waiting' |-> s_CircularBuffer'[At(k)']]
  BY QueueIsNext
<1> QED BY <1>1, <1>2, <1>3

\* The callback's copy is of the slot it will release, where loads stay in order.
HeadInv ==
  /\ callback \in {"prefetched", "advance"} => samples \in Sample \cup {Garbage}
  /\ ~loadsReorder => callback # "prefetched"
  /\ ~loadsReorder /\ callback = "advance" => samples = s_CircularBuffer[s_ReadIndex]

LEMMA HeadStep == RingInv /\ HeadInv /\ [RingNext]_ringVars => HeadInv'
<1> SUFFICES ASSUME RingInv, HeadInv, [RingNext]_ringVars PROVE HeadInv'
  OBVIOUS
<1> USE DEF HeadInv
<1>0. /\ s_CircularBuffer \in [Slot -> Sample \cup {Garbage}]
      /\ s_ReadIndex \in Slot /\ s_WriteIndex \in Slot
  BY DEF RingInv, RingTypeOK
<1>1. CASE AudDecInit \/ AudDecCleanup
  BY <1>1 DEF AudDecInit, AudDecCleanup, RingInv
<1>2. CASE Decoder
  <2>1. UNCHANGED <<s_ReadIndex, callback, samples, loadsReorder>>
    BY <1>2 DEF Decoder, DecodeBegin, DecodeEnd, DecodeError, Publish
  <2>2. callback = "advance" => s_CircularBuffer'[s_ReadIndex] = s_CircularBuffer[s_ReadIndex]
    <3>1. callback = "advance" => s_WriteIndex # s_ReadIndex
      BY DEF RingInv, ChecksStayTrue
    <3>2. \/ s_CircularBuffer' = s_CircularBuffer
          \/ \E v : s_CircularBuffer' = [s_CircularBuffer EXCEPT ![s_WriteIndex] = v]
      BY <1>2 DEF Decoder, DecodeBegin, DecodeEnd, DecodeError, Publish
    <3> QED BY <1>0, <3>1, <3>2
  <2> QED BY <2>1, <2>2
<1>3. CASE CallbackCopy
  BY <1>0, <1>3 DEF CallbackCopy
<1>4. CASE CallbackPrefetch
  BY <1>0, <1>4 DEF CallbackPrefetch
<1>5. CASE CallbackEmpty \/ CallbackBegin \/ CallbackAdvance \/ CallbackLateTest
  BY <1>5 DEF CallbackEmpty, CallbackBegin, CallbackAdvance, CallbackLateTest
<1>6. CASE UNCHANGED ringVars
  BY <1>6 DEF ringVars
<1> QED BY <1>1, <1>2, <1>3, <1>4, <1>5, <1>6 DEF RingNext, Callback

LEMMA PublishMaps ==
  ASSUME RingInv, RingTypeOK', Publish
  PROVE  \E s \in Sample : Fifo!Accept(s)
<1>1. /\ s_CircularBuffer' = s_CircularBuffer /\ s_ReadIndex' = s_ReadIndex
      /\ UNCHANGED <<device, playing, loadsReorder>> /\ playing
      /\ s_CircularBuffer[s_WriteIndex] \in Sample
  BY DEF Publish, RingInv
<1>2. /\ s_WriteIndex' = IF s_WriteIndex = CIRCULAR_BUFFER_SIZE - 1 THEN 0 ELSE s_WriteIndex + 1
      /\ s_WriteIndex' # s_ReadIndex
      /\ s_ReadIndex \in Slot /\ s_WriteIndex \in Slot
  BY SuccWraps DEF Publish, RingInv, RingTypeOK, ChecksStayTrue
<1>3. Waiting' = Waiting + 1 /\ Waiting < CIRCULAR_BUFFER_SIZE - 1
  BY <1>1, <1>2, RingAssumption DEF Waiting, Slot
<1>4. At(Waiting + 1) = s_WriteIndex
  BY <1>2, RingAssumption DEF At, Waiting, Slot
<1>5. \A k \in 1 .. Waiting + 1 : At(k)' = At(k)
  BY <1>1 DEF At
<1>6. /\ Queue = [k \in 1 .. Waiting |-> s_CircularBuffer[At(k)]]
      /\ Waiting \in Nat /\ Queue \in Seq(Sample \cup {Garbage}) /\ Len(Queue) = Waiting
  BY QueueIs DEF RingInv
<1>7. Queue' = [k \in 1 .. Waiting' |-> s_CircularBuffer'[At(k)']]
  BY QueueIsNext
<1>8. Queue' = Append(Queue, s_CircularBuffer[s_WriteIndex])
  BY <1>1, <1>3, <1>4, <1>5, <1>6, <1>7
<1>9. PICK s \in Sample : s = s_CircularBuffer[s_WriteIndex]
  BY <1>1
<1>10. Fifo!Accept(s)
  BY <1>1, <1>3, <1>6, <1>8, <1>9 DEF Fifo!Accept, Queue
<1> QED BY <1>10

LEMMA AdvanceMaps ==
  ASSUME RingInv, HeadInv, RingTypeOK', CallbackAdvance
  PROVE  Fifo!Play
<1>1. /\ s_CircularBuffer' = s_CircularBuffer /\ s_WriteIndex' = s_WriteIndex
      /\ UNCHANGED <<playing, loadsReorder>> /\ playing
      /\ device' = samples /\ device' \in Sample \cup {Garbage}
      /\ ~loadsReorder => device' = s_CircularBuffer[s_ReadIndex]
  BY DEF CallbackAdvance, RingInv, HeadInv
<1>2. /\ s_ReadIndex' = IF s_ReadIndex = CIRCULAR_BUFFER_SIZE - 1 THEN 0 ELSE s_ReadIndex + 1
      /\ s_WriteIndex # s_ReadIndex
      /\ s_ReadIndex \in Slot /\ s_WriteIndex \in Slot
  BY SuccWraps DEF CallbackAdvance, RingInv, RingTypeOK, ChecksStayTrue
<1>3. Waiting' = Waiting - 1 /\ Waiting > 0
  BY <1>1, <1>2, RingAssumption DEF Waiting, Slot
<1>4. At(1) = s_ReadIndex
  BY <1>2, RingAssumption DEF At, Slot
<1>5. /\ Queue = [k \in 1 .. Waiting |-> s_CircularBuffer[At(k)]]
      /\ Waiting \in 0 .. CIRCULAR_BUFFER_SIZE - 1
      /\ Queue \in Seq(Sample \cup {Garbage}) /\ Len(Queue) = Waiting
  BY QueueIs DEF RingInv
<1>6. \A k \in 1 .. Waiting - 1 : At(k)' = At(k + 1)
  BY <1>2, <1>5, RingAssumption DEF At, Slot
<1>7. Queue' = [k \in 1 .. Waiting' |-> s_CircularBuffer'[At(k)']]
  BY QueueIsNext
<1>8. Queue' = Tail(Queue) /\ Queue # << >> /\ Head(Queue) = s_CircularBuffer[s_ReadIndex]
  <2>1. Queue # << >> /\ Head(Queue) = s_CircularBuffer[s_ReadIndex]
    BY <1>3, <1>4, <1>5
  <2>2. /\ Tail(Queue) \in Seq(Sample \cup {Garbage}) /\ Len(Tail(Queue)) = Waiting - 1
        /\ \A k \in 1 .. Waiting - 1 : Tail(Queue)[k] = Queue[k + 1]
    BY <1>3, <1>5
  <2>3. Queue' \in Seq(Sample \cup {Garbage}) /\ Len(Queue') = Waiting - 1
    BY <1>3, QueueIsNext
  <2>4. \A k \in 1 .. Waiting - 1 : Queue'[k] = Tail(Queue)[k]
    BY <1>1, <1>3, <1>5, <1>6, <1>7, <2>2
  <2>5. Queue' = Tail(Queue)
    BY <2>2, <2>3, <2>4
  <2> QED BY <2>1, <2>5
<1> QED BY <1>1, <1>8 DEF Fifo!Play, Queue

\* The decoded samples reach the device in order, none twice and none left out,
\* and silence only when nothing waits (auddec.cpp:19-34 and 66-88).
THEOREM RingIsFifo == RingSpec => Fifo!Init /\ [][Fifo!Next]_(Fifo!vars)
<1>1. RingInit => Fifo!Init
  <2> SUFFICES ASSUME RingInit PROVE Fifo!Init
    OBVIOUS
  <2>1. Waiting = 0
    BY DEF RingInit, Waiting
  <2>2. Queue = << >>
    BY <2>1 DEF Queue
  <2> QED BY <2>2 DEF RingInit, Fifo!Init, Queue
<1>2. ASSUME RingInv, HeadInv, RingTypeOK', [RingNext]_ringVars
      PROVE  [Fifo!Next]_(Fifo!vars)
  <2>s. ASSUME Queue' = Queue, UNCHANGED <<device, playing, loadsReorder>>
        PROVE  [Fifo!Next]_(Fifo!vars)
    BY <2>s DEF Fifo!vars, Queue
  <2>0. RingTypeOK
    BY <1>2 DEF RingInv
  <2>k. ASSUME UNCHANGED <<s_CircularBuffer, s_ReadIndex, s_WriteIndex>> PROVE Queue' = Queue
    BY <2>k DEF Queue, Waiting
  <2>e. s_WriteIndex = s_ReadIndex => Queue = << >>
    BY <2>0, RingAssumption DEF Queue, Waiting, RingTypeOK, Slot
  <2>1. CASE AudDecInit
    <3>1. Waiting' = 0
      BY <2>1 DEF AudDecInit, Waiting
    <3>2. Queue' = << >>
      BY <3>1 DEF Queue
    <3>3. Fifo!Start
      BY <2>1, <3>2 DEF AudDecInit, Fifo!Start, Queue
    <3> QED BY <3>3 DEF Fifo!Next
  <2>2. CASE AudDecCleanup
    <3>1. Fifo!Stop
      BY <2>2, <2>k DEF AudDecCleanup, Fifo!Stop, Queue
    <3> QED BY <3>1 DEF Fifo!Next
  <2>3. CASE DecodeBegin \/ (\E s \in Sample : DecodeEnd(s)) \/ DecodeError
    <3>1. UNCHANGED <<s_ReadIndex, s_WriteIndex, device, playing, loadsReorder>>
      BY <2>3 DEF DecodeBegin, DecodeEnd, DecodeError
    <3>2. \/ s_CircularBuffer' = s_CircularBuffer
          \/ \E v : s_CircularBuffer' = [s_CircularBuffer EXCEPT ![s_WriteIndex] = v]
      BY <2>3 DEF DecodeBegin, DecodeEnd, DecodeError
    <3>3. \A i \in Slot : Live(i) => s_CircularBuffer'[i] = s_CircularBuffer[i]
      BY <2>0, <3>2, DecoderSlotNotLive DEF RingTypeOK
    <3> QED BY <1>2, <2>0, <2>s, <3>1, <3>3, QueueKept
  <2>4. CASE Publish
    BY <1>2, <2>4, PublishMaps DEF Fifo!Next
  <2>5. CASE CallbackEmpty
    <3>1. Fifo!Underrun
      BY <2>5, <2>e, <2>k DEF CallbackEmpty, Fifo!Underrun, Queue
    <3> QED BY <3>1 DEF Fifo!Next
  <2>6. CASE CallbackBegin \/ CallbackCopy \/ CallbackPrefetch
    BY <2>6, <2>k, <2>s DEF CallbackBegin, CallbackCopy, CallbackPrefetch
  <2>7. CASE CallbackAdvance
    BY <1>2, <2>7, AdvanceMaps DEF Fifo!Next
  <2>8. CASE CallbackLateTest
    <3>1. /\ UNCHANGED <<s_CircularBuffer, s_ReadIndex, s_WriteIndex, playing, loadsReorder>>
          /\ playing
      BY <1>2, <2>8 DEF CallbackLateTest, RingInv
    <3>2. CASE s_WriteIndex # s_ReadIndex
      BY <2>8, <2>k, <2>s, <3>1, <3>2 DEF CallbackLateTest
    <3>3. CASE s_WriteIndex = s_ReadIndex
      <4>1. Fifo!Underrun
        BY <2>8, <2>e, <2>k, <3>1, <3>3 DEF CallbackLateTest, Fifo!Underrun, Queue
      <4> QED BY <4>1 DEF Fifo!Next
    <3> QED BY <3>2, <3>3
  <2>9. CASE UNCHANGED ringVars
    BY <2>9, <2>k, <2>s DEF ringVars
  <2> QED
    BY <1>2, <2>1, <2>2, <2>3, <2>4, <2>5, <2>6, <2>7, <2>8, <2>9 DEF RingNext, Decoder, Callback
<1>3. RingInit => HeadInv
  BY DEF RingInit, HeadInv
<1> QED BY <1>1, <1>2, <1>3, HeadStep, RingInvariant, RingTypeCorrect, PTL DEF RingSpec
-------------------------------------------------------------------------------
(***************************************************************************)
(* The queue, for every size of its blocks, however far the host is ahead  *)
(* and however late shards come, over sequence numbers that wrap: the list *)
(* of blocks stays in order, and packets are played in sequence.           *)
(***************************************************************************)
(***************************************************************************)
(* Sequence numbers and blocks.                                            *)
(***************************************************************************)
H == (W - 1) \div 2
M == W \div 2

LEMMA Sizes ==
  /\ W \in Nat \ {0} /\ RTPA_DATA_SHARDS \in Nat \ {0} /\ H \in Nat /\ M \in Nat
  /\ 2 * M <= W /\ W <= 2 * M + 1 /\ H <= M /\ M <= H + 1
  /\ M + H + 1 <= W
  /\ Lead * RTPA_DATA_SHARDS \in Nat /\ Reach * RTPA_DATA_SHARDS \in Nat
  /\ (Lead + 1) * RTPA_DATA_SHARDS = Lead * RTPA_DATA_SHARDS + RTPA_DATA_SHARDS
  /\ (Reach - 1) * RTPA_DATA_SHARDS = Reach * RTPA_DATA_SHARDS - RTPA_DATA_SHARDS
  /\ Lead * RTPA_DATA_SHARDS + RTPA_DATA_SHARDS <= M /\ Reach * RTPA_DATA_SHARDS <= M
  /\ RTPA_DATA_SHARDS <= Lead * RTPA_DATA_SHARDS /\ RTPA_DATA_SHARDS <= Reach * RTPA_DATA_SHARDS
<1>1. W \in Nat \ {0} /\ RTPA_DATA_SHARDS \in Nat \ {0} /\ Lead \in Nat \ {0} /\ Reach \in Nat \ {0}
  BY RtpAudioAssumption
<1>2. /\ (Lead + 1) * RTPA_DATA_SHARDS <= M /\ Reach * RTPA_DATA_SHARDS <= M
  BY RtpAudioAssumption DEF M
<1>3. /\ H \in Nat /\ M \in Nat /\ 2 * M <= W /\ W <= 2 * M + 1 /\ H <= M /\ M <= H + 1
      /\ M + H + 1 <= W
  BY <1>1, Z3 DEF H, M
<1>4. \A k, d \in Nat \ {0} : /\ k * d \in Nat /\ (k + 1) * d = k * d + d
                              /\ (k - 1) * d = k * d - d /\ d <= k * d
  <2>1. \A k, d \in Nat : /\ k * d \in Nat /\ (k + 1) * d = k * d + d /\ (k - 1) * d = k * d - d
    BY Z3
  <2>2. ASSUME NEW k \in Nat \ {0}, NEW d \in Nat \ {0} PROVE d <= k * d
    <3>1. PICK j \in Nat : k = j + 1
      <4>1. k - 1 \in Nat /\ k = (k - 1) + 1
        OBVIOUS
      <4> QED BY <4>1
    <3>2. k * d = j * d + d /\ j * d \in Nat
      BY <2>1, <3>1
    <3> QED BY <3>2
  <2> QED BY <2>1, <2>2
<1> QED BY <1>1, <1>2, <1>3, <1>4

LEMMA ModRange == \A x \in Int : x % W \in 0 .. W - 1
BY Sizes

LEMMA ModIs ==
  ASSUME NEW x \in Int
  PROVE  \E m \in Int : m = x % W /\ m \in 0 .. W - 1 /\ m >= 0 /\ m < W
<1>1. x % W \in 0 .. W - 1
  BY ModRange
<1> QED BY <1>1, Sizes

LEMMA ModUnique ==
  ASSUME NEW x \in Int, NEW d \in Int, NEW r \in 0 .. W - 1, x = d * W + r
  PROVE  x % W = r
BY Sizes

LEMMA ModDef ==
  ASSUME NEW x \in Int PROVE \E d \in Int : x = d * W + (x % W)
<1> DEFINE d == x \div W
<1>1. d \in Int /\ x = d * W + (x % W)
  BY Sizes, Z3
<1> HIDE DEF d
<1> QED BY <1>1

\* What is added may be reduced first.
LEMMA ModAdd ==
  ASSUME NEW x \in Int, NEW y \in Int PROVE (x + y) % W = ((x % W) + y) % W
<1>1. PICK c \in Int : x = c * W + (x % W)
  BY ModDef
<1>2. PICK m \in 0 .. W - 1 : m = x % W
  BY ModRange
<1>3. m \in Int /\ m + y \in Int
  BY <1>2, Sizes
<1>4. PICK d \in Int : m + y = d * W + ((m + y) % W)
  BY <1>3, ModDef
<1>5. PICK r \in 0 .. W - 1 : r = (m + y) % W
  BY <1>3, ModRange
<1>6. x + y = (c + d) * W + r
  <2>1. \A i, j \in Int : (i + j) * W = i * W + j * W
    BY Sizes, Z3
  <2>2. PICK e \in Int, f \in Int : e = c * W /\ f = d * W
    BY Sizes
  <2>3. (c + d) * W = e + f
    BY <2>1, <2>2
  <2>4. x = e + m /\ m + y = f + r
    BY <1>1, <1>2, <1>4, <1>5, <2>2
  <2>5. r \in Int
    BY <1>5, Sizes
  <2>6. \A i, j, k, l, n \in Int : n = i + k /\ k + y = j + l => n + y = (i + j) + l
    OBVIOUS
  <2>7. x + y = (e + f) + r
    BY <1>3, <2>2, <2>4, <2>5, <2>6
  <2> QED BY <2>3, <2>7
<1>7. (x + y) % W = r
  BY <1>6, ModUnique
<1> QED BY <1>2, <1>5, <1>7

\* A number that is small already, or a little too small or too large.
LEMMA ModSmall ==
  ASSUME NEW x \in Int
  PROVE  /\ x \in 0 .. W - 1 => x % W = x
         /\ x \in W .. 2 * W - 1 => x % W = x - W
         /\ x \in -W .. -1 => x % W = x + W
<1>1. /\ x \in 0 .. W - 1 => x = 0 * W + x
      /\ x \in W .. 2 * W - 1 => x = 1 * W + (x - W) /\ x - W \in 0 .. W - 1
      /\ x \in -W .. -1 => x = (-1) * W + (x + W) /\ x + W \in 0 .. W - 1
  BY Sizes
<1> QED BY <1>1, ModUnique

\* Blocks begin at the multiples of their size.
Mult == {k * RTPA_DATA_SHARDS : k \in Int}

LEMMA MultIs ==
  /\ 0 \in Mult /\ RTPA_DATA_SHARDS \in Mult /\ W \in Mult
  /\ \A x \in Mult : x \in Int /\ (x > 0 => x >= RTPA_DATA_SHARDS)
  /\ \A x, y \in Mult : x + y \in Mult /\ x - y \in Mult
<1> DEFINE d == RTPA_DATA_SHARDS
<1>1. d \in Nat \ {0} /\ W \in Nat \ {0} /\ W % d = 0
  BY RtpAudioAssumption
<1> HIDE DEF d
<1>2. Mult = {k * d : k \in Int}
  BY DEF Mult, d
<1>3. 0 = 0 * d /\ d = 1 * d /\ W = (W \div d) * d /\ W \div d \in Int
  BY <1>1, Z3
<1>4. ASSUME NEW x \in Mult PROVE x \in Int /\ (x > 0 => x >= d)
  <2>1. PICK k \in Int : x = k * d
    BY <1>2
  <2>2. k <= 0 => k * d <= 0
    BY <1>1, Z3
  <2>3. k >= 1 => k * d >= d
    BY <1>1, Z3
  <2>4. k * d \in Int
    BY <1>1
  <2> QED BY <1>1, <2>1, <2>2, <2>3, <2>4
<1>5. ASSUME NEW x \in Mult, NEW y \in Mult PROVE x + y \in Mult /\ x - y \in Mult
  <2>1. PICK k \in Int, l \in Int : x = k * d /\ y = l * d
    BY <1>2
  <2>2. k * d + l * d = (k + l) * d /\ k * d - l * d = (k - l) * d
    BY <1>1, Z3
  <2>3. k + l \in Int /\ k - l \in Int
    OBVIOUS
  <2> QED BY <1>2, <2>1, <2>2, <2>3
<1> QED BY <1>2, <1>3, <1>4, <1>5 DEF d

LEMMA MultMod == \A x \in Mult : x % W \in Mult
<1> SUFFICES ASSUME NEW x \in Mult PROVE x % W \in Mult
  OBVIOUS
<1>1. PICK i \in Int : x = i * W + (x % W)
  BY MultIs, ModDef
<1>2. PICK m \in 0 .. W - 1 : m = x % W
  BY MultIs, ModRange
<1>3. i * W \in Mult
  <2>1. PICK w \in Int : W = w * RTPA_DATA_SHARDS
    BY MultIs DEF Mult
  <2>2. PICK d \in Int : d = RTPA_DATA_SHARDS
    BY Sizes
  <2>3. i * (w * d) = (i * w) * d /\ i * w \in Int
    BY Z3
  <2> QED BY <2>1, <2>2, <2>3 DEF Mult
<1>4. PICK e \in Mult : e = i * W
  BY <1>3
<1>5. x - e \in Mult /\ x \in Int /\ e \in Int /\ m \in Int
  BY <1>4, MultIs
<1>6. m = x - e
  BY <1>1, <1>2, <1>4, <1>5
<1> QED BY <1>2, <1>5, <1>6

LEMMA BaseOfIs ==
  ASSUME NEW n \in Seq16
  PROVE  /\ BaseOf(n) \in Seq16 /\ BaseOf(n) \in Mult /\ BaseOf(n) \in Int
         /\ n - BaseOf(n) \in DataShards /\ n % RTPA_DATA_SHARDS = n - BaseOf(n)
<1> DEFINE d == RTPA_DATA_SHARDS
<1>1. d \in Nat \ {0} /\ W \in Nat \ {0} /\ n \in 0 .. W - 1
  BY Sizes DEF Seq16
<1> HIDE DEF d
<1>2. n \div d \in Int /\ n % d \in 0 .. d - 1 /\ n = (n \div d) * d + (n % d)
  <2>1. n \in Int
    BY <1>1
  <2>2. n \div d \in Int /\ n % d \in 0 .. d - 1
    BY <1>1, <2>1
  <2>3. n = (n \div d) * d + (n % d)
    BY <1>1, <2>1, Z3
  <2> QED BY <2>2, <2>3
<1>3. PICK k \in Int, r \in Int : k = n \div d /\ r = n % d /\ r \in 0 .. d - 1 /\ n = k * d + r
  BY <1>1, <1>2
<1>4. /\ k >= 0 => k * d >= 0
      /\ k < 0 => k * d <= -d
  BY <1>1, Z3
<1>5. PICK b \in Int : b = k * d
  BY <1>1
<1>6. b \in 0 .. W - 1 /\ n - b = r
  <2>1. k >= 0
    BY <1>1, <1>3, <1>4, <1>5
  <2> QED BY <1>1, <1>3, <1>4, <1>5, <2>1
<1>7. BaseOf(n) = b /\ b \in Mult
  BY <1>3, <1>5 DEF BaseOf, d, Mult
<1> QED BY <1>3, <1>6, <1>7 DEF Seq16, DataShards, d

LEMMA BasesAre == Bases = Seq16 \cap Mult
<1>1. ASSUME NEW b \in Seq16, b \in Mult PROVE BaseOf(b) = b
  <2>1. PICK c \in Mult : c = BaseOf(b) /\ b - c \in DataShards
    BY BaseOfIs
  <2>2. b - c \in Mult /\ b - c \in Int /\ b \in Int /\ c \in Int
    BY <1>1, <2>1, MultIs
  <2>3. ~(b - c > 0)
    <3>1. PICK x \in Mult : x = b - c
      BY <2>2
    <3>2. x > 0 => x >= RTPA_DATA_SHARDS
      BY MultIs
    <3> QED BY <2>1, <2>2, <3>1, <3>2, Sizes DEF DataShards
  <2>4. b = c
    BY <2>1, <2>2, <2>3, Sizes DEF DataShards
  <2> QED BY <2>1, <2>4
<1>2. ASSUME NEW b \in Bases PROVE b \in Seq16 \cap Mult
  BY BaseOfIs DEF Bases
<1>3. ASSUME NEW b \in Seq16 \cap Mult PROVE b \in Bases
  BY <1>1, <1>3 DEF Bases
<1> QED BY <1>2, <1>3

\* The block of a sequence number.
LEMMA BlockOf ==
  ASSUME NEW b \in Bases, NEW i \in DataShards
  PROVE  b + i \in Seq16 /\ BaseOf(b + i) = b /\ b + RTPA_DATA_SHARDS <= W
<1>1. b \in Int /\ b \in 0 .. W - 1 /\ b \in Mult /\ i \in Int /\ i \in 0 .. RTPA_DATA_SHARDS - 1
  BY BasesAre, Sizes DEF Seq16, DataShards
<1>2. b + RTPA_DATA_SHARDS <= W
  <2>1. W - b \in Mult
    BY <1>1, MultIs
  <2>2. PICK x \in Mult : x = W - b
    BY <2>1
  <2>3. x > 0 => x >= RTPA_DATA_SHARDS
    BY MultIs
  <2> QED BY <1>1, <2>2, <2>3, Sizes
<1>3. b + i \in Seq16
  BY <1>1, <1>2, Sizes DEF Seq16
<1>4. PICK c \in Mult : c = BaseOf(b + i) /\ (b + i) - c \in 0 .. RTPA_DATA_SHARDS - 1
  BY <1>3, BaseOfIs DEF DataShards
<1>5. c \in Int /\ b - c \in Mult /\ c - b \in Mult
  BY <1>1, MultIs
<1>6. ~(b - c > 0) /\ ~(c - b > 0)
  <2>1. PICK x \in Mult, y \in Mult : x = b - c /\ y = c - b
    BY <1>5
  <2>2. (x > 0 => x >= RTPA_DATA_SHARDS) /\ (y > 0 => y >= RTPA_DATA_SHARDS)
    BY MultIs
  <2> QED BY <1>1, <1>4, <1>5, <2>1, <2>2, Sizes
<1>7. b = c
  BY <1>1, <1>5, <1>6
<1> QED BY <1>2, <1>3, <1>4, <1>7

(***************************************************************************)
(* How far a number is behind the end of the newest block, s.              *)
(***************************************************************************)
AgeAt(s, n) == (s + RTPA_DATA_SHARDS - n) % W

LEMMA AgeIs == \A n : Age(n) = AgeAt(sent, n)
BY DEF Age, AgeAt

LEMMA AgeRange ==
  ASSUME NEW s \in Seq16, NEW n \in Seq16
  PROVE  AgeAt(s, n) \in 0 .. W - 1 /\ AgeAt(s, n) \in Nat /\ s \in Int /\ n \in Int
<1>1. s \in Int /\ n \in Int
  BY Sizes DEF Seq16
<1>2. PICK x \in Int : x = s + RTPA_DATA_SHARDS - n
  BY <1>1, Sizes
<1>3. PICK a \in Int : a = x % W /\ a \in 0 .. W - 1 /\ a >= 0
  BY ModIs
<1> QED BY <1>1, <1>2, <1>3 DEF AgeAt

LEMMA AgeMult ==
  ASSUME NEW s \in Bases, NEW b \in Bases
  PROVE  AgeAt(s, b) \in Mult
<1>1. s + RTPA_DATA_SHARDS \in Mult
  BY BasesAre, MultIs
<1>2. PICK x \in Mult : x = s + RTPA_DATA_SHARDS - b
  BY <1>1, BasesAre, MultIs
<1> QED BY <1>2, MultMod DEF AgeAt

\* A distance is a difference of ages.
LEMMA AgeDist ==
  ASSUME NEW s \in Seq16, NEW x \in Seq16, NEW y \in Seq16
  PROVE  (x - y) % W = (AgeAt(s, y) - AgeAt(s, x)) % W
<1>1. PICK e \in Int : e = s + RTPA_DATA_SHARDS
  BY AgeRange, Sizes
<1>2. x \in Int /\ y \in Int /\ e - x \in Int /\ e - y \in Int
  BY <1>1, AgeRange
<1>3. PICK i \in Int, a \in Int : e - x = i * W + a /\ a = AgeAt(s, x)
  <2>1. PICK z \in Int : z = e - x
    BY <1>2
  <2>2. PICK i \in Int : z = i * W + (z % W)
    BY ModDef
  <2>3. PICK a \in Int : a = z % W
    BY ModIs
  <2>4. a = AgeAt(s, x)
    <3>1. z = s + RTPA_DATA_SHARDS - x
      BY <1>1, <2>1, AgeRange, Sizes
    <3> QED BY <2>3, <3>1 DEF AgeAt
  <2> QED BY <2>1, <2>2, <2>3, <2>4
<1>4. PICK j \in Int, b \in Int : e - y = j * W + b /\ b = AgeAt(s, y)
  <2>1. PICK z \in Int : z = e - y
    BY <1>2
  <2>2. PICK j \in Int : z = j * W + (z % W)
    BY ModDef
  <2>3. PICK b \in Int : b = z % W
    BY ModIs
  <2>4. b = AgeAt(s, y)
    <3>1. z = s + RTPA_DATA_SHARDS - y
      BY <1>1, <2>1, AgeRange, Sizes
    <3> QED BY <2>3, <3>1 DEF AgeAt
  <2> QED BY <2>1, <2>2, <2>3, <2>4
<1>5. PICK m \in 0 .. W - 1 : m = (b - a) % W
  <2>1. PICK z \in Int : z = b - a
    BY <1>3, <1>4
  <2> QED BY <2>1, ModRange
<1>6. PICK k \in Int : b - a = k * W + m
  <2>1. PICK z \in Int : z = b - a
    BY <1>3, <1>4
  <2> QED BY <1>5, <2>1, ModDef
<1>7. x - y = (j - i + k) * W + m
  <2>1. PICK f \in Int, g \in Int, h \in Int : f = i * W /\ g = j * W /\ h = k * W
    BY Sizes
  <2>2. (j - i + k) * W = g - f + h
    BY <2>1, Sizes, Z3
  <2>3. e - x = f + a /\ e - y = g + b /\ b - a = h + m /\ m \in Int
    BY <1>3, <1>4, <1>5, <1>6, <2>1, Sizes
  <2>4. \A i1, i2, i3, i4, i5, i6 \in Int :
           i1 - i2 = i3 + i4 /\ i1 - i5 = i6 + b /\ b - i4 = h + m => i2 - i5 = (i6 - i3 + h) + m
    BY <1>4, <2>1, <2>3
  <2>5. x - y = (g - f + h) + m
    BY <1>1, <1>2, <1>3, <2>1, <2>3, <2>4
  <2> QED BY <2>2, <2>5
<1>8. (x - y) % W = m
  <2>1. PICK z \in Int, q \in Int : z = x - y /\ q = j - i + k
    BY <1>2
  <2> QED BY <1>7, <2>1, ModUnique
<1> QED BY <1>3, <1>4, <1>5, <1>8

LEMMA AgeSame ==
  ASSUME NEW s \in Seq16, NEW x \in Seq16, NEW y \in Seq16, AgeAt(s, x) = AgeAt(s, y)
  PROVE  x = y
<1>1. PICK a \in Nat : a = AgeAt(s, x) /\ a = AgeAt(s, y)
  BY AgeRange
<1>2. (x - y) % W = (a - a) % W /\ a - a = 0
  BY <1>1, AgeDist
<1>3. (x - y) % W = 0
  BY <1>2, ModSmall, Sizes
<1>4. x \in 0 .. W - 1 /\ y \in 0 .. W - 1 /\ x \in Int /\ y \in Int
  BY AgeRange DEF Seq16
<1>5. PICK z \in Int : z = x - y
  BY <1>4
<1>6. /\ z \in 0 .. W - 1 => z = 0
      /\ z \in -W .. -1 => z + W = 0
  BY <1>3, <1>5, ModSmall
<1> QED BY <1>4, <1>5, <1>6, Sizes

\* Further on in the stream.
LEMMA AgeOn ==
  ASSUME NEW s \in Seq16, NEW n \in Seq16, NEW d \in 0 .. AgeAt(s, n)
  PROVE  (n + d) % W \in Seq16 /\ AgeAt(s, (n + d) % W) = AgeAt(s, n) - d
<1>1. PICK a \in 0 .. W - 1 : a = AgeAt(s, n)
  BY AgeRange
<1>2. d \in Int /\ d \in 0 .. a /\ a \in Int /\ W \in Int /\ n \in Int
  BY <1>1, AgeRange, Sizes
<1>3. PICK m \in Seq16 : m = (n + d) % W
  <2>1. n + d \in Int
    BY <1>2
  <2> QED BY <2>1, ModRange DEF Seq16
<1>4. PICK b \in 0 .. W - 1 : b = AgeAt(s, m)
  BY AgeRange
<1>5. (m - n) % W = d
  <2>1. PICK x \in Int, y \in Int : x = n + d /\ y = -n
    BY <1>2
  <2>2. (x + y) % W = ((x % W) + y) % W
    BY ModAdd
  <2>3. x + y = d /\ d % W = d
    BY <1>1, <1>2, <2>1, ModSmall
  <2>4. (x % W) + y = m - n
    BY <1>2, <1>3, <2>1, AgeRange
  <2> QED BY <2>2, <2>3, <2>4
<1>6. (m - n) % W = (a - b) % W
  BY <1>1, <1>4, AgeDist
<1>7. PICK z \in Int : z = a - b /\ z % W = d
  BY <1>1, <1>2, <1>4, <1>5, <1>6
<1>8. /\ z \in 0 .. W - 1 => d = z
      /\ z \in -W .. -1 => d = z + W
  BY <1>7, ModSmall
<1>9. a \in 0 .. W - 1 /\ b \in 0 .. W - 1 /\ b \in Int
  BY <1>1, <1>4, Sizes
<1>10. b = a - d
  BY <1>2, <1>7, <1>8, <1>9
<1> QED BY <1>1, <1>3, <1>4, <1>10

\* The host sends a block.
LEMMA AgeSent ==
  ASSUME NEW s \in Seq16, NEW n \in Seq16, AgeAt(s, n) + RTPA_DATA_SHARDS < W
  PROVE  AgeAt((s + RTPA_DATA_SHARDS) % W, n) = AgeAt(s, n) + RTPA_DATA_SHARDS
<1> DEFINE d == RTPA_DATA_SHARDS
<1>1. d \in Nat /\ s \in Int /\ n \in Int /\ W \in Int
  BY AgeRange, Sizes
<1> HIDE DEF d
<1>2. PICK x \in Int : x = s + d
  BY <1>1
<1>4. PICK b \in 0 .. W - 1 : b = (x - n) % W /\ b = AgeAt(s, n)
  <2>1. PICK z \in Int : z = x - n
    BY <1>1, <1>2
  <2>2. PICK b \in Int : b = z % W /\ b \in 0 .. W - 1
    BY ModIs
  <2>3. b = AgeAt(s, n)
    <3>1. z = s + RTPA_DATA_SHARDS - n
      BY <1>1, <1>2, <2>1 DEF d
    <3> QED BY <2>2, <3>1 DEF AgeAt
  <2> QED BY <2>1, <2>2, <2>3
<1>5. ((x % W) + (d - n)) % W = (x + (d - n)) % W
  <2>1. d - n \in Int
    BY <1>1
  <2> QED BY <2>1, ModAdd
<1>6. PICK y \in Int : y = x - n
  BY <1>1, <1>2
<1>7. (y + d) % W = (b + d) % W
  BY <1>1, <1>4, <1>6, ModAdd
<1>8. b + d < W /\ b + d \in 0 .. W - 1
  BY <1>1, <1>4 DEF d
<1>9. (b + d) % W = b + d
  <2>1. PICK z \in 0 .. W - 1 : z = b + d
    BY <1>8
  <2> QED BY <1>1, <2>1, ModSmall
<1>10. PICK m \in Int : m = x % W
  <2>1. x % W \in 0 .. W - 1
    BY ModRange
  <2> QED BY <1>1, <2>1
<1>11. AgeAt(m, n) = (m + (d - n)) % W
  <2>1. m + d - n = m + (d - n)
    BY <1>1, <1>10
  <2> QED BY <2>1 DEF AgeAt, d
<1>12. x + (d - n) = y + d
  BY <1>1, <1>2, <1>6
<1> QED BY <1>2, <1>4, <1>5, <1>7, <1>9, <1>10, <1>11, <1>12 DEF d

\* Within half the space the code's comparison is that of ages.
LEMMA BeforeIsOlder ==
  ASSUME NEW s \in Seq16, NEW x \in Seq16, NEW y \in Seq16,
         AgeAt(s, x) <= M, AgeAt(s, y) <= M, AgeAt(s, x) > 0 \/ AgeAt(s, y) <= H
  PROVE  isBefore16(x, y) <=> AgeAt(s, x) > AgeAt(s, y)
<1>1. PICK a \in 0 .. W - 1, b \in 0 .. W - 1 : a = AgeAt(s, x) /\ b = AgeAt(s, y)
  BY AgeRange
<1>2. a \in Int /\ b \in Int /\ a >= 0 /\ b >= 0 /\ a <= M /\ b <= M /\ (a > 0 \/ b <= H)
  BY <1>1, Sizes
<1>3. PICK z \in Int : z = b - a
  BY <1>2
<1>4. PICK m \in Int : m = z % W /\ m = (x - y) % W
  <2>1. z % W \in Int
    BY ModRange, Sizes
  <2> QED BY <1>1, <1>3, <2>1, AgeDist
<1>5. isBefore16(x, y) <=> m > H
  BY <1>4 DEF isBefore16, H
<1>6. /\ z \in 0 .. W - 1 => m = z
      /\ z \in -W .. -1 => m = z + W
  BY <1>4, ModSmall
<1>7. CASE a > b
  <2>1. z \in -W .. -1 /\ m = b - a + W
    BY <1>1, <1>2, <1>3, <1>6, <1>7, Sizes
  <2>2. m > H
    BY <1>2, <2>1, Sizes
  <2> QED BY <1>1, <1>5, <1>7, <2>2
<1>8. CASE a <= b
  <2>1. z \in 0 .. W - 1 /\ m = b - a
    BY <1>1, <1>2, <1>3, <1>6, <1>8, Sizes
  <2>2. ~(m > H) /\ ~(a > b)
    BY <1>2, <1>8, <2>1, Sizes
  <2> QED BY <1>1, <1>5, <2>2
<1> QED BY <1>2, <1>7, <1>8

(***************************************************************************)
(* The list of blocks.                                                     *)
(***************************************************************************)
LEMMA LeastOf ==
  ASSUME NEW T, T \subseteq Nat, T # {}
  PROVE  \E m \in T : \A n \in T : m <= n
<1> DEFINE less == {e \in Nat \X Nat : e[1] < e[2]}
<1>1. IsWellFoundedOn(less, Nat)
  BY NatLessThanWellFounded DEF OpToRel
<1>2. PICK m \in T : \A n \in T : ~(<<n, m>> \in less)
  BY <1>1, WFMin
<1>3. \A n \in T : ~(n < m)
  BY <1>2
<1>4. \A n \in T : m <= n
  BY <1>3
<1> QED BY <1>4

\* From the oldest to the newest, none behind o.
Sorted(bs, s, o) ==
  /\ \A i \in DOMAIN bs : AgeAt(s, bs[i].base) > 0 /\ AgeAt(s, bs[i].base) <= AgeAt(s, o)
  /\ \A i, j \in DOMAIN bs : i < j => AgeAt(s, bs[j].base) < AgeAt(s, bs[i].base)

Listed ==
  /\ blocks \in Seq(Block) /\ sent \in Bases /\ oldestRtpBaseSequenceNumber \in Bases
  /\ AgeAt(sent, oldestRtpBaseSequenceNumber) <= M
  /\ Sorted(blocks, sent, oldestRtpBaseSequenceNumber)

Fits(p) == /\ AgeAt(sent, p.base) > 0
           /\ AgeAt(sent, p.base) <= AgeAt(sent, oldestRtpBaseSequenceNumber)

LEMMA PacketIs ==
  ASSUME NEW p \in Packet
  PROVE  p.base \in Bases /\ p.base \in Seq16 /\ p.base \in Mult /\ p.index \in Shards
BY BasesAre DEF Packet

LEMMA ListIs ==
  ASSUME Listed, NEW i \in DOMAIN blocks
  PROVE  /\ i \in Nat /\ i \in 1 .. Len(blocks) /\ blocks[i] \in Block /\ Len(blocks) \in Nat
         /\ blocks[i].base \in Bases /\ blocks[i].base \in Seq16
         /\ AgeAt(sent, blocks[i].base) \in Nat
<1>1. blocks \in Seq(Block) /\ sent \in Bases
  BY DEF Listed
<1>2. i \in Nat /\ i \in 1 .. Len(blocks) /\ blocks[i] \in Block /\ Len(blocks) \in Nat
  BY <1>1
<1>3. blocks[i].base \in Bases /\ blocks[i].base \in Seq16 /\ sent \in Seq16
  BY <1>1, <1>2, BasesAre DEF Block
<1> QED BY <1>2, <1>3, AgeRange

\* The block of a packet is where the ages say it is.
LEMMA PlaceIs ==
  ASSUME Listed, NEW p \in Packet, Fits(p)
  PROVE  LET k == Place(p)
         IN  /\ k \in 1 .. Len(blocks) + 1
             /\ \A i \in DOMAIN blocks :
                  /\ i < k => AgeAt(sent, p.base) < AgeAt(sent, blocks[i].base)
                  /\ k < i => AgeAt(sent, blocks[i].base) < AgeAt(sent, p.base)
             /\ Known(p) => k \in DOMAIN blocks /\ blocks[k].base = p.base
             /\ ~Known(p) /\ k \in DOMAIN blocks =>
                  AgeAt(sent, blocks[k].base) < AgeAt(sent, p.base)
<1> DEFINE k == Place(p)
           a == AgeAt(sent, p.base)
           A(i) == AgeAt(sent, blocks[i].base)
<1>1. p.base \in Seq16 /\ sent \in Seq16 /\ oldestRtpBaseSequenceNumber \in Seq16
  BY PacketIs, BasesAre DEF Listed
<1>2. a \in Nat /\ 0 < a /\ a <= M /\ M \in Nat
  BY <1>1, AgeRange, Sizes DEF Fits, Listed
<1>3. \A i \in DOMAIN blocks : i \in Nat /\ A(i) \in Nat /\ 0 < A(i) /\ A(i) <= M
  <2> SUFFICES ASSUME NEW i \in DOMAIN blocks
               PROVE  i \in Nat /\ A(i) \in Nat /\ 0 < A(i) /\ A(i) <= M
    OBVIOUS
  <2>1. PICK x \in Nat, y \in Nat : x = A(i) /\ y = AgeAt(sent, oldestRtpBaseSequenceNumber)
    BY <1>1, ListIs, AgeRange
  <2>2. 0 < x /\ x <= y /\ y <= M
    BY <2>1 DEF Listed, Sorted
  <2> QED BY <1>2, <2>1, <2>2, ListIs
<1>4. \A i \in DOMAIN blocks : i \in Stop(p) <=> A(i) <= a
  <2> SUFFICES ASSUME NEW i \in DOMAIN blocks PROVE i \in Stop(p) <=> A(i) <= a
    OBVIOUS
  <2>1. blocks[i].base = p.base \/ blocks[i].base # p.base
    OBVIOUS
  <2>2. isBefore16(p.base, blocks[i].base) <=> a > A(i)
    BY <1>1, <1>2, <1>3, ListIs, BeforeIsOlder
  <2>3. A(i) = a => blocks[i].base = p.base
    BY <1>1, ListIs, AgeSame
  <2>4. i \in Stop(p) <=> blocks[i].base = p.base \/ isBefore16(p.base, blocks[i].base)
    BY DEF Stop
  <2> QED BY <1>2, <1>3, <2>2, <2>3, <2>4
<1>5. \A i, j \in DOMAIN blocks : i < j => A(j) < A(i)
  BY DEF Listed, Sorted
<1>6. DOMAIN blocks = 1 .. Len(blocks) /\ Len(blocks) \in Nat
  BY DEF Listed
<1> HIDE DEF a, A
<1>7. CASE Stop(p) = {}
  <2>1. k = Len(blocks) + 1
    BY <1>7 DEF Place
  <2>2. ~Known(p)
    BY <1>6, <2>1 DEF Known
  <2>3. \A i \in DOMAIN blocks : a < A(i)
    BY <1>2, <1>3, <1>4, <1>7
  <2>4. \A i \in DOMAIN blocks : ~(k < i)
    BY <1>6, <2>1
  <2>5. k \in 1 .. Len(blocks) + 1 /\ k \notin DOMAIN blocks
    BY <1>6, <2>1
  <2> QED BY <2>2, <2>3, <2>4, <2>5 DEF a, A
<1>8. CASE Stop(p) # {}
  <2>1. Stop(p) \subseteq Nat
    BY <1>3 DEF Stop
  <2>2. \E m \in Stop(p) : \A j \in Stop(p) : m <= j
    BY <1>8, <2>1, LeastOf
  <2>3. k \in Stop(p) /\ \A j \in Stop(p) : k <= j
    BY <1>8, <2>2 DEF Place
  <2> HIDE DEF k
  <2>4. k \in DOMAIN blocks /\ A(k) <= a /\ k \in Nat
    BY <1>3, <1>4, <2>3 DEF Stop
  <2>5. \A i \in DOMAIN blocks : i < k => a < A(i)
    BY <1>2, <1>3, <1>4, <2>3, <2>4
  <2>6. \A i \in DOMAIN blocks : k < i => A(i) < a
    BY <1>2, <1>3, <1>5, <2>4
  <2>7. Known(p) <=> blocks[k].base = p.base
    BY <1>6, <2>4 DEF Known, k
  <2>8. A(k) = a => blocks[k].base = p.base
    BY <1>1, <2>4, ListIs, AgeSame DEF A, a
  <2>9. A(k) < a \/ A(k) = a
    BY <1>2, <1>3, <2>4
  <2> QED BY <1>6, <2>4, <2>5, <2>6, <2>7, <2>8, <2>9 DEF k, a, A
<1> QED BY <1>7, <1>8

\* The first place is the oldest block's.
LEMMA FirstPlace ==
  ASSUME Listed, NEW p \in Packet, Fits(p), p.base = oldestRtpBaseSequenceNumber
  PROVE  Place(p) = 1
<1>1. Place(p) \in 1 .. Len(blocks) + 1 /\ Len(blocks) \in Nat
  BY PlaceIs DEF Listed
<1>2. ~(Place(p) > 1)
  <2> SUFFICES ASSUME Place(p) > 1 PROVE FALSE
    OBVIOUS
  <2>1. 1 \in DOMAIN blocks /\ 1 < Place(p)
    BY <1>1 DEF Listed
  <2>2. AgeAt(sent, p.base) < AgeAt(sent, blocks[1].base)
    BY <2>1, PlaceIs
  <2>3. AgeAt(sent, blocks[1].base) <= AgeAt(sent, p.base)
    BY <2>1 DEF Listed, Sorted
  <2>4. PICK x \in Nat, y \in Nat : x = AgeAt(sent, p.base) /\ y = AgeAt(sent, blocks[1].base)
    BY <2>1, ListIs, PacketIs, AgeRange, BasesAre DEF Listed
  <2> QED BY <2>2, <2>3, <2>4
<1> QED BY <1>1, <1>2

\* r is q with e put in at place k.
Inserted(r, q, k, e) ==
  /\ Len(r) = Len(q) + 1
  /\ \A i \in 1 .. Len(q) + 1 :
       r[i] = IF i < k THEN q[i] ELSE IF i = k THEN e ELSE q[i - 1]

LEMMA InsertIs ==
  ASSUME NEW T, NEW q \in Seq(T), NEW k \in 1 .. Len(q) + 1, NEW e \in T
  PROVE  InsertAt(q, k, e) \in Seq(T) /\ Inserted(InsertAt(q, k, e), q, k, e)
<1> DEFINE a == SubSeq(q, 1, k - 1)
           b == SubSeq(q, k, Len(q))
           c == a \o <<e>>
           r == InsertAt(q, k, e)
<1>1. Len(q) \in Nat /\ k \in Nat /\ k >= 1 /\ k <= Len(q) + 1
  OBVIOUS
<1>2. /\ a \in Seq(T) /\ Len(a) = k - 1 /\ \A i \in 1 .. k - 1 : a[i] = q[i]
  <2>1. \A i \in 1 .. k - 1 : q[i] \in T
    BY <1>1
  <2>2. /\ a \in Seq(T) /\ Len(a) = IF 1 <= k - 1 THEN k - 1 - 1 + 1 ELSE 0
        /\ \A i \in 1 .. k - 1 - 1 + 1 : a[i] = q[1 + i - 1]
    BY <1>1, <2>1, SubSeqProperties
  <2> QED BY <1>1, <2>2
<1>3. /\ b \in Seq(T) /\ Len(b) = Len(q) - k + 1 /\ \A i \in 1 .. Len(q) - k + 1 : b[i] = q[k + i - 1]
  <2>1. \A i \in k .. Len(q) : q[i] \in T
    BY <1>1
  <2>2. /\ b \in Seq(T) /\ Len(b) = IF k <= Len(q) THEN Len(q) - k + 1 ELSE 0
        /\ \A i \in 1 .. Len(q) - k + 1 : b[i] = q[k + i - 1]
    BY <1>1, <2>1, SubSeqProperties
  <2> QED BY <1>1, <2>2
<1> HIDE DEF a, b
<1>4. /\ c \in Seq(T) /\ Len(c) = k
      /\ \A i \in 1 .. k : c[i] = IF i < k THEN q[i] ELSE e
  <2>1. <<e>> \in Seq(T) /\ Len(<<e>>) = 1 /\ <<e>>[1] = e
    OBVIOUS
  <2>2. /\ c \in Seq(T) /\ Len(c) = Len(a) + 1
        /\ \A i \in 1 .. Len(a) + 1 : c[i] = IF i <= Len(a) THEN a[i] ELSE <<e>>[i - Len(a)]
    BY <1>2, <2>1, ConcatProperties
  <2> QED BY <1>1, <1>2, <2>1, <2>2
<1> HIDE DEF c
<1>5. /\ c \o b \in Seq(T) /\ Len(c \o b) = Len(c) + Len(b)
      /\ \A i \in 1 .. Len(c) + Len(b) : (c \o b)[i] = IF i <= Len(c) THEN c[i] ELSE b[i - Len(c)]
  BY <1>3, <1>4, ConcatProperties
<1>6. r = c \o b
  BY DEF InsertAt, a, b, c
<1>7. ASSUME NEW i \in 1 .. Len(q) + 1
      PROVE  r[i] = IF i < k THEN q[i] ELSE IF i = k THEN e ELSE q[i - 1]
  <2>1. CASE i <= k
    BY <1>1, <1>3, <1>4, <1>5, <1>6, <2>1
  <2>2. CASE i > k
    <3>1. r[i] = b[i - k] /\ i - k \in 1 .. Len(q) - k + 1
      BY <1>1, <1>3, <1>4, <1>5, <1>6, <2>2
    <3>2. b[i - k] = q[k + (i - k) - 1] /\ k + (i - k) - 1 = i - 1
      BY <1>1, <1>3, <3>1
    <3> QED BY <1>1, <2>2, <3>1, <3>2
  <2> QED BY <1>1, <2>1, <2>2
<1>8. Len(r) = Len(q) + 1 /\ r \in Seq(T)
  BY <1>1, <1>3, <1>4, <1>5, <1>6
<1> QED BY <1>7, <1>8 DEF Inserted

\* The block of a packet, if need be a new one, and the list with it changed to e.
Old(p) == IF Known(p) THEN blocks[Place(p)] ELSE NewBlock(p)
Put(p, e) == [WithBlock(p) EXCEPT ![Place(p)] = e]

LEMMA OldIs ==
  ASSUME Listed, NEW p \in Packet, Fits(p)
  PROVE  /\ Old(p) \in Block /\ Old(p).base = p.base
         /\ Wanted(p) => ~Old(p).fullyReassembled /\ p.index \notin Old(p).got
<1>1. CASE Known(p)
  <2>1. Place(p) \in DOMAIN blocks /\ blocks[Place(p)].base = p.base
    BY <1>1, PlaceIs
  <2>2. Old(p) = blocks[Place(p)]
    BY <1>1 DEF Old
  <2> QED BY <1>1, <2>1, <2>2, ListIs DEF Wanted
<1>2. CASE ~Known(p)
  <2>1. Old(p) = NewBlock(p)
    BY <1>2 DEF Old
  <2>2. 0 \in DataShards
    BY Sizes DEF DataShards
  <2> QED BY <2>1, <2>2, PacketIs DEF NewBlock, Block
<1> QED BY <1>1, <1>2

LEMMA WithIs ==
  ASSUME Listed, NEW p \in Packet, Fits(p)
  PROVE  LET w == WithBlock(p)
             k == Place(p)
         IN  /\ w \in Seq(Block) /\ k \in DOMAIN w /\ k \in Nat /\ w[k] = Old(p)
             /\ DOMAIN w = 1 .. Len(w) /\ Len(w) \in Nat
             /\ \A i \in DOMAIN w : i # k =>
                  \E j \in DOMAIN blocks : w[i] = blocks[j] /\ (j < k <=> i < k) /\ blocks[j].base # p.base
             /\ \A j \in DOMAIN blocks : blocks[j].base # p.base =>
                  \E i \in DOMAIN w : i # k /\ w[i] = blocks[j]
             /\ \A i, j \in DOMAIN w : i < j /\ i # k /\ j # k =>
                  \E m, n \in DOMAIN blocks : m < n /\ w[i] = blocks[m] /\ w[j] = blocks[n]
             /\ k = 1 \/ (blocks # << >> /\ w[1] = blocks[1])
<1> DEFINE w == WithBlock(p)
           k == Place(p)
           n == Len(blocks)
<1>1. /\ k \in 1 .. n + 1 /\ n \in Nat /\ k \in Nat /\ blocks \in Seq(Block) /\ DOMAIN blocks = 1 .. n
      /\ Known(p) => k \in DOMAIN blocks /\ blocks[k].base = p.base
  BY PlaceIs DEF Listed
<1>2. \A i \in DOMAIN blocks : blocks[i].base = p.base => Known(p) /\ i = k
  <2> SUFFICES ASSUME NEW i \in DOMAIN blocks, blocks[i].base = p.base PROVE Known(p) /\ i = k
    OBVIOUS
  <2>1. PICK x \in Nat : x = AgeAt(sent, p.base) /\ x = AgeAt(sent, blocks[i].base)
    BY ListIs
  <2>2. ~(i < k) /\ ~(k < i)
    BY <2>1, PlaceIs
  <2>3. i = k
    BY <1>1, <2>2
  <2>4. ~(x < x)
    BY <2>1
  <2> QED BY <2>1, <2>3, <2>4, PlaceIs
<1>3. CASE Known(p)
  <2>1. w = blocks /\ Old(p) = blocks[k]
    BY <1>3 DEF WithBlock, Old
  <2> QED BY <1>1, <1>2, <1>3, <2>1
<1>4. CASE ~Known(p)
  <2>1. w = InsertAt(blocks, k, NewBlock(p)) /\ Old(p) = NewBlock(p)
    BY <1>4 DEF WithBlock, Old
  <2>2. NewBlock(p) \in Block
    BY <2>1, OldIs
  <2>3. /\ w \in Seq(Block) /\ Len(w) = n + 1
        /\ \A i \in 1 .. n + 1 : w[i] = IF i < k THEN blocks[i]
                                        ELSE IF i = k THEN NewBlock(p) ELSE blocks[i - 1]
    <3>1. PICK q \in Seq(Block), b \in Block : q = blocks /\ b = NewBlock(p)
      BY <1>1, <2>2
    <3>2. PICK m \in 1 .. Len(q) + 1 : m = k
      BY <1>1, <3>1
    <3>3. InsertAt(q, m, b) \in Seq(Block) /\ Inserted(InsertAt(q, m, b), q, m, b)
      BY InsertIs
    <3> QED BY <1>1, <2>1, <3>1, <3>2, <3>3 DEF Inserted
  <2> HIDE DEF w, k
  <2>4. DOMAIN w = 1 .. n + 1 /\ w[k] = Old(p) /\ k \in DOMAIN w
    BY <1>1, <2>1, <2>3
  <2>5. ASSUME NEW i \in DOMAIN w, i # k
        PROVE  \E j \in DOMAIN blocks : w[i] = blocks[j] /\ (j < k <=> i < k) /\ blocks[j].base # p.base
    <3>1. CASE i < k
      BY <1>1, <1>2, <1>4, <2>3, <2>4, <3>1
    <3>2. CASE i > k
      <4>1. w[i] = blocks[i - 1] /\ i - 1 \in DOMAIN blocks /\ ~(i - 1 < k) /\ ~(i < k)
        BY <1>1, <2>3, <2>4, <3>2
      <4> QED BY <1>2, <1>4, <4>1
    <3> QED BY <1>1, <2>4, <2>5, <3>1, <3>2
  <2>6. ASSUME NEW j \in DOMAIN blocks PROVE \E i \in DOMAIN w : i # k /\ w[i] = blocks[j]
    <3>1. CASE j < k
      BY <1>1, <2>3, <2>4, <3>1
    <3>2. CASE ~(j < k)
      <4>1. j + 1 \in DOMAIN w /\ j + 1 # k /\ ~(j + 1 < k) /\ (j + 1) - 1 = j
        BY <1>1, <2>4, <3>2
      <4> QED BY <2>3, <2>4, <4>1
    <3> QED BY <3>1, <3>2
  <2>7. ASSUME NEW i \in DOMAIN w, NEW j \in DOMAIN w, i < j, i # k, j # k
        PROVE  \E m, l \in DOMAIN blocks : m < l /\ w[i] = blocks[m] /\ w[j] = blocks[l]
    <3>1. CASE j < k
      BY <1>1, <2>3, <2>4, <2>7, <3>1
    <3>2. CASE i < k /\ k < j
      <4>1. j - 1 \in DOMAIN blocks /\ i \in DOMAIN blocks /\ i < j - 1
        BY <1>1, <2>4, <2>7, <3>2
      <4>2. w[i] = blocks[i] /\ w[j] = blocks[j - 1]
        BY <1>1, <2>3, <2>4, <3>2
      <4> QED BY <4>1, <4>2
    <3>3. CASE k < i
      <4>1. j - 1 \in DOMAIN blocks /\ i - 1 \in DOMAIN blocks /\ i - 1 < j - 1
        BY <1>1, <2>4, <2>7, <3>3
      <4>2. w[i] = blocks[i - 1] /\ w[j] = blocks[j - 1]
        BY <1>1, <2>3, <2>4, <2>7, <3>3
      <4> QED BY <4>1, <4>2
    <3> QED BY <1>1, <2>4, <2>7, <3>1, <3>2, <3>3
  <2>8. k = 1 \/ (blocks # << >> /\ w[1] = blocks[1])
    <3> SUFFICES ASSUME k # 1 PROVE blocks # << >> /\ w[1] = blocks[1]
      OBVIOUS
    <3>1. 1 < k /\ 1 \in 1 .. n + 1 /\ 1 \in DOMAIN blocks
      BY <1>1
    <3> QED BY <2>3, <3>1
  <2> QED BY <1>1, <2>3, <2>4, <2>5, <2>6, <2>7, <2>8 DEF w, k
<1> QED BY <1>3, <1>4

\* The other blocks are as they were.
Others(r, p) ==
  /\ \A i \in DOMAIN r : i # Place(p) =>
       \E j \in DOMAIN blocks : r[i] = blocks[j] /\ blocks[j].base # p.base
  /\ \A j \in DOMAIN blocks : blocks[j].base # p.base =>
       \E i \in DOMAIN r : i # Place(p) /\ r[i] = blocks[j]

LEMMA PutIs ==
  ASSUME Listed, NEW p \in Packet, Fits(p), NEW e, e.base = p.base
  PROVE  /\ Put(p, e) \in Seq(Block \cup {e}) /\ Put(p, e) # << >> /\ 1 \in DOMAIN Put(p, e)
         /\ Len(Put(p, e)) \in Nat
         /\ Place(p) \in DOMAIN Put(p, e) /\ Put(p, e)[Place(p)] = e
         /\ Others(Put(p, e), p)
         /\ Place(p) = 1 \/ (blocks # << >> /\ Put(p, e)[1] = blocks[1])
         /\ Sorted(Put(p, e), sent, oldestRtpBaseSequenceNumber)
<1> DEFINE w == WithBlock(p)
           k == Place(p)
           r == Put(p, e)
           a == AgeAt(sent, p.base)
           A(i) == AgeAt(sent, r[i].base)
<1>1. /\ w \in Seq(Block) /\ k \in DOMAIN w /\ k \in Nat /\ w[k] = Old(p)
      /\ DOMAIN w = 1 .. Len(w) /\ Len(w) \in Nat
      /\ k = 1 \/ (blocks # << >> /\ w[1] = blocks[1])
  BY WithIs
<1>2. \A i \in DOMAIN w : i # k =>
        \E j \in DOMAIN blocks : w[i] = blocks[j] /\ (j < k <=> i < k) /\ blocks[j].base # p.base
  BY WithIs
<1>3. \A j \in DOMAIN blocks : blocks[j].base # p.base => \E i \in DOMAIN w : i # k /\ w[i] = blocks[j]
  BY WithIs
<1>4. \A i, j \in DOMAIN w : i < j /\ i # k /\ j # k =>
         \E m, n \in DOMAIN blocks : m < n /\ w[i] = blocks[m] /\ w[j] = blocks[n]
  BY WithIs
<1>5. /\ r \in Seq(Block \cup {e}) /\ DOMAIN r = DOMAIN w /\ Len(r) \in Nat
      /\ r[k] = e /\ \A i \in DOMAIN w : i # k => r[i] = w[i]
  <2>1. w \in Seq(Block \cup {e}) /\ k \in 1 .. Len(w)
    BY <1>1
  <2> HIDE DEF w, k
  <2>2. /\ [w EXCEPT ![k] = e] \in Seq(Block \cup {e})
        /\ Len([w EXCEPT ![k] = e]) = Len(w)
        /\ \A j \in 1 .. Len(w) : [w EXCEPT ![k] = e][j] = IF j = k THEN e ELSE w[j]
    BY <2>1, ExceptSeq
  <2>3. r = [w EXCEPT ![k] = e]
    BY DEF Put, w, k
  <2> HIDE DEF r
  <2> QED BY <1>1, <2>1, <2>2, <2>3
<1> HIDE DEF w, k, r
<1>6. \A i \in DOMAIN r : i # k =>
        \E j \in DOMAIN blocks : r[i] = blocks[j] /\ (j < k <=> i < k) /\ blocks[j].base # p.base
  BY <1>2, <1>5
<1>7. \A j \in DOMAIN blocks : blocks[j].base # p.base => \E i \in DOMAIN r : i # k /\ r[i] = blocks[j]
  BY <1>3, <1>5
<1>8. r # << >> /\ 1 \in DOMAIN r /\ k \in DOMAIN r
  BY <1>1, <1>5
<1>9. k = 1 \/ (blocks # << >> /\ r[1] = blocks[1])
  BY <1>1, <1>5, <1>8
<1>10. Sorted(r, sent, oldestRtpBaseSequenceNumber)
  <2>1. ASSUME NEW i \in DOMAIN r
        PROVE  /\ AgeAt(sent, r[i].base) > 0
               /\ AgeAt(sent, r[i].base) <= AgeAt(sent, oldestRtpBaseSequenceNumber)
    <3>1. CASE i = k
      BY <1>5, <3>1 DEF Fits
    <3>2. CASE i # k
      <4>1. PICK j \in DOMAIN blocks : r[i] = blocks[j]
        BY <1>6, <3>2
      <4> QED BY <4>1 DEF Listed, Sorted
    <3> QED BY <3>1, <3>2
  <2>2. ASSUME NEW i \in DOMAIN r, NEW j \in DOMAIN r, i < j
        PROVE  AgeAt(sent, r[j].base) < AgeAt(sent, r[i].base)
    <3>1. CASE i = k
      <4>1. j # k /\ ~(j < k) /\ r[i] = e
        BY <1>1, <1>5, <2>2, <3>1
      <4>2. PICK l \in DOMAIN blocks : r[j] = blocks[l] /\ ~(l < k) /\ blocks[l].base # p.base
        BY <1>6, <4>1
      <4>3. AgeAt(sent, blocks[l].base) < AgeAt(sent, p.base)
        <5>1. l \in Nat
          BY ListIs
        <5>2. l = k \/ k < l
          BY <1>1, <4>2, <5>1
        <5>3. CASE l = k
          <6>1. ~Known(p)
            BY <4>2, <5>3, PlaceIs DEF k
          <6> QED BY <5>3, <6>1, PlaceIs DEF k
        <5>4. CASE k < l
          BY <5>4, PlaceIs DEF k
        <5> QED BY <5>2, <5>3, <5>4
      <4> QED BY <4>1, <4>2, <4>3
    <3>2. CASE j = k
      <4>1. i # k /\ i < k /\ r[j] = e
        BY <1>1, <1>5, <2>2, <3>2
      <4>2. PICK l \in DOMAIN blocks : r[i] = blocks[l] /\ l < k
        BY <1>6, <4>1
      <4>3. AgeAt(sent, p.base) < AgeAt(sent, blocks[l].base)
        BY <4>2, PlaceIs DEF k
      <4> QED BY <4>1, <4>2, <4>3
    <3>3. CASE i # k /\ j # k
      <4>1. PICK m \in DOMAIN blocks, n \in DOMAIN blocks : m < n /\ r[i] = blocks[m] /\ r[j] = blocks[n]
        BY <1>4, <1>5, <2>2, <3>3
      <4> QED BY <4>1 DEF Listed, Sorted
    <3> QED BY <3>1, <3>2, <3>3
  <2> QED BY <2>1, <2>2 DEF Sorted
<1>11. Others(r, p)
  BY <1>6, <1>7 DEF Others, k
<1> QED BY <1>5, <1>8, <1>9, <1>10, <1>11 DEF r, k

LEMMA ModSub ==
  ASSUME NEW x \in Int, NEW y \in Int PROVE (x - y) % W = (x - (y % W)) % W
<1>1. PICK m \in Int : m = y % W
  BY ModIs
<1>2. PICK d \in Int : y = d * W + m
  BY <1>1, ModDef
<1>3. PICK z \in Int : z = x - m
  BY <1>1
<1>4. PICK r \in Int : r = z % W /\ r \in 0 .. W - 1
  BY ModIs
<1>5. PICK e \in Int : z = e * W + r
  BY <1>4, ModDef
<1>6. PICK f \in Int, g \in Int : f = d * W /\ g = e * W
  BY Sizes
<1>7. (e - d) * W = g - f
  BY <1>6, Sizes, Z3
<1>8. PICK u \in Int, k \in Int : u = x - y /\ k = e - d
  OBVIOUS
<1>9. u = k * W + r
  BY <1>1, <1>2, <1>3, <1>5, <1>6, <1>7, <1>8
<1>10. u % W = r
  BY <1>4, <1>9, ModUnique
<1> QED BY <1>1, <1>3, <1>4, <1>8, <1>10

\* The end of a block.
LEMMA EndOf ==
  ASSUME NEW s \in Bases, NEW b \in Bases, AgeAt(s, b) > 0
  PROVE  /\ AgeAt(s, b) \in Nat /\ AgeAt(s, b) >= RTPA_DATA_SHARDS
         /\ (b + RTPA_DATA_SHARDS) % W \in Bases
         /\ AgeAt(s, (b + RTPA_DATA_SHARDS) % W) = AgeAt(s, b) - RTPA_DATA_SHARDS
<1>1. s \in Seq16 /\ b \in Seq16 /\ b \in Mult /\ b \in Int
  BY BasesAre, MultIs
<1>2. PICK a \in Mult : a = AgeAt(s, b) /\ a \in Nat
  BY <1>1, AgeMult, AgeRange
<1>3. a >= RTPA_DATA_SHARDS
  BY <1>2, MultIs
<1>4. PICK d \in Int : d = RTPA_DATA_SHARDS /\ d \in 0 .. a
  BY <1>2, <1>3, Sizes
<1>5. (b + d) % W \in Seq16 /\ AgeAt(s, (b + d) % W) = a - d
  BY <1>1, <1>2, <1>4, AgeOn
<1>6. (b + d) % W \in Mult
  BY <1>1, <1>4, MultIs, MultMod
<1> QED BY <1>2, <1>3, <1>4, <1>5, <1>6, BasesAre

\* Ages of blocks differ by whole blocks.
LEMMA AgeLess ==
  ASSUME NEW s \in Bases, NEW b \in Bases, NEW c \in Bases, AgeAt(s, b) < AgeAt(s, c)
  PROVE  /\ AgeAt(s, b) \in Nat /\ AgeAt(s, c) \in Nat
         /\ AgeAt(s, b) + RTPA_DATA_SHARDS <= AgeAt(s, c)
<1>1. PICK a \in Mult, e \in Mult : a = AgeAt(s, b) /\ e = AgeAt(s, c) /\ a \in Nat /\ e \in Nat
  BY AgeMult, AgeRange, BasesAre
<1>2. PICK d \in Mult : d = e - a
  BY <1>1, MultIs
<1>3. d > 0 => d >= RTPA_DATA_SHARDS
  BY MultIs
<1> QED BY <1>1, <1>2, <1>3, Sizes

(***************************************************************************)
(* The inductive invariant.                                                *)
(***************************************************************************)
\* Packets are taken from the block at o only, the first one if it is listed at all.
Turn(bs, o, n) ==
  /\ o = BaseOf(n)
  /\ \A i \in DOMAIN bs :
       IF bs[i].base = o THEN bs[i].nextDataPacketIndex = n - o
       ELSE bs[i].nextDataPacketIndex = 0 /\ ~bs[i].allowDiscontinuity
  /\ n # o => bs # << >> /\ bs[1].base = o

\* A block and what has arrived for it, with what was made of it.
Has(b, shards) ==
  /\ \A x \in b.got : <<b.base, x>> \in shards
  /\ \A x \in Shards : <<b.base, x>> \in shards =>
                         x \in b.got \/ (b.fullyReassembled /\ x \notin DataShards)
  /\ b.fullyReassembled => DataShards \subseteq b.got
Holds(bs, shards) ==
  /\ \A i \in DOMAIN bs : Has(bs[i], shards)
  /\ \A s \in shards : \E i \in DOMAIN bs : bs[i].base = s[1]

\* Until the first block is over the oldest base stays short of the wrap.
Joined(bs, o, s) ==
  IF bs = << >> THEN o <= s + RTPA_DATA_SHARDS /\ \E n \in Starts : o <= n + RTPA_DATA_SHARDS
  ELSE bs[1].base = o

AInv ==
  /\ TypeOK
  /\ incompatibleServer => pc = "receive"
  /\ Tuning => nextRtpSequenceNumber = 0 /\ blocks = << >> /\ arrived = {} /\ sent \in Starts
  /\ ~Tuning => Listed /\ Turn(blocks, oldestRtpBaseSequenceNumber, nextRtpSequenceNumber)
  /\ ~Tuning /\ ~incompatibleServer => Holds(blocks, arrived)
  /\ synchronizing /\ ~Tuning => Joined(blocks, oldestRtpBaseSequenceNumber, sent)

LEMMA HeadIs ==
  ASSUME Listed, blocks # << >>
  PROVE  /\ 1 \in DOMAIN blocks /\ blocks[1] \in Block /\ Head16(blocks) \in Bases
         /\ Head16(blocks) \in Seq16
         /\ AgeAt(sent, Head16(blocks)) > 0
         /\ AgeAt(sent, Head16(blocks)) <= AgeAt(sent, oldestRtpBaseSequenceNumber)
<1>1. 1 \in DOMAIN blocks
  BY DEF Listed
<1> QED BY <1>1, ListIs DEF Listed, Sorted, Head16

\* The next packet is in the oldest block.
LEMMA NextIs ==
  ASSUME Listed, nextRtpSequenceNumber \in Seq16,
         Turn(blocks, oldestRtpBaseSequenceNumber, nextRtpSequenceNumber)
  PROVE  LET a == AgeAt(sent, oldestRtpBaseSequenceNumber)
             i == nextRtpSequenceNumber - oldestRtpBaseSequenceNumber
         IN  /\ i \in DataShards /\ i \in Nat /\ a \in Nat /\ i <= a /\ a <= M
             /\ nextRtpSequenceNumber = oldestRtpBaseSequenceNumber + i
             /\ AgeAt(sent, nextRtpSequenceNumber) = a - i
             /\ a = 0 => i = 0
             /\ i > 0 => a - i > 0
<1> DEFINE a == AgeAt(sent, oldestRtpBaseSequenceNumber)
           i == nextRtpSequenceNumber - oldestRtpBaseSequenceNumber
           o == oldestRtpBaseSequenceNumber
           n == nextRtpSequenceNumber
<1>1. o \in Bases /\ o \in Seq16 /\ o \in Int /\ n \in Int /\ sent \in Bases /\ sent \in Seq16
  BY BasesAre, MultIs, AgeRange DEF Listed
<1>2. i \in DataShards /\ i \in 0 .. RTPA_DATA_SHARDS - 1
  BY BaseOfIs DEF Turn, DataShards
<1>3. i \in Nat /\ i < RTPA_DATA_SHARDS /\ n = o + i
  BY <1>1, <1>2, Sizes
<1>4. a \in Nat /\ a <= M
  BY <1>1, AgeRange DEF Listed
<1>5. i > 0 => a >= RTPA_DATA_SHARDS
  <2> SUFFICES ASSUME i > 0 PROVE a >= RTPA_DATA_SHARDS
    OBVIOUS
  <2>1. n # o
    BY <1>1, <1>3
  <2>2. blocks # << >> /\ blocks[1].base = o
    BY <2>1 DEF Turn
  <2>3. a > 0
    BY <2>2, HeadIs DEF Head16
  <2> QED BY <1>1, <2>3, EndOf
<1>6. i <= a /\ (a = 0 => i = 0) /\ (i > 0 => a - i > 0)
  BY <1>3, <1>4, <1>5, Sizes
<1>7. AgeAt(sent, n) = a - i
  <2>1. PICK d \in 0 .. a : d = i
    BY <1>3, <1>4, <1>6
  <2>2. AgeAt(sent, (o + d) % W) = a - d
    BY <1>1, AgeOn
  <2>3. (o + d) % W = n
    <3>1. n \in 0 .. W - 1
      BY DEF Seq16
    <3>2. PICK m \in Int : m = o + d
      BY <1>3, <2>1, <1>1
    <3> QED BY <1>3, <2>1, <3>1, <3>2, ModSmall
  <2> QED BY <2>1, <2>2, <2>3
<1> QED BY <1>2, <1>3, <1>4, <1>6, <1>7

LEMMA BlocksInOrder ==
  ASSUME Listed, TypeOK, Turn(blocks, oldestRtpBaseSequenceNumber, nextRtpSequenceNumber)
  PROVE  FecBlockState
<1> DEFINE a == AgeAt(sent, oldestRtpBaseSequenceNumber)
           i == nextRtpSequenceNumber - oldestRtpBaseSequenceNumber
           o == oldestRtpBaseSequenceNumber
           n == nextRtpSequenceNumber
<1>1. o \in Bases /\ o \in Seq16 /\ n \in Seq16 /\ sent \in Bases /\ sent \in Seq16
  BY BasesAre DEF Listed, TypeOK
<1>2. /\ i \in DataShards /\ i \in Nat /\ a \in Nat /\ i <= a /\ a <= M /\ n = o + i
      /\ AgeAt(sent, n) = a - i /\ (a = 0 => i = 0) /\ (i > 0 => a - i > 0)
  BY <1>1, NextIs
<1>3. M \in Nat /\ H \in Nat /\ RTPA_DATA_SHARDS \in Nat
  BY Sizes
<1>4. ~isBefore16(n, o)
  <2>1. AgeAt(sent, n) > 0 \/ AgeAt(sent, o) <= H
    BY <1>2, <1>3
  <2>2. AgeAt(sent, n) <= M /\ AgeAt(sent, o) <= M
    BY <1>2, <1>3
  <2>3. isBefore16(n, o) <=> AgeAt(sent, n) > AgeAt(sent, o)
    BY <1>1, <2>1, <2>2, BeforeIsOlder
  <2> QED BY <1>2, <2>3
<1>5. ASSUME blocks # << >>
      PROVE  /\ isBefore16(n, Head16(blocks) + RTPA_DATA_SHARDS)
             /\ ~isBefore16(Head16(blocks), o)
  <2>1. PICK h \in Bases : h = Head16(blocks) /\ h \in Seq16
    BY <1>5, HeadIs
  <2>2. PICK c \in Nat : c = AgeAt(sent, h)
    BY <1>1, <2>1, AgeRange
  <2>3. c > 0 /\ c <= a
    BY <1>5, <2>1, <2>2, HeadIs
  <2>4. isBefore16(h, o) <=> c > a
    <3>1. AgeAt(sent, h) <= M /\ AgeAt(sent, o) <= M /\ AgeAt(sent, h) > 0
      BY <1>2, <1>3, <2>2, <2>3
    <3>2. isBefore16(h, o) <=> AgeAt(sent, h) > AgeAt(sent, o)
      BY <1>1, <2>1, <3>1, BeforeIsOlder
    <3> QED BY <2>2, <3>2
  <2>5. PICK y \in Bases : /\ y = (h + RTPA_DATA_SHARDS) % W /\ y \in Seq16
                           /\ AgeAt(sent, y) = c - RTPA_DATA_SHARDS /\ c >= RTPA_DATA_SHARDS
    BY <1>1, <2>1, <2>2, <2>3, EndOf, BasesAre
  <2>6. a - i > c - RTPA_DATA_SHARDS
    BY <1>2, <1>3, <2>2, <2>3, Sizes DEF DataShards
  <2>7. isBefore16(n, y)
    <3>1. AgeAt(sent, n) <= M /\ AgeAt(sent, y) <= M /\ AgeAt(sent, n) > 0
      BY <1>2, <1>3, <2>2, <2>3, <2>5, <2>6
    <3>2. isBefore16(n, y) <=> AgeAt(sent, n) > AgeAt(sent, y)
      BY <1>1, <2>5, <3>1, BeforeIsOlder
    <3> QED BY <1>2, <2>5, <2>6, <3>2
  <2>8. isBefore16(n, h + RTPA_DATA_SHARDS)
    <3>1. n \in Int /\ h \in Int
      BY <1>1, <2>1, AgeRange
    <3>2. PICK u \in Int : u = h + RTPA_DATA_SHARDS
      BY <1>3, <3>1
    <3>3. (n - u) % W = (n - (u % W)) % W
      BY <3>1, ModSub
    <3> QED BY <2>5, <2>7, <3>2, <3>3 DEF isBefore16
  <2> QED BY <1>2, <2>1, <2>2, <2>3, <2>4, <2>8
<1>6. ASSUME NEW j \in 1 .. Len(blocks) - 1
      PROVE  isBefore16(blocks[j].base, blocks[j + 1].base)
  <2>1. blocks \in Seq(Block) /\ j \in DOMAIN blocks /\ j + 1 \in DOMAIN blocks /\ j < j + 1
    BY DEF Listed
  <2>2. PICK x \in Seq16, y \in Seq16 : x = blocks[j].base /\ y = blocks[j + 1].base
    BY <2>1, ListIs
  <2>3. PICK p \in Nat, q \in Nat : p = AgeAt(sent, x) /\ q = AgeAt(sent, y)
    BY <1>1, AgeRange
  <2>4. q < p /\ p <= a
    BY <2>1, <2>2, <2>3 DEF Listed, Sorted
  <2>5. AgeAt(sent, x) <= M /\ AgeAt(sent, y) <= M /\ AgeAt(sent, x) > 0
    BY <1>2, <1>3, <2>3, <2>4
  <2>6. isBefore16(x, y) <=> AgeAt(sent, x) > AgeAt(sent, y)
    BY <1>1, <2>5, BeforeIsOlder
  <2> QED BY <2>2, <2>3, <2>4, <2>6
<1> QED BY <1>4, <1>5, <1>6 DEF FecBlockState

(***************************************************************************)
(* What has arrived.                                                       *)
(***************************************************************************)
\* The two ways to ask whether a block is over agree.
LEMMA FromIs ==
  ASSUME sent \in Bases, NEW n \in Seq16, NEW b \in Bases,
         AgeAt(sent, b) > 0, AgeAt(sent, b) <= M, AgeAt(sent, BaseOf(n)) <= M
  PROVE  /\ Playout!From(n, b) <=> ~OverAt(n, b)
         /\ OverAt(n, b) <=> AgeAt(sent, b) > AgeAt(sent, BaseOf(n))
         /\ Playout!BaseOf(n) = BaseOf(n)
<1>1. sent \in Seq16 /\ b \in Seq16 /\ BaseOf(n) \in Seq16
  BY BasesAre, BaseOfIs
<1>2. PICK o \in Seq16 : o = BaseOf(n)
  BY <1>1
<1>3. n \in Int /\ o \in Int /\ b \in Int
  BY <1>1, <1>2, AgeRange
<1>4. Playout!BaseOf(n) = o
  <2>1. n % RTPA_DATA_SHARDS = n - o
    BY <1>2, BaseOfIs
  <2>2. n - (n - o) = o
    BY <1>3
  <2> QED BY <2>1, <2>2 DEF Playout!BaseOf
<1>5. PICK z \in Int : z = b - o
  BY <1>3
<1>6. PICK m \in Int : m = z % W
  BY ModIs
<1>7. Playout!From(n, b) <=> m <= H
  BY <1>4, <1>5, <1>6 DEF Playout!From, H
<1>8. isBefore16(b, o) <=> m > H
  BY <1>5, <1>6 DEF isBefore16, H
<1>9. isBefore16(b, o) <=> AgeAt(sent, b) > AgeAt(sent, o)
  BY <1>1, <1>2, BeforeIsOlder
<1>10. AgeAt(sent, b) \in Nat /\ AgeAt(sent, o) \in Nat
  BY <1>1, <1>2, AgeRange
<1>11. OverAt(n, b) <=> AgeAt(sent, b) > AgeAt(sent, o)
  BY <1>2, <1>10, AgeIs DEF OverAt
<1> QED BY <1>2, <1>4, <1>6, <1>7, <1>8, <1>9, <1>11, Sizes

\* Shards of blocks the host has sent lately.
Recent(S) == /\ S \subseteq Bases \X Shards
             /\ \A x \in S : AgeAt(sent, x[1]) > 0 /\ AgeAt(sent, x[1]) <= M

LEMMA SinceSame ==
  ASSUME sent \in Bases, NEW n \in Seq16, NEW S, Recent(S), AgeAt(sent, BaseOf(n)) <= M
  PROVE  /\ Since(n, S) = Playout!Since(n, S) /\ Recent(Since(n, S))
         /\ \A x \in S : x \in Since(n, S) <=> AgeAt(sent, x[1]) <= AgeAt(sent, BaseOf(n))
<1>1. ASSUME NEW x \in S
      PROVE  /\ Playout!From(n, x[1]) <=> ~OverAt(n, x[1])
             /\ OverAt(n, x[1]) <=> AgeAt(sent, x[1]) > AgeAt(sent, BaseOf(n))
             /\ AgeAt(sent, x[1]) \in Nat
  <2>1. PICK b \in Bases : b = x[1] /\ AgeAt(sent, b) > 0 /\ AgeAt(sent, b) <= M
    BY DEF Recent
  <2>2. AgeAt(sent, b) \in Nat
    BY <2>1, BasesAre, AgeRange
  <2> QED BY <2>1, <2>2, FromIs
<1>2. AgeAt(sent, BaseOf(n)) \in Nat
  BY BasesAre, BaseOfIs, AgeRange
<1>3. Since(n, S) = Playout!Since(n, S)
  BY <1>1 DEF Since, Playout!Since
<1>4. Since(n, S) \subseteq S
  BY DEF Since
<1>5. \A x \in S : x \in Since(n, S) <=> AgeAt(sent, x[1]) <= AgeAt(sent, BaseOf(n))
  BY <1>1, <1>2 DEF Since
<1> QED BY <1>3, <1>4, <1>5 DEF Recent

LEMMA NoteIs ==
  ASSUME TypeOK, NEW p \in Packet, NoteOrder(p)
  PROVE  lastOosSequenceNumber' \in Seq16 /\ receivedOosData' \in BOOLEAN
<1>1. CASE ~IsData(p)
  BY <1>1 DEF NoteOrder, order, TypeOK
<1>2. CASE IsData(p)
  <2>1. SequenceNumber(p) \in Seq16
    BY <1>2, PacketIs, BlockOf DEF IsData, SequenceNumber
  <2>2. 0 \in Seq16
    BY Sizes DEF Seq16
  <2>3. CASE ~synchronizing /\ isBefore16(SequenceNumber(p), oldestRtpBaseSequenceNumber)
    BY <1>2, <2>1, <2>3 DEF NoteOrder
  <2>4. CASE ~(~synchronizing /\ isBefore16(SequenceNumber(p), oldestRtpBaseSequenceNumber))
    <3>1. /\ receivedOosData' = (receivedOosData /\
                   ~isBefore16(oldestRtpBaseSequenceNumber, lastOosSequenceNumber))
          /\ lastOosSequenceNumber' = IF receivedOosData' THEN lastOosSequenceNumber ELSE 0
      BY <1>2, <2>4 DEF NoteOrder
    <3>2. receivedOosData' \in BOOLEAN
      BY <3>1
    <3> QED BY <2>2, <3>1, <3>2 DEF TypeOK
  <2> QED BY <2>3, <2>4
<1> QED BY <1>1, <1>2

\* Everything that has arrived is for a block in the list.
LEMMA ArrivedIs ==
  ASSUME TypeOK, Listed, Holds(blocks, arrived)
  PROVE  /\ Recent(arrived) /\ sent \in Bases
         /\ \A x \in arrived : AgeAt(sent, x[1]) <= AgeAt(sent, oldestRtpBaseSequenceNumber)
<1>1. arrived \subseteq Bases \X Shards /\ sent \in Bases /\ sent \in Seq16
  BY BasesAre DEF TypeOK
<1>2. PICK a \in Nat : a = AgeAt(sent, oldestRtpBaseSequenceNumber) /\ a <= M
  BY <1>1, BasesAre, AgeRange DEF Listed
<1>3. ASSUME NEW x \in arrived PROVE AgeAt(sent, x[1]) > 0 /\ AgeAt(sent, x[1]) <= a /\ AgeAt(sent, x[1]) <= M
  <2>1. PICK i \in DOMAIN blocks : blocks[i].base = x[1]
    BY DEF Holds
  <2>2. PICK c \in Nat : c = AgeAt(sent, x[1]) /\ c > 0 /\ c <= a
    BY <1>2, <2>1, ListIs DEF Listed, Sorted
  <2> QED BY <1>2, <2>2, Sizes
<1> QED BY <1>1, <1>2, <1>3 DEF Recent

LEMMA ArrivedFinite == arrived \subseteq Bases \X Shards => IsFiniteSet(arrived)
<1>1. IsFiniteSet(Seq16) /\ IsFiniteSet(Shards)
  <2>1. 0 \in Int /\ W - 1 \in Int /\ RTPA_DATA_SHARDS + RTPA_FEC_SHARDS - 1 \in Int
    BY RtpAudioAssumption
  <2> QED BY <2>1, FS_Interval DEF Seq16, Shards
<1>2. IsFiniteSet(Bases)
  BY <1>1, BasesAre, FS_Subset
<1>3. IsFiniteSet(Bases \X Shards)
  BY <1>1, <1>2, FS_Product
<1> QED BY <1>3, FS_Subset

(***************************************************************************)
(* The steps.                                                              *)
(***************************************************************************)
PlayoutStep ==
  Playout!Next \/ UNCHANGED <<nextRtpSequenceNumber, arrived, out, incompatibleServer>>

LEMMA AgeJoined ==
  ASSUME NEW s \in Bases, NEW o \in Bases, o # 0, o <= s + RTPA_DATA_SHARDS
  PROVE  AgeAt(s, o) = s + RTPA_DATA_SHARDS - o /\ s \in Nat /\ o \in Nat /\ o > 0
<1>1. 0 \in DataShards
  BY Sizes DEF DataShards
<1>2. s + RTPA_DATA_SHARDS <= W
  BY <1>1, BlockOf
<1>3. s \in 0 .. W - 1 /\ o \in 0 .. W - 1 /\ s \in Nat /\ o \in Nat
  BY BasesAre, Sizes DEF Seq16
<1>4. PICK z \in Int : z = s + RTPA_DATA_SHARDS - o
  BY <1>3, Sizes
<1>5. z \in 0 .. W - 1 /\ o > 0
  BY <1>2, <1>3, <1>4, Sizes
<1>6. z % W = z
  BY <1>4, <1>5, ModSmall
<1> QED BY <1>3, <1>4, <1>5, <1>6 DEF AgeAt

\* The host goes on by a block.
LEMMA LaterIs ==
  ASSUME Listed, AgeAt(sent, oldestRtpBaseSequenceNumber) <= Lead * RTPA_DATA_SHARDS
  PROVE  LET t == (sent + RTPA_DATA_SHARDS) % W
         IN  /\ t \in Bases /\ Sorted(blocks, t, oldestRtpBaseSequenceNumber)
             /\ AgeAt(t, oldestRtpBaseSequenceNumber) <= M
<1> DEFINE o == oldestRtpBaseSequenceNumber
           d == RTPA_DATA_SHARDS
<1>1. PICK a \in Nat : a = AgeAt(sent, o) /\ a <= Lead * d /\ a + d <= M /\ a + d < W
  <2>1. PICK a \in Nat : a = AgeAt(sent, o)
    BY BasesAre, AgeRange DEF Listed
  <2>2. PICK l \in Nat : l = Lead * d
    BY Sizes
  <2>3. a <= l /\ l + d <= M
    BY <2>1, <2>2, Sizes
  <2> QED BY <2>1, <2>2, <2>3, Sizes
<1>2. sent \in Seq16 /\ o \in Seq16 /\ sent \in Int /\ d \in Nat /\ sent \in Mult
  BY BasesAre, MultIs, Sizes DEF Listed
<1>3. PICK t \in Bases : t = (sent + d) % W
  <2>1. sent + d \in Mult /\ sent + d \in Int
    BY <1>2, MultIs
  <2>2. PICK x \in Int : x = sent + d /\ x \in Mult
    BY <2>1
  <2>3. x % W \in Seq16 /\ x % W \in Mult
    BY <2>2, ModRange, MultMod DEF Seq16
  <2> QED BY <2>2, <2>3, BasesAre
<1>4. AgeAt(t, o) = a + d
  BY <1>1, <1>2, <1>3, AgeSent
<1>5. ASSUME NEW i \in DOMAIN blocks
      PROVE  /\ AgeAt(sent, blocks[i].base) \in Nat /\ AgeAt(sent, blocks[i].base) > 0
             /\ AgeAt(sent, blocks[i].base) <= a
             /\ AgeAt(t, blocks[i].base) = AgeAt(sent, blocks[i].base) + d
  <2>1. PICK b \in Seq16 : b = blocks[i].base
    BY ListIs
  <2>2. PICK c \in Nat : c = AgeAt(sent, b)
    BY <1>2, AgeRange
  <2>3. c > 0 /\ c <= a
    BY <1>1, <2>1, <2>2 DEF Listed, Sorted
  <2>4. AgeAt(t, b) = c + d
    <3>1. AgeAt(sent, b) + RTPA_DATA_SHARDS < W
      BY <1>1, <1>2, <2>2, <2>3, Sizes
    <3>2. AgeAt((sent + RTPA_DATA_SHARDS) % W, b) = AgeAt(sent, b) + RTPA_DATA_SHARDS
      BY <1>2, <3>1, AgeSent
    <3> QED BY <1>3, <2>2, <3>2
  <2> QED BY <2>1, <2>2, <2>3, <2>4
<1>6. Sorted(blocks, t, o)
  <2>1. ASSUME NEW i \in DOMAIN blocks
        PROVE  AgeAt(t, blocks[i].base) > 0 /\ AgeAt(t, blocks[i].base) <= AgeAt(t, o)
    BY <1>1, <1>2, <1>4, <1>5
  <2>2. ASSUME NEW i \in DOMAIN blocks, NEW j \in DOMAIN blocks, i < j
        PROVE  AgeAt(t, blocks[j].base) < AgeAt(t, blocks[i].base)
    <3>1. AgeAt(sent, blocks[j].base) < AgeAt(sent, blocks[i].base)
      BY <2>2 DEF Listed, Sorted
    <3> QED BY <1>2, <1>5, <3>1
  <2> QED BY <2>1, <2>2 DEF Sorted
<1> QED BY <1>1, <1>3, <1>4, <1>6

LEMMA SendBlockKeeps ==
  ASSUME AInv, SendBlock PROVE AInv' /\ PlayoutStep
<1> DEFINE o == oldestRtpBaseSequenceNumber
<1>1. /\ ~Tuning /\ ~incompatibleServer /\ Listed /\ TypeOK
      /\ Turn(blocks, o, nextRtpSequenceNumber) /\ Holds(blocks, arrived)
  BY DEF AInv, SendBlock
<1>2. AgeAt(sent, o) <= Lead * RTPA_DATA_SHARDS
  BY <1>1, AgeIs DEF SendBlock, Turn
<1>3. PICK t : t = sent'
  OBVIOUS
<1>4. t \in Bases /\ Sorted(blocks, t, o) /\ AgeAt(t, o) <= M
  BY <1>1, <1>2, <1>3, LaterIs DEF SendBlock
<1>5. UNCHANGED <<blocks, nextRtpSequenceNumber, oldestRtpBaseSequenceNumber,
                  lastOosSequenceNumber, receivedOosData, synchronizing, incompatibleServer,
                  pc, out, arrived>>
  BY DEF SendBlock, numbers, order
<1>6. Listed'
  BY <1>1, <1>3, <1>4, <1>5 DEF Listed
<1>7. TypeOK'
  BY <1>1, <1>3, <1>4, <1>5 DEF TypeOK
<1>8. ASSUME synchronizing PROVE Joined(blocks, o, t)
  <2>1. Joined(blocks, o, sent) /\ o # 0
    BY <1>1, <1>8 DEF AInv, Tuning
  <2>2. CASE blocks = << >>
    <3>1. PICK n \in Starts : o <= n + RTPA_DATA_SHARDS
      BY <2>1, <2>2 DEF Joined
    <3>2. o <= sent + RTPA_DATA_SHARDS /\ sent \in Bases /\ o \in Bases
      BY <1>1, <2>1, <2>2 DEF Joined, Listed
    <3>3. AgeAt(sent, o) = sent + RTPA_DATA_SHARDS - o /\ sent \in Nat /\ o \in Nat
      BY <2>1, <3>2, AgeJoined
    <3>4. n \in Nat /\ n + (Lead + 1) * RTPA_DATA_SHARDS < W
      <4>1. n \in Bases /\ n + (Lead + 1) * RTPA_DATA_SHARDS < W
        BY StartsAssumption
      <4> QED BY <4>1, BasesAre, Sizes DEF Seq16
    <3>5. PICK l \in Nat : l = Lead * RTPA_DATA_SHARDS /\ n + (l + RTPA_DATA_SHARDS) < W
      BY <3>4, Sizes
    <3>6. PICK z \in 0 .. W - 1 : z = sent + RTPA_DATA_SHARDS
      BY <1>2, <3>1, <3>3, <3>4, <3>5, Sizes
    <3>7. t = z
      <4>1. z % W = z
        BY <3>6, ModSmall, Sizes
      <4> QED BY <1>3, <3>6, <4>1 DEF SendBlock
    <3> QED BY <2>2, <3>1, <3>2, <3>3, <3>6, <3>7, Sizes DEF Joined
  <2>3. CASE blocks # << >>
    BY <2>1, <2>3 DEF Joined
  <2> QED BY <2>2, <2>3
<1>9. (synchronizing /\ ~Tuning => Joined(blocks, o, sent))'
  BY <1>3, <1>5, <1>8
<1>10. ~Tuning' /\ Turn(blocks, o, nextRtpSequenceNumber)' /\ Holds(blocks, arrived)'
  BY <1>1, <1>5 DEF Tuning
<1>11. (incompatibleServer => pc = "receive")'
  BY <1>5 DEF AInv
<1> QED BY <1>5, <1>6, <1>7, <1>9, <1>10, <1>11 DEF AInv, PlayoutStep

\* Which blocks a packet can belong to.
LEMMA PacketAge ==
  ASSUME TypeOK, NEW p \in Packet, Sent(p.base)
  PROVE  /\ AgeAt(sent, p.base) \in Nat /\ AgeAt(sent, p.base) > 0 /\ AgeAt(sent, p.base) <= M
<1>1. sent \in Seq16 /\ p.base \in Seq16
  BY PacketIs, BasesAre DEF TypeOK
<1>2. PICK a \in Nat : a = AgeAt(sent, p.base)
  BY <1>1, AgeRange
<1>3. a \in 1 .. Reach * RTPA_DATA_SHARDS
  BY <1>2, AgeIs DEF Sent
<1> QED BY <1>2, <1>3, Sizes

LEMMA InTimeIs ==
  ASSUME TypeOK, Listed, NEW p \in Packet, Sent(p.base)
  PROVE  isBefore16(p.base, oldestRtpBaseSequenceNumber) <=> ~Fits(p)
<1>1. PICK a \in Nat : a = AgeAt(sent, p.base) /\ a > 0 /\ a <= M
  BY PacketAge
<1>2. /\ sent \in Seq16 /\ p.base \in Seq16 /\ oldestRtpBaseSequenceNumber \in Seq16
  BY PacketIs, BasesAre DEF Listed
<1>3. PICK c \in Nat : c = AgeAt(sent, oldestRtpBaseSequenceNumber) /\ c <= M
  BY <1>2, AgeRange DEF Listed
<1>4. AgeAt(sent, p.base) > 0 /\ AgeAt(sent, p.base) <= M
  BY <1>1
<1>5. AgeAt(sent, oldestRtpBaseSequenceNumber) <= M
  BY <1>3
<1>6. isBefore16(p.base, oldestRtpBaseSequenceNumber) <=>
        AgeAt(sent, p.base) > AgeAt(sent, oldestRtpBaseSequenceNumber)
  BY <1>2, <1>4, <1>5, BeforeIsOlder
<1> QED BY <1>1, <1>3, <1>6 DEF Fits

\* The instance's cardinality is that of the module it extends.
LEMMA CardinalityIs == \A S : Playout!Cardinality(S) = Cardinality(S)
BY DEF Playout!Cardinality, Cardinality

\* The history of a packet that came in time is the one the abstract queue keeps.
Got(p) == Came(p) \cup Makes(p)

LEMMA GotIsWith ==
  ASSUME TypeOK, NEW p \in Packet
  PROVE  /\ Got(p) = Playout!With(<<p.base, p.index>>, arrived)
         /\ Got(p) \subseteq Bases \X Shards /\ <<p.base, p.index>> \in Got(p)
         /\ Cardinality({x \in Came(p) : x[1] = p.base}) \in Nat
<1> DEFINE s == <<p.base, p.index>>
           S == {x \in arrived : x[1] = p.base}
<1>1. IsFiniteSet(S) /\ Cardinality(S) \in Nat
  BY ArrivedFinite, FS_Subset, FS_CardinalityType DEF TypeOK
<1>2. {x \in Came(p) : x[1] = p.base} = S \cup {s}
  BY DEF Came
<1>3. s \in S <=> s \in arrived
  OBVIOUS
<1> HIDE DEF S
<1>4. Cardinality(S \cup {s}) = IF s \in S THEN Cardinality(S) ELSE Cardinality(S) + 1
  BY <1>1, FS_AddElement
<1>5. {p.base} \X DataShards = {<<p.base, i>> : i \in 0 .. RTPA_DATA_SHARDS - 1}
  BY DEF DataShards
<1>6. Got(p) \subseteq Bases \X Shards /\ s \in Got(p)
  <2>1. DataShards \subseteq Shards
    BY RtpAudioAssumption DEF DataShards, Shards
  <2>2. Came(p) \subseteq Bases \X Shards /\ s \in Came(p)
    BY PacketIs DEF Came, TypeOK
  <2>3. Makes(p) \subseteq Bases \X Shards
    BY <2>1, PacketIs DEF Makes
  <2> QED BY <2>2, <2>3 DEF Got
<1>7. CASE s \in arrived
  BY <1>1, <1>2, <1>3, <1>4, <1>6, <1>7, CardinalityIs DEF Got, Came, Makes, Playout!With
<1>8. CASE s \notin arrived
  <2>1. Cardinality({x \in Came(p) : x[1] = p.base}) = Cardinality(S) + 1
    BY <1>2, <1>3, <1>4, <1>8
  <2>2. Makes(p) = IF Cardinality(S) + 1 >= RTPA_DATA_SHARDS THEN {p.base} \X DataShards ELSE {}
    BY <1>8, <2>1 DEF Makes
  <2>3. Playout!With(s, arrived) =
          IF Cardinality(S) + 1 >= RTPA_DATA_SHARDS
          THEN arrived \cup {s} \cup {<<p.base, i>> : i \in 0 .. RTPA_DATA_SHARDS - 1}
          ELSE arrived \cup {s}
    <3>1. s[1] = p.base
      OBVIOUS
    <3>2. {t \in arrived : t[1] = s[1]} = S
      BY <3>1 DEF S
    <3> HIDE DEF s
    <3>3. PICK T : T = {t \in arrived : t[1] = s[1]} /\ T = S
      BY <3>2
    <3>5. Playout!With(s, arrived) =
            IF Cardinality({t \in arrived : t[1] = s[1]}) + 1 >= RTPA_DATA_SHARDS
            THEN arrived \cup {s} \cup {<<s[1], i>> : i \in 0 .. RTPA_DATA_SHARDS - 1}
            ELSE arrived \cup {s}
      BY <1>8, CardinalityIs DEF Playout!With
    <3>4. Playout!With(s, arrived) =
            IF Cardinality(T) + 1 >= RTPA_DATA_SHARDS
            THEN arrived \cup {s} \cup {<<s[1], i>> : i \in 0 .. RTPA_DATA_SHARDS - 1}
            ELSE arrived \cup {s}
      BY <3>3, <3>5, Zenon
    <3> QED BY <3>1, <3>3, <3>4
  <2>4. Got(p) = Playout!With(s, arrived)
    <3>1. Came(p) = arrived \cup {s}
      BY DEF Came
    <3>2. CASE Cardinality(S) + 1 >= RTPA_DATA_SHARDS
      BY <1>5, <2>2, <2>3, <3>1, <3>2 DEF Got
    <3>3. CASE ~(Cardinality(S) + 1 >= RTPA_DATA_SHARDS)
      BY <2>2, <2>3, <3>1, <3>3 DEF Got
    <3> QED BY <3>2, <3>3
  <2> QED BY <1>1, <1>6, <2>1, <2>4
<1> QED BY <1>7, <1>8

\* Nothing else is added, and nothing for another block.
LEMMA GotOther ==
  ASSUME NEW p \in Packet
  PROVE  /\ arrived \subseteq Got(p)
         /\ \A x \in Got(p) : x \in arrived \/ x[1] = p.base
BY DEF Got, Came, Makes

\* What arrives in time stays: its block is not over.
LEMMA GotRecent ==
  ASSUME TypeOK, Listed, Holds(blocks, arrived), NEW p \in Packet, Fits(p)
  PROVE  /\ Recent(Got(p))
         /\ \A x \in Got(p) : AgeAt(sent, x[1]) <= AgeAt(sent, oldestRtpBaseSequenceNumber)
<1>1. /\ Recent(arrived) /\ sent \in Bases
      /\ \A x \in arrived : AgeAt(sent, x[1]) <= AgeAt(sent, oldestRtpBaseSequenceNumber)
  BY ArrivedIs
<1>2. sent \in Seq16 /\ oldestRtpBaseSequenceNumber \in Seq16 /\ p.base \in Seq16
  BY PacketIs, BasesAre DEF Listed
<1>3. PICK a \in Nat, c \in Nat : a = AgeAt(sent, p.base) /\ c = AgeAt(sent, oldestRtpBaseSequenceNumber)
  BY <1>2, AgeRange
<1>4. a > 0 /\ a <= c /\ c <= M /\ a <= M
  BY <1>3, Sizes DEF Fits, Listed
<1> QED BY <1>1, <1>3, <1>4, GotOther, GotIsWith DEF Recent

\* The list and the numbers stay.
LEMMA SameKeeps ==
  ASSUME AInv, TypeOK',
         UNCHANGED <<blocks, nextRtpSequenceNumber, oldestRtpBaseSequenceNumber, synchronizing, sent>>,
         incompatibleServer' => pc' = "receive",
         Tuning => arrived' = {},
         ~Tuning /\ ~incompatibleServer' => Holds(blocks, arrived')
  PROVE  AInv'
<1>1. (Tuning' <=> Tuning) /\ (Listed' <=> Listed)
      /\ (Turn(blocks, oldestRtpBaseSequenceNumber, nextRtpSequenceNumber)' <=>
          Turn(blocks, oldestRtpBaseSequenceNumber, nextRtpSequenceNumber))
      /\ (Joined(blocks, oldestRtpBaseSequenceNumber, sent)' <=>
          Joined(blocks, oldestRtpBaseSequenceNumber, sent))
  BY DEF Tuning, Listed
<1>2. Tuning => (nextRtpSequenceNumber = 0 /\ blocks = << >> /\ sent \in Starts)'
  BY DEF AInv
<1>3. Holds(blocks, arrived)' <=> Holds(blocks, arrived')
  OBVIOUS
<1> QED BY <1>1, <1>2, <1>3 DEF AInv

LEMMA PassthroughKeeps ==
  ASSUME AInv, NEW p \in Packet, Passthrough(p) PROVE AInv' /\ PlayoutStep
<1>1. UNCHANGED vars
  BY DEF Passthrough
<1>2. TypeOK' /\ (incompatibleServer' => pc' = "receive") /\ (Tuning => arrived' = {})
      /\ (~Tuning /\ ~incompatibleServer' => Holds(blocks, arrived'))
  BY <1>1 DEF AInv, vars, TypeOK
<1> QED BY <1>1, <1>2, SameKeeps DEF vars, PlayoutStep

LEMMA GetsNullKeeps ==
  ASSUME AInv, GetsNull PROVE AInv' /\ PlayoutStep
<1>1. /\ UNCHANGED <<blocks, nextRtpSequenceNumber, oldestRtpBaseSequenceNumber, synchronizing, sent>>
      /\ UNCHANGED <<lastOosSequenceNumber, receivedOosData, incompatibleServer, out, arrived>>
      /\ pc' = "receive"
  BY DEF GetsNull, numbers, order
<1>2. TypeOK' /\ (Tuning => arrived' = {}) /\ (~Tuning /\ ~incompatibleServer' => Holds(blocks, arrived'))
  BY <1>1 DEF AInv, TypeOK
<1> QED BY <1>1, <1>2, SameKeeps DEF PlayoutStep

LEMMA DirectKeeps ==
  ASSUME AInv, pc = "receive", NEW p \in Packet, Unaligned(p) \/ SizeDiffers(p)
  PROVE  AInv' /\ PlayoutStep
<1>1. /\ UNCHANGED <<blocks, nextRtpSequenceNumber, oldestRtpBaseSequenceNumber, synchronizing, sent>>
      /\ UNCHANGED <<out, pc>> /\ incompatibleServer' = TRUE /\ arrived' = {}
  BY DEF Unaligned, SizeDiffers, numbers, FecOff
<1>2. TypeOK
  BY DEF AInv
<1>3. lastOosSequenceNumber' \in Seq16 /\ receivedOosData' \in BOOLEAN
  BY <1>2, NoteIs DEF Unaligned, SizeDiffers, order, TypeOK
<1>4. TypeOK'
  BY <1>1, <1>2, <1>3 DEF TypeOK
<1>5. AInv'
  BY <1>1, <1>4, SameKeeps
<1> QED BY <1>1, <1>5 DEF PlayoutStep, Playout!Next, Playout!GoDirect

LEMMA NoMemoryKeeps ==
  ASSUME AInv, pc = "receive", NEW p \in Packet, NoMemory(p) PROVE AInv' /\ PlayoutStep
<1>1. UNCHANGED <<blocks, nextRtpSequenceNumber, oldestRtpBaseSequenceNumber, synchronizing, sent,
                  incompatibleServer, arrived, out, pc>>
  BY DEF NoMemory, numbers
<1>2. TypeOK
  BY DEF AInv
<1>3. lastOosSequenceNumber' \in Seq16 /\ receivedOosData' \in BOOLEAN
  BY <1>2, NoteIs DEF NoMemory
<1>4. TypeOK' /\ (Tuning => arrived' = {}) /\ (~Tuning /\ ~incompatibleServer' => Holds(blocks, arrived'))
  BY <1>1, <1>2, <1>3 DEF AInv, TypeOK
<1> QED BY <1>1, <1>4, SameKeeps DEF PlayoutStep

\* A packet of a block that is over changes nothing that is played.
LEMMA TooLateKeeps ==
  ASSUME AInv, pc = "receive", NEW p \in Packet, Sent(p.base), TooLate(p)
  PROVE  AInv' /\ PlayoutStep
<1> DEFINE o == oldestRtpBaseSequenceNumber
           n == nextRtpSequenceNumber
<1>1. /\ UNCHANGED <<blocks, nextRtpSequenceNumber, oldestRtpBaseSequenceNumber, synchronizing, sent,
                     incompatibleServer, out, pc>>
      /\ ~Tuning /\ ~incompatibleServer /\ isBefore16(p.base, o) /\ Arrive(p)
  BY DEF TooLate, numbers
<1>2. TypeOK /\ Listed /\ Holds(blocks, arrived) /\ Turn(blocks, o, n)
  BY <1>1 DEF AInv
<1>3. lastOosSequenceNumber' \in Seq16 /\ receivedOosData' \in BOOLEAN
  BY <1>2, NoteIs DEF TooLate
<1>4. ~Fits(p) /\ AgeAt(sent, p.base) > 0 /\ AgeAt(sent, p.base) <= M
  BY <1>1, <1>2, InTimeIs, PacketAge
<1>5. p.base \in Bases /\ n \in Seq16 /\ sent \in Bases /\ BaseOf(n) = o /\ AgeAt(sent, o) <= M
  BY <1>2, PacketIs DEF TypeOK, Turn, Listed
<1>6. ~InTimeAt(p)
  <2>1. AgeAt(sent, p.base) \in Nat /\ AgeAt(sent, o) \in Nat
    BY <1>2, <1>5, BasesAre, AgeRange DEF Listed
  <2>2. OverAt(n, p.base)
    BY <1>4, <1>5, <2>1, FromIs DEF Fits
  <2> QED BY <2>2 DEF InTimeAt
<1>7. arrived' = Since(n, arrived)
  BY <1>1, <1>6 DEF Arrive
<1>8. Since(n, arrived) = arrived
  <2>1. Recent(arrived) /\ \A x \in arrived : AgeAt(sent, x[1]) <= AgeAt(sent, o)
    BY <1>2, ArrivedIs
  <2>2. \A x \in arrived : x \in Since(n, arrived)
    BY <1>5, <2>1, SinceSame
  <2> QED BY <2>2 DEF Since
<1>9. TypeOK'
  BY <1>1, <1>2, <1>3, <1>7, <1>8 DEF TypeOK
<1>10. AInv'
  BY <1>1, <1>2, <1>7, <1>8, <1>9, SameKeeps
<1> QED BY <1>1, <1>7, <1>8, <1>10 DEF PlayoutStep

LEMMA OnTime ==
  ASSUME AInv, NEW p \in Packet, Sent(p.base), InTime(p)
  PROVE  /\ TypeOK /\ Listed /\ Fits(p) /\ Holds(blocks, arrived) /\ ~Tuning /\ ~incompatibleServer
         /\ Turn(blocks, oldestRtpBaseSequenceNumber, nextRtpSequenceNumber)
         /\ InTimeAt(p) /\ Playout!From(nextRtpSequenceNumber, p.base)
<1> DEFINE o == oldestRtpBaseSequenceNumber
           n == nextRtpSequenceNumber
<1>1. TypeOK /\ Listed /\ Holds(blocks, arrived) /\ Turn(blocks, o, n)
      /\ ~Tuning /\ ~incompatibleServer /\ ~isBefore16(p.base, o)
  BY DEF AInv, InTime
<1>2. Fits(p)
  BY <1>1, InTimeIs
<1>3. p.base \in Bases /\ n \in Seq16 /\ sent \in Bases /\ BaseOf(n) = o /\ AgeAt(sent, o) <= M
  BY <1>1, PacketIs DEF TypeOK, Turn, Listed
<1>4. AgeAt(sent, p.base) > 0 /\ AgeAt(sent, p.base) <= M
  BY <1>1, PacketAge
<1>5. AgeAt(sent, p.base) \in Nat /\ AgeAt(sent, o) \in Nat
  BY <1>1, <1>3, BasesAre, AgeRange DEF Listed
<1>6. ~OverAt(n, p.base) /\ Playout!From(n, p.base)
  BY <1>2, <1>3, <1>4, <1>5, FromIs DEF Fits
<1> QED BY <1>1, <1>2, <1>6 DEF InTimeAt

LEMMA ArriveSame ==
  ASSUME AInv, NEW p \in Packet, Sent(p.base), InTime(p), Arrive(p),
         UNCHANGED nextRtpSequenceNumber
  PROVE  /\ arrived' = Got(p)
         /\ Playout!Arrives(nextRtpSequenceNumber)
<1> DEFINE o == oldestRtpBaseSequenceNumber
           n == nextRtpSequenceNumber
<1>1. /\ TypeOK /\ Listed /\ Fits(p) /\ Holds(blocks, arrived) /\ Turn(blocks, o, n)
      /\ InTimeAt(p) /\ Playout!From(n, p.base)
  BY OnTime
<1>2. arrived' = Since(n, Got(p))
  BY <1>1 DEF Arrive, Got
<1>3. Recent(Got(p)) /\ \A x \in Got(p) : AgeAt(sent, x[1]) <= AgeAt(sent, o)
  BY <1>1, GotRecent
<1>4. n \in Seq16 /\ sent \in Bases /\ BaseOf(n) = o /\ AgeAt(sent, o) <= M
  BY <1>1 DEF TypeOK, Turn, Listed
<1>5. Since(n, Got(p)) = Got(p)
  <2>1. \A x \in Got(p) : x \in Since(n, Got(p))
    BY <1>3, <1>4, SinceSame
  <2> QED BY <2>1 DEF Since
<1>6. PICK s : s = <<p.base, p.index>>
  OBVIOUS
<1>8. s[1] = p.base
  BY <1>6
<1>7. s \in arrived' /\ arrived' = Playout!With(s, arrived) /\ Playout!From(n, s[1])
  BY <1>1, <1>2, <1>5, <1>6, <1>8, GotIsWith
<1> QED BY <1>2, <1>5, <1>7 DEF Playout!Arrives

\* A packet whose block is known is in it.
LEMMA KnownIs ==
  ASSUME Listed, NEW p \in Packet, Fits(p)
  PROVE  /\ \A i \in DOMAIN blocks : blocks[i].base = p.base => Known(p) /\ i = Place(p)
         /\ Known(p) => Place(p) \in DOMAIN blocks /\ blocks[Place(p)].base = p.base
<1>1. Known(p) => Place(p) \in DOMAIN blocks /\ blocks[Place(p)].base = p.base
  BY PlaceIs
<1>2. ASSUME NEW i \in DOMAIN blocks, blocks[i].base = p.base PROVE Known(p) /\ i = Place(p)
  <2>1. PICK x \in Nat : x = AgeAt(sent, p.base) /\ x = AgeAt(sent, blocks[i].base)
    BY <1>2, ListIs
  <2>5. (i < Place(p) => x < x) /\ (Place(p) < i => x < x)
    BY <2>1, PlaceIs
  <2>2. ~(i < Place(p)) /\ ~(Place(p) < i)
    BY <2>1, <2>5
  <2>3. i \in Nat /\ Place(p) \in Nat
    BY ListIs, PlaceIs DEF Listed
  <2>4. i = Place(p)
    BY <2>2, <2>3
  <2> QED BY <1>2, <2>1, <2>4, PlaceIs
<1> QED BY <1>1, <1>2

LEMMA DuplicateKeeps ==
  ASSUME AInv, pc = "receive", NEW p \in Packet, Sent(p.base), Duplicate(p)
  PROVE  AInv' /\ PlayoutStep
<1> DEFINE o == oldestRtpBaseSequenceNumber
           n == nextRtpSequenceNumber
           k == Place(p)
<1>1. /\ UNCHANGED <<blocks, nextRtpSequenceNumber, oldestRtpBaseSequenceNumber, synchronizing, sent,
                     incompatibleServer, out, pc>>
      /\ InTime(p) /\ ~Wanted(p) /\ Arrive(p)
  BY DEF Duplicate, numbers
<1>2. /\ TypeOK /\ Listed /\ Fits(p) /\ Holds(blocks, arrived) /\ ~Tuning /\ ~incompatibleServer
  BY <1>1, OnTime
<1>3. lastOosSequenceNumber' \in Seq16 /\ receivedOosData' \in BOOLEAN
  BY <1>2, NoteIs DEF Duplicate
<1>4. arrived' = Got(p) /\ Playout!Arrives(n)
  BY <1>1, ArriveSame
<1>5. TypeOK'
  BY <1>1, <1>2, <1>3, <1>4, GotIsWith DEF TypeOK
<1>6. k \in DOMAIN blocks /\ blocks[k].base = p.base
      /\ (blocks[k].fullyReassembled \/ p.index \in blocks[k].got)
  BY <1>1, <1>2, KnownIs DEF Wanted
<1>7. \A x \in Got(p) : x \in arrived \/ (x = <<p.base, p.index>> /\ p.index \notin DataShards
                                             /\ blocks[k].fullyReassembled)
  <2> SUFFICES ASSUME NEW x \in Got(p), x \notin arrived
               PROVE  /\ x = <<p.base, p.index>> /\ p.index \notin DataShards
                      /\ blocks[k].fullyReassembled
    OBVIOUS
  <2>1. Has(blocks[k], arrived)
    BY <1>2, <1>6 DEF Holds
  <2>2. <<p.base, p.index>> \notin arrived
    <3>1. <<p.base, p.index>> \in arrived => Got(p) = arrived
      BY DEF Got, Came, Makes
    <3> QED BY <3>1
  <2>3. p.index \notin blocks[k].got
    BY <1>6, <2>1, <2>2 DEF Has
  <2>4. blocks[k].fullyReassembled /\ DataShards \subseteq blocks[k].got
    BY <1>6, <2>1, <2>3 DEF Has
  <2>5. {p.base} \X DataShards \subseteq arrived
    BY <1>6, <2>1, <2>4 DEF Has
  <2>6. x = <<p.base, p.index>>
    <3>1. Got(p) \subseteq arrived \cup {<<p.base, p.index>>}
      BY <2>5 DEF Got, Came, Makes
    <3> QED BY <3>1
  <2> QED BY <2>3, <2>4, <2>6
<1>8. Holds(blocks, Got(p))
  <2>1. ASSUME NEW i \in DOMAIN blocks PROVE Has(blocks[i], Got(p))
    <3>1. Has(blocks[i], arrived)
      BY <1>2 DEF Holds
    <3>2. \A x \in blocks[i].got : <<blocks[i].base, x>> \in Got(p)
      BY <3>1, GotOther DEF Has
    <3>3. ASSUME NEW x \in Shards, <<blocks[i].base, x>> \in Got(p)
          PROVE  x \in blocks[i].got \/ (blocks[i].fullyReassembled /\ x \notin DataShards)
      <4>1. CASE <<blocks[i].base, x>> \in arrived
        BY <3>1, <4>1 DEF Has
      <4>2. CASE <<blocks[i].base, x>> \notin arrived
        <5>1. /\ blocks[i].base = p.base /\ x = p.index /\ p.index \notin DataShards
              /\ blocks[k].fullyReassembled
          BY <1>7, <3>3, <4>2
        <5>2. i = k
          BY <1>2, <5>1, KnownIs
        <5> QED BY <5>1, <5>2
      <4> QED BY <4>1, <4>2
    <3> QED BY <3>1, <3>2, <3>3 DEF Has
  <2>2. ASSUME NEW x \in Got(p) PROVE \E i \in DOMAIN blocks : blocks[i].base = x[1]
    BY <1>2, <1>6, GotOther DEF Holds
  <2> QED BY <2>1, <2>2 DEF Holds
<1>9. AInv'
  BY <1>1, <1>2, <1>4, <1>5, <1>8, SameKeeps
<1>10. Playout!Arrive
  BY <1>1, <1>2, <1>4 DEF Playout!Arrive
<1> QED BY <1>9, <1>10 DEF PlayoutStep, Playout!Next

LEMMA BlocksAre ==
  /\ Playout!Seq16 = Seq16 /\ Playout!Blocks = Bases
  /\ \A n \in Seq16 : Playout!BaseOf(n) = BaseOf(n)
<1>1. \A n \in Seq16 : Playout!BaseOf(n) = BaseOf(n)
  <2> SUFFICES ASSUME NEW n \in Seq16 PROVE Playout!BaseOf(n) = BaseOf(n)
    OBVIOUS
  <2>1. PICK b \in Int : b = BaseOf(n) /\ n % RTPA_DATA_SHARDS = n - b
    BY BaseOfIs
  <2>2. n \in Int /\ n - (n - b) = b
    BY Sizes DEF Seq16
  <2> QED BY <2>1, <2>2 DEF Playout!BaseOf
<1>2. Playout!Seq16 = Seq16
  BY DEF Playout!Seq16, Seq16
<1> QED BY <1>1, <1>2 DEF Playout!Blocks, Bases

LEMMA BaseOfBase == \A b \in Bases : BaseOf(b) = b /\ b \in Seq16 /\ b \in Nat
<1> SUFFICES ASSUME NEW b \in Bases PROVE BaseOf(b) = b /\ b \in Seq16 /\ b \in Nat
  OBVIOUS
<1>1. b \in Seq16 /\ b \in Nat
  BY BasesAre, Sizes DEF Seq16
<1>2. PICK i \in DataShards : i = 0
  BY Sizes DEF DataShards
<1>3. BaseOf(b + i) = b /\ b + i = b
  BY <1>1, <1>2, BlockOf
<1> QED BY <1>1, <1>3

\* The stream is joined after the block of its first packet.
LEMMA TunedIs ==
  ASSUME sent \in Starts, sent \in Bases, NEW b \in Bases, b <= sent
  PROVE  LET e == (b + RTPA_DATA_SHARDS) % W
         IN  e # 0 /\ e <= sent + RTPA_DATA_SHARDS
<1>1. PICK l \in Nat : l = Lead * RTPA_DATA_SHARDS /\ sent + (l + RTPA_DATA_SHARDS) < W
  <2>1. sent + (Lead + 1) * RTPA_DATA_SHARDS < W
    BY StartsAssumption
  <2> QED BY <2>1, Sizes
<1>2. sent \in Nat /\ b \in Nat
  BY BaseOfBase
<1>3. PICK y \in 0 .. W - 1 : y = b + RTPA_DATA_SHARDS
  BY <1>1, <1>2, Sizes
<1>4. y % W = y
  BY <1>3, ModSmall, Sizes
<1> QED BY <1>2, <1>3, <1>4, Sizes

LEMMA TuneKeeps ==
  ASSUME AInv, pc = "receive", NEW p \in Packet, Sent(p.base), Tune(p)
  PROVE  AInv' /\ PlayoutStep
<1> DEFINE e == (p.base + RTPA_DATA_SHARDS) % W
<1>1. /\ nextRtpSequenceNumber' = e /\ oldestRtpBaseSequenceNumber' = e
      /\ UNCHANGED <<blocks, synchronizing, incompatibleServer, sent, arrived, out, pc>>
      /\ ~incompatibleServer /\ Tuning
  BY DEF Tune
<1>2. /\ TypeOK /\ blocks = << >> /\ arrived = {} /\ sent \in Starts /\ synchronizing
      /\ pc = "receive"
  BY <1>1 DEF AInv, Tuning
<1>3. lastOosSequenceNumber' \in Seq16 /\ receivedOosData' \in BOOLEAN
  BY <1>2, NoteIs DEF Tune
<1>4. /\ p.base \in Bases /\ sent \in Bases
      /\ AgeAt(sent, p.base) > 0 /\ p.base <= sent
  BY <1>1, <1>2, PacketIs, PacketAge DEF TypeOK, Sent
<1>5. e \in Bases /\ e # 0 /\ e <= sent + RTPA_DATA_SHARDS
  BY <1>2, <1>4, EndOf, TunedIs
<1>6. AgeAt(sent, e) <= M
  <2>1. PICK a \in Nat : a = AgeAt(sent, p.base) /\ AgeAt(sent, e) = a - RTPA_DATA_SHARDS
    BY <1>4, EndOf
  <2>2. a <= M
    BY <1>2, <2>1, PacketAge
  <2> QED BY <2>1, <2>2, Sizes
<1> HIDE DEF e
<1>7. BaseOf(e) = e /\ e \in Seq16
  BY <1>5, BaseOfBase
<1>8. TypeOK'
  BY <1>1, <1>2, <1>3, <1>5, <1>7 DEF TypeOK
<1>9. Listed'
  <2>1. Sorted(<< >>, sent, e)
    BY DEF Sorted
  <2> QED BY <1>1, <1>2, <1>4, <1>5, <1>6, <2>1, <1>8 DEF Listed, TypeOK
<1>10. Turn(blocks, oldestRtpBaseSequenceNumber, nextRtpSequenceNumber)'
  <2>1. Turn(<< >>, e, e)
    BY <1>7 DEF Turn
  <2> QED BY <1>1, <1>2, <2>1
<1>11. Holds(blocks, arrived)'
  <2>1. Holds(<< >>, {})
    BY DEF Holds
  <2> QED BY <1>1, <1>2, <2>1
<1>12. Joined(blocks, oldestRtpBaseSequenceNumber, sent)'
  <2>1. Joined(<< >>, e, sent)
    BY <1>2, <1>5 DEF Joined
  <2> QED BY <1>1, <1>2, <2>1
<1>13. ~Tuning' /\ (incompatibleServer => pc = "receive")'
  BY <1>1, <1>2, <1>5 DEF Tuning
<1>14. AInv'
  BY <1>8, <1>9, <1>10, <1>11, <1>12, <1>13 DEF AInv
<1>15. Playout!Join
  BY <1>1, <1>2, <1>5, BlocksAre DEF Playout!Join
<1> QED BY <1>14, <1>15 DEF PlayoutStep, Playout!Next

\* The number after the next packet's.
LEMMA NextNumber ==
  ASSUME NEW o \in Bases, NEW i \in DataShards
  PROVE  LET m == (o + i + 1) % W
         IN  /\ i + 1 = RTPA_DATA_SHARDS => m = (o + RTPA_DATA_SHARDS) % W
             /\ i + 1 # RTPA_DATA_SHARDS =>
                  /\ m = o + (i + 1) /\ i + 1 \in DataShards /\ m \in Seq16
                  /\ m # (o + RTPA_DATA_SHARDS) % W /\ BaseOf(m) = o /\ m - o = i + 1
<1> DEFINE d == RTPA_DATA_SHARDS
<1>1. o \in Nat /\ i \in Nat /\ i < d /\ d \in Nat /\ W \in Nat /\ o < W
  BY BaseOfBase, Sizes DEF DataShards, Seq16
<1>2. o + d <= W
  BY BlockOf
<1> HIDE DEF d
<1>3. CASE i + 1 = d
  BY <1>1, <1>3 DEF d
<1>4. CASE i + 1 # d
  <2>1. PICK x \in 0 .. W - 1 : x = o + (i + 1) /\ x = o + i + 1
    BY <1>1, <1>2, <1>4
  <2>2. x % W = x
    BY <2>1, ModSmall, <1>1
  <2>3. i + 1 \in DataShards
    BY <1>1, <1>4 DEF DataShards, d
  <2>4. BaseOf(x) = o /\ x \in Seq16
    BY <2>1, <2>3, BlockOf
  <2>5. x # (o + d) % W
    <3>1. PICK y \in Nat : y = o + d
      BY <1>1
    <3>2. CASE y < W
      <4>1. y % W = y
        BY <1>1, <3>1, <3>2, ModSmall
      <4> QED BY <1>1, <1>4, <2>1, <3>1, <4>1
    <3>3. CASE y = W
      <4>1. y \in W .. 2 * W - 1
        BY <1>1, <3>1, <3>3, Sizes
      <4>2. y % W = y - W
        BY <4>1, <3>1, ModSmall
      <4> QED BY <1>1, <2>1, <3>1, <3>3, <4>2
    <3> QED BY <1>1, <1>2, <3>1, <3>2, <3>3
  <2>6. x - o = i + 1
    BY <1>1, <2>1
  <2> QED BY <1>4, <2>1, <2>2, <2>3, <2>4, <2>5, <2>6 DEF d
<1> QED BY <1>3, <1>4 DEF d

\* The first block is freed.
LEMMA FreedIs ==
  ASSUME sent \in Bases, NEW o \in Bases, AgeAt(sent, o) <= M,
         NEW T, NEW bs \in Seq(T), bs # << >>, bs[1].base = o, Sorted(bs, sent, o),
         \A i \in DOMAIN bs : i # 1 =>
            bs[i] \in Block /\ bs[i].nextDataPacketIndex = 0 /\ ~bs[i].allowDiscontinuity,
         NEW S, S \subseteq Bases \X Shards, Holds(bs, S)
  PROVE  LET e == (o + RTPA_DATA_SHARDS) % W
             f == Tail(bs)
         IN  /\ e \in Bases /\ e \in Seq16 /\ BaseOf(e) = e /\ AgeAt(sent, e) <= M /\ f \in Seq(Block)
             /\ Sorted(f, sent, e) /\ Turn(f, e, e) /\ Holds(f, Since(e, S))
             /\ Since(e, S) = Playout!Since(e, S) /\ Since(e, S) \subseteq Bases \X Shards
<1> DEFINE f == Tail(bs)
           A(i) == AgeAt(sent, bs[i].base)
           d == RTPA_DATA_SHARDS
<1>1. Len(bs) \in Nat /\ Len(bs) >= 1 /\ DOMAIN bs = 1 .. Len(bs) /\ 1 \in DOMAIN bs
  OBVIOUS
<1>2. f \in Seq(T) /\ DOMAIN f = 1 .. Len(bs) - 1 /\ \A i \in 1 .. Len(bs) - 1 : f[i] = bs[i + 1]
  <2>1. f \in Seq(T) /\ Len(f) = Len(bs) - 1 /\ \A i \in 1 .. Len(f) : f[i] = bs[i + 1]
    BY HeadTailProperties
  <2> QED BY <1>1, <2>1
<1>3. f \in Seq(Block)
  <2>1. \A i \in 1 .. Len(bs) - 1 : bs[i + 1] \in Block
    BY <1>1
  <2>2. Len(bs) - 1 \in Nat
    BY <1>1
  <2>3. f \in Seq(T) /\ Len(f) = Len(bs) - 1 /\ \A i \in 1 .. Len(f) : f[i] \in Block
    BY <1>1, <1>2, <2>1, HeadTailProperties
  <2> HIDE DEF f
  <2> QED BY <2>3, SeqDef
<1>4. PICK a \in Nat : a = AgeAt(sent, o) /\ a > 0 /\ a <= M /\ a >= d
  <2>1. AgeAt(sent, o) > 0
    BY <1>1 DEF Sorted
  <2> QED BY <2>1, EndOf
<1>5. PICK e \in Bases : e = (o + d) % W /\ AgeAt(sent, e) = a - d /\ e \in Seq16 /\ BaseOf(e) = e
  BY <1>4, EndOf, BaseOfBase
<1>6. ASSUME NEW i \in DOMAIN bs, i # 1
      PROVE  /\ A(i) \in Nat /\ A(i) > 0 /\ A(i) <= a - d /\ bs[i].base \in Bases
             /\ bs[i].base # o
  <2>1. bs[i].base \in Bases /\ 1 < i
    BY <1>1, <1>6 DEF Block
  <2>2. AgeAt(sent, bs[i].base) < AgeAt(sent, o) /\ AgeAt(sent, bs[i].base) > 0
    BY <1>1, <2>1 DEF Sorted
  <2>3. PICK c \in Nat : c = AgeAt(sent, bs[i].base) /\ c + d <= a
    BY <1>4, <2>1, <2>2, AgeLess
  <2>4. d \in Nat \ {0}
    BY Sizes
  <2>5. bs[i].base # o
    BY <1>4, <2>3, <2>4
  <2> QED BY <1>4, <2>1, <2>2, <2>3, <2>4, <2>5
<1>7. AgeAt(sent, e) <= M
  BY <1>4, <1>5, Sizes
<1>8. Recent(S)
  <2>1. ASSUME NEW x \in S PROVE AgeAt(sent, x[1]) > 0 /\ AgeAt(sent, x[1]) <= M
    <3>1. PICK i \in DOMAIN bs : bs[i].base = x[1]
      BY DEF Holds
    <3>2. CASE i = 1
      BY <1>4, <3>1, <3>2
    <3>3. CASE i # 1
      BY <1>4, <1>6, <3>1, <3>3, Sizes
    <3> QED BY <3>2, <3>3
  <2> QED BY <2>1 DEF Recent
<1>15. AgeAt(sent, BaseOf(e)) <= M /\ AgeAt(sent, BaseOf(e)) = a - d
  BY <1>5, <1>7
<1>9. /\ Since(e, S) = Playout!Since(e, S) /\ Recent(Since(e, S))
      /\ \A x \in S : x \in Since(e, S) <=> AgeAt(sent, x[1]) <= a - d
      /\ Since(e, S) \subseteq S
  <2>1. Since(e, S) = Playout!Since(e, S) /\ Recent(Since(e, S))
        /\ \A x \in S : x \in Since(e, S) <=> AgeAt(sent, x[1]) <= AgeAt(sent, BaseOf(e))
    BY <1>5, <1>8, <1>15, SinceSame
  <2>2. Since(e, S) \subseteq S
    BY DEF Since
  <2> QED BY <1>15, <2>1, <2>2
<1>10. \A i \in DOMAIN f : i + 1 \in DOMAIN bs /\ i + 1 # 1 /\ f[i] = bs[i + 1] /\ i \in Nat
  BY <1>1, <1>2
<1> HIDE DEF f, d
<1>11. Sorted(f, sent, e)
  <2>1. ASSUME NEW i \in DOMAIN f
        PROVE  AgeAt(sent, f[i].base) > 0 /\ AgeAt(sent, f[i].base) <= AgeAt(sent, e)
    BY <1>5, <1>6, <1>10
  <2>2. ASSUME NEW i \in DOMAIN f, NEW j \in DOMAIN f, i < j
        PROVE  AgeAt(sent, f[j].base) < AgeAt(sent, f[i].base)
    <3>1. PICK k \in DOMAIN bs, l \in DOMAIN bs : k = i + 1 /\ l = j + 1
      BY <1>10
    <3>2. k < l /\ f[i] = bs[k] /\ f[j] = bs[l]
      BY <1>10, <2>2, <3>1
    <3> QED BY <3>2 DEF Sorted
  <2> QED BY <2>1, <2>2 DEF Sorted
<1>12. Turn(f, e, e)
  <2>1. \A i \in DOMAIN f : f[i].nextDataPacketIndex = 0 /\ ~f[i].allowDiscontinuity
    BY <1>10
  <2>2. e - e = 0
    BY <1>5, BaseOfBase
  <2> QED BY <1>5, <2>1, <2>2 DEF Turn
<1>13. Holds(f, Since(e, S))
  <2>1. ASSUME NEW i \in DOMAIN f PROVE Has(f[i], Since(e, S))
    <3>1. PICK k \in DOMAIN bs : k = i + 1 /\ k # 1 /\ f[i] = bs[k]
      BY <1>10
    <3>2. Has(bs[k], S) /\ A(k) <= a - d
      BY <1>6, <3>1 DEF Holds
    <3>3. \A x : <<bs[k].base, x>> \in S <=> <<bs[k].base, x>> \in Since(e, S)
      BY <1>9, <3>2
    <3> QED BY <3>1, <3>2, <3>3 DEF Has
  <2>2. ASSUME NEW x \in Since(e, S) PROVE \E i \in DOMAIN f : f[i].base = x[1]
    <3>1. x \in S /\ AgeAt(sent, x[1]) <= a - d
      BY <1>9
    <3>2. PICK k \in DOMAIN bs : bs[k].base = x[1]
      BY <3>1 DEF Holds
    <3>3. k # 1
      <4> SUFFICES ASSUME k = 1 PROVE FALSE
        OBVIOUS
      <4>1. a <= a - d
        BY <1>4, <3>1, <3>2
      <4> QED BY <1>4, <4>1, Sizes DEF d
    <3>4. k - 1 \in DOMAIN f /\ (k - 1) + 1 = k
      BY <1>1, <1>2, <3>3
    <3> QED BY <1>10, <3>2, <3>4
  <2> QED BY <2>1, <2>2 DEF Holds
<1>14. Since(e, S) \subseteq Bases \X Shards
  BY <1>9
<1> QED BY <1>3, <1>5, <1>7, <1>9, <1>11, <1>12, <1>13, <1>14 DEF f, d

\* Within a block nothing is over.
LEMMA SinceStays ==
  ASSUME sent \in Bases, NEW o \in Bases, AgeAt(sent, o) <= M, NEW n \in Seq16, BaseOf(n) = o,
         NEW S, Recent(S), \A x \in S : AgeAt(sent, x[1]) <= AgeAt(sent, o)
  PROVE  Since(n, S) = S /\ Playout!Since(n, S) = S
<1>1. Since(n, S) = Playout!Since(n, S) /\ \A x \in S : x \in Since(n, S)
  BY SinceSame
<1>2. Since(n, S) \subseteq S
  BY DEF Since
<1> QED BY <1>1, <1>2

LEMMA ReadyIs ==
  ASSUME AInv, pc = "drain", Ready(blocks, nextRtpSequenceNumber)
  PROVE  LET o == oldestRtpBaseSequenceNumber
             i == nextRtpSequenceNumber - o
         IN  /\ blocks # << >> /\ blocks[1].base = o /\ blocks[1].nextDataPacketIndex = i
             /\ i \in DataShards /\ nextRtpSequenceNumber = o + i /\ o \in Bases /\ o \in Nat
             /\ TypeOK /\ Listed /\ Holds(blocks, arrived) /\ Turn(blocks, o, nextRtpSequenceNumber)
             /\ ~Tuning /\ ~incompatibleServer
<1> DEFINE o == oldestRtpBaseSequenceNumber
           n == nextRtpSequenceNumber
<1>1. blocks # << >>
  BY DEF Ready
<1>2. ~Tuning /\ ~incompatibleServer
  BY <1>1 DEF AInv
<1>3. /\ TypeOK /\ Listed /\ Holds(blocks, arrived) /\ Turn(blocks, o, n)
  BY <1>2 DEF AInv
<1>4. 1 \in DOMAIN blocks /\ blocks[1].base \in Bases /\ n \in Seq16 /\ o \in Bases
  BY <1>1, <1>3, HeadIs DEF TypeOK, Head16
<1>5. n - o \in DataShards /\ n = o + (n - o) /\ o \in Nat /\ n \in Nat
  BY <1>3, <1>4, NextIs, BaseOfBase, Sizes DEF Seq16
<1>6. blocks[1].base = o
  <2> SUFFICES ASSUME blocks[1].base # o PROVE FALSE
    OBVIOUS
  <2>1. blocks[1].nextDataPacketIndex = 0 /\ ~blocks[1].allowDiscontinuity
    BY <1>3, <1>4 DEF Turn
  <2>2. blocks[1].base + 0 = n
    BY <2>1 DEF Ready, Head16
  <2>3. n = blocks[1].base
    BY <1>4, <2>2, BaseOfBase
  <2>4. BaseOf(n) = blocks[1].base
    BY <1>4, <2>3, BaseOfBase
  <2> QED BY <1>3, <2>4 DEF Turn
<1>7. blocks[1].nextDataPacketIndex = n - o
  BY <1>3, <1>4, <1>6 DEF Turn
<1> QED BY <1>1, <1>2, <1>3, <1>4, <1>5, <1>6, <1>7

\* What is handed over is the next packet, and a lost one only if it has not come.
LEMMA HandsOver ==
  ASSUME AInv, pc = "drain", Ready(blocks, nextRtpSequenceNumber)
  PROVE  LET i == blocks[1].nextDataPacketIndex
         IN  /\ i \in blocks[1].got =>
                   /\ Playout!Shard(nextRtpSequenceNumber) \in arrived
                   /\ Head16(blocks) + i = nextRtpSequenceNumber
             /\ i \notin blocks[1].got => Playout!Shard(nextRtpSequenceNumber) \notin arrived
<1> DEFINE o == oldestRtpBaseSequenceNumber
           n == nextRtpSequenceNumber
           i == blocks[1].nextDataPacketIndex
<1>1. /\ blocks # << >> /\ blocks[1].base = o /\ i = n - o /\ i \in DataShards /\ n = o + i
      /\ TypeOK /\ Listed /\ Holds(blocks, arrived) /\ Turn(blocks, o, n)
  BY ReadyIs
<1>2. n \in Seq16 /\ BaseOf(n) = o
  BY <1>1 DEF TypeOK, Turn
<1>3. Playout!Shard(n) = <<o, i>>
  <2>1. n % RTPA_DATA_SHARDS = n - BaseOf(n)
    BY <1>2, BaseOfIs
  <2>2. Playout!BaseOf(n) = BaseOf(n)
    BY <1>2, BlocksAre
  <2> QED BY <1>1, <1>2, <2>1, <2>2 DEF Playout!Shard
<1>4. Has(blocks[1], arrived)
  BY <1>1, HeadIs DEF Holds
<1>5. i \in Shards
  BY <1>1, RtpAudioAssumption DEF DataShards, Shards
<1> QED BY <1>1, <1>3, <1>4, <1>5 DEF Has, Head16

LEMMA PlaysNext ==
  ASSUME AInv, GetQueuedPacket, UNCHANGED incompatibleServer,
         arrived' = Playout!Since(nextRtpSequenceNumber', arrived)
  PROVE  PlayoutStep
<1> DEFINE i == blocks[1].nextDataPacketIndex
<1>1. /\ pc = "drain" /\ Ready(blocks, nextRtpSequenceNumber) /\ NextPacket
      /\ out' = IF i \in blocks[1].got THEN Head16(blocks) + i ELSE Concealed
  BY DEF GetQueuedPacket
<1>2. ~incompatibleServer
  BY <1>1, ReadyIs
<1>3. Playout!Advance
  BY <1>1 DEF NextPacket, Playout!Advance
<1>4. CASE i \in blocks[1].got
  <2>1. out' = nextRtpSequenceNumber /\ Playout!Shard(nextRtpSequenceNumber) \in arrived
    BY <1>1, <1>4, HandsOver
  <2>2. Playout!Play
    BY <1>2, <1>3, <2>1 DEF Playout!Play
  <2> QED BY <2>2 DEF PlayoutStep, Playout!Next
<1>5. CASE i \notin blocks[1].got
  <2>1. out' = Concealed /\ Playout!Shard(nextRtpSequenceNumber) \notin arrived
    BY <1>1, <1>5, HandsOver
  <2>2. Playout!Conceal
    BY <1>2, <1>3, <2>1 DEF Playout!Conceal
  <2> QED BY <2>2 DEF PlayoutStep, Playout!Next
<1> QED BY <1>4, <1>5

LEMMA GetQueuedPacketKeeps ==
  ASSUME AInv, GetQueuedPacket PROVE AInv' /\ PlayoutStep
<1> DEFINE o == oldestRtpBaseSequenceNumber
           n == nextRtpSequenceNumber
           i == blocks[1].nextDataPacketIndex
           d == RTPA_DATA_SHARDS
           e == (o + RTPA_DATA_SHARDS) % W
<1>1. /\ pc = "drain" /\ Ready(blocks, n) /\ n' = (n + 1) % W
      /\ out' = IF i \in blocks[1].got THEN Head16(blocks) + i ELSE Concealed
      /\ IF i + 1 = d THEN FreeHead(blocks)
         ELSE /\ blocks' = [blocks EXCEPT ![1].nextDataPacketIndex = @ + 1]
              /\ UNCHANGED <<oldestRtpBaseSequenceNumber, synchronizing>>
      /\ arrived' = Since(n', arrived)
      /\ UNCHANGED <<lastOosSequenceNumber, receivedOosData, incompatibleServer, sent, pc>>
  BY DEF GetQueuedPacket, NextPacket, order
<1>2. /\ blocks # << >> /\ blocks[1].base = o /\ i = n - o /\ i \in DataShards /\ n = o + i
      /\ o \in Bases /\ o \in Nat
      /\ TypeOK /\ Listed /\ Holds(blocks, arrived) /\ Turn(blocks, o, n)
      /\ ~Tuning /\ ~incompatibleServer
  BY <1>1, ReadyIs
<1>3. /\ sent \in Bases /\ AgeAt(sent, o) <= M /\ Sorted(blocks, sent, o) /\ blocks \in Seq(Block)
      /\ arrived \subseteq Bases \X Shards
  BY <1>2 DEF Listed, TypeOK
<1>4. out' \in Seq16 \cup {Concealed}
  <2>1. i \in blocks[1].got => Head16(blocks) + i \in Seq16
    BY <1>2, BlockOf DEF Head16
  <2> QED BY <1>1, <2>1
<1>5. PICK m : m = n'
  OBVIOUS
<1>6. /\ i + 1 = d => m = e
      /\ i + 1 # d => m = o + (i + 1) /\ i + 1 \in DataShards /\ m \in Seq16 /\ BaseOf(m) = o /\ m - o = i + 1
  BY <1>1, <1>2, <1>5, NextNumber
<1>7. \A j \in DOMAIN blocks : j # 1 =>
         blocks[j] \in Block /\ blocks[j].nextDataPacketIndex = 0 /\ ~blocks[j].allowDiscontinuity
               /\ blocks[j].base # o
  <2> SUFFICES ASSUME NEW j \in DOMAIN blocks, j # 1
               PROVE  /\ blocks[j] \in Block /\ blocks[j].nextDataPacketIndex = 0
                      /\ ~blocks[j].allowDiscontinuity /\ blocks[j].base # o
    OBVIOUS
  <2>1. 1 \in DOMAIN blocks /\ 1 < j /\ blocks[j] \in Block /\ AgeAt(sent, blocks[j].base) \in Nat
    BY <1>2, HeadIs, ListIs
  <2>2. AgeAt(sent, blocks[j].base) < AgeAt(sent, o)
    BY <1>2, <1>3, <2>1 DEF Sorted
  <2>3. blocks[j].base # o
    <3>1. blocks[j].base = o => AgeAt(sent, blocks[j].base) < AgeAt(sent, blocks[j].base)
      BY <2>2
    <3> QED BY <2>1, <3>1
  <2> QED BY <1>2, <2>1, <2>3 DEF Turn
<1>8. CASE i + 1 = d
  <2> DEFINE f == Tail(blocks)
  <2>1. /\ e \in Bases /\ e \in Seq16 /\ AgeAt(sent, e) <= M /\ f \in Seq(Block)
        /\ Sorted(f, sent, e) /\ Turn(f, e, e) /\ Holds(f, Since(e, arrived))
        /\ Since(e, arrived) = Playout!Since(e, arrived) /\ Since(e, arrived) \subseteq Bases \X Shards
    BY <1>2, <1>3, <1>7, FreedIs
  <2>2. blocks' = f /\ oldestRtpBaseSequenceNumber' = e /\ synchronizing' = FALSE /\ n' = e
        /\ arrived' = Since(e, arrived)
    BY <1>1, <1>2, <1>5, <1>6, <1>8 DEF FreeHead, Head16
  <2> HIDE DEF e, f
  <2>3. TypeOK'
    BY <1>1, <1>2, <1>4, <2>1, <2>2 DEF TypeOK
  <2>4. Listed'
    BY <1>1, <1>3, <2>1, <2>2 DEF Listed
  <2>5. Turn(blocks, oldestRtpBaseSequenceNumber, nextRtpSequenceNumber)' /\ Holds(blocks, arrived)'
    BY <2>1, <2>2
  <2>6. AInv'
    BY <1>1, <1>2, <2>2, <2>3, <2>4, <2>5 DEF AInv, Tuning
  <2>7. arrived' = Playout!Since(nextRtpSequenceNumber', arrived)
    BY <2>1, <2>2
  <2> QED BY <1>1, <2>6, <2>7, PlaysNext
<1>9. CASE i + 1 # d
  <2> DEFINE g == [blocks EXCEPT ![1].nextDataPacketIndex = @ + 1]
  <2>1. blocks' = g /\ UNCHANGED <<oldestRtpBaseSequenceNumber, synchronizing>>
    BY <1>1, <1>9
  <2>2. /\ g \in Seq(Block) /\ DOMAIN g = DOMAIN blocks /\ g # << >> /\ 1 \in DOMAIN g
        /\ \A j \in DOMAIN blocks : /\ g[j].base = blocks[j].base /\ g[j].got = blocks[j].got
                                    /\ g[j].fullyReassembled = blocks[j].fullyReassembled
                                    /\ (j # 1 => g[j] = blocks[j])
        /\ g[1].nextDataPacketIndex = i + 1
    <3>1. 1 \in DOMAIN blocks /\ blocks[1] \in Block /\ 1 \in 1 .. Len(blocks)
      BY <1>2, <1>3, HeadIs
    <3>2. PICK b \in Block : b = [blocks[1] EXCEPT !.nextDataPacketIndex = @ + 1]
      BY <1>6, <1>9, <3>1 DEF Block
    <3>3. b.base = blocks[1].base /\ b.got = blocks[1].got
          /\ b.fullyReassembled = blocks[1].fullyReassembled /\ b.nextDataPacketIndex = i + 1
      BY <3>1, <3>2 DEF Block
    <3>4. g = [blocks EXCEPT ![1] = b]
      BY <3>2
    <3>5. /\ [blocks EXCEPT ![1] = b] \in Seq(Block) /\ Len([blocks EXCEPT ![1] = b]) = Len(blocks)
          /\ \A j \in 1 .. Len(blocks) : [blocks EXCEPT ![1] = b][j] = IF j = 1 THEN b ELSE blocks[j]
      BY <1>3, <3>1, ExceptSeq
    <3> HIDE DEF g
    <3> QED BY <1>3, <3>1, <3>3, <3>4, <3>5
  <2> HIDE DEF g
  <2>3. Sorted(g, sent, o)
    BY <1>3, <2>2 DEF Sorted
  <2>4. Turn(g, o, m)
    <3>1. \A j \in DOMAIN g : j # 1 => g[j].base # o /\ g[j].nextDataPacketIndex = 0
                                          /\ ~g[j].allowDiscontinuity
      BY <1>7, <2>2
    <3>2. g[1].base = o /\ g[1].nextDataPacketIndex = m - o /\ o = BaseOf(m)
      BY <1>2, <1>6, <1>9, <2>2
    <3> QED BY <2>2, <3>1, <3>2 DEF Turn
  <2>5. Holds(g, arrived)
    <3>1. \A j \in DOMAIN blocks : Has(g[j], arrived)
      BY <1>2, <2>2 DEF Holds, Has
    <3> QED BY <1>2, <2>2, <3>1 DEF Holds
  <2>6. Since(m, arrived) = arrived /\ Playout!Since(m, arrived) = arrived
    <3>1. Recent(arrived) /\ \A x \in arrived : AgeAt(sent, x[1]) <= AgeAt(sent, o)
      BY <1>2, ArrivedIs
    <3> QED BY <1>2, <1>3, <1>6, <1>9, <3>1, SinceStays
  <2>7. arrived' = arrived
    BY <1>1, <1>5, <2>6
  <2>8. TypeOK'
    BY <1>1, <1>2, <1>4, <1>5, <1>6, <1>9, <2>1, <2>2, <2>7 DEF TypeOK
  <2>9. Listed'
    BY <1>1, <1>2, <1>3, <2>1, <2>2, <2>3 DEF Listed
  <2>10. Turn(blocks, oldestRtpBaseSequenceNumber, nextRtpSequenceNumber)' /\ Holds(blocks, arrived)'
    BY <1>5, <2>1, <2>4, <2>5, <2>7
  <2>11. ~Tuning' /\ (synchronizing' => Joined(blocks, oldestRtpBaseSequenceNumber, sent)')
    <3>1. Joined(g, o, sent)
      BY <1>2, <2>2 DEF Joined
    <3>2. Joined(blocks, oldestRtpBaseSequenceNumber, sent)'
      BY <1>1, <2>1, <3>1
    <3> QED BY <1>2, <2>1, <3>2 DEF Tuning
  <2>12. AInv'
    BY <1>1, <1>2, <2>8, <2>9, <2>10, <2>11 DEF AInv
  <2>13. arrived' = Playout!Since(nextRtpSequenceNumber', arrived)
    BY <1>5, <2>6, <2>7
  <2> QED BY <1>1, <2>12, <2>13, PlaysNext
<1> QED BY <1>8, <1>9

(***************************************************************************)
(* A packet is put in its block.                                           *)
(***************************************************************************)
\* A block with a shard more.
With1(p) == [Old(p) EXCEPT !.got = @ \cup {p.index}]

LEMMA OldHas ==
  ASSUME TypeOK, Listed, Holds(blocks, arrived), NEW p \in Packet, Fits(p), Wanted(p)
  PROVE  /\ \A x \in Shards : <<p.base, x>> \in arrived <=> x \in Old(p).got
         /\ <<p.base, p.index>> \notin arrived
<1>1. /\ Old(p) \in Block /\ Old(p).base = p.base /\ p.index \in Shards
      /\ ~Old(p).fullyReassembled /\ p.index \notin Old(p).got
  BY OldIs, PacketIs
<1>2. CASE Known(p)
  <2>1. Place(p) \in DOMAIN blocks /\ Old(p) = blocks[Place(p)]
    BY <1>2, KnownIs DEF Old
  <2>2. Has(Old(p), arrived)
    BY <2>1 DEF Holds
  <2>3. Old(p).got \subseteq Shards
    BY <1>1 DEF Block
  <2> QED BY <1>1, <2>2, <2>3 DEF Has
<1>3. CASE ~Known(p)
  <2>1. Old(p).got = {}
    BY <1>3 DEF Old, NewBlock
  <2>2. \A x : <<p.base, x>> \notin arrived
    <3> SUFFICES ASSUME NEW x, <<p.base, x>> \in arrived PROVE FALSE
      OBVIOUS
    <3>1. PICK s \in arrived : s = <<p.base, x>> /\ s[1] = p.base
      <4>1. <<p.base, x>>[1] = p.base
        OBVIOUS
      <4> QED BY <4>1
    <3>2. PICK i \in DOMAIN blocks : blocks[i].base = p.base
      BY <3>1 DEF Holds
    <3> QED BY <1>3, <3>2, KnownIs
  <2> QED BY <2>1, <2>2
<1> QED BY <1>2, <1>3

LEMMA HasCard ==
  ASSUME TypeOK, Listed, Holds(blocks, arrived), NEW p \in Packet, Fits(p), Wanted(p)
  PROVE  Cardinality(With1(p).got) = Cardinality({x \in Came(p) : x[1] = p.base})
<1> DEFINE S == {x \in Came(p) : x[1] = p.base}
           T == With1(p).got
           f == [x \in T |-> <<p.base, x>>]
<1>1. /\ Old(p) \in Block /\ p.index \in Shards
      /\ \A x \in Shards : <<p.base, x>> \in arrived <=> x \in Old(p).got
  BY OldIs, OldHas, PacketIs
<1>2. T = Old(p).got \cup {p.index} /\ T \subseteq Shards
  BY <1>1 DEF With1, Block
<1>3. \A x \in Shards : <<p.base, x>> \in S <=> x \in T
  BY <1>1, <1>2 DEF Came
<1>4. S \subseteq Bases \X Shards
  BY PacketIs DEF Came, TypeOK
<1>5. IsFiniteSet(T)
  <2>1. 0 \in Int /\ RTPA_DATA_SHARDS + RTPA_FEC_SHARDS - 1 \in Int
    BY RtpAudioAssumption
  <2>2. IsFiniteSet(Shards)
    BY <2>1, FS_Interval DEF Shards
  <2> QED BY <1>2, <2>2, FS_Subset
<1>6. \A x \in S : x = <<p.base, x[2]>> /\ x[2] \in Shards
  BY <1>4
<1> HIDE DEF S, T
<1>7. f \in Bijection(T, S)
  <2>1. f \in [T -> S]
    BY <1>2, <1>3
  <2>2. \A x, y \in T : f[x] = f[y] => x = y
    OBVIOUS
  <2>3. \A y \in S : \E x \in T : f[x] = y
    BY <1>3, <1>6
  <2> QED BY <2>1, <2>2, <2>3 DEF Bijection, Injection, IsInjective, Surjection
<1>8. ExistsBijection(T, S)
  BY <1>7 DEF ExistsBijection
<1> QED BY <1>5, <1>8, FS_Bijection DEF S, T

LEMMA With1Is ==
  ASSUME TypeOK, Listed, Holds(blocks, arrived), NEW p \in Packet, Fits(p), Wanted(p)
  PROVE  /\ With1(p) \in Block /\ With1(p).base = p.base /\ ~With1(p).fullyReassembled
         /\ With1(p).nextDataPacketIndex = Old(p).nextDataPacketIndex
         /\ With1(p).allowDiscontinuity = Old(p).allowDiscontinuity
         /\ \A x \in Shards : <<p.base, x>> \in Came(p) <=> x \in With1(p).got
         /\ With1(p).got \subseteq Shards
<1>1. /\ Old(p) \in Block /\ Old(p).base = p.base /\ p.index \in Shards
      /\ ~Old(p).fullyReassembled
      /\ \A x \in Shards : <<p.base, x>> \in arrived <=> x \in Old(p).got
  BY OldIs, OldHas, PacketIs
<1>2. With1(p).got = Old(p).got \cup {p.index}
  BY <1>1 DEF With1, Block
<1>3. With1(p) \in Block /\ With1(p).base = p.base /\ ~With1(p).fullyReassembled
      /\ With1(p).nextDataPacketIndex = Old(p).nextDataPacketIndex
      /\ With1(p).allowDiscontinuity = Old(p).allowDiscontinuity
  BY <1>1 DEF With1, Block
<1>4. \A x \in Shards : <<p.base, x>> \in Came(p) <=> x \in With1(p).got
  BY <1>1, <1>2 DEF Came
<1>5. With1(p).got \subseteq Shards
  BY <1>1, <1>2 DEF Block
<1> QED BY <1>3, <1>4, <1>5

LEMMA CompletedIs ==
  ASSUME TypeOK, Listed, Holds(blocks, arrived), NEW p \in Packet, Fits(p), Wanted(p)
  PROVE  LET c == Completed(With1(p))
         IN  /\ c \in Block /\ c.base = p.base /\ Has(c, Got(p))
             /\ c.nextDataPacketIndex = Old(p).nextDataPacketIndex
             /\ c.allowDiscontinuity = Old(p).allowDiscontinuity
<1> DEFINE b == With1(p)
<1>1. /\ b \in Block /\ b.base = p.base /\ ~b.fullyReassembled
      /\ b.nextDataPacketIndex = Old(p).nextDataPacketIndex
      /\ b.allowDiscontinuity = Old(p).allowDiscontinuity
      /\ \A x \in Shards : <<p.base, x>> \in Came(p) <=> x \in b.got
      /\ b.got \subseteq Shards
  BY With1Is
<1>2. Cardinality(b.got) = Cardinality({x \in Came(p) : x[1] = p.base})
  BY HasCard
<1>3. <<p.base, p.index>> \notin arrived
  BY OldHas
<1>4. DataShards \subseteq Shards
  BY RtpAudioAssumption DEF DataShards, Shards
<1> HIDE DEF b
<1>5. CASE Cardinality(b.got) >= RTPA_DATA_SHARDS
  <2>1. Completed(b) = [b EXCEPT !.got = @ \cup DataShards, !.fullyReassembled = TRUE]
    BY <1>5 DEF Completed
  <2>2. PICK c : c = Completed(b) /\ c \in Block /\ c.base = p.base /\ c.got = b.got \cup DataShards
                 /\ c.fullyReassembled = TRUE
                 /\ c.nextDataPacketIndex = b.nextDataPacketIndex
                 /\ c.allowDiscontinuity = b.allowDiscontinuity
    BY <1>1, <1>4, <2>1 DEF Block
  <2>3. Got(p) = Came(p) \cup ({p.base} \X DataShards)
    BY <1>2, <1>3, <1>5 DEF Got, Makes
  <2>4. \A x \in Shards : <<p.base, x>> \in Got(p) <=> x \in c.got
    BY <1>1, <2>2, <2>3
  <2>5. Has(c, Got(p))
    BY <1>1, <1>4, <2>2, <2>4 DEF Has
  <2> QED BY <1>1, <2>2, <2>5 DEF b
<1>6. CASE ~(Cardinality(b.got) >= RTPA_DATA_SHARDS)
  <2>1. Completed(b) = b
    BY <1>6 DEF Completed
  <2>2. Got(p) = Came(p)
    BY <1>2, <1>6 DEF Got, Makes
  <2>3. Has(b, Got(p))
    BY <1>1, <2>2 DEF Has
  <2> QED BY <1>1, <2>1, <2>3 DEF b
<1> QED BY <1>5, <1>6

LEMMA HoldsPut ==
  ASSUME Listed, Holds(blocks, arrived), NEW p \in Packet, Fits(p),
         NEW e, e.base = p.base, NEW G, arrived \subseteq G,
         \A x \in G : x \in arrived \/ x[1] = p.base, Has(e, G)
  PROVE  Holds(Put(p, e), G)
<1> DEFINE r == Put(p, e)
           k == Place(p)
<1>1. /\ k \in DOMAIN r /\ r[k] = e
      /\ \A i \in DOMAIN r : i # k =>
           \E j \in DOMAIN blocks : r[i] = blocks[j] /\ blocks[j].base # p.base
      /\ \A j \in DOMAIN blocks : blocks[j].base # p.base =>
           \E i \in DOMAIN r : i # k /\ r[i] = blocks[j]
  <2>1. k \in DOMAIN r /\ r[k] = e /\ Others(r, p)
    BY PutIs
  <2> HIDE DEF r
  <2> QED BY <2>1 DEF Others
<1> HIDE DEF r, k
<1>2. ASSUME NEW i \in DOMAIN r PROVE Has(r[i], G)
  <2>1. CASE i = k
    BY <1>1, <2>1
  <2>2. CASE i # k
    <3>1. PICK j \in DOMAIN blocks : r[i] = blocks[j] /\ blocks[j].base # p.base
      BY <1>1, <2>2
    <3>2. Has(blocks[j], arrived)
      BY DEF Holds
    <3>3. ASSUME NEW x PROVE <<blocks[j].base, x>> \in G <=> <<blocks[j].base, x>> \in arrived
      <4>1. <<blocks[j].base, x>>[1] # p.base
        BY <3>1
      <4> QED BY <4>1
    <3> QED BY <3>1, <3>2, <3>3 DEF Has
  <2> QED BY <2>1, <2>2
<1>3. ASSUME NEW x \in G PROVE \E i \in DOMAIN r : r[i].base = x[1]
  <2>1. CASE x[1] = p.base
    BY <1>1, <2>1
  <2>2. CASE x[1] # p.base
    <3>1. PICK j \in DOMAIN blocks : blocks[j].base = x[1]
      BY <2>2 DEF Holds
    <3> QED BY <1>1, <2>2, <3>1
  <2> QED BY <2>1, <2>2
<1> QED BY <1>2, <1>3 DEF Holds, r

\* The block with the next packet played.
Played(p) == [With1(p) EXCEPT !.nextDataPacketIndex = @ + 1]

LEMMA InOrderIs ==
  ASSUME AInv, NEW p \in Packet, Sent(p.base), InOrder(p)
  PROVE  LET o == oldestRtpBaseSequenceNumber
             n == nextRtpSequenceNumber
             e == Played(p)
         IN  /\ TypeOK /\ Listed /\ Fits(p) /\ Holds(blocks, arrived) /\ ~Tuning /\ ~incompatibleServer
             /\ Turn(blocks, o, n) /\ o \in Bases /\ p.base = o /\ p.index \in DataShards
             /\ n = o + p.index /\ Place(p) = 1
             /\ e.base = o /\ e.nextDataPacketIndex = p.index + 1 /\ Has(e, Came(p))
             /\ p.index + 1 \in DataShards => e \in Block
             /\ Playout!Shard(n) = <<p.base, p.index>>
<1> DEFINE o == oldestRtpBaseSequenceNumber
           n == nextRtpSequenceNumber
           b == With1(p)
<1>1. InTime(p) /\ Wanted(p) /\ p.index \in DataShards /\ p.base + p.index = n
  BY DEF InOrder, Wanted, IsData, SequenceNumber
<1>2. /\ TypeOK /\ Listed /\ Fits(p) /\ Holds(blocks, arrived) /\ ~Tuning /\ ~incompatibleServer
      /\ Turn(blocks, o, n)
  BY <1>1, OnTime
<1>3. p.base \in Bases /\ o = p.base /\ n \in Seq16 /\ BaseOf(n) = o
  <2>1. p.base \in Bases
    BY PacketIs
  <2>2. BaseOf(p.base + p.index) = p.base
    BY <1>1, <2>1, BlockOf
  <2> QED BY <1>1, <1>2, <2>1, <2>2 DEF Turn, TypeOK
<1>4. Place(p) = 1
  BY <1>2, <1>3, FirstPlace
<1>5. p.index \in Nat /\ n - o = p.index
  BY <1>1, <1>3, BaseOfBase, Sizes DEF DataShards
<1>6. Old(p).nextDataPacketIndex = p.index
  <2>1. CASE Known(p)
    <3>1. 1 \in DOMAIN blocks /\ blocks[1].base = o /\ Old(p) = blocks[1]
      BY <1>2, <1>3, <1>4, <2>1, KnownIs DEF Old
    <3> QED BY <1>2, <1>5, <3>1 DEF Turn
  <2>2. CASE ~Known(p)
    <3>1. n = o
      <4> SUFFICES ASSUME n # o PROVE FALSE
        OBVIOUS
      <4>1. blocks # << >> /\ blocks[1].base = o
        BY <1>2 DEF Turn
      <4>2. 1 \in DOMAIN blocks
        BY <1>2, <4>1, HeadIs
      <4> QED BY <1>2, <1>3, <2>2, <4>1, <4>2, KnownIs
    <3>2. p.index = 0
      BY <1>1, <1>3, <1>5, <3>1, BaseOfBase
    <3> QED BY <2>2, <3>2 DEF Old, NewBlock
  <2> QED BY <2>1, <2>2
<1>7. /\ b \in Block /\ b.base = p.base /\ ~b.fullyReassembled
      /\ b.nextDataPacketIndex = p.index
      /\ \A x \in Shards : <<p.base, x>> \in Came(p) <=> x \in b.got
      /\ b.got \subseteq Shards
  BY <1>1, <1>2, <1>6, With1Is
<1> HIDE DEF b
<1>12. Played(p) = [b EXCEPT !.nextDataPacketIndex = @ + 1]
  BY DEF Played, b
<1>8. PICK e : e = Played(p) /\ e.base = o /\ e.nextDataPacketIndex = p.index + 1
               /\ e.got = b.got /\ e.fullyReassembled = b.fullyReassembled
               /\ (p.index + 1 \in DataShards => e \in Block)
  BY <1>3, <1>7, <1>12 DEF Block
<1>9. Has(e, Came(p))
  BY <1>3, <1>7, <1>8 DEF Has
<1>10. Playout!Shard(n) = <<p.base, p.index>>
  <2>1. n % RTPA_DATA_SHARDS = n - BaseOf(n) /\ Playout!BaseOf(n) = BaseOf(n)
    BY <1>3, BaseOfIs, BlocksAre
  <2> QED BY <1>3, <1>5, <2>1 DEF Playout!Shard
<1>11. n = o + p.index
  BY <1>1, <1>3
<1> QED BY <1>1, <1>2, <1>3, <1>4, <1>8, <1>9, <1>10, <1>11

\* Received and changed in place is put.
LEMMA ReceivedPlayed ==
  ASSUME Listed, NEW p \in Packet, Fits(p)
  PROVE  /\ [Received(p) EXCEPT ![Place(p)].nextDataPacketIndex = @ + 1] = Put(p, Played(p))
         /\ [Received(p) EXCEPT ![Place(p)] = Completed(@)] = Put(p, Completed(With1(p)))
<1> DEFINE w == WithBlock(p)
           k == Place(p)
<1>1. w \in Seq(Block) /\ k \in DOMAIN w /\ w[k] = Old(p)
  BY WithIs
<1>2. Received(p) = [w EXCEPT ![k] = With1(p)]
  <2>1. Received(p) = [w EXCEPT ![k].got = @ \cup {p.index}]
    BY DEF Received
  <2> HIDE DEF w, k
  <2> QED BY <1>1, <2>1 DEF With1
<1> HIDE DEF w, k
<1>3. Received(p)[k] = With1(p)
  BY <1>1, <1>2
<1>4. \A e : [Received(p) EXCEPT ![k] = e] = [w EXCEPT ![k] = e]
  BY <1>1, <1>2
<1>5. [Received(p) EXCEPT ![k].nextDataPacketIndex = @ + 1] = [w EXCEPT ![k] = Played(p)]
  BY <1>1, <1>3, <1>4 DEF Played
<1>6. [Received(p) EXCEPT ![k] = Completed(@)] = [w EXCEPT ![k] = Completed(With1(p))]
  BY <1>3, <1>4
<1> QED BY <1>5, <1>6 DEF Put, w, k

\* The blocks but the head are not begun.
LEMMA PutRest ==
  ASSUME Listed, Turn(blocks, oldestRtpBaseSequenceNumber, nextRtpSequenceNumber),
         NEW p \in Packet, Fits(p), NEW e, e.base = p.base, p.base = oldestRtpBaseSequenceNumber,
         NEW j \in DOMAIN Put(p, e), j # Place(p)
  PROVE  /\ Put(p, e)[j] \in Block /\ Put(p, e)[j].nextDataPacketIndex = 0
         /\ ~Put(p, e)[j].allowDiscontinuity /\ Put(p, e)[j].base # oldestRtpBaseSequenceNumber
<1>1. Others(Put(p, e), p)
  BY PutIs
<1>2. PICK l \in DOMAIN blocks : Put(p, e)[j] = blocks[l] /\ blocks[l].base # p.base
  BY <1>1 DEF Others
<1>3. blocks[l] \in Block
  BY ListIs
<1> QED BY <1>2, <1>3 DEF Turn

LEMMA InOrderKeeps ==
  ASSUME AInv, pc = "receive", NEW p \in Packet, Sent(p.base), InOrder(p)
  PROVE  AInv' /\ PlayoutStep
<1> DEFINE o == oldestRtpBaseSequenceNumber
           n == nextRtpSequenceNumber
           i == p.index
           d == RTPA_DATA_SHARDS
           f == (o + RTPA_DATA_SHARDS) % W
           e == Played(p)
           bs == Put(p, Played(p))
           G == Came(p)
<1>1. /\ TypeOK /\ Listed /\ Fits(p) /\ Holds(blocks, arrived) /\ ~Tuning /\ ~incompatibleServer
      /\ Turn(blocks, o, n) /\ o \in Bases /\ p.base = o /\ i \in DataShards
      /\ n = o + i /\ Place(p) = 1
      /\ e.base = o /\ e.nextDataPacketIndex = i + 1 /\ Has(e, G)
      /\ (i + 1 \in DataShards => e \in Block)
      /\ Playout!Shard(n) = <<p.base, i>>
  BY InOrderIs
<1>2. /\ n' = (n + 1) % W
      /\ IF n' = f THEN FreeHead(bs)
         ELSE blocks' = bs /\ UNCHANGED <<oldestRtpBaseSequenceNumber, synchronizing>>
      /\ out' = n /\ arrived' = Since(n', G)
      /\ UNCHANGED <<incompatibleServer, sent, pc>> /\ NoteOrder(p)
  <2>1. [Received(p) EXCEPT ![Place(p)].nextDataPacketIndex = @ + 1] = bs
    BY <1>1, ReceivedPlayed
  <2> HIDE DEF bs
  <2> QED BY <1>1, <2>1 DEF InOrder, NextPacket, ArriveAndGo, SequenceNumber
<1>3. lastOosSequenceNumber' \in Seq16 /\ receivedOosData' \in BOOLEAN
  BY <1>1, <1>2, NoteIs
<1>4. sent \in Bases /\ AgeAt(sent, o) <= M /\ n \in Seq16
  BY <1>1 DEF Listed, TypeOK
<1>5. /\ bs \in Seq(Block \cup {e}) /\ bs # << >> /\ 1 \in DOMAIN bs /\ bs[1] = e
      /\ Sorted(bs, sent, o)
  <2>1. PICK x : x = Played(p) /\ x.base = p.base
    BY <1>1
  <2>2. /\ Put(p, x) \in Seq(Block \cup {x}) /\ Put(p, x) # << >> /\ 1 \in DOMAIN Put(p, x)
        /\ Put(p, x)[Place(p)] = x /\ Sorted(Put(p, x), sent, o)
    BY <1>1, <2>1, PutIs
  <2> QED BY <1>1, <2>1, <2>2
<1>6. \A j \in DOMAIN bs : j # 1 =>
        /\ bs[j] \in Block /\ bs[j].nextDataPacketIndex = 0
        /\ ~bs[j].allowDiscontinuity /\ bs[j].base # o
  BY <1>1, PutRest
<1>7. G \subseteq Bases \X Shards /\ arrived \subseteq G /\ G \subseteq Got(p)
      /\ \A x \in G : x \in arrived \/ x[1] = p.base
  <2>1. Got(p) \subseteq Bases \X Shards
    BY <1>1, GotIsWith
  <2> QED BY <2>1 DEF Came, Got
<1>8. Holds(bs, G)
  BY <1>1, <1>7, HoldsPut
<1>9. G = arrived \cup {Playout!Shard(n)}
  BY <1>1 DEF Came
<1>10. PICK m : m = n'
  OBVIOUS
<1>11. /\ i + 1 = d => m = f
       /\ i + 1 # d => m = o + (i + 1) /\ i + 1 \in DataShards /\ m \in Seq16 /\ m # f
                       /\ BaseOf(m) = o /\ m - o = i + 1
  BY <1>1, <1>2, <1>10, NextNumber
<1>12. ASSUME arrived' = Playout!Since(n', G) PROVE PlayoutStep
  <2>1. arrived' = Playout!Since(n', arrived \cup {Playout!Shard(n)})
    BY <1>9, <1>12
  <2>2. Playout!Advance
    BY <1>2 DEF Playout!Advance
  <2>3. Playout!Play
    BY <1>1, <1>2, <2>1, <2>2 DEF Playout!Play
  <2> QED BY <2>3 DEF PlayoutStep, Playout!Next
<1> HIDE DEF bs, e, G
<1>13. CASE i + 1 = d
  <2> DEFINE t == Tail(bs)
  <2>1. /\ f \in Bases /\ f \in Seq16 /\ AgeAt(sent, f) <= M /\ t \in Seq(Block)
        /\ Sorted(t, sent, f) /\ Turn(t, f, f) /\ Holds(t, Since(f, G))
        /\ Since(f, G) = Playout!Since(f, G) /\ Since(f, G) \subseteq Bases \X Shards
    BY <1>1, <1>4, <1>5, <1>6, <1>7, <1>8, FreedIs
  <2>2. n' = f /\ FreeHead(bs) /\ Head16(bs) = o
    BY <1>1, <1>2, <1>5, <1>10, <1>11, <1>13 DEF Head16
  <2>3. blocks' = t /\ oldestRtpBaseSequenceNumber' = f /\ synchronizing' = FALSE
        /\ arrived' = Since(f, G)
    BY <1>2, <2>2 DEF FreeHead
  <2> HIDE DEF t, f
  <2>4. TypeOK'
    BY <1>1, <1>2, <1>3, <1>4, <2>1, <2>2, <2>3 DEF TypeOK
  <2>5. Listed'
    BY <1>2, <1>4, <2>1, <2>3 DEF Listed
  <2>6. Turn(blocks, oldestRtpBaseSequenceNumber, nextRtpSequenceNumber)' /\ Holds(blocks, arrived)'
    BY <2>1, <2>2, <2>3
  <2>7. AInv'
    BY <1>1, <1>2, <2>3, <2>4, <2>5, <2>6 DEF AInv, Tuning
  <2>8. arrived' = Playout!Since(n', G)
    BY <2>1, <2>2, <2>3
  <2> QED BY <1>12, <2>7, <2>8
<1>14. CASE i + 1 # d
  <2>1. blocks' = bs /\ UNCHANGED <<oldestRtpBaseSequenceNumber, synchronizing>>
    BY <1>2, <1>10, <1>11, <1>14
  <2>2. bs \in Seq(Block)
    <3>1. Block \cup {e} = Block
      BY <1>1, <1>11, <1>14
    <3> QED BY <1>5, <3>1
  <2>3. Turn(bs, o, m)
    BY <1>1, <1>5, <1>6, <1>11, <1>14 DEF Turn
  <2>4. Since(m, G) = G /\ Playout!Since(m, G) = G
    <3>1. Recent(Got(p)) /\ \A x \in Got(p) : AgeAt(sent, x[1]) <= AgeAt(sent, o)
      BY <1>1, GotRecent
    <3>2. Recent(G) /\ \A x \in G : AgeAt(sent, x[1]) <= AgeAt(sent, o)
      BY <1>7, <3>1 DEF Recent
    <3> QED BY <1>1, <1>4, <1>11, <1>14, <3>2, SinceStays
  <2>5. arrived' = G
    BY <1>2, <1>10, <2>4
  <2>6. TypeOK'
    BY <1>1, <1>2, <1>3, <1>4, <1>7, <1>10, <1>11, <1>14, <2>1, <2>2, <2>5 DEF TypeOK
  <2>7. Listed'
    BY <1>1, <1>2, <1>4, <1>5, <2>1, <2>2 DEF Listed
  <2>8. Turn(blocks, oldestRtpBaseSequenceNumber, nextRtpSequenceNumber)' /\ Holds(blocks, arrived)'
    BY <1>8, <1>10, <2>1, <2>3, <2>5
  <2>9. ~Tuning' /\ Joined(blocks, oldestRtpBaseSequenceNumber, sent)'
    <3>1. Joined(bs, o, sent)
      BY <1>1, <1>5 DEF Joined
    <3> QED BY <1>1, <1>2, <2>1, <3>1 DEF Tuning
  <2>10. AInv'
    BY <1>1, <1>2, <2>6, <2>7, <2>8, <2>9 DEF AInv
  <2>11. arrived' = Playout!Since(n', G)
    BY <1>10, <2>4, <2>5
  <2> QED BY <1>12, <2>10, <2>11
<1> QED BY <1>13, <1>14

(***************************************************************************)
(* A packet is kept for later.                                             *)
(***************************************************************************)
Stored(p) == Put(p, Completed(With1(p)))

LEMMA NextNotOver ==
  ASSUME Listed, nextRtpSequenceNumber \in Seq16,
         Turn(blocks, oldestRtpBaseSequenceNumber, nextRtpSequenceNumber)
  PROVE  ~isBefore16(nextRtpSequenceNumber, oldestRtpBaseSequenceNumber)
<1> DEFINE a == AgeAt(sent, oldestRtpBaseSequenceNumber)
           i == nextRtpSequenceNumber - oldestRtpBaseSequenceNumber
           o == oldestRtpBaseSequenceNumber
           n == nextRtpSequenceNumber
<1>1. o \in Seq16 /\ n \in Seq16 /\ sent \in Seq16
  BY BasesAre DEF Listed
<1>2. /\ i \in Nat /\ a \in Nat /\ i <= a /\ a <= M
      /\ AgeAt(sent, n) = a - i /\ (a = 0 => i = 0) /\ (i > 0 => a - i > 0)
  BY <1>1, NextIs
<1>3. M \in Nat /\ H \in Nat
  BY Sizes
<1>4. AgeAt(sent, n) > 0 \/ AgeAt(sent, o) <= H
  BY <1>2, <1>3
<1>5. AgeAt(sent, n) <= M /\ AgeAt(sent, o) <= M
  BY <1>2, <1>3
<1>6. isBefore16(n, o) <=> AgeAt(sent, n) > AgeAt(sent, o)
  BY <1>1, <1>4, <1>5, BeforeIsOlder
<1> QED BY <1>2, <1>6

LEMMA StoredIs ==
  ASSUME AInv, NEW p \in Packet, Sent(p.base), Wanted(p)
  PROVE  LET o == oldestRtpBaseSequenceNumber
             bs == Stored(p)
         IN  /\ bs \in Seq(Block) /\ bs # << >> /\ 1 \in DOMAIN bs
             /\ Sorted(bs, sent, o) /\ Holds(bs, Got(p))
             /\ \E j \in DOMAIN bs : bs[j].base = p.base
<1> DEFINE o == oldestRtpBaseSequenceNumber
           bs == Stored(p)
<1>1. /\ TypeOK /\ Listed /\ Fits(p) /\ Holds(blocks, arrived)
  BY OnTime DEF Wanted
<1>2. PICK c \in Block : c = Completed(With1(p)) /\ c.base = p.base /\ Has(c, Got(p))
  BY <1>1, CompletedIs
<1>3. /\ Put(p, c) \in Seq(Block \cup {c}) /\ Put(p, c) # << >> /\ 1 \in DOMAIN Put(p, c)
      /\ Place(p) \in DOMAIN Put(p, c) /\ Put(p, c)[Place(p)] = c /\ Sorted(Put(p, c), sent, o)
  BY <1>1, <1>2, PutIs
<1>4. Block \cup {c} = Block
  OBVIOUS
<1>5. arrived \subseteq Got(p) /\ \A x \in Got(p) : x \in arrived \/ x[1] = p.base
  BY GotOther
<1>6. Holds(Put(p, c), Got(p))
  BY <1>1, <1>2, <1>5, HoldsPut
<1> QED BY <1>2, <1>3, <1>4, <1>6 DEF Stored

\* A head at o stays one.
LEMMA HeadStays ==
  ASSUME AInv, NEW p \in Packet, Sent(p.base), Wanted(p),
         blocks # << >>, blocks[1].base = oldestRtpBaseSequenceNumber
  PROVE  Stored(p)[1].base = oldestRtpBaseSequenceNumber
<1> DEFINE o == oldestRtpBaseSequenceNumber
<1>1. /\ TypeOK /\ Listed /\ Fits(p) /\ Holds(blocks, arrived)
  BY OnTime DEF Wanted
<1>2. PICK c : c = Completed(With1(p)) /\ c.base = p.base
  BY <1>1, CompletedIs
<1>3. /\ Put(p, c)[Place(p)] = c
      /\ Place(p) = 1 \/ Put(p, c)[1] = blocks[1]
  BY <1>1, <1>2, PutIs
<1>4. CASE Place(p) = 1
  <2>1. 1 \in DOMAIN blocks /\ o \in Bases /\ sent \in Bases
    BY <1>1, HeadIs DEF Listed
  <2>2. Known(p)
    <3> SUFFICES ASSUME ~Known(p) PROVE FALSE
      OBVIOUS
    <3>1. AgeAt(sent, o) < AgeAt(sent, p.base) /\ AgeAt(sent, p.base) <= AgeAt(sent, o)
      BY <1>1, <1>4, <2>1, PlaceIs DEF Fits
    <3>2. AgeAt(sent, o) \in Nat /\ AgeAt(sent, p.base) \in Nat
      BY <2>1, PacketIs, BasesAre, AgeRange
    <3> QED BY <3>1, <3>2
  <2>3. p.base = o
    BY <1>1, <1>4, <2>2, KnownIs
  <2> QED BY <1>2, <1>3, <1>4, <2>3 DEF Stored
<1>5. CASE Place(p) # 1
  BY <1>2, <1>3, <1>5 DEF Stored
<1> QED BY <1>4, <1>5

LEMMA StoredTurn ==
  ASSUME AInv, NEW p \in Packet, Sent(p.base), Wanted(p)
  PROVE  Turn(Stored(p), oldestRtpBaseSequenceNumber, nextRtpSequenceNumber)
<1> DEFINE o == oldestRtpBaseSequenceNumber
           n == nextRtpSequenceNumber
           bs == Stored(p)
           k == Place(p)
<1>1. /\ TypeOK /\ Listed /\ Fits(p) /\ Holds(blocks, arrived) /\ Turn(blocks, o, n)
  BY OnTime DEF Wanted
<1>2. PICK c : /\ c = Completed(With1(p)) /\ c.base = p.base
               /\ c.nextDataPacketIndex = Old(p).nextDataPacketIndex
               /\ c.allowDiscontinuity = Old(p).allowDiscontinuity
  BY <1>1, CompletedIs
<1>3. bs[k] = c /\ Others(bs, p) /\ bs # << >>
  <2>1. Put(p, c)[Place(p)] = c /\ Others(Put(p, c), p) /\ Put(p, c) # << >>
    BY <1>1, <1>2, PutIs
  <2> QED BY <1>2, <2>1 DEF Stored
<1>4. n # o => blocks # << >> /\ blocks[1].base = o /\ 1 \in DOMAIN blocks
  BY <1>1, HeadIs DEF Turn
<1>5. n # o => bs[1].base = o
  BY <1>4, HeadStays
<1> HIDE DEF bs
<1>6. IF c.base = o THEN c.nextDataPacketIndex = n - o
      ELSE c.nextDataPacketIndex = 0 /\ ~c.allowDiscontinuity
  <2>1. CASE Known(p)
    <3>1. k \in DOMAIN blocks /\ Old(p) = blocks[k] /\ blocks[k].base = p.base
      BY <1>1, <2>1, KnownIs DEF Old
    <3> QED BY <1>1, <1>2, <3>1 DEF Turn
  <2>2. CASE ~Known(p)
    <3>1. c.nextDataPacketIndex = 0 /\ c.allowDiscontinuity = FALSE
      BY <1>2, <2>2 DEF Old, NewBlock
    <3>2. c.base = o => n = o
      BY <1>1, <1>2, <1>4, <2>2, KnownIs
    <3>3. n \in Int
      BY <1>1, Sizes DEF TypeOK, Seq16
    <3> QED BY <3>1, <3>2, <3>3
  <2> QED BY <2>1, <2>2
<1>7. ASSUME NEW j \in DOMAIN bs
      PROVE  IF bs[j].base = o THEN bs[j].nextDataPacketIndex = n - o
             ELSE bs[j].nextDataPacketIndex = 0 /\ ~bs[j].allowDiscontinuity
  <2>1. CASE j = k
    BY <1>3, <1>6, <2>1
  <2>2. CASE j # k
    <3>1. PICK l \in DOMAIN blocks : bs[j] = blocks[l]
      BY <1>3, <2>2 DEF Others
    <3> QED BY <1>1, <3>1 DEF Turn
  <2> QED BY <2>1, <2>2
<1> QED BY <1>1, <1>3, <1>5, <1>7 DEF Turn, bs

\* A head behind o is skipped to; one at o is not.
LEMMA HeadOfStored ==
  ASSUME AInv, NEW p \in Packet, Sent(p.base), Wanted(p)
  PROVE  LET o == oldestRtpBaseSequenceNumber
             n == nextRtpSequenceNumber
             h == Head16(Stored(p))
         IN  /\ isBefore16(n, h) <=> h # o
             /\ h # o => /\ n = o /\ (blocks = << >> \/ blocks[1].base # o)
                         /\ AgeAt(sent, h) < AgeAt(sent, o)
             /\ Ready(Stored(p), n) => h = o
             /\ h \in Bases /\ AgeAt(sent, h) > 0 /\ AgeAt(sent, h) <= AgeAt(sent, o)
<1> DEFINE o == oldestRtpBaseSequenceNumber
           n == nextRtpSequenceNumber
           bs == Stored(p)
           h == Head16(Stored(p))
<1>1. /\ TypeOK /\ Listed /\ Fits(p) /\ Holds(blocks, arrived) /\ Turn(blocks, o, n)
      /\ sent \in Bases /\ o \in Bases /\ n \in Seq16 /\ sent \in Seq16 /\ o \in Seq16
  BY OnTime, BasesAre DEF Wanted, Listed, TypeOK
<1>2. bs \in Seq(Block) /\ bs # << >> /\ 1 \in DOMAIN bs /\ Sorted(bs, sent, o)
  BY StoredIs
<1>3. Turn(bs, o, n)
  BY StoredTurn
<1> HIDE DEF bs
<1>4. bs[1].base = h /\ h \in Bases /\ h \in Seq16
  <2>1. bs[1] \in Block
    BY <1>2
  <2>2. h = bs[1].base
    BY DEF Head16, bs
  <2>3. bs[1].base \in Bases
    BY <2>1 DEF Block
  <2> QED BY <2>2, <2>3, BasesAre
<1>5. PICK a \in Nat, c \in Nat : a = AgeAt(sent, o) /\ c = AgeAt(sent, h)
  BY <1>1, <1>4, AgeRange
<1>6. c > 0 /\ c <= a /\ a <= M /\ c <= M
  BY <1>1, <1>2, <1>4, <1>5, Sizes DEF Sorted, Listed
<1>7. h # o => n = o /\ c < a
  <2>1. h # o => n = o
    BY <1>3, <1>4 DEF Turn
  <2>2. h # o => c # a
    BY <1>1, <1>4, <1>5, AgeSame
  <2> QED BY <1>6, <2>1, <2>2
<1>8. isBefore16(n, h) <=> h # o
  <2>1. CASE h = o
    BY <1>1, <2>1, NextNotOver
  <2>2. CASE h # o
    <3>1. AgeAt(sent, o) <= M /\ AgeAt(sent, h) <= M /\ AgeAt(sent, o) > 0
      BY <1>5, <1>6, <1>7, <2>2
    <3>2. isBefore16(o, h) <=> AgeAt(sent, o) > AgeAt(sent, h)
      BY <1>1, <1>4, <3>1, BeforeIsOlder
    <3> QED BY <1>5, <1>7, <2>2, <3>2
  <2> QED BY <2>1, <2>2
<1>9. h # o => blocks = << >> \/ blocks[1].base # o
  BY <1>4, HeadStays DEF bs
<1>10. Ready(bs, n) => h = o
  <2> SUFFICES ASSUME Ready(bs, n), h # o PROVE FALSE
    OBVIOUS
  <2>1. bs[1].nextDataPacketIndex = 0 /\ ~bs[1].allowDiscontinuity
    BY <1>2, <1>3, <1>4 DEF Turn
  <2>2. h + 0 = n
    BY <1>4, <2>1 DEF Ready, Head16
  <2>3. n = h /\ BaseOf(h) = h
    BY <1>4, <2>2, BaseOfBase
  <2> QED BY <1>1, <2>3 DEF Turn
<1> QED BY <1>4, <1>5, <1>6, <1>7, <1>8, <1>9, <1>10 DEF bs

\* The head is the oldest block: it is played from, or given up.
LEMMA StoreStays ==
  ASSUME AInv, NEW p \in Packet, Sent(p.base), Wanted(p), NoteOrder(p), Arrive(p),
         Head16(Stored(p)) = oldestRtpBaseSequenceNumber,
         UNCHANGED <<nextRtpSequenceNumber, oldestRtpBaseSequenceNumber, synchronizing,
                     incompatibleServer, sent, out>>,
         pc' \in {"drain", "receive"},
         blocks' = Stored(p) \/ blocks' = [Stored(p) EXCEPT ![1].allowDiscontinuity = TRUE]
  PROVE  AInv' /\ PlayoutStep
<1> DEFINE o == oldestRtpBaseSequenceNumber
           n == nextRtpSequenceNumber
           bs == Stored(p)
           S == Got(p)
<1>1. /\ TypeOK /\ Listed /\ Fits(p) /\ Holds(blocks, arrived) /\ Turn(blocks, o, n) /\ InTime(p)
      /\ ~Tuning /\ ~incompatibleServer
  BY OnTime DEF Wanted
<1>2. /\ bs \in Seq(Block) /\ bs # << >> /\ 1 \in DOMAIN bs /\ Sorted(bs, sent, o) /\ Holds(bs, S)
      /\ Turn(bs, o, n)
  BY StoredIs, StoredTurn
<1>3. bs[1].base = o
  BY DEF Head16
<1>4. lastOosSequenceNumber' \in Seq16 /\ receivedOosData' \in BOOLEAN
  BY <1>1, NoteIs
<1>5. arrived' = S /\ Playout!Arrives(n)
  BY <1>1, ArriveSame
<1>6. S \subseteq Bases \X Shards
  BY <1>1, GotIsWith
<1> HIDE DEF bs, S
<1>7. PICK g : g = blocks'
  OBVIOUS
<1>8. /\ g \in Seq(Block) /\ DOMAIN g = DOMAIN bs /\ g # << >>
      /\ \A j \in DOMAIN bs : /\ g[j].base = bs[j].base /\ g[j].got = bs[j].got
                              /\ g[j].fullyReassembled = bs[j].fullyReassembled
                              /\ g[j].nextDataPacketIndex = bs[j].nextDataPacketIndex
                              /\ (j # 1 => g[j] = bs[j])
  <2>1. CASE g = bs
    BY <1>2, <2>1
  <2>2. CASE g = [bs EXCEPT ![1].allowDiscontinuity = TRUE]
    <3>1. bs[1] \in Block /\ 1 \in 1 .. Len(bs)
      BY <1>2
    <3>2. PICK b \in Block : b = [bs[1] EXCEPT !.allowDiscontinuity = TRUE]
      BY <3>1 DEF Block
    <3>3. /\ b.base = bs[1].base /\ b.got = bs[1].got
          /\ b.fullyReassembled = bs[1].fullyReassembled
          /\ b.nextDataPacketIndex = bs[1].nextDataPacketIndex
      BY <3>1, <3>2 DEF Block
    <3>4. g = [bs EXCEPT ![1] = b]
      BY <2>2, <3>2
    <3>5. /\ [bs EXCEPT ![1] = b] \in Seq(Block) /\ Len([bs EXCEPT ![1] = b]) = Len(bs)
          /\ \A j \in 1 .. Len(bs) : [bs EXCEPT ![1] = b][j] = IF j = 1 THEN b ELSE bs[j]
      BY <1>2, <3>1, ExceptSeq
    <3> QED BY <1>2, <3>1, <3>3, <3>4, <3>5
  <2> QED BY <1>7, <2>1, <2>2 DEF bs
<1>9. Sorted(g, sent, o)
  BY <1>2, <1>8 DEF Sorted
<1>10. Holds(g, S)
  <2>1. \A j \in DOMAIN bs : Has(g[j], S)
    BY <1>2, <1>8 DEF Holds, Has
  <2> QED BY <1>2, <1>8, <2>1 DEF Holds
<1>11. Turn(g, o, n)
  <2>1. \A j \in DOMAIN g : j # 1 => g[j] = bs[j]
    BY <1>8
  <2>2. g[1].base = o /\ g[1].nextDataPacketIndex = n - o
    BY <1>2, <1>3, <1>8 DEF Turn
  <2> QED BY <1>2, <1>8, <2>1, <2>2 DEF Turn
<1>12. Joined(g, o, sent)
  BY <1>2, <1>3, <1>8 DEF Joined
<1>13. TypeOK'
  BY <1>1, <1>4, <1>5, <1>6, <1>7, <1>8 DEF TypeOK
<1>14. Listed'
  BY <1>1, <1>7, <1>8, <1>9 DEF Listed
<1>15. /\ Turn(blocks, oldestRtpBaseSequenceNumber, nextRtpSequenceNumber)' /\ Holds(blocks, arrived)'
       /\ Joined(blocks, oldestRtpBaseSequenceNumber, sent)'
  BY <1>5, <1>7, <1>10, <1>11, <1>12
<1>16. ~Tuning' /\ ~incompatibleServer'
  BY <1>1 DEF Tuning
<1>17. AInv'
  BY <1>13, <1>14, <1>15, <1>16 DEF AInv
<1>18. Playout!Arrive
  BY <1>1, <1>5 DEF Playout!Arrive
<1> QED BY <1>17, <1>18 DEF PlayoutStep, Playout!Next

\* Nothing is expected before the head: the blocks up to it are skipped.
LEMMA StoreJumps ==
  ASSUME AInv, NEW p \in Packet, Sent(p.base), Wanted(p), NoteOrder(p), Arrive(p),
         Head16(Stored(p)) # oldestRtpBaseSequenceNumber,
         nextRtpSequenceNumber' = Head16(Stored(p)),
         oldestRtpBaseSequenceNumber' = Head16(Stored(p)),
         UNCHANGED <<synchronizing, incompatibleServer, sent, out>>,
         pc' \in {"drain", "receive"},
         blocks' = Stored(p)
  PROVE  AInv' /\ PlayoutStep
<1> DEFINE o == oldestRtpBaseSequenceNumber
           n == nextRtpSequenceNumber
           bs == Stored(p)
           S == Got(p)
           h == Head16(Stored(p))
<1>1. /\ TypeOK /\ Listed /\ Fits(p) /\ Holds(blocks, arrived) /\ Turn(blocks, o, n)
      /\ ~Tuning /\ ~incompatibleServer /\ InTimeAt(p)
  BY OnTime DEF Wanted
<1>2. /\ bs \in Seq(Block) /\ bs # << >> /\ 1 \in DOMAIN bs /\ Sorted(bs, sent, o) /\ Holds(bs, S)
      /\ \E j \in DOMAIN bs : bs[j].base = p.base
  BY StoredIs
<1>3. Turn(bs, o, n)
  BY StoredTurn
<1>4. /\ n = o /\ (blocks = << >> \/ blocks[1].base # o) /\ AgeAt(sent, h) < AgeAt(sent, o)
      /\ h \in Bases /\ AgeAt(sent, h) > 0
  BY HeadOfStored
<1>5. lastOosSequenceNumber' \in Seq16 /\ receivedOosData' \in BOOLEAN
  BY <1>1, NoteIs
<1>6. S \subseteq Bases \X Shards /\ <<p.base, p.index>> \in S
      /\ S = Playout!With(<<p.base, p.index>>, arrived)
  BY <1>1, GotIsWith
<1>7. sent \in Bases /\ o \in Bases /\ n \in Seq16 /\ BaseOf(n) = o /\ h \in Seq16 /\ BaseOf(h) = h
      /\ AgeAt(sent, o) <= M
  BY <1>1, <1>4, BaseOfBase DEF Listed, TypeOK, Turn
<1>8. PICK a \in Nat, c \in Nat : a = AgeAt(sent, o) /\ c = AgeAt(sent, h) /\ 0 < c /\ c < a
                                  /\ a <= M /\ c <= M
  <2>1. AgeAt(sent, o) \in Nat /\ AgeAt(sent, h) \in Nat
    BY <1>7, BaseOfBase, AgeRange
  <2> QED BY <1>4, <1>7, <2>1, Sizes
<1>9. bs[1].base = h
  BY DEF Head16
<1> HIDE DEF bs, h, S
<1>10. ASSUME NEW j \in DOMAIN bs
       PROVE  /\ AgeAt(sent, bs[j].base) > 0 /\ AgeAt(sent, bs[j].base) <= c
              /\ (j # 1 => AgeAt(sent, bs[j].base) < c) /\ bs[j].base # o
  <2>1. AgeAt(sent, bs[j].base) > 0
    BY <1>2 DEF Sorted
  <2>2. j \in Nat /\ bs[j] \in Block /\ (j # 1 => 1 < j)
    BY <1>2
  <2>3. bs[j].base \in Bases
    BY <2>2 DEF Block
  <2>4. AgeAt(sent, bs[j].base) \in Nat
    BY <1>7, <2>3, BaseOfBase, AgeRange
  <2>5. j # 1 => AgeAt(sent, bs[j].base) < c
    BY <1>2, <1>8, <1>9, <2>2 DEF Sorted
  <2>6. AgeAt(sent, bs[j].base) <= c
    BY <1>8, <1>9, <2>4, <2>5
  <2>7. bs[j].base # o
    <3>1. bs[j].base = o => a <= c
      BY <1>8, <2>6
    <3> QED BY <1>8, <3>1
  <2> QED BY <2>1, <2>5, <2>6, <2>7
<1>11. Sorted(bs, sent, h)
  <2>1. \A i, j \in DOMAIN bs : i < j => AgeAt(sent, bs[j].base) < AgeAt(sent, bs[i].base)
    BY <1>2 DEF Sorted
  <2> QED BY <1>8, <1>10, <2>1 DEF Sorted
<1>12. Turn(bs, h, h)
  <2>1. \A j \in DOMAIN bs : bs[j].nextDataPacketIndex = 0 /\ ~bs[j].allowDiscontinuity
    BY <1>3, <1>10 DEF Turn
  <2>2. h - h = 0
    BY <1>4, BaseOfBase
  <2> QED BY <1>7, <2>1, <2>2 DEF Turn
<1>13. Recent(S) /\ \A x \in S : AgeAt(sent, x[1]) <= c /\ AgeAt(sent, x[1]) > 0 /\ x[1] \in Bases
  <2>1. ASSUME NEW x \in S
        PROVE  AgeAt(sent, x[1]) <= c /\ AgeAt(sent, x[1]) > 0 /\ x[1] \in Bases
                 /\ AgeAt(sent, x[1]) <= M
    <3>1. PICK j \in DOMAIN bs : bs[j].base = x[1]
      BY <1>2 DEF Holds
    <3>2. x[1] \in Bases
      BY <1>6
    <3>3. AgeAt(sent, x[1]) \in Nat
      BY <1>7, <3>2, BaseOfBase, AgeRange
    <3> QED BY <1>8, <1>10, <3>1, <3>2, <3>3, Sizes
  <2> QED BY <1>6, <2>1 DEF Recent
<1>14. Since(h, S) = S
  <2>1. AgeAt(sent, h) <= M /\ \A x \in S : AgeAt(sent, x[1]) <= AgeAt(sent, h)
    BY <1>8, <1>13
  <2> QED BY <1>4, <1>7, <1>13, <2>1, SinceStays
<1>15. arrived' = S
  <2>1. nextRtpSequenceNumber' = h
    BY DEF h
  <2>2. arrived' = Since(nextRtpSequenceNumber', S)
    BY <1>1 DEF Arrive, Got, S
  <2> QED BY <1>14, <2>1, <2>2
<1>16. \A x \in S : Playout!From(h, x[1])
  <2> SUFFICES ASSUME NEW x \in S PROVE Playout!From(h, x[1])
    OBVIOUS
  <2>1. PICK b \in Bases : b = x[1] /\ AgeAt(sent, b) > 0 /\ AgeAt(sent, b) <= c
    BY <1>13
  <2>2. AgeAt(sent, b) \in Nat
    BY <1>7, BaseOfBase, AgeRange
  <2>3. AgeAt(sent, b) <= M /\ AgeAt(sent, BaseOf(h)) <= M /\ ~(AgeAt(sent, b) > AgeAt(sent, BaseOf(h)))
    BY <1>7, <1>8, <2>1, <2>2, Sizes
  <2> QED BY <1>7, <2>1, <2>3, FromIs
<1>17. Playout!From(n, h)
  <2>1. AgeAt(sent, h) <= M /\ AgeAt(sent, BaseOf(n)) <= M
        /\ ~(AgeAt(sent, h) > AgeAt(sent, BaseOf(n)))
    BY <1>7, <1>8
  <2> QED BY <1>4, <1>7, <2>1, FromIs
<1>18. nextRtpSequenceNumber' = h /\ oldestRtpBaseSequenceNumber' = h /\ blocks' = bs
  BY DEF h, bs
<1>19. Playout!Skip
  <2>1. PICK s : s = <<p.base, p.index>>
    OBVIOUS
  <2>2. s \in S /\ S = Playout!With(s, arrived) /\ Playout!From(h, s[1])
    BY <1>6, <1>16, <2>1
  <2>3. Playout!Arrives(h)
    BY <1>15, <2>2 DEF Playout!Arrives
  <2>4. h \in Playout!Blocks
    BY <1>4, BlocksAre
  <2>5. Playout!Arrives(nextRtpSequenceNumber')
    BY <1>18, <2>3
  <2>6. nextRtpSequenceNumber' \in Playout!Blocks /\ Playout!From(n, nextRtpSequenceNumber')
        /\ \A x \in arrived' : Playout!From(nextRtpSequenceNumber', x[1])
    BY <1>15, <1>16, <1>17, <1>18, <2>4
  <2> QED BY <1>1, <2>5, <2>6 DEF Playout!Skip
<1>20. TypeOK'
  BY <1>1, <1>2, <1>4, <1>5, <1>6, <1>7, <1>15, <1>18 DEF TypeOK
<1>21. Listed'
  BY <1>2, <1>4, <1>7, <1>8, <1>11, <1>18 DEF Listed
<1>22. Joined(bs, h, sent)
  BY <1>2, <1>9 DEF Joined
<1>23. /\ Turn(blocks, oldestRtpBaseSequenceNumber, nextRtpSequenceNumber)' /\ Holds(blocks, arrived)'
       /\ Joined(blocks, oldestRtpBaseSequenceNumber, sent)'
  BY <1>2, <1>12, <1>15, <1>18, <1>22
<1>24. ~Tuning'
  <2> SUFFICES ASSUME synchronizing, h = 0 PROVE FALSE
    BY <1>18 DEF Tuning
  <2>1. o # 0 /\ Joined(blocks, o, sent)
    BY <1>1 DEF AInv, Tuning
  <2>2. blocks = << >> /\ o <= sent + RTPA_DATA_SHARDS
    BY <1>4, <2>1 DEF Joined
  <2>3. AgeAt(sent, o) = sent + RTPA_DATA_SHARDS - o /\ sent \in Nat /\ o \in Nat /\ o > 0
    BY <1>7, <2>1, <2>2, AgeJoined
  <2>4. sent + RTPA_DATA_SHARDS <= W
    <3>1. 0 \in DataShards
      BY Sizes DEF DataShards
    <3> QED BY <1>7, <3>1, BlockOf
  <2>5. PICK z \in Nat : z = sent + RTPA_DATA_SHARDS /\ z <= W
    BY <2>3, <2>4, Sizes
  <2>6. c = z % W
    <3>1. z = sent + RTPA_DATA_SHARDS - 0
      BY <2>3, <2>5, Sizes
    <3> QED BY <1>8, <3>1 DEF AgeAt
  <2>7. z \in 0 .. W - 1 => c = z
    BY <2>6, ModSmall
  <2>8. z = W => c = 0
    <3>1. z = W => z \in W .. 2 * W - 1 /\ z - W = 0
      BY Sizes
    <3> QED BY <2>6, <3>1, ModSmall
  <2>9. a = z - o
    BY <1>8, <2>3, <2>5, Sizes
  <2> QED BY <1>8, <2>3, <2>5, <2>7, <2>8, <2>9, Sizes
<1>25. AInv'
  BY <1>1, <1>20, <1>21, <1>23, <1>24 DEF AInv
<1> QED BY <1>19, <1>25 DEF PlayoutStep, Playout!Next

LEMMA StoreKeeps ==
  ASSUME AInv, pc = "receive", NEW p \in Packet, Sent(p.base), NEW late \in BOOLEAN, Store(p, late)
  PROVE  AInv' /\ PlayoutStep
<1> DEFINE o == oldestRtpBaseSequenceNumber
           n == nextRtpSequenceNumber
           bs == Stored(p)
           flag == [bs EXCEPT ![1].allowDiscontinuity = TRUE]
<1>1. /\ Wanted(p) /\ NoteOrder(p) /\ Arrive(p)
      /\ UNCHANGED <<synchronizing, incompatibleServer, sent, out>>
      /\ pc' = IF Ready(blocks', n') THEN "drain" ELSE "receive"
  BY DEF Store
<1>2. Listed /\ Fits(p)
  BY <1>1, OnTime DEF Wanted
<1>3. IF Ready(bs, n) THEN blocks' = bs /\ UNCHANGED numbers ELSE HandleMissing(bs, late)
  <2>1. [Received(p) EXCEPT ![Place(p)] = Completed(@)] = bs
    BY <1>2, ReceivedPlayed DEF Stored
  <2> HIDE DEF bs
  <2> QED BY <2>1 DEF Store
<1>4. pc' \in {"drain", "receive"}
  BY <1>1
<1>5. (isBefore16(n, Head16(bs)) <=> Head16(bs) # o) /\ (Ready(bs, n) => Head16(bs) = o)
  BY <1>1, HeadOfStored
<1> HIDE DEF bs
<1>6. CASE Head16(bs) = o
  <2>1. /\ UNCHANGED <<nextRtpSequenceNumber, oldestRtpBaseSequenceNumber>>
        /\ blocks' = bs \/ blocks' = flag
    BY <1>3, <1>5, <1>6 DEF HandleMissing, numbers
  <2> QED BY <1>1, <1>4, <1>6, <2>1, StoreStays DEF bs
<1>7. CASE Head16(bs) # o
  <2>1. n' = Head16(bs) /\ oldestRtpBaseSequenceNumber' = Head16(bs) /\ blocks' = bs
    BY <1>3, <1>5, <1>7 DEF HandleMissing
  <2> QED BY <1>1, <1>4, <1>7, <2>1, StoreJumps DEF bs
<1> QED BY <1>6, <1>7

LEMMA ReceiveKeeps ==
  ASSUME AInv, NEW p \in Packet, Receive(p) PROVE AInv' /\ PlayoutStep
<1>1. pc = "receive" /\ Sent(p.base)
  BY DEF Receive
<1>2. CASE Passthrough(p)
  BY <1>2, PassthroughKeeps
<1>3. CASE Unaligned(p) \/ SizeDiffers(p)
  BY <1>1, <1>3, DirectKeeps
<1>4. CASE Tune(p)
  BY <1>1, <1>4, TuneKeeps
<1>5. CASE TooLate(p)
  BY <1>1, <1>5, TooLateKeeps
<1>6. CASE Duplicate(p)
  BY <1>1, <1>6, DuplicateKeeps
<1>7. CASE NoMemory(p)
  BY <1>1, <1>7, NoMemoryKeeps
<1>8. CASE InOrder(p)
  BY <1>1, <1>8, InOrderKeeps
<1>9. ASSUME NEW late \in BOOLEAN, Store(p, late) PROVE AInv' /\ PlayoutStep
  BY <1>1, <1>9, StoreKeeps
<1> QED BY <1>2, <1>3, <1>4, <1>5, <1>6, <1>7, <1>8, <1>9 DEF Receive

LEMMA AInvStep == AInv /\ [Next]_vars => AInv' /\ PlayoutStep
<1> SUFFICES ASSUME AInv, [Next]_vars PROVE AInv' /\ PlayoutStep
  OBVIOUS
<1>1. CASE SendBlock
  BY <1>1, SendBlockKeeps
<1>2. ASSUME NEW p \in Packet, Receive(p) PROVE AInv' /\ PlayoutStep
  BY <1>2, ReceiveKeeps
<1>3. CASE GetQueuedPacket
  BY <1>3, GetQueuedPacketKeeps
<1>4. CASE GetsNull
  BY <1>4, GetsNullKeeps
<1>5. CASE UNCHANGED vars
  <2>1. TypeOK' /\ (incompatibleServer' => pc' = "receive") /\ (Tuning => arrived' = {})
        /\ (~Tuning /\ ~incompatibleServer' => Holds(blocks, arrived'))
    BY <1>5 DEF AInv, vars, TypeOK
  <2> QED BY <1>5, <2>1, SameKeeps DEF vars, PlayoutStep
<1> QED BY <1>1, <1>2, <1>3, <1>4, <1>5 DEF Next

LEMMA AInvInit == Init => AInv /\ Playout!Init
<1> SUFFICES ASSUME Init PROVE AInv /\ Playout!Init
  OBVIOUS
<1>1. 0 \in Seq16 /\ 0 \in Bases
  <2>1. 0 \in Seq16
    BY Sizes DEF Seq16
  <2> QED BY <2>1, BasesAre, MultIs
<1>2. incompatibleServer \in BOOLEAN /\ sent \in Bases /\ << >> \in Seq(Block)
  <2>1. incompatibleServer \in BOOLEAN
    BY RtpAudioAssumption, Zenon DEF Init
  <2>2. sent \in Bases
    BY StartsAssumption DEF Init
  <2> QED BY <2>1, <2>2
<1>3. TypeOK
  BY <1>1, <1>2 DEF Init, TypeOK
<1>4. Tuning
  BY DEF Init, Tuning
<1>5. AInv
  BY <1>3, <1>4 DEF AInv, Init
<1>6. Playout!Init
  BY <1>1, <1>2, BlocksAre DEF Init, Playout!Init
<1> QED BY <1>5, <1>6

\* The list stays sorted across the wrap of the sequence numbers, and the next packet is
\* in the first block or before it: what validateFecBlockState asserts, RtpAudioQueue.c:62-104.
THEOREM BlocksStayInOrder == Spec => []FecBlockState
<1>1. Init => AInv
  BY AInvInit
<1>2. AInv /\ [Next]_vars => AInv'
  BY AInvStep
<1>3. AInv => FecBlockState
  <2> SUFFICES ASSUME AInv PROVE FecBlockState
    OBVIOUS
  <2>1. CASE ~Tuning
    BY <2>1, BlocksInOrder DEF AInv
  <2>2. CASE Tuning
    <3>1. blocks = << >> /\ synchronizing /\ TypeOK
      BY <2>2 DEF AInv, Tuning
    <3>2. \A i \in 1 .. Len(blocks) - 1 : isBefore16(blocks[i].base, blocks[i + 1].base)
      BY <3>1
    <3> QED BY <3>1, <3>2 DEF FecBlockState
  <2> QED BY <2>1, <2>2
<1> QED BY <1>1, <1>2, <1>3, PTL DEF Spec

\* Packets leave the queue in sequence, each once, and none that has come or was recovered
\* in time is concealed or skipped: the queue implements AudioPlayout.
THEOREM PlayoutIsKept == Spec => ImplementsPlayout
<1>1. Init => AInv /\ Playout!Init
  BY AInvInit
<1>2. AInv /\ [Next]_vars => AInv'
  BY AInvStep
<1>3. AInv /\ [Next]_vars =>
        [Playout!Next]_<<nextRtpSequenceNumber, arrived, out, incompatibleServer>>
  BY AInvStep DEF PlayoutStep
<1> QED BY <1>1, <1>2, <1>3, PTL DEF Spec, ImplementsPlayout, Playout!Spec
================================================================================
