------------------------ MODULE VideoDepacketizerProofs ------------------------
(***************************************************************************)
(* Requests for frames and the waits of the depacketizer, for any bounds   *)
(* of the queues, any drop limit, with or without invalidation.            *)
(***************************************************************************)
EXTENDS VideoDepacketizer, SequenceTheorems, TLAPS

USE RequestsAssumption, DepacketizerAssumption DEF RequestsAssumption, DepacketizerAssumption

-------------------------------------------------------------------------------
(* What a step does to the requests.  A loss is reported of a frame the    *)
(* queue is at or past, or of the one just handed over.                    *)

May(d) == d \in Int /\ d >= 0 /\ (d <= current \/ (d = 0 /\ rpc = "last"))
Reports == \E d : /\ May(d) /\ connectionDetectedFrameLoss(startFrameNumber, d)
                  /\ current' \in Int /\ current' <= d /\ startFrameNumber' = startFrameNumber
Quiet == UNCHANGED threads /\ (NoRequest \/ LiRequestIdrFrame \/ Reports)

LEMMA NotifyEffect ==
  ASSUME NEW d, May(d), notifyFrameLost(d), current' \in Int, current' <= d
  PROVE  Quiet
<1>1. UNCHANGED threads
  BY DEF notifyFrameLost
<1>2. NoRequest \/ LiRequestIdrFrame \/ connectionDetectedFrameLoss(startFrameNumber, d)
  BY DEF notifyFrameLost, Requests
<1>3. startFrameNumber' = startFrameNumber
  BY DEF notifyFrameLost
<1>4. QED BY <1>1, <1>2, <1>3 DEF Quiet, Reports

LEMMA RequestEffects ==
  ASSUME current \in Int, rpc = "last" => current = -1, [Next]_vars
  PROVE  NextFrame \/ Asks \/ Quiet
<1>n. ASSUME UNCHANGED requestVars PROVE Quiet
  BY <1>n DEF Quiet, requestVars, NoRequest, threads
<1>s. ASSUME UNCHANGED threads, NoRequest \/ LiRequestIdrFrame \/ Reports PROVE Quiet
  BY <1>s DEF Quiet
<1>1. CASE Feeds
  <2>1. ASSUME NoReport PROVE Quiet
    BY <1>n, <2>1 DEF NoReport
  <2>2. CASE Keep
    BY <2>1, <2>2, NotifyEffect DEF Keep, May
  <2>3. CASE Foretell
    BY <2>3, NotifyEffect DEF Foretell, May
  <2>4. CASE GiveUp
    BY <2>1, <2>4, NotifyEffect DEF GiveUp, May
  <2>5. QED BY <1>1, <2>2, <2>3, <2>4 DEF Feeds
<1>2. CASE Receives
  <2>1. CASE Begins
    BY <1>n, <1>s, <2>1 DEF Begins, FirstPacket, FirstPacketAfterGap, Requests
  <2>2. CASE Ends
    <3>1. CASE DropWhileWaiting
      <4>1. /\ rpc = "last" /\ UNCHANGED threads
            /\ current' = current /\ startFrameNumber' = startFrameNumber
        BY <3>1 DEF DropWhileWaiting, feedVars
      <4>2. NoRequest \/ LiRequestIdrFrame \/ connectionDetectedFrameLoss(startFrameNumber, 0)
        BY <3>1 DEF DropWhileWaiting, Requests
      <4>3. QED BY <1>s, <4>1, <4>2 DEF Reports, May
    <3>2. CASE LastPacket
      BY <1>n, <3>2 DEF LastPacket
    <3>3. QED BY <2>2, <3>1, <3>2 DEF Ends
  <2>3. CASE StaleFrame \/ KeepFrame \/ OfferUnit
    BY <1>n, <2>3 DEF StaleFrame, KeepFrame, OfferUnit
  <2>4. CASE CorruptFrame
    <3>1. /\ UNCHANGED threads /\ startFrameNumber' = startFrameNumber
          /\ \/ current >= 0 /\ current' = -1
             \/ rpc = "last" /\ current' = current
      BY <2>4 DEF CorruptFrame, HandedOver, feedVars
    <3>2. LiRequestIdrFrame \/ connectionDetectedFrameLoss(startFrameNumber, 0)
      BY <2>4 DEF CorruptFrame
    <3>3. QED BY <1>s, <3>1, <3>2 DEF Reports, May
  <2>5. CASE DropPending \/ Overflow \/ FlushOverflow
    BY <1>s, <2>5 DEF DropPending, Overflow, FlushOverflow, Requests
  <2>6. QED BY <1>2, <2>1, <2>2, <2>3, <2>4, <2>5 DEF Receives
<1>3. CASE Take \/ Decodes \/ DidChangeFocus
  BY <1>s, <1>3 DEF Take, Decodes, DidChangeFocus, Decoded, NeedIdr, RefreshWait, RefreshFlush,
                RefreshDrop, RefreshRequest, receiveVars
<1>4. CASE UNCHANGED vars
  BY <1>n, <1>4 DEF vars
<1>5. QED BY <1>1, <1>2, <1>3, <1>4 DEF Next

-------------------------------------------------------------------------------
(* Where the two ends of the stream are. *)

PlaceInv ==
  /\ current \in -1 .. FAR /\ startFrameNumber \in -1 .. FAR /\ nextFrameNumber \in -1 .. FAR
  /\ current <= startFrameNumber
  /\ rpc # "recv" => current = -1 /\ startFrameNumber >= 0
  /\ rpc \in {"pending", "offer", "overflow"} => nextFrameNumber = -1

LEMMA PlaceInit == Init => PlaceInv
  BY DEF Init, PlaceInv

LEMMA PlaceStep == PlaceInv /\ [Next]_vars => PlaceInv'
<1> SUFFICES ASSUME PlaceInv, [Next]_vars PROVE PlaceInv'
  OBVIOUS
<1> USE DEF PlaceInv
<1>n. ASSUME UNCHANGED <<current, numbers, rpc>> PROVE PlaceInv'
  BY <1>n DEF numbers
<1>1. CASE Feeds
  <2>1. CASE NextFrame
    BY <2>1 DEF NextFrame, Older
  <2>2. ASSUME NEW d \in 0 .. FAR, notifyFrameLost(d)
        PROVE  /\ nextFrameNumber' \in -1 .. FAR
               /\ UNCHANGED <<startFrameNumber, rpc>>
    BY <2>2 DEF notifyFrameLost, numbers
  <2>3. ASSUME NoReport PROVE UNCHANGED <<nextFrameNumber, startFrameNumber, rpc>>
    BY <2>3 DEF NoReport, numbers
  <2>4. CASE Keep
    BY <2>2, <2>3, <2>4 DEF Keep
  <2>5. CASE Foretell
    BY <2>2, <2>5 DEF Foretell
  <2>6. CASE GiveUp
    BY <2>2, <2>3, <2>6 DEF GiveUp
  <2>7. QED BY <1>1, <2>1, <2>4, <2>5, <2>6 DEF Feeds
<1>2. CASE Receives
  <2>1. CASE Begins
    <3>1. current' = -1 /\ current >= 0 /\ rpc' = "last"
      BY <2>1 DEF Begins, FirstPacket, FirstPacketAfterGap, HandedOver
    <3>2. CASE FirstPacket
      BY <3>1, <3>2 DEF FirstPacket, numbers
    <3>3. CASE FirstPacketAfterGap
      <4>1. nextFrameNumber' = 0 /\ startFrameNumber' = startFrameNumber
        BY <3>3 DEF FirstPacketAfterGap
      <4>2. QED BY <3>1, <4>1
    <3>4. QED BY <2>1, <3>2, <3>3 DEF Begins
  <2>2. CASE StaleFrame
    BY <2>2 DEF StaleFrame, HandedOver, numbers
  <2>3. CASE CorruptFrame
    <3>1. current' = -1 \/ UNCHANGED current
      BY <2>3 DEF CorruptFrame, HandedOver, feedVars
    <3>2. startFrameNumber' = startFrameNumber /\ rpc' = "recv" /\ nextFrameNumber' = -1
      BY <2>3 DEF CorruptFrame
    <3>3. QED BY <3>1, <3>2
  <2>4. CASE DropWhileWaiting \/ LastPacket
    BY <2>4 DEF DropWhileWaiting, LastPacket, feedVars
  <2>5. CASE DropPending \/ KeepFrame
    BY <2>5 DEF DropPending, KeepFrame, feedVars, numbers
  <2>6. CASE OfferUnit
    BY <2>6 DEF OfferUnit, feedVars
  <2>7. CASE Overflow \/ FlushOverflow
    BY <2>7 DEF Overflow, FlushOverflow, feedVars, numbers
  <2>8. QED BY <1>2, <2>1, <2>2, <2>3, <2>4, <2>5, <2>6, <2>7 DEF Receives, Ends
<1>3. CASE Take \/ Decodes \/ DidChangeFocus
  BY <1>n, <1>3 DEF Take, Decodes, DidChangeFocus, Decoded, NeedIdr, RefreshWait, RefreshFlush,
                    RefreshDrop, RefreshRequest, receiveVars, feedVars
<1>4. CASE Asks
  BY <1>n, <1>4 DEF Asks, feedVars
<1>5. CASE UNCHANGED vars
  BY <1>n, <1>5 DEF vars, feedVars
<1>6. QED BY <1>1, <1>2, <1>3, <1>4, <1>5 DEF Next

-------------------------------------------------------------------------------
(* The event and the thread that clears it. *)

LEMMA RequestStep == PlaceInv /\ RequestIsKept /\ [Next]_vars => RequestIsKept'
<1> SUFFICES ASSUME PlaceInv, RequestIsKept, [Next]_vars PROVE RequestIsKept'
  OBVIOUS
<1>1. CASE NextFrame
  BY <1>1 DEF NextFrame, RequestIsKept
<1>2. CASE Asks
  BY <1>2 DEF Asks, RequestThreads, IdrThread, IdrWake, IdrClear, IdrSend, RfiTake, RfiSend,
              RequestIsKept
<1>3. CASE Quiet
  <2>1. UNCHANGED <<idrFrameRequiredEvent, asked>> \/ LiRequestIdrFrame
    BY <1>3 DEF Quiet, NoRequest, Reports, connectionDetectedFrameLoss
  <2>2. idrPc' = idrPc
    BY <1>3 DEF Quiet, threads
  <2>3. QED BY <2>1, <2>2 DEF LiRequestIdrFrame, RequestIsKept
<1>4. QED BY <1>1, <1>2, <1>3, RequestEffects DEF PlaceInv

(* No request is lost between the event and the thread that clears it,     *)
(* whoever else sets it at any step of that thread.                        *)
THEOREM RequestsAreKept == Spec => []RequestIsKept
<1>1. Init => RequestIsKept
  BY DEF Init, RequestsInit, RequestIsKept
<1>2. QED BY <1>1, PlaceInit, PlaceStep, RequestStep, PTL DEF Spec

-------------------------------------------------------------------------------
(* The ranges of lost frames.  What makes them come in order is where they *)
(* lie: a queued range starts at or before the frame the depacketizer      *)
(* counts losses from, and ends at or before the frame the feed is at.     *)

queued == invalidReferenceFrameTuples
Behind(r) == r.start >= startFrameNumber /\ r.end >= current
Follows(r, s) == r.start >= s.start /\ r.end >= s.end

RangeInv ==
  /\ queued \in Seq(Ranges) /\ range \in Ranges /\ rfiPc \in {"wait", "join"}
  /\ \A i \in 1 .. Len(queued) : Behind(queued[i]) /\ queued[i].start >= queued[i].end
  /\ \A i \in 1 .. Len(queued) - 1 : Follows(queued[i], queued[i + 1])
  /\ rfiPc = "join" => /\ range.start >= range.end /\ range.end >= current
                       /\ queued # << >> => range.end >= queued[1].end

LEMMA RangeInOrder == RangeInv => RangesInOrder
<1> SUFFICES ASSUME RangeInv PROVE RangesInOrder
  OBVIOUS
<1> USE DEF RangeInv, queued
<1>1. ASSUME NEW i \in DOMAIN queued PROVE queued[i].start >= queued[i].end
  OBVIOUS
<1>2. ASSUME NEW i \in DOMAIN queued, i > 1
      PROVE  queued[i - 1].end >= queued[i].end /\ queued[i - 1].start >= queued[i].start
  <2>1. i - 1 \in 1 .. Len(queued) - 1 /\ (i - 1) + 1 = i
    BY <1>2
  <2>2. QED BY <2>1 DEF Follows
<1>3. QED BY <1>1, <1>2 DEF RangesInOrder

LEMMA RangeInit == Init => RangeInv
  BY DEF Init, RequestsInit, RangeInv, queued, NoRange, Ranges, Distance

(* The frame it is about to come to brings every distance up by one.       *)
LEMMA RangeShift == PlaceInv /\ RangeInv /\ NextFrame => RangeInv'
<1> SUFFICES ASSUME PlaceInv, RangeInv, NextFrame PROVE RangeInv'
  OBVIOUS
<1>1. /\ queued' = [i \in DOMAIN queued |-> Shift(queued[i])]
      /\ range' = IF rfiPc = "join" THEN Shift(range) ELSE range
      /\ rfiPc' = rfiPc /\ current' = Older(current)
      /\ startFrameNumber' = Older(startFrameNumber)
  BY DEF NextFrame, queued
<1>2. \A r \in Ranges : Shift(r) \in Ranges /\ Shift(r).start = Older(r.start)
                        /\ Shift(r).end = Older(r.end)
  BY DEF Shift, Ranges, Distance, Older
<1>3. \A c, d \in -1 .. FAR : c >= d => Older(c) >= Older(d)
  BY DEF Older
<1>4. queued \in Seq(Ranges) /\ range \in Ranges
  BY DEF RangeInv
<1>5. queued' \in Seq(Ranges) /\ Len(queued') = Len(queued)
      /\ \A i \in 1 .. Len(queued) : queued'[i] = Shift(queued[i])
  BY <1>1, <1>2, <1>4
<1>6. current \in -1 .. FAR /\ startFrameNumber \in -1 .. FAR
  BY DEF PlaceInv
<1>7. \A r \in Ranges : r.start \in -1 .. FAR /\ r.end \in -1 .. FAR
  BY DEF Ranges, Distance
<1>8. \A i \in 1 .. Len(queued) : queued[i] \in Ranges
  BY <1>4
<1>9. ASSUME NEW i \in 1 .. Len(queued') 
      PROVE  Behind(queued[i])' /\ queued'[i].start >= queued'[i].end
  <2>1. Behind(queued[i]) /\ queued[i].start >= queued[i].end /\ queued[i] \in Ranges
    BY <1>5, <1>8 DEF RangeInv
  <2>2. /\ Older(queued[i].start) >= Older(startFrameNumber)
        /\ Older(queued[i].end) >= Older(current)
        /\ Older(queued[i].start) >= Older(queued[i].end)
    BY <2>1, <1>3, <1>6, <1>7 DEF Behind
  <2>3. QED BY <2>1, <2>2, <1>1, <1>2, <1>5 DEF Behind
<1>10. ASSUME NEW i \in 1 .. Len(queued') - 1 
       PROVE  Follows(queued'[i], queued'[i + 1])
  <2>1. i \in 1 .. Len(queued) /\ i + 1 \in 1 .. Len(queued)
    BY <1>4, <1>5
  <2>2. Follows(queued[i], queued[i + 1]) /\ queued[i] \in Ranges /\ queued[i + 1] \in Ranges
    BY <1>5, <1>8, <2>1 DEF RangeInv
  <2>3. /\ Older(queued[i].start) >= Older(queued[i + 1].start)
        /\ Older(queued[i].end) >= Older(queued[i + 1].end)
    BY <2>2, <1>3, <1>7 DEF Follows
  <2>4. QED BY <2>1, <2>2, <2>3, <1>2, <1>5 DEF Follows
<1>11. ASSUME rfiPc = "join"
       PROVE  /\ range'.start >= range'.end /\ range'.end >= current'
              /\ queued' # << >> => range'.end >= queued'[1].end
  <2>1. range' = Shift(range) /\ range'.start = Older(range.start) /\ range'.end = Older(range.end)
    BY <1>1, <1>2, <1>4, <1>11
  <2>2. Older(range.start) >= Older(range.end) /\ Older(range.end) >= Older(current)
    BY <1>3, <1>4, <1>6, <1>7, <1>11 DEF RangeInv
  <2>3. ASSUME queued' # << >> PROVE range'.end >= queued'[1].end
    <3>1. 1 \in 1 .. Len(queued) /\ queued # << >>
      BY <1>4, <1>5, <2>3
    <3>2. range.end >= queued[1].end /\ queued[1] \in Ranges
      BY <3>1, <1>8, <1>11 DEF RangeInv
    <3>3. Older(range.end) >= Older(queued[1].end)
      BY <3>2, <1>3, <1>4, <1>7
    <3>4. QED BY <3>1, <3>2, <3>3, <2>1, <1>2, <1>5
  <2>4. QED BY <2>1, <2>2, <2>3, <1>1
<1>12. range' \in Ranges
  BY <1>1, <1>2, <1>4
<1>13. QED BY <1>1, <1>5, <1>9, <1>10, <1>11, <1>12 DEF RangeInv

(* The thread takes the first range and joins it to what it holds.         *)
LEMMA RangeTaken ==
  PlaceInv /\ RangeInv /\ RfiTake /\ UNCHANGED <<current, startFrameNumber>> => RangeInv'
<1> SUFFICES ASSUME PlaceInv, RangeInv, RfiTake, UNCHANGED <<current, startFrameNumber>>
             PROVE  RangeInv'
  OBVIOUS
<1>1. /\ queued # << >> /\ queued' = Tail(queued) /\ rfiPc' = "join"
      /\ range' = IF rfiPc = "wait" THEN Head(queued)
                  ELSE [range EXCEPT !.end = Head(queued).end]
  BY DEF RfiTake, queued
<1>2. queued \in Seq(Ranges) /\ range \in Ranges
  BY DEF RangeInv
<1>3. /\ queued' \in Seq(Ranges) /\ Len(queued') = Len(queued) - 1
      /\ \A i \in 1 .. Len(queued') : queued'[i] = queued[i + 1]
      /\ 1 \in 1 .. Len(queued) /\ Head(queued) = queued[1] /\ queued[1] \in Ranges
  BY <1>1, <1>2
<1>4. current' = current /\ startFrameNumber' = startFrameNumber
  OBVIOUS
<1>5. ASSUME NEW i \in 1 .. Len(queued')
      PROVE  Behind(queued[i])' /\ queued'[i].start >= queued'[i].end
  <2>1. i + 1 \in 1 .. Len(queued)
    BY <1>2, <1>3
  <2>2. Behind(queued[i + 1]) /\ queued[i + 1].start >= queued[i + 1].end
    BY <2>1 DEF RangeInv
  <2>3. QED BY <1>3, <1>4, <2>2 DEF Behind
<1>6. ASSUME NEW i \in 1 .. Len(queued') - 1
      PROVE  Follows(queued'[i], queued'[i + 1])
  <2>1. i + 1 \in 1 .. Len(queued) - 1 /\ i \in 1 .. Len(queued') /\ i + 1 \in 1 .. Len(queued')
    BY <1>2, <1>3
  <2>2. Follows(queued[i + 1], queued[(i + 1) + 1])
    BY <2>1 DEF RangeInv
  <2>3. queued'[i] = queued[i + 1] /\ queued'[i + 1] = queued[(i + 1) + 1]
    BY <2>1, <1>3
  <2>4. QED BY <2>2, <2>3
<1>7. Behind(queued[1]) /\ queued[1].start >= queued[1].end
  BY <1>3 DEF RangeInv
<1>8. range' \in Ranges /\ range'.end = queued[1].end /\ range'.start >= range'.end
  <2>1. CASE rfiPc = "wait"
    BY <2>1, <1>1, <1>3, <1>7
  <2>2. CASE rfiPc = "join"
    <3>1. range.start >= range.end /\ range.end >= queued[1].end
      BY <2>2, <1>1 DEF RangeInv
    <3>2. range' = [range EXCEPT !.end = queued[1].end]
      BY <2>2, <1>1, <1>3
    <3>3. range'.end = queued[1].end /\ range'.start = range.start /\ range' \in Ranges
      BY <3>2, <1>2, <1>3 DEF Ranges
    <3>4. /\ range.start \in Int /\ range.end \in Int /\ queued[1].end \in Int
      BY <1>2, <1>3 DEF Ranges, Distance
    <3>5. QED BY <3>1, <3>3, <3>4
  <2>3. QED BY <2>1, <2>2 DEF RangeInv
<1>9. ASSUME queued' # << >> PROVE range'.end >= queued'[1].end
  <2>1. 1 \in 1 .. Len(queued) - 1 /\ queued'[1] = queued[2]
    BY <1>2, <1>3, <1>9
  <2>2. Follows(queued[1], queued[1 + 1])
    BY <2>1 DEF RangeInv
  <2>3. QED BY <2>1, <2>2, <1>8 DEF Follows
<1>10. range'.end >= current'
  BY <1>4, <1>7, <1>8 DEF Behind
<1>11. QED BY <1>1, <1>3, <1>5, <1>6, <1>8, <1>9, <1>10 DEF RangeInv

(* The stream goes on: what it has passed stays behind it.                 *)
LEMMA RangeStays ==
  ASSUME PlaceInv, RangeInv, UNCHANGED <<invalidReferenceFrameTuples, rfiPc, range>>,
         current' \in Int, startFrameNumber' \in Int,
         current' <= current, startFrameNumber' <= startFrameNumber
  PROVE  RangeInv'
<1>1. queued' = queued /\ rfiPc' = rfiPc /\ range' = range
  BY DEF queued
<1>2. current \in Int /\ startFrameNumber \in Int
  BY DEF PlaceInv
<1>3. queued \in Seq(Ranges) /\ range \in Ranges
  BY DEF RangeInv
<1>4. \A r \in Ranges : r.start \in Int /\ r.end \in Int
  BY DEF Ranges, Distance
<1>5. ASSUME NEW i \in 1 .. Len(queued) PROVE Behind(queued[i])'
  <2>1. Behind(queued[i]) /\ queued[i] \in Ranges
    BY <1>3 DEF RangeInv
  <2>2. QED BY <2>1, <1>1, <1>2, <1>4 DEF Behind
<1>6. rfiPc = "join" => range.end >= current'
  BY <1>2, <1>3, <1>4 DEF RangeInv
<1>7. QED BY <1>1, <1>5, <1>6 DEF RangeInv

LEMMA RangesFreed ==
  ASSUME PlaceInv, RangeInv, UNCHANGED <<rfiPc, range>>, invalidReferenceFrameTuples' = << >>,
         current' \in Int, current' <= current
  PROVE  RangeInv'
<1>1. queued' = << >> /\ queued' \in Seq(Ranges) /\ Len(queued') = 0
  BY DEF queued
<1>2. range \in Ranges /\ (rfiPc = "join" => range.start >= range.end /\ range.end >= current)
  BY DEF RangeInv
<1>3. range.end \in Int /\ current \in Int
  BY <1>2 DEF Ranges, Distance, PlaceInv
<1>4. QED BY <1>1, <1>2, <1>3 DEF RangeInv

(* A report, made at or after the places the queued ranges are behind of.  *)
LEMMA RangeAdded ==
  ASSUME PlaceInv, RangeInv, UNCHANGED <<rfiPc, range>>, NEW d, May(d),
         connectionDetectedFrameLoss(startFrameNumber, d),
         current' \in Int, startFrameNumber' = startFrameNumber, current' <= current, current' <= d
  PROVE  RangeInv'
<1>1. CASE LiRequestIdrFrame
  BY <1>1, RangesFreed DEF LiRequestIdrFrame
<1>2. CASE queued' = Append(queued, [start |-> startFrameNumber, end |-> d])
  <2> DEFINE new == [start |-> startFrameNumber, end |-> d]
  <2>1. /\ current \in -1 .. FAR /\ startFrameNumber \in -1 .. FAR /\ current <= startFrameNumber
        /\ (rpc = "last" => current = -1 /\ startFrameNumber >= 0)
    BY DEF PlaceInv
  <2>2. d \in Int /\ d >= 0 /\ d <= startFrameNumber /\ (d <= current \/ (d = 0 /\ current = -1))
    BY <2>1 DEF May
  <2>3. new \in Ranges /\ new.start = startFrameNumber /\ new.end = d
    BY <2>1, <2>2 DEF Ranges, Distance
  <2>4. queued \in Seq(Ranges) /\ range \in Ranges
    BY DEF RangeInv
  <2>5. \A r \in Ranges : r.start \in Int /\ r.end \in Int /\ r.end >= 0
    BY DEF Ranges, Distance
  <2>6. \A r \in Ranges : r.end >= current => r.end >= d
    BY <2>2, <2>5, <2>1
  <2> HIDE DEF new
  <2>7. /\ queued' \in Seq(Ranges) /\ Len(queued') = Len(queued) + 1
        /\ \A i \in 1 .. Len(queued) : queued'[i] = queued[i]
        /\ queued'[Len(queued) + 1] = new
    BY <1>2, <2>3, <2>4 DEF new
  <2>8. ASSUME NEW i \in 1 .. Len(queued')
        PROVE  Behind(queued[i])' /\ queued'[i].start >= queued'[i].end
    <3>1. CASE i = Len(queued) + 1
      BY <3>1, <2>1, <2>2, <2>3, <2>7 DEF Behind
    <3>2. CASE i \in 1 .. Len(queued)
      <4>1. Behind(queued[i]) /\ queued[i].start >= queued[i].end /\ queued[i] \in Ranges
        BY <3>2, <2>4 DEF RangeInv
      <4>2. QED BY <3>2, <4>1, <2>1, <2>5, <2>7 DEF Behind
    <3>3. QED BY <3>1, <3>2, <2>4, <2>7
  <2>9. ASSUME NEW i \in 1 .. Len(queued') - 1
        PROVE  Follows(queued'[i], queued'[i + 1])
    <3>1. CASE i = Len(queued)
      <4>1. i \in 1 .. Len(queued) /\ queued[i] \in Ranges
        BY <3>1, <2>4
      <4>2. Behind(queued[i])
        BY <4>1 DEF RangeInv
      <4>3. queued[i].end >= d /\ queued[i].start >= startFrameNumber
        BY <4>1, <4>2, <2>6 DEF Behind
      <4>4. QED BY <3>1, <4>1, <4>3, <2>3, <2>7 DEF Follows
    <3>2. CASE i \in 1 .. Len(queued) - 1
      <4>1. i \in 1 .. Len(queued) /\ i + 1 \in 1 .. Len(queued)
        BY <3>2, <2>4
      <4>2. Follows(queued[i], queued[i + 1])
        BY <3>2 DEF RangeInv
      <4>3. QED BY <4>1, <4>2, <2>7
    <3>3. QED BY <3>1, <3>2, <2>4, <2>7
  <2>10. ASSUME rfiPc = "join"
         PROVE  /\ range.start >= range.end /\ range.end >= current'
                /\ queued' # << >> => range.end >= queued'[1].end
    <3>1. range.start >= range.end /\ range.end >= current
      BY <2>10 DEF RangeInv
    <3>2. CASE queued = << >>
      BY <3>1, <3>2, <2>1, <2>3, <2>4, <2>5, <2>6, <2>7
    <3>3. CASE queued # << >>
      <4>1. 1 \in 1 .. Len(queued) /\ range.end >= queued[1].end
        BY <3>3, <2>4, <2>10 DEF RangeInv
      <4>2. QED BY <3>1, <4>1, <2>1, <2>4, <2>5, <2>7
    <3>4. QED BY <3>2, <3>3
  <2>11. rfiPc' = rfiPc /\ range' = range
    OBVIOUS
  <2>12. QED BY <2>4, <2>7, <2>8, <2>9, <2>10, <2>11 DEF RangeInv
<1>3. QED BY <1>1, <1>2 DEF connectionDetectedFrameLoss, queued

(* But for the next frame, the feed only comes nearer and the frame losses *)
(* are counted from only moves on.                                         *)
LEMMA Recedes ==
  ASSUME PlaceInv, [Next]_vars, ~NextFrame
  PROVE  /\ current' \in Int /\ startFrameNumber' \in Int
         /\ current' <= current /\ startFrameNumber' <= startFrameNumber
<1> USE DEF PlaceInv
<1>n. ASSUME UNCHANGED <<current, startFrameNumber>>
      PROVE  /\ current' \in Int /\ startFrameNumber' \in Int
             /\ current' <= current /\ startFrameNumber' <= startFrameNumber
  BY <1>n
<1>s. ASSUME current' = -1 \/ UNCHANGED current, UNCHANGED startFrameNumber
      PROVE  /\ current' \in Int /\ startFrameNumber' \in Int
             /\ current' <= current /\ startFrameNumber' <= startFrameNumber
  BY <1>s
<1>1. CASE Feeds
  <2>1. ASSUME NEW d \in 0 .. FAR, notifyFrameLost(d) PROVE UNCHANGED startFrameNumber
    BY <2>1 DEF notifyFrameLost
  <2>2. ASSUME NoReport PROVE UNCHANGED startFrameNumber
    BY <2>2 DEF NoReport, numbers
  <2>3. CASE Keep
    BY <2>1, <2>2, <2>3 DEF Keep
  <2>4. CASE Foretell
    BY <2>1, <2>4 DEF Foretell
  <2>5. CASE GiveUp
    BY <1>s, <2>1, <2>2, <2>5 DEF GiveUp
  <2>6. QED BY <1>1, <2>3, <2>4, <2>5 DEF Feeds
<1>2. CASE Receives
  <2>1. CASE Begins
    <3>1. current' = -1 /\ UNCHANGED startFrameNumber
      BY <2>1 DEF Begins, FirstPacket, FirstPacketAfterGap, HandedOver, numbers
    <3>2. QED BY <1>s, <3>1
  <2>2. CASE StaleFrame \/ CorruptFrame
    <3>1. /\ current' = -1 \/ UNCHANGED current
          /\ UNCHANGED startFrameNumber
      BY <2>2 DEF StaleFrame, CorruptFrame, HandedOver, feedVars, numbers
    <3>2. QED BY <1>s, <3>1
  <2>3. CASE Ends \/ DropPending \/ KeepFrame \/ Overflow \/ FlushOverflow
    BY <1>n, <2>3 DEF Ends, DropWhileWaiting, LastPacket, DropPending, KeepFrame, Overflow,
                      FlushOverflow, feedVars, numbers
  <2>4. CASE OfferUnit
    BY <2>4 DEF OfferUnit, feedVars
  <2>5. QED BY <1>2, <2>1, <2>2, <2>3, <2>4 DEF Receives
<1>3. CASE Take \/ Decodes \/ DidChangeFocus
  BY <1>n, <1>3 DEF Take, Decodes, DidChangeFocus, Decoded, NeedIdr, RefreshWait, RefreshFlush,
                    RefreshDrop, RefreshRequest, receiveVars, feedVars, numbers
<1>4. CASE Asks \/ UNCHANGED vars
  BY <1>n, <1>4 DEF Asks, feedVars, numbers, vars
<1>5. QED BY <1>1, <1>2, <1>3, <1>4 DEF Next

LEMMA RangeStep == PlaceInv /\ RangeInv /\ [Next]_vars => RangeInv'
<1> SUFFICES ASSUME PlaceInv, RangeInv, [Next]_vars, ~NextFrame PROVE RangeInv'
  BY RangeShift
<1>1. /\ current' \in Int /\ startFrameNumber' \in Int
      /\ current' <= current /\ startFrameNumber' <= startFrameNumber
  BY Recedes
<1>2. CASE Asks
  <2>1. UNCHANGED <<current, startFrameNumber>>
    BY <1>2 DEF Asks, feedVars, numbers
  <2>2. CASE IdrWake \/ IdrClear
    BY <1>1, <2>2, RangeStays DEF IdrWake, IdrClear
  <2>3. CASE IdrSend
    BY <1>1, <2>3, RangesFreed DEF IdrSend
  <2>4. CASE RfiTake
    BY <2>1, <2>4, RangeTaken
  <2>5. CASE RfiSend
    <3>1. queued' = << >> /\ rfiPc' = "wait" /\ range' = NoRange
      BY <2>5 DEF RfiSend, queued
    <3>2. QED BY <3>1 DEF RangeInv, NoRange, Ranges, Distance
  <2>6. QED BY <1>2, <2>2, <2>3, <2>4, <2>5 DEF Asks, RequestThreads, IdrThread
<1>3. CASE Quiet
  <2>1. UNCHANGED <<rfiPc, range>>
    BY <1>3 DEF Quiet, threads
  <2>2. CASE NoRequest
    BY <1>1, <2>1, <2>2, RangeStays DEF NoRequest
  <2>3. CASE LiRequestIdrFrame
    BY <1>1, <2>1, <2>3, RangesFreed DEF LiRequestIdrFrame
  <2>4. CASE Reports
    BY <1>1, <2>1, <2>4, RangeAdded DEF Reports
  <2>5. QED BY <1>3, <2>2, <2>3, <2>4 DEF Quiet
<1>4. QED BY <1>2, <1>3, RequestEffects DEF PlaceInv

(* Whatever the feed reports and the threads send meanwhile, lost frames   *)
(* are reported to the host in order, and every range ends after it starts *)
(* (the assertions of ControlStream.c:364, 1462 and 1502).                 *)
THEOREM RangesComeInOrder == Spec => []RangesInOrder
<1>1. QED BY PlaceInit, PlaceStep, RangeInit, RangeStep, RangeInOrder, PTL DEF Spec

-------------------------------------------------------------------------------
(* The types, and the waits. *)

CountOK == consecutiveFrameDrops \in 0 .. DROPS - 1
UnitsOK == decodeUnitQueue \in Seq(Kinds) /\ Len(decodeUnitQueue) <= UNITS
PcsOK ==
  /\ rpc \in {"recv", "last", "pending", "offer", "overflow"}
  /\ dpc \in {"take", "submit"} \cup Refreshing /\ idrPc \in {"wait", "clear", "send"}
  /\ kind \in Kinds /\ unit \in Kinds

\* What each step does to the count of drops, to the queue and to the wait for a whole frame.
Counts == UNCHANGED consecutiveFrameDrops \/ CountDrop \/ consecutiveFrameDrops' = 0
Queues ==
  \/ UNCHANGED decodeUnitQueue
  \/ decodeUnitQueue' = << >>
  \/ Len(decodeUnitQueue) < UNITS /\ decodeUnitQueue' = Append(decodeUnitQueue, kind)
  \/ decodeUnitQueue # << >> /\ decodeUnitQueue' = Tail(decodeUnitQueue)
Waits ==
  \/ UNCHANGED waits
  \/ FirstPacket
  \/ waitingForIdrFrame' \/ waitingForRefInvalFrame'
  \/ ~waitingForNextSuccessfulFrame'

LEMMA CountsStep == [Next]_vars => Counts /\ Queues
<1> SUFFICES ASSUME [Next]_vars PROVE Counts /\ Queues
  OBVIOUS
<1> USE DEF Counts, Queues
<1>1. CASE Feeds
  <2>1. ASSUME NEW d, notifyFrameLost(d) PROVE Counts /\ Queues
    BY <2>1 DEF notifyFrameLost, Drop, queueVars
  <2>2. ASSUME NoReport PROVE Counts /\ Queues
    BY <2>2 DEF NoReport, queueVars
  <2>3. CASE NextFrame
    BY <2>3 DEF NextFrame, queueVars
  <2>4. CASE Keep
    BY <2>1, <2>2, <2>4 DEF Keep
  <2>5. CASE Foretell
    BY <2>1, <2>5 DEF Foretell
  <2>6. CASE GiveUp
    BY <2>1, <2>2, <2>6 DEF GiveUp
  <2>7. QED BY <1>1, <2>3, <2>4, <2>5, <2>6 DEF Feeds
<1>2. CASE Receives
  <2>1. CASE Begins
    BY <2>1 DEF Begins, FirstPacket, FirstPacketAfterGap, queueVars
  <2>2. CASE StaleFrame \/ CorruptFrame
    BY <2>2 DEF StaleFrame, CorruptFrame, Drop, queueVars
  <2>3. CASE Ends \/ DropPending \/ KeepFrame
    BY <2>3 DEF Ends, DropWhileWaiting, LastPacket, DropPending, KeepFrame, Drop, queueVars
  <2>4. CASE OfferUnit \/ Overflow \/ FlushOverflow
    BY <2>4 DEF OfferUnit, Overflow, FlushOverflow, Drop, queueVars
  <2>5. QED BY <1>2, <2>1, <2>2, <2>3, <2>4 DEF Receives
<1>3. CASE Take \/ Decodes \/ DidChangeFocus
  BY <1>3 DEF Take, Decodes, DidChangeFocus, Decoded, NeedIdr, RefreshWait, RefreshFlush,
              RefreshDrop, RefreshRequest, receiveVars, queueVars
<1>4. CASE Asks \/ UNCHANGED vars
  BY <1>4 DEF Asks, queueVars, vars
<1>5. QED BY <1>1, <1>2, <1>3, <1>4 DEF Next

LEMMA WaitsStep == [Next]_vars => Waits
<1> SUFFICES ASSUME [Next]_vars PROVE Waits
  OBVIOUS
<1> USE DEF Waits
<1>d. ASSUME NEW idr, Drop(idr) PROVE Waits
  BY <1>d DEF Drop, IdrAfterDrop, RefAfterDrop
<1>1. CASE Feeds
  <2>1. ASSUME NEW d, notifyFrameLost(d) PROVE Waits
    BY <1>d, <2>1 DEF notifyFrameLost
  <2>2. ASSUME NoReport PROVE Waits
    BY <2>2 DEF NoReport
  <2>3. CASE NextFrame
    BY <2>3 DEF NextFrame
  <2>4. CASE Keep
    BY <2>1, <2>2, <2>4 DEF Keep
  <2>5. CASE Foretell
    BY <2>1, <2>5 DEF Foretell
  <2>6. CASE GiveUp
    BY <2>1, <2>2, <2>6 DEF GiveUp
  <2>7. QED BY <1>1, <2>3, <2>4, <2>5, <2>6 DEF Feeds
<1>2. CASE Receives
  <2>1. CASE FirstPacket
    BY <2>1
  <2>2. CASE FirstPacketAfterGap
    BY <2>2 DEF FirstPacketAfterGap, TypeEnds, IdrAfterDrop, RefAfterDrop
  <2>3. CASE CorruptFrame \/ DropWhileWaiting \/ DropPending \/ Overflow
    BY <1>d, <2>3 DEF CorruptFrame, DropWhileWaiting, DropPending, Overflow
  <2>4. CASE StaleFrame \/ LastPacket \/ KeepFrame \/ OfferUnit \/ FlushOverflow
    BY <2>4 DEF StaleFrame, LastPacket, KeepFrame, OfferUnit, FlushOverflow
  <2>5. QED BY <1>2, <2>1, <2>2, <2>3, <2>4 DEF Receives, Begins, Ends
<1>3. CASE Take \/ Decodes \/ DidChangeFocus
  BY <1>3 DEF Take, Decodes, DidChangeFocus, Decoded, NeedIdr, RefreshWait, RefreshFlush,
              RefreshDrop, RefreshRequest, receiveVars, waits
<1>4. CASE Asks \/ UNCHANGED vars
  BY <1>4 DEF Asks, vars
<1>5. QED BY <1>1, <1>2, <1>3, <1>4 DEF Next

RequestFlags ==
  /\ rfi \in BOOLEAN /\ idrFrameRequiredEvent \in BOOLEAN /\ asked \in BOOLEAN
  /\ pendingIdr \in BOOLEAN /\ pendingRfi \in BOOLEAN
WaitFlags ==
  /\ waitingForNextSuccessfulFrame \in BOOLEAN /\ waitingForIdrFrame \in BOOLEAN
  /\ waitingForRefInvalFrame \in BOOLEAN
OtherFlags == dropStatePending \in BOOLEAN /\ idrFrameProcessed \in BOOLEAN /\ broken \in BOOLEAN

LEMMA RequestFlagsStep == PlaceInv /\ RequestFlags /\ [Next]_vars => RequestFlags'
<1> SUFFICES ASSUME PlaceInv, RequestFlags, [Next]_vars PROVE RequestFlags'
  OBVIOUS
<1> USE DEF RequestFlags
<1>1. CASE NextFrame
  BY <1>1 DEF NextFrame
<1>2. CASE Asks
  <2>1. CASE IdrWake
    BY <2>1 DEF IdrWake
  <2>2. CASE IdrClear
    BY <2>2 DEF IdrClear
  <2>3. CASE IdrSend
    BY <2>3 DEF IdrSend
  <2>4. CASE RfiTake
    BY <2>4 DEF RfiTake
  <2>5. CASE RfiSend
    BY <2>5 DEF RfiSend
  <2>6. QED BY <1>2, <2>1, <2>2, <2>3, <2>4, <2>5 DEF Asks, RequestThreads, IdrThread
<1>3. CASE Quiet
  <2>1. UNCHANGED <<rfi, pendingIdr, pendingRfi>>
    BY <1>3 DEF Quiet, threads
  <2>2. LiRequestIdrFrame \/ UNCHANGED <<idrFrameRequiredEvent, asked>>
    BY <1>3 DEF Quiet, NoRequest, Reports, connectionDetectedFrameLoss
  <2>3. QED BY <2>1, <2>2 DEF LiRequestIdrFrame
<1>4. QED BY <1>1, <1>2, <1>3, RequestEffects DEF PlaceInv

\* The waits and the other flags: each keeps its value, or takes that of a condition.
LEMMA DropFlags ==
  ASSUME WaitFlags, NEW idr, Drop(idr)
  PROVE  /\ waitingForIdrFrame' \in BOOLEAN /\ waitingForRefInvalFrame' \in BOOLEAN
         /\ dropStatePending' \in BOOLEAN
<1>1. waitingForIdrFrame' \in BOOLEAN
  BY DEF Drop, IdrAfterDrop
<1>2. waitingForRefInvalFrame' \in BOOLEAN
  BY DEF Drop, RefAfterDrop
<1>3. QED BY <1>1, <1>2 DEF Drop, CountDrop

LEMMA OtherFlagsStep == WaitFlags /\ OtherFlags /\ [Next]_vars => WaitFlags' /\ OtherFlags'
<1> SUFFICES ASSUME WaitFlags, OtherFlags, [Next]_vars PROVE WaitFlags' /\ OtherFlags'
  OBVIOUS
<1> USE DEF WaitFlags, OtherFlags
<1>n. ASSUME UNCHANGED <<waits, dropStatePending, idrFrameProcessed, broken>>
      PROVE  WaitFlags' /\ OtherFlags'
  BY <1>n DEF waits
<1>d. ASSUME NEW idr, Drop(idr), waitingForNextSuccessfulFrame' \in BOOLEAN,
             UNCHANGED <<idrFrameProcessed, broken>>
      PROVE  WaitFlags' /\ OtherFlags'
  BY <1>d, DropFlags
<1>1. CASE Feeds
  <2>1. ASSUME NEW d, notifyFrameLost(d) PROVE WaitFlags' /\ OtherFlags'
    BY <1>d, <2>1 DEF notifyFrameLost, decoderVars, queueVars
  <2>2. ASSUME NoReport PROVE WaitFlags' /\ OtherFlags'
    BY <1>n, <2>2 DEF NoReport, decoderVars, queueVars
  <2>3. CASE NextFrame
    BY <1>n, <2>3 DEF NextFrame, decoderVars, queueVars
  <2>4. CASE Keep
    BY <2>1, <2>2, <2>4 DEF Keep
  <2>5. CASE Foretell
    BY <2>1, <2>5 DEF Foretell
  <2>6. CASE GiveUp
    BY <2>1, <2>2, <2>6 DEF GiveUp
  <2>7. QED BY <1>1, <2>3, <2>4, <2>5, <2>6 DEF Feeds
<1>2. CASE Receives
  <2>1. CASE Begins
    <3>1. ASSUME NEW idr, NEW ref, NEW next, next \in BOOLEAN, ref \in BOOLEAN,
                 TypeEnds(idr, ref, next)
          PROVE  WaitFlags'
      BY <3>1 DEF TypeEnds
    <3>2. RefAfterDrop(waitingForIdrFrame) \in BOOLEAN
      BY DEF RefAfterDrop
    <3>3. CASE FirstPacket
      BY <3>1, <3>3 DEF FirstPacket, decoderVars, queueVars
    <3>4. CASE FirstPacketAfterGap
      BY <3>1, <3>2, <3>4 DEF FirstPacketAfterGap, CountDrop, decoderVars, queueVars
    <3>5. QED BY <2>1, <3>3, <3>4 DEF Begins
  <2>2. CASE CorruptFrame
    BY <1>d, <2>2 DEF CorruptFrame, decoderVars, queueVars
  <2>3. CASE DropWhileWaiting
    BY <1>d, <2>3 DEF DropWhileWaiting, decoderVars, queueVars
  <2>4. CASE DropPending \/ Overflow
    BY <1>d, <2>4 DEF DropPending, Overflow, decoderVars, queueVars
  <2>5. CASE StaleFrame \/ LastPacket
    BY <1>n, <2>5 DEF StaleFrame, LastPacket, decoderVars, queueVars
  <2>6. CASE KeepFrame
    BY <2>6 DEF KeepFrame, waits, decoderVars, queueVars
  <2>7. CASE OfferUnit
    BY <2>7 DEF OfferUnit, waits, decoderVars
  <2>8. CASE FlushOverflow
    BY <2>8 DEF FlushOverflow, waits, decoderVars
  <2>9. QED BY <1>2, <2>1, <2>2, <2>3, <2>4, <2>5, <2>6, <2>7, <2>8 DEF Receives, Ends
<1>3. CASE Take \/ DidChangeFocus \/ Decodes
  <2>1. CASE Take \/ DidChangeFocus \/ NeedIdr \/ RefreshRequest
    BY <2>1 DEF Take, DidChangeFocus, NeedIdr, RefreshRequest, receiveVars, queueVars, decoderVars
  <2>2. CASE Decoded
    BY <2>2 DEF Decoded, receiveVars, queueVars
  <2>3. CASE RefreshWait
    BY <2>3 DEF RefreshWait, receiveVars, queueVars
  <2>4. CASE RefreshFlush
    BY <2>4 DEF RefreshFlush, receiveVars
  <2>5. CASE RefreshDrop
    BY <2>5 DEF RefreshDrop, receiveVars, queueVars
  <2>6. QED BY <1>3, <2>1, <2>2, <2>3, <2>4, <2>5 DEF Decodes
<1>4. CASE Asks \/ UNCHANGED vars
  BY <1>n, <1>4 DEF Asks, vars, decoderVars, queueVars
<1>5. QED BY <1>1, <1>2, <1>3, <1>4 DEF Next

LEMMA PcsStep == PlaceInv /\ UnitsOK /\ PcsOK /\ [Next]_vars => PcsOK'
<1> SUFFICES ASSUME PlaceInv, UnitsOK, PcsOK, [Next]_vars PROVE PcsOK'
  OBVIOUS
<1> USE DEF PcsOK
<1>n. ASSUME UNCHANGED <<rpc, dpc, idrPc, kind, unit>> PROVE PcsOK'
  BY <1>n
<1>1. CASE Feeds
  <2>1. ASSUME NEW d \in 0 .. FAR, notifyFrameLost(d) PROVE PcsOK'
    BY <2>1 DEF notifyFrameLost, decoderVars, threads
  <2>2. ASSUME NoReport PROVE PcsOK'
    BY <1>n, <2>2 DEF NoReport, decoderVars, requestVars
  <2>3. CASE NextFrame
    BY <2>3 DEF NextFrame, decoderVars, Kinds
  <2>4. CASE Keep
    BY <2>1, <2>2, <2>4 DEF Keep
  <2>5. CASE Foretell
    BY <2>1, <2>5 DEF Foretell
  <2>6. CASE GiveUp
    BY <2>1, <2>2, <2>6 DEF GiveUp, PlaceInv
  <2>7. QED BY <1>1, <2>3, <2>4, <2>5, <2>6 DEF Feeds
<1>2. CASE Receives
  <2>1. CASE Begins
    BY <2>1 DEF Begins, FirstPacket, FirstPacketAfterGap, HandedOver, decoderVars, threads,
                requestVars
  <2>2. CASE StaleFrame \/ CorruptFrame
    BY <2>2 DEF StaleFrame, CorruptFrame, HandedOver, feedVars, decoderVars, threads, requestVars
  <2>3. CASE Ends
    BY <2>3 DEF Ends, DropWhileWaiting, LastPacket, feedVars, decoderVars, threads, requestVars
  <2>4. CASE DropPending \/ KeepFrame
    BY <2>4 DEF DropPending, KeepFrame, feedVars, decoderVars, threads, requestVars
  <2>5. CASE OfferUnit \/ Overflow \/ FlushOverflow
    BY <2>5 DEF OfferUnit, Overflow, FlushOverflow, feedVars, decoderVars, threads, requestVars
  <2>6. QED BY <1>2, <2>1, <2>2, <2>3, <2>4, <2>5 DEF Receives
<1>3. CASE Asks
  BY <1>3 DEF Asks, RequestThreads, IdrThread, IdrWake, IdrClear, IdrSend, RfiTake, RfiSend,
              feedVars, decoderVars
<1>4. CASE Take
  <2>1. Head(decodeUnitQueue) \in Kinds
    BY <1>4 DEF Take, UnitsOK
  <2>2. unit' = Head(decodeUnitQueue) /\ dpc' = "submit" /\ UNCHANGED <<receiveVars>>
    BY <1>4 DEF Take
  <2>3. QED BY <2>1, <2>2 DEF receiveVars, feedVars, threads
<1>5. CASE Decodes \/ DidChangeFocus
  <2>1. UNCHANGED <<rpc, feedVars, threads>>
    BY <1>5 DEF Decodes, DidChangeFocus, Decoded, NeedIdr, RefreshWait, RefreshFlush, RefreshDrop,
                RefreshRequest, receiveVars
  <2>2. dpc' \in {"take", "submit"} \cup Refreshing
    BY <1>5 DEF Decodes, DidChangeFocus, Decoded, NeedIdr, RefreshWait, RefreshFlush, RefreshDrop,
                RefreshRequest, decoderVars, Refreshing
  <2>3. unit' \in Kinds
    BY <1>5 DEF Decodes, DidChangeFocus, Decoded, NeedIdr, RefreshWait, RefreshFlush, RefreshDrop,
                RefreshRequest, decoderVars, Kinds
  <2>4. QED BY <2>1, <2>2, <2>3 DEF feedVars, threads
<1>6. CASE UNCHANGED vars
  BY <1>n, <1>6 DEF vars, feedVars, decoderVars, requestVars
<1>7. QED BY <1>1, <1>2, <1>3, <1>4, <1>5, <1>6 DEF Next

LEMMA CountStep == CountOK /\ [Next]_vars => CountOK'
  BY CountsStep DEF Counts, CountDrop, AtLimit, CountOK

LEMMA UnitsStep == PcsOK /\ UnitsOK /\ [Next]_vars => UnitsOK'
<1> SUFFICES ASSUME PcsOK, UnitsOK, [Next]_vars PROVE UnitsOK'
  OBVIOUS
<1> USE DEF UnitsOK
<1>1. CASE UNCHANGED decodeUnitQueue
  BY <1>1
<1>2. CASE decodeUnitQueue' = << >>
  BY <1>2
<1>3. CASE Len(decodeUnitQueue) < UNITS /\ decodeUnitQueue' = Append(decodeUnitQueue, kind)
  BY <1>3 DEF PcsOK
<1>4. CASE decodeUnitQueue # << >> /\ decodeUnitQueue' = Tail(decodeUnitQueue)
  BY <1>4
<1>5. QED BY <1>1, <1>2, <1>3, <1>4, CountsStep DEF Queues

LEMMA TuplesStep ==
  PlaceInv /\ RangeInv /\ Len(queued) <= TUPLES /\ [Next]_vars => Len(queued') <= TUPLES
<1> SUFFICES ASSUME PlaceInv, RangeInv, Len(queued) <= TUPLES, [Next]_vars
             PROVE  Len(queued') <= TUPLES
  OBVIOUS
<1> DEFINE Bounded == Len(queued') <= TUPLES
<1>0. queued \in Seq(Ranges)
  BY DEF RangeInv
<1>n. ASSUME queued' = queued PROVE Bounded
  BY <1>n
<1>e. ASSUME queued' = << >> PROVE Bounded
  BY <1>e
<1>1. CASE NextFrame
  <2>1. queued' = [i \in DOMAIN queued |-> Shift(queued[i])]
    BY <1>1 DEF NextFrame, queued
  <2>2. Len(queued') = Len(queued)
    BY <1>0, <2>1
  <2>3. QED BY <2>2
<1>2. CASE Asks
  <2>1. CASE IdrWake \/ IdrClear \/ RfiSend
    BY <1>n, <2>1 DEF IdrWake, IdrClear, RfiSend, queued
  <2>2. CASE IdrSend
    BY <1>e, <2>2 DEF IdrSend, queued
  <2>3. CASE RfiTake
    <3>1. queued # << >> /\ queued' = Tail(queued)
      BY <2>3 DEF RfiTake, queued
    <3>2. QED BY <1>0, <3>1
  <2>4. QED BY <1>2, <2>1, <2>2, <2>3 DEF Asks, RequestThreads, IdrThread
<1>3. CASE Quiet
  <2>1. CASE NoRequest \/ LiRequestIdrFrame
    BY <1>n, <1>e, <2>1 DEF NoRequest, LiRequestIdrFrame, queued
  <2>2. ASSUME NEW d, connectionDetectedFrameLoss(startFrameNumber, d) PROVE Bounded
    <3>1. CASE LiRequestIdrFrame
      BY <2>1, <3>1
    <3>2. CASE /\ Len(queued) < TUPLES
               /\ queued' = Append(queued, [start |-> startFrameNumber, end |-> d])
      BY <1>0, <3>2
    <3>3. QED BY <2>2, <3>1, <3>2 DEF connectionDetectedFrameLoss, queued
  <2>3. QED BY <1>3, <2>1, <2>2 DEF Quiet, Reports
<1>4. QED BY <1>1, <1>2, <1>3, RequestEffects DEF PlaceInv

\* The wait for a whole frame, among the other two.
Reason == waitingForNextSuccessfulFrame => waitingForIdrFrame \/ waitingForRefInvalFrame

LEMMA ReasonStep == Reason /\ [Next]_vars => Reason'
<1> SUFFICES ASSUME Reason, [Next]_vars PROVE Reason'
  OBVIOUS
<1>1. CASE UNCHANGED waits
  BY <1>1 DEF waits, Reason
<1>2. CASE FirstPacket
  BY <1>2 DEF FirstPacket, TypeEnds, Reason
<1>3. CASE \/ waitingForIdrFrame' \/ waitingForRefInvalFrame'
           \/ ~waitingForNextSuccessfulFrame'
  BY <1>3 DEF Reason
<1>4. QED BY <1>1, <1>2, <1>3, WaitsStep DEF Waits

WaitInv ==
  /\ PlaceInv /\ RangeInv /\ PcsOK /\ CountOK /\ UnitsOK
  /\ RequestFlags /\ WaitFlags /\ OtherFlags
  /\ Len(queued) <= TUPLES
  /\ Reason

LEMMA WaitInit == Init => WaitInv
<1> SUFFICES ASSUME Init PROVE WaitInv
  OBVIOUS
<1>1. RequestFlags
  BY DEF Init, RequestsInit, RequestFlags
<1>2. WaitFlags /\ OtherFlags /\ Reason
  BY DEF Init, WaitFlags, OtherFlags, Reason
<1>3. PcsOK
  BY DEF Init, RequestsInit, PcsOK, Kinds
<1>4. CountOK /\ UnitsOK /\ Len(queued) <= TUPLES
  BY DEF Init, RequestsInit, CountOK, UnitsOK, queued
<1>5. QED BY <1>1, <1>2, <1>3, <1>4, PlaceInit, RangeInit DEF WaitInv

LEMMA WaitStep == WaitInv /\ [Next]_vars => WaitInv'
  BY PlaceStep, RangeStep, PcsStep, CountStep, UnitsStep, RequestFlagsStep, OtherFlagsStep,
     TuplesStep, ReasonStep DEF WaitInv

LEMMA WaitReason == WaitInv => WaitHasReason
<1> SUFFICES ASSUME WaitInv PROVE WaitHasReason
  OBVIOUS
<1>1. RequestsTypeOK
  BY DEF WaitInv, RangeInv, RequestFlags, PcsOK, RequestsTypeOK, queued
<1>2. {waitingForNextSuccessfulFrame, waitingForIdrFrame, waitingForRefInvalFrame,
       dropStatePending, idrFrameProcessed, broken} \subseteq BOOLEAN
  BY DEF WaitInv, WaitFlags, OtherFlags
<1>3. TypeOK
  BY <1>1, <1>2 DEF WaitInv, PlaceInv, PcsOK, CountOK, UnitsOK, TypeOK
<1>4. QED BY <1>3 DEF WaitInv, Reason, WaitHasReason

(* The depacketizer is never waiting for a whole frame that it could       *)
(* decode (the assertion of VideoDepacketizer.c:1091).                     *)
THEOREM WaitsHaveReasons == Spec => []WaitHasReason
<1>1. QED BY WaitInit, WaitStep, WaitReason, PTL DEF Spec
-------------------------------------------------------------------------------
(* What is offered to the decoder.  While the client waits for no special  *)
(* frame it has lost none, so the next number is the one losses are        *)
(* counted from; and where frames were freed, one of the two flags says    *)
(* so, or an IDR frame is past its tests.                                  *)

Waiting == waitingForIdrFrame \/ waitingForRefInvalFrame

LinkInv ==
  /\ rpc = "recv" /\ ~Waiting => nextFrameNumber = startFrameNumber
  /\ rpc = "last" /\ ~Waiting => kind # "P" \/ startFrameNumber = 0
  /\ rpc \in {"pending", "offer"} => kind # "P" \/ startFrameNumber = 0
  /\ rpc = "overflow" => waitingForIdrFrame

\* RefreshFlush comes before RefreshDrop: between them the flag is the pc.
BrokenInv ==
  broken /\ ~rfi =>
    \/ waitingForIdrFrame /\ rpc # "pending"
    \/ dropStatePending
    \/ dpc = "drop"
    \/ rpc \in {"last", "pending", "offer"} /\ kind = "I"

\* dropFrameState always leaves a wait, and without invalidation it is for an IDR frame.
LEMMA DropWaits ==
  ASSUME NEW idr, Drop(idr)
  PROVE  Waiting' /\ (idr => waitingForIdrFrame') /\ (~rfi => waitingForIdrFrame')
  BY DEF Drop, IdrAfterDrop, RefAfterDrop, IdrIsNeeded, Waiting

LEMMA LinkInit == Init => LinkInv /\ BrokenInv
  BY DEF Init, LinkInv, BrokenInv, Waiting

LEMMA LinkStep == PlaceInv /\ LinkInv /\ [Next]_vars => LinkInv'
<1> SUFFICES ASSUME PlaceInv, LinkInv, [Next]_vars PROVE LinkInv'
  OBVIOUS
<1>w. ASSUME rpc' = "recv", Waiting' PROVE LinkInv'
  BY <1>w DEF LinkInv
<1>n. ASSUME UNCHANGED <<rpc, kind, numbers, waits>> PROVE LinkInv'
  BY <1>n DEF LinkInv, Waiting, numbers, waits
<1>1. CASE Feeds
  <2>1. ASSUME NEW d, rpc = "recv", notifyFrameLost(d) PROVE LinkInv'
    BY <1>w, <2>1, DropWaits DEF notifyFrameLost
  <2>2. ASSUME NoReport PROVE LinkInv'
    BY <1>n, <2>2 DEF NoReport
  <2>3. CASE NextFrame
    <3>1. /\ rpc = "recv" /\ rpc' = "recv" /\ UNCHANGED waits
          /\ nextFrameNumber' = Older(nextFrameNumber)
          /\ startFrameNumber' = Older(startFrameNumber)
      BY <2>3 DEF NextFrame
    <3>2. QED BY <3>1 DEF LinkInv, Waiting, waits
  <2>4. CASE Keep
    BY <2>1, <2>2, <2>4 DEF Keep
  <2>5. CASE Foretell
    BY <2>1, <2>5 DEF Foretell
  <2>6. CASE GiveUp
    BY <2>1, <2>2, <2>6 DEF GiveUp
  <2>7. QED BY <1>1, <2>3, <2>4, <2>5, <2>6 DEF Feeds
<1>2. CASE Receives
  <2>1. CASE FirstPacket
    <3>1. /\ rpc = "recv" /\ rpc' = "last" /\ nextFrameNumber = 0 /\ kind' = kind
          /\ startFrameNumber' = startFrameNumber
      BY <2>1 DEF FirstPacket, HandedOver, numbers
    <3>2. kind = "P" /\ ~Waiting' => ~Waiting
      BY <2>1 DEF FirstPacket, TypeEnds, Waiting
    <3>3. QED BY <3>1, <3>2 DEF LinkInv
  <2>2. CASE FirstPacketAfterGap
    <3>1. rpc' = "last" /\ kind' = kind
      BY <2>2 DEF FirstPacketAfterGap, HandedOver
    <3>2. IdrAfterDrop(waitingForIdrFrame) \/ RefAfterDrop(waitingForIdrFrame)
      BY DEF IdrAfterDrop, RefAfterDrop, IdrIsNeeded
    <3>3. kind = "P" => Waiting'
      BY <2>2, <3>2 DEF FirstPacketAfterGap, TypeEnds, Waiting
    <3>4. QED BY <3>1, <3>3 DEF LinkInv
  <2>3. CASE CorruptFrame \/ DropWhileWaiting \/ DropPending
    BY <1>w, <2>3, DropWaits DEF CorruptFrame, DropWhileWaiting, DropPending
  <2>4. CASE StaleFrame
    BY <1>n, <2>4 DEF StaleFrame, HandedOver
  <2>5. CASE LastPacket
    BY <2>5 DEF LastPacket, feedVars, LinkInv, Waiting
  <2>6. CASE KeepFrame
    BY <2>6 DEF KeepFrame, feedVars, numbers, LinkInv
  <2>7. CASE OfferUnit
    <3>1. rpc = "offer" /\ rpc' = "recv" /\ startFrameNumber' = nextFrameNumber
          /\ nextFrameNumber' = nextFrameNumber
      BY <2>7 DEF OfferUnit
    <3>2. QED BY <3>1 DEF LinkInv
  <2>8. CASE Overflow
    BY <2>8, DropWaits DEF Overflow, LinkInv
  <2>9. CASE FlushOverflow
    <3>1. rpc = "overflow" /\ rpc' = "recv" /\ UNCHANGED waits
      BY <2>9 DEF FlushOverflow
    <3>2. QED BY <3>1 DEF LinkInv, Waiting, waits
  <2>10. QED BY <1>2, <2>1, <2>2, <2>3, <2>4, <2>5, <2>6, <2>7, <2>8, <2>9
             DEF Receives, Begins, Ends
<1>3. CASE RefreshWait
  BY <1>3 DEF RefreshWait, receiveVars, feedVars, numbers, LinkInv, Waiting
<1>4. CASE Take \/ Decodes \/ DidChangeFocus
  <2>1. UNCHANGED <<receiveVars, waitingForIdrFrame>> \/ RefreshWait
    BY <1>4 DEF Take, Decodes, DidChangeFocus, Decoded, NeedIdr, RefreshFlush, RefreshDrop,
                RefreshRequest
  <2>2. QED BY <1>3, <1>n, <2>1 DEF receiveVars, feedVars, waits, numbers
<1>5. CASE Asks \/ UNCHANGED vars
  BY <1>n, <1>5 DEF Asks, feedVars, vars
<1>6. QED BY <1>1, <1>2, <1>3, <1>4, <1>5 DEF Next

\* Whether the stream has invalidation is settled at its start.
LEMMA ModeKept == PlaceInv /\ [Next]_vars => rfi' = rfi
<1> SUFFICES ASSUME PlaceInv, [Next]_vars PROVE rfi' = rfi
  OBVIOUS
<1>1. CASE NextFrame
  BY <1>1 DEF NextFrame
<1>2. CASE Asks
  BY <1>2 DEF Asks, RequestThreads, IdrThread, IdrWake, IdrClear, IdrSend, RfiTake, RfiSend
<1>3. CASE Quiet
  BY <1>3 DEF Quiet, threads
<1>4. QED BY <1>1, <1>2, <1>3, RequestEffects DEF PlaceInv

LEMMA BrokenStep == PlaceInv /\ LinkInv /\ BrokenInv /\ [Next]_vars => BrokenInv'
<1> SUFFICES ASSUME PlaceInv, LinkInv, BrokenInv, [Next]_vars, ~rfi PROVE BrokenInv'
  BY ModeKept DEF BrokenInv
<1>d. ASSUME NEW idr, Drop(idr), rpc' # "pending" PROVE BrokenInv'
  BY <1>d, DropWaits DEF BrokenInv
<1>n. ASSUME UNCHANGED <<rpc, kind, dpc, waitingForIdrFrame, dropStatePending, broken>>
      PROVE  BrokenInv'
  BY <1>n DEF BrokenInv
<1>1. CASE Feeds
  <2>1. ASSUME NEW d, rpc = "recv", notifyFrameLost(d) PROVE BrokenInv'
    BY <1>d, <2>1 DEF notifyFrameLost
  <2>2. ASSUME NoReport PROVE BrokenInv'
    BY <1>n, <2>2 DEF NoReport, waits, decoderVars, queueVars
  <2>3. CASE NextFrame
    BY <2>3 DEF NextFrame, waits, decoderVars, queueVars, BrokenInv
  <2>4. CASE Keep
    BY <2>1, <2>2, <2>4 DEF Keep
  <2>5. CASE Foretell
    BY <2>1, <2>5 DEF Foretell
  <2>6. CASE GiveUp
    BY <2>1, <2>2, <2>6 DEF GiveUp
  <2>7. QED BY <1>1, <2>3, <2>4, <2>5, <2>6 DEF Feeds
<1>2. CASE Receives
  <2>1. CASE FirstPacket
    BY <2>1 DEF FirstPacket, HandedOver, TypeEnds, decoderVars, queueVars, BrokenInv
  <2>2. CASE FirstPacketAfterGap
    <3>1. rpc' = "last" /\ kind' = kind
      BY <2>2 DEF FirstPacketAfterGap, HandedOver
    <3>2. kind # "I" => waitingForIdrFrame'
      BY <2>2 DEF FirstPacketAfterGap, TypeEnds, IdrAfterDrop, IdrIsNeeded
    <3>3. QED BY <3>1, <3>2 DEF BrokenInv
  <2>3. CASE CorruptFrame \/ DropWhileWaiting \/ DropPending \/ Overflow
    BY <1>d, <2>3 DEF CorruptFrame, DropWhileWaiting, DropPending, Overflow
  <2>4. CASE StaleFrame
    BY <1>n, <2>4 DEF StaleFrame, HandedOver, waits, decoderVars, queueVars
  <2>5. CASE LastPacket
    BY <2>5 DEF LastPacket, feedVars, waits, decoderVars, queueVars, BrokenInv
  <2>6. CASE KeepFrame
    BY <2>6 DEF KeepFrame, feedVars, decoderVars, queueVars, BrokenInv
  <2>7. CASE OfferUnit
    BY <2>7 DEF OfferUnit, feedVars, waits, decoderVars, BrokenInv
  <2>8. CASE FlushOverflow
    BY <2>8 DEF FlushOverflow, waits, LinkInv, BrokenInv
  <2>9. QED BY <1>2, <2>1, <2>2, <2>3, <2>4, <2>5, <2>6, <2>7, <2>8 DEF Receives, Begins, Ends
<1>3. CASE Take \/ Decodes \/ DidChangeFocus
  <2>1. UNCHANGED <<rpc, kind>>
    BY <1>3 DEF Take, Decodes, DidChangeFocus, Decoded, NeedIdr, RefreshWait, RefreshFlush,
                RefreshDrop, RefreshRequest, receiveVars, feedVars
  <2>2. CASE Take \/ Decoded \/ NeedIdr \/ RefreshRequest \/ DidChangeFocus
    <3>1. /\ UNCHANGED <<waitingForIdrFrame, dropStatePending, broken>>
          /\ dpc # "drop" \/ dpc' = "drop"
      BY <2>2 DEF Take, Decoded, NeedIdr, RefreshRequest, DidChangeFocus, queueVars, decoderVars
    <3>2. QED BY <2>1, <3>1 DEF BrokenInv
  <2>3. CASE RefreshWait
    BY <2>1, <2>3 DEF RefreshWait, queueVars, BrokenInv
  <2>4. CASE RefreshFlush
    BY <2>4 DEF RefreshFlush, BrokenInv
  <2>5. CASE RefreshDrop
    BY <2>5 DEF RefreshDrop, BrokenInv
  <2>6. QED BY <1>3, <2>2, <2>3, <2>4, <2>5 DEF Decodes
<1>4. CASE Asks \/ UNCHANGED vars
  BY <1>n, <1>4 DEF Asks, feedVars, waits, decoderVars, queueVars, vars
<1>5. QED BY <1>1, <1>2, <1>3, <1>4 DEF Next

(***************************************************************************)
(* A P frame is queued for the decoder only if the frame it refers to was  *)
(* queued before it; and, without invalidation, no frame but an IDR frame  *)
(* after queued ones were freed, except between the two steps of a         *)
(* refresh that free the queue and ask for the drop.                       *)
(***************************************************************************)
THEOREM OffersAreDecodable == Spec => OffersDecodable
<1>1. ASSUME LinkInv, BrokenInv, [Next]_vars
      PROVE  [rpc = "pending" /\ rpc' = "offer" /\ kind # "I" =>
                /\ kind = "P" => startFrameNumber = 0
                /\ broken => rfi \/ dpc = "drop"]_vars
  <2> SUFFICES ASSUME rpc = "pending", rpc' = "offer", kind # "I"
               PROVE  /\ kind = "P" => startFrameNumber = 0
                      /\ broken => rfi \/ dpc = "drop"
    OBVIOUS
  <2>1. rpc' # rpc
    OBVIOUS
  <2>2. ~Feeds /\ ~Take /\ ~Decodes /\ ~DidChangeFocus /\ ~Asks /\ ~UNCHANGED vars
    BY <2>1 DEF Feeds, NextFrame, Keep, Foretell, GiveUp, Take, Decodes, DidChangeFocus, Decoded,
                NeedIdr, RefreshWait, RefreshFlush, RefreshDrop, RefreshRequest, receiveVars, Asks,
                vars
  <2>3. KeepFrame
    BY <1>1, <2>2 DEF Next, Receives, Begins, Ends, FirstPacket, FirstPacketAfterGap, StaleFrame,
                HandedOver, CorruptFrame, DropWhileWaiting, LastPacket, DropPending, OfferUnit,
                Overflow, FlushOverflow
  <2>4. ~dropStatePending
    BY <2>3 DEF KeepFrame
  <2>5. kind = "P" => startFrameNumber = 0
    BY <1>1 DEF LinkInv
  <2>6. broken /\ ~rfi => dpc = "drop"
    BY <1>1, <2>4 DEF BrokenInv
  <2>7. QED BY <2>5, <2>6
<1>2. QED BY <1>1, PlaceInit, PlaceStep, LinkInit, LinkStep, BrokenStep, PTL
          DEF Spec, OffersDecodable
================================================================================
