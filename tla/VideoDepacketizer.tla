--------------------------- MODULE VideoDepacketizer ---------------------------
(***************************************************************************)
(* VideoDepacketizer.c between the RTP queue and the decoder: the receive  *)
(* thread takes frames and reports of lost frames, keeps what the decoder  *)
(* can use, queues it, and asks the host for a frame to go on with when    *)
(* the chain of references is broken.  The decoder thread takes the frames *)
(* (VideoStream.c) and may ask for a refresh.  Requests go through         *)
(* FrameRequests.                                                          *)
(*                                                                         *)
(* Frames are H.264, as this client negotiates, from a host that marks     *)
(* their type.  A frame is its kind: I (IDR), R (refers to no frame the    *)
(* client said it lost), P (refers to the frame before it).  The receive   *)
(* thread runs as far as its next look at what the other threads write.    *)
(***************************************************************************)
EXTENDS FrameRequests

CONSTANTS UNITS,      \* bound of decodeUnitQueue, 15 in the code
          DROPS,      \* CONSECUTIVE_DROP_LIMIT, 120 in the code
          Verdicts    \* what submitDecodeUnit returns

ASSUME DepacketizerAssumption ==
  /\ {UNITS, DROPS} \subseteq Nat \ {0} /\ Verdicts \subseteq {"DR_OK", "DR_NEED_IDR"}

VARIABLES
  \* what the RTP queue has done, relative to the frame on its way
  current,    \* the first frame it may still hand over; -1 when that is the next one
  kind,       \* of the frame on its way, which is whole once handed over
  \* VideoDepacketizer.c
  nextFrameNumber, startFrameNumber,
  waitingForNextSuccessfulFrame, waitingForIdrFrame, waitingForRefInvalFrame,
  dropStatePending, idrFrameProcessed, consecutiveFrameDrops,
  decodeUnitQueue,
  rpc,        \* the receive thread: "recv", "last", "pending", "offer", "overflow"
  dpc,        \* the decoder thread: "take", "submit", or where it is in the refresh
  unit,       \* the frame the decoder has
  broken      \* queued frames were freed, and no IDR frame has been queued since

feedVars == <<current, kind>>
waits == <<waitingForNextSuccessfulFrame, waitingForIdrFrame, waitingForRefInvalFrame>>
numbers == <<nextFrameNumber, startFrameNumber>>
decoderVars == <<dpc, unit, idrFrameProcessed>>
queueVars == <<decodeUnitQueue, broken>>
vars == <<requestVars, feedVars, waits, numbers, decoderVars, queueVars,
          dropStatePending, consecutiveFrameDrops, rpc>>

threads == <<rfi, idrPc, rfiPc, range, pendingIdr, pendingRfi>>

Kinds == {"I", "R", "P"}
Refreshing == {"wait idr", "flush", "drop", "request"}

TypeOK ==
  /\ RequestsTypeOK
  /\ current \in -1 .. FAR /\ kind \in Kinds
  /\ nextFrameNumber \in -1 .. FAR /\ startFrameNumber \in -1 .. FAR
  /\ {waitingForNextSuccessfulFrame, waitingForIdrFrame, waitingForRefInvalFrame,
      dropStatePending, idrFrameProcessed, broken} \subseteq BOOLEAN
  /\ consecutiveFrameDrops \in 0 .. DROPS - 1
  /\ decodeUnitQueue \in Seq(Kinds) /\ Len(decodeUnitQueue) <= UNITS
  /\ rpc \in {"recv", "last", "pending", "offer", "overflow"}
  /\ dpc \in {"take", "submit"} \cup Refreshing /\ unit \in Kinds

\* initializeVideoDepacketizer, and frame 1, an IDR frame, on its way.  The count
\* of drops is left over from the session before.
Init ==
  /\ RequestsInit
  /\ current = 0 /\ kind = "I"
  /\ nextFrameNumber = 0 /\ startFrameNumber = 1
  /\ waitingForNextSuccessfulFrame = FALSE /\ waitingForIdrFrame = TRUE
  /\ waitingForRefInvalFrame = FALSE
  /\ dropStatePending = FALSE /\ idrFrameProcessed = FALSE
  /\ consecutiveFrameDrops \in 0 .. DROPS - 1
  /\ decodeUnitQueue = << >> /\ broken = FALSE
  /\ rpc = "recv" /\ dpc = "take" /\ unit = "I"
-------------------------------------------------------------------------------
(* dropFrameState, with idr for waitingForIdrFrame as it finds it. *)
AtLimit == consecutiveFrameDrops + 1 = DROPS
IdrIsNeeded(idr) == ~rfi \/ ~idrFrameProcessed \/ idr
IdrAfterDrop(idr) == IdrIsNeeded(idr) \/ AtLimit
RefAfterDrop(idr) == waitingForRefInvalFrame \/ ~IdrIsNeeded(idr)

\* Mutant of CountDrop: only drops before the first IDR frame are counted.
CountDropOnce ==
  /\ dropStatePending' = FALSE
  /\ consecutiveFrameDrops' = IF AtLimit \/ idrFrameProcessed THEN 0 ELSE consecutiveFrameDrops + 1

CountDrop ==
  /\ dropStatePending' = FALSE
  /\ consecutiveFrameDrops' = IF AtLimit THEN 0 ELSE consecutiveFrameDrops + 1

\* The limit asks for an IDR frame whatever else the caller asks for.
Requests(others) == IF AtLimit THEN LiRequestIdrFrame ELSE others

Drop(idr) ==
  /\ CountDrop
  /\ waitingForIdrFrame' = IdrAfterDrop(idr)
  /\ waitingForRefInvalFrame' = RefAfterDrop(idr)
-------------------------------------------------------------------------------
(* The stream, as the RTP queue passes it on (FrameFeed). *)
Shift(r) == [start |-> Older(r.start), end |-> Older(r.end)]

\* The host sends its next frame, which may answer a request that has reached it;
\* an IDR frame answers all of them.  What has not come of the one before is lost.
NextFrame ==
  /\ rpc = "recv"
  /\ \/ kind' = "P" /\ UNCHANGED <<pendingIdr, pendingRfi>>
     \/ kind' = "R" /\ pendingRfi /\ pendingRfi' = FALSE /\ UNCHANGED pendingIdr
     \/ /\ kind' = "I" /\ (pendingIdr \/ pendingRfi)
        /\ pendingIdr' = FALSE /\ pendingRfi' = FALSE
  /\ current' = Older(current)
  /\ nextFrameNumber' = Older(nextFrameNumber) /\ startFrameNumber' = Older(startFrameNumber)
  /\ invalidReferenceFrameTuples' = [i \in DOMAIN invalidReferenceFrameTuples |->
                                       Shift(invalidReferenceFrameTuples[i])]
  /\ range' = IF rfiPc = "join" THEN Shift(range) ELSE range
  /\ UNCHANGED <<rfi, idrFrameRequiredEvent, idrPc, rfiPc, asked, waits, decoderVars, queueVars,
                 dropStatePending, consecutiveFrameDrops, rpc>>

\* A report of the frame d back.  The flag is read at lines 104 and 1129, here once:
\* of the other threads only a refresh writes it.
notifyFrameLost(d) ==
  /\ Drop(waitingForIdrFrame)
  /\ IF IdrAfterDrop(waitingForIdrFrame)
     THEN Requests(NoRequest) /\ UNCHANGED nextFrameNumber
     ELSE /\ nextFrameNumber' = d - 1
          /\ connectionDetectedFrameLoss(startFrameNumber, d)
  /\ UNCHANGED <<threads, kind, waitingForNextSuccessfulFrame, startFrameNumber, decoderVars,
                 queueVars, rpc>>

NoReport ==
  UNCHANGED <<requestVars, kind, waits, numbers, decoderVars, queueVars, dropStatePending,
              consecutiveFrameDrops, rpc>>

\* A first packet of the frame: those before it are over, which may be reported of
\* the last of them.
Keep ==
  /\ rpc = "recv" /\ current > 0 /\ current' = 0
  /\ notifyFrameLost(1) \/ NoReport

\* The frame is expected to be lost, and may yet come; each of its blocks may be
\* reported (reportedLostFrame is reset at RtpVideoQueue.c:701).
Foretell == rpc = "recv" /\ current = 0 /\ notifyFrameLost(0) /\ UNCHANGED current

\* The frame is lost with all before it.
GiveUp ==
  /\ rpc = "recv" /\ current >= 0 /\ current' = -1
  /\ notifyFrameLost(current) \/ NoReport
-------------------------------------------------------------------------------
(* processRtpPayload, of a whole frame. *)
HandedOver == rpc = "recv" /\ current >= 0 /\ current' = -1 /\ UNCHANGED kind

\* A frame already reported to the host as lost.
StaleFrame ==
  /\ HandedOver /\ nextFrameNumber < 0
  /\ UNCHANGED <<requestVars, waits, numbers, decoderVars, queueVars, dropStatePending,
                 consecutiveFrameDrops, rpc>>

\* Mutant of TypeEnds: an IDR frame does not end the wait for a whole frame.
TypeEndsKeepNext(idr, ref, next) ==
  /\ waitingForIdrFrame' = (idr /\ kind # "I")
  /\ waitingForRefInvalFrame' = (ref /\ kind = "P")
  /\ waitingForNextSuccessfulFrame' = next

\* What the first packet's frame type ends of the waits idr, ref and next.
TypeEnds(idr, ref, next) ==
  LET repairs == kind = "I" \/ (kind = "R" /\ ref) IN
  /\ waitingForIdrFrame' = (idr /\ kind # "I")
  /\ waitingForRefInvalFrame' = (ref /\ ~repairs)
  /\ waitingForNextSuccessfulFrame' = (next /\ ~repairs)

FirstPacket ==
  /\ HandedOver /\ nextFrameNumber = 0
  /\ TypeEnds(waitingForIdrFrame, waitingForRefInvalFrame, waitingForNextSuccessfulFrame)
  /\ rpc' = "last"
  /\ UNCHANGED <<requestVars, numbers, decoderVars, queueVars, dropStatePending,
                 consecutiveFrameDrops>>

FirstPacketAfterGap ==
  /\ HandedOver /\ nextFrameNumber > 0
  /\ nextFrameNumber' = 0
  /\ CountDrop /\ Requests(NoRequest)
  /\ TypeEnds(IdrAfterDrop(waitingForIdrFrame), RefAfterDrop(waitingForIdrFrame), TRUE)
  /\ rpc' = "last"
  /\ UNCHANGED <<threads, startFrameNumber, decoderVars, queueVars>>

\* A packet whose recovered number does not fit, the first one or a later one.
CorruptFrame ==
  /\ \/ HandedOver /\ nextFrameNumber >= 0
     \/ rpc = "last" /\ UNCHANGED feedVars
  /\ rpc' = "recv" /\ nextFrameNumber' = -1
  /\ Drop(waitingForIdrFrame)
  /\ IF IdrAfterDrop(waitingForIdrFrame) THEN LiRequestIdrFrame
     ELSE connectionDetectedFrameLoss(startFrameNumber, 0)
  /\ UNCHANGED <<threads, startFrameNumber, waitingForNextSuccessfulFrame, decoderVars, queueVars>>

\* The last packet of a frame the decoder cannot use; the first whole one after a
\* loss asks for an IDR frame.
DropWhileWaiting ==
  /\ rpc = "last" /\ (waitingForIdrFrame \/ waitingForRefInvalFrame)
  /\ rpc' = "recv" /\ nextFrameNumber' = -1
  /\ Drop(waitingForIdrFrame)
  /\ Requests(IF ~waitingForIdrFrame THEN connectionDetectedFrameLoss(startFrameNumber, 0)
              ELSE IF waitingForNextSuccessfulFrame THEN LiRequestIdrFrame ELSE NoRequest)
  /\ waitingForNextSuccessfulFrame' = FALSE
  /\ UNCHANGED <<threads, feedVars, startFrameNumber, decoderVars, queueVars>>

LastPacket ==
  /\ rpc = "last" /\ ~waitingForIdrFrame /\ ~waitingForRefInvalFrame
  /\ rpc' = "pending" /\ nextFrameNumber' = -1
  /\ UNCHANGED <<requestVars, feedVars, startFrameNumber, waits, decoderVars, queueVars,
                 dropStatePending, consecutiveFrameDrops>>

DropPending ==
  /\ rpc = "pending" /\ dropStatePending /\ kind # "I"
  /\ rpc' = "recv"
  /\ Drop(waitingForIdrFrame) /\ Requests(NoRequest)
  /\ UNCHANGED <<threads, feedVars, numbers, waitingForNextSuccessfulFrame, decoderVars, queueVars>>

\* Mutant of KeepFrame: what the decoder thread asked to be dropped is forgotten.
KeepFrameAnyway ==
  /\ rpc = "pending"
  /\ rpc' = "offer" /\ dropStatePending' = FALSE
  /\ UNCHANGED <<requestVars, feedVars, numbers, waits, decoderVars, queueVars,
                 consecutiveFrameDrops>>

KeepFrame ==
  /\ rpc = "pending" /\ (dropStatePending => kind = "I")
  /\ rpc' = "offer" /\ dropStatePending' = FALSE
  /\ UNCHANGED <<requestVars, feedVars, numbers, waits, decoderVars, queueVars,
                 consecutiveFrameDrops>>

\* reassembleFrame.  Its allocation does not fail here: in the code a frame that got
\* no decode unit stays in the chain and is queued in one unit with the next.
OfferUnit ==
  /\ rpc = "offer" /\ Len(decodeUnitQueue) < UNITS
  /\ rpc' = "recv"
  /\ decodeUnitQueue' = Append(decodeUnitQueue, kind)
  /\ broken' = (broken /\ kind # "I")
  /\ consecutiveFrameDrops' = 0
  /\ startFrameNumber' = nextFrameNumber
  /\ UNCHANGED <<requestVars, feedVars, nextFrameNumber, waits, decoderVars, dropStatePending>>

Overflow ==
  /\ rpc = "offer" /\ Len(decodeUnitQueue) = UNITS
  /\ rpc' = "overflow"
  /\ Drop(TRUE) /\ Requests(NoRequest)
  /\ UNCHANGED <<threads, feedVars, numbers, waitingForNextSuccessfulFrame, decoderVars, queueVars>>

FlushOverflow ==
  /\ rpc = "overflow" /\ rpc' = "recv"
  /\ decodeUnitQueue' = << >> /\ broken' = TRUE
  /\ LiRequestIdrFrame
  /\ UNCHANGED <<threads, feedVars, numbers, waits, decoderVars, dropStatePending,
                 consecutiveFrameDrops>>
-------------------------------------------------------------------------------
(* VideoDecoderThreadProc, LiCompleteVideoFrame and requestDecoderRefresh. *)
receiveVars == <<feedVars, numbers, waitingForNextSuccessfulFrame, waitingForRefInvalFrame,
                 consecutiveFrameDrops, rpc, threads>>

Take ==
  /\ dpc = "take" /\ decodeUnitQueue # << >>
  /\ unit' = Head(decodeUnitQueue) /\ decodeUnitQueue' = Tail(decodeUnitQueue)
  /\ dpc' = "submit"
  /\ NoRequest
  /\ UNCHANGED <<receiveVars, waitingForIdrFrame, dropStatePending, idrFrameProcessed, broken>>

Decoded ==
  /\ dpc = "submit" /\ "DR_OK" \in Verdicts
  /\ idrFrameProcessed' = (idrFrameProcessed \/ unit = "I")
  /\ dpc' = "take" /\ unit' = "I"
  /\ NoRequest
  /\ UNCHANGED <<receiveVars, waitingForIdrFrame, dropStatePending, queueVars>>

NeedIdr ==
  /\ dpc = "submit" /\ "DR_NEED_IDR" \in Verdicts
  /\ dpc' = "wait idr" /\ unit' = "I"
  /\ NoRequest
  /\ UNCHANGED <<receiveVars, waitingForIdrFrame, dropStatePending, queueVars, idrFrameProcessed>>

RefreshWait ==
  /\ dpc = "wait idr" /\ dpc' = "flush"
  /\ waitingForIdrFrame' = TRUE
  /\ NoRequest
  /\ UNCHANGED <<receiveVars, dropStatePending, queueVars, idrFrameProcessed, unit>>

RefreshFlush ==
  /\ dpc = "flush" /\ dpc' = "drop"
  /\ decodeUnitQueue' = << >> /\ broken' = TRUE
  /\ NoRequest
  /\ UNCHANGED <<receiveVars, waitingForIdrFrame, dropStatePending, idrFrameProcessed, unit>>

RefreshDrop ==
  /\ dpc = "drop" /\ dpc' = "request"
  /\ dropStatePending' = TRUE
  /\ NoRequest
  /\ UNCHANGED <<receiveVars, waitingForIdrFrame, queueVars, idrFrameProcessed, unit>>

RefreshRequest ==
  /\ dpc = "request" /\ dpc' = "take"
  /\ LiRequestIdrFrame
  /\ UNCHANGED <<receiveVars, waitingForIdrFrame, dropStatePending, queueVars, idrFrameProcessed,
                 unit>>

\* The main thread, when the client gets the focus or the mouse.
DidChangeFocus ==
  /\ LiRequestIdrFrame
  /\ UNCHANGED <<receiveVars, waitingForIdrFrame, dropStatePending, queueVars, decoderVars>>
-------------------------------------------------------------------------------
Begins == FirstPacket \/ FirstPacketAfterGap
Ends == DropWhileWaiting \/ LastPacket
Receives == Begins \/ Ends \/ StaleFrame \/ CorruptFrame \/ DropPending \/ KeepFrame
            \/ OfferUnit \/ Overflow \/ FlushOverflow
Feeds == NextFrame \/ Keep \/ Foretell \/ GiveUp
Decodes == Decoded \/ NeedIdr \/ RefreshWait \/ RefreshFlush \/ RefreshDrop \/ RefreshRequest
Asks == RequestThreads
        /\ UNCHANGED <<feedVars, waits, numbers, decoderVars, queueVars, dropStatePending,
                       consecutiveFrameDrops, rpc>>

Next == Feeds \/ Receives \/ Take \/ Decodes \/ Asks \/ DidChangeFocus

\* Each thread runs; a thread that waits for a queue others may flush gets its turn.
\* The host sends and answers, and some IDR frames and some others come whole and uncorrupted.
Fairness ==
  /\ WF_vars(NextFrame) /\ SF_vars(NextFrame /\ pendingIdr /\ kind' = "I")
  /\ WF_vars(DropPending \/ KeepFrame \/ OfferUnit \/ Overflow \/ FlushOverflow)
  /\ SF_vars(kind = "I" /\ Begins) /\ SF_vars(kind = "I" /\ Ends)
  /\ SF_vars(kind # "I" /\ Begins) /\ SF_vars(kind # "I" /\ Ends)
  /\ SF_vars(Take) /\ WF_vars(Decodes)
  /\ WF_vars(Asks)

Spec == Init /\ [][Next]_vars /\ Fairness
-------------------------------------------------------------------------------
(* Properties. *)

\* The assertion of VideoDepacketizer.c:1091: a whole frame is only waited for while
\* there is something it cannot be decoded without.
WaitHasReason ==
  /\ TypeOK
  /\ waitingForNextSuccessfulFrame => waitingForIdrFrame \/ waitingForRefInvalFrame

\* A P frame is queued for the decoder only if the frame it refers to was queued before
\* it; and, without invalidation, no frame but an IDR frame after queued ones were freed,
\* except by a refresh that has freed the queue and has not yet asked for the drop
\* (VideoDepacketizer.c:1062-1112, 497-540, 714-721).
OffersDecodable ==
  [][rpc = "pending" /\ rpc' = "offer" /\ kind # "I" =>
       /\ kind = "P" => startFrameNumber = 0
       /\ broken => rfi \/ dpc = "drop"]_vars

\* Whatever is lost, reported, corrupt or freed, and whichever request or answer is
\* lost with it, a decoder that waits for a frame it can use is given one.
Recovers == waitingForIdrFrame \/ waitingForRefInvalFrame ~> dpc = "submit"

\* VideoDepacketizer.c:1071-1073, "We wait for the first fully received frame after a
\* loss": a whole frame dropped for want of an IDR frame leaves a request behind it.
WholeFrameAsks ==
  [][DropWhileWaiting /\ waitingForIdrFrame =>
       asked' \/ pendingIdr \/ idrPc # "wait"]_vars
===============================================================================
