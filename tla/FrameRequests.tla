----------------------------- MODULE FrameRequests -----------------------------
(***************************************************************************)
(* ControlStream.c, the part by which the client asks the host for frames  *)
(* it can decode: an event on which one thread sends requests for an IDR   *)
(* frame, and a bounded queue of ranges of lost frames, which another one  *)
(* joins and sends as one invalidation.  The second thread exists only     *)
(* where invalidation is enabled.                                          *)
(*                                                                         *)
(* A frame is named by its distance back from the one on its way: the code *)
(* compares numbers only, and distances above FAR are not told apart.      *)
(***************************************************************************)
EXTENDS Integers, Sequences

CONSTANTS Modes,    \* whether invalidation is enabled
          TUPLES,   \* bound of invalidReferenceFrameTuples, 20 in the code
          FAR       \* a distance that stands for itself and all longer ones

ASSUME RequestsAssumption == Modes \subseteq BOOLEAN /\ TUPLES \in Nat \ {0} /\ FAR \in Nat \ {0}

VARIABLES
  rfi,      \* isReferenceFrameInvalidationEnabled()
  idrFrameRequiredEvent,
  invalidReferenceFrameTuples,   \* ranges, by the distance of their ends
  idrPc,    \* requestIdrFrameFunc: "wait", "clear", "send"
  rfiPc,    \* invalidateRefFramesFunc: "wait", "join"
  range,    \* the range it has joined so far
  pendingIdr, pendingRfi,   \* requests the host has and has not answered yet
  asked     \* an IDR frame was requested, and no request has been sent since

requestVars == <<rfi, idrFrameRequiredEvent, invalidReferenceFrameTuples, idrPc, rfiPc,
                 range, pendingIdr, pendingRfi, asked>>

Distance == 0 .. FAR
Older(d) == IF d < FAR THEN d + 1 ELSE FAR
Ranges == [start : Distance, end : Distance]
NoRange == [start |-> 0, end |-> 0]

RequestsTypeOK ==
  /\ {rfi, idrFrameRequiredEvent, pendingIdr, pendingRfi, asked} \subseteq BOOLEAN
  /\ invalidReferenceFrameTuples \in Seq(Ranges) /\ Len(invalidReferenceFrameTuples) <= TUPLES
  /\ idrPc \in {"wait", "clear", "send"} /\ rfiPc \in {"wait", "join"}
  /\ range \in Ranges

\* initializeControlStream
RequestsInit ==
  /\ rfi \in Modes
  /\ idrFrameRequiredEvent = FALSE /\ invalidReferenceFrameTuples = << >>
  /\ idrPc = "wait" /\ rfiPc = "wait" /\ range = NoRange
  /\ pendingIdr = FALSE /\ pendingRfi = FALSE /\ asked = FALSE
-------------------------------------------------------------------------------
(* Calls of the receive, decoder and main threads: what they do to the event *)
(* and to the queue.                                                         *)
NoRequest == UNCHANGED <<idrFrameRequiredEvent, invalidReferenceFrameTuples, asked>>

LiRequestIdrFrame ==
  /\ invalidReferenceFrameTuples' = << >>
  /\ idrFrameRequiredEvent' = TRUE
  /\ asked' = TRUE

\* Mutant of connectionDetectedFrameLoss: the ends of the range are swapped.
connectionDetectedFrameLossSwapped(start, end) ==
  \/ LiRequestIdrFrame
  \/ /\ rfi /\ Len(invalidReferenceFrameTuples) < TUPLES
     /\ invalidReferenceFrameTuples' =
          Append(invalidReferenceFrameTuples, [start |-> end, end |-> start])
     /\ UNCHANGED <<idrFrameRequiredEvent, asked>>

\* queueFrameInvalidationTuple; a range too many, or no memory for it, asks for
\* an IDR frame.
connectionDetectedFrameLoss(start, end) ==
  \/ LiRequestIdrFrame
  \/ /\ rfi /\ Len(invalidReferenceFrameTuples) < TUPLES
     /\ invalidReferenceFrameTuples' =
          Append(invalidReferenceFrameTuples, [start |-> start, end |-> end])
     /\ UNCHANGED <<idrFrameRequiredEvent, asked>>
-------------------------------------------------------------------------------
IdrWake ==
  /\ idrPc = "wait" /\ idrFrameRequiredEvent
  /\ idrPc' = "clear"
  /\ UNCHANGED <<rfi, idrFrameRequiredEvent, invalidReferenceFrameTuples, rfiPc, range,
                 pendingIdr, pendingRfi, asked>>

IdrClear ==
  /\ idrPc = "clear"
  /\ idrPc' = "send" /\ idrFrameRequiredEvent' = FALSE
  /\ UNCHANGED <<rfi, invalidReferenceFrameTuples, rfiPc, range, pendingIdr, pendingRfi, asked>>

\* Ranges still queued are dropped, and the request goes out.
IdrSend ==
  /\ idrPc = "send"
  /\ idrPc' = "wait" /\ invalidReferenceFrameTuples' = << >>
  /\ pendingIdr' = TRUE /\ asked' = FALSE
  /\ UNCHANGED <<rfi, idrFrameRequiredEvent, rfiPc, range, pendingRfi>>

\* Mutant of IdrThread: the event is cleared after the request has been sent.
IdrThreadClearsLast ==
  \/ /\ idrPc = "wait" /\ idrFrameRequiredEvent /\ idrPc' = "send"
     /\ UNCHANGED <<idrFrameRequiredEvent, invalidReferenceFrameTuples, pendingIdr, asked>>
     /\ UNCHANGED <<rfi, rfiPc, range, pendingRfi>>
  \/ /\ idrPc = "send" /\ idrPc' = "clear"
     /\ invalidReferenceFrameTuples' = << >> /\ pendingIdr' = TRUE /\ asked' = FALSE
     /\ UNCHANGED <<rfi, idrFrameRequiredEvent, rfiPc, range, pendingRfi>>
  \/ /\ idrPc = "clear" /\ idrPc' = "wait" /\ idrFrameRequiredEvent' = FALSE
     /\ UNCHANGED <<rfi, invalidReferenceFrameTuples, rfiPc, range, pendingIdr, pendingRfi, asked>>

IdrThread == IdrWake \/ IdrClear \/ IdrSend

\* The first range is waited for, each one after it joined to it.
RfiTake ==
  /\ rfi /\ invalidReferenceFrameTuples # << >>
  /\ range' = IF rfiPc = "wait" THEN Head(invalidReferenceFrameTuples)
              ELSE [range EXCEPT !.end = Head(invalidReferenceFrameTuples).end]
  /\ invalidReferenceFrameTuples' = Tail(invalidReferenceFrameTuples)
  /\ rfiPc' = "join"
  /\ UNCHANGED <<rfi, idrFrameRequiredEvent, idrPc, pendingIdr, pendingRfi, asked>>

RfiSend ==
  /\ rfiPc = "join" /\ invalidReferenceFrameTuples = << >>
  /\ rfiPc' = "wait" /\ pendingRfi' = TRUE /\ range' = NoRange
  /\ UNCHANGED <<rfi, idrFrameRequiredEvent, invalidReferenceFrameTuples, idrPc, pendingIdr, asked>>

RequestThreads == IdrThread \/ RfiTake \/ RfiSend
-------------------------------------------------------------------------------
\* No request is lost between the event and the thread that waits for it
\* (ControlStream.c:1514-1526): while one is unsent the event is set or the
\* thread has yet to send.
RequestIsKept == asked => idrFrameRequiredEvent \/ idrPc # "wait"

\* The assertions of ControlStream.c:364, 1462 and 1502: a range ends no earlier
\* than it starts, and no earlier than the one it is joined to.
RangesInOrder ==
  LET queued == invalidReferenceFrameTuples IN
  /\ \A i \in DOMAIN queued :
       /\ queued[i].start >= queued[i].end
       /\ i > 1 => queued[i - 1].end >= queued[i].end /\ queued[i - 1].start >= queued[i].start
  /\ rfiPc = "join" => /\ range.start >= range.end
                       /\ queued # << >> => range.end >= queued[1].end
===============================================================================
