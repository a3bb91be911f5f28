------------------------------- MODULE FrameFeed -------------------------------
(***************************************************************************)
(* What the video receive path owes the depacketizer: whole frames, in the *)
(* order of their numbers, each once; and reports of lost frames, which    *)
(* are never about a frame before one already handed over, and never go    *)
(* back.  No frame is passed over in silence but where a loss has been     *)
(* reported since a block was last begun.  A packet of frame n may make it *)
(* do both: report the frame before n, then hand over or give up n.        *)
(***************************************************************************)
EXTENDS Integers, Sequences

VARIABLES current,    \* the first frame that may still be handed over
          reported,   \* a loss has been reported since a block was last begun
          calls       \* the calls the last packet caused, in order

vars == <<current, reported, calls>>

Lost(n) == [call |-> "notifyFrameLost", frame |-> n]
Whole(n) == [call |-> "queueRtpPacket", frame |-> n]

Init == current = 1 /\ reported = FALSE /\ calls = << >>

\* Frames before n are over, and the last of them is reported; a single one is not
\* if a loss has been reported since a block was last begun.
Passing(n) ==
  IF n > current + 1 \/ (n = current + 1 /\ ~reported) THEN <<Lost(n - 1)>> ELSE << >>

\* With a frame begins a block, and in a frame one may begin.
Begins(n) == reported' = FALSE \/ (n = current /\ UNCHANGED reported)

\* A packet of n is kept.
Keep(n) == current' = n /\ Begins(n) /\ calls' = Passing(n)

\* Too many packets of n are missing: it is lost unless they come late.
Foretell(n) == current' = n /\ reported' = TRUE /\ calls' = Append(Passing(n), Lost(n))

HandOver(n) == current' = n + 1 /\ Begins(n) /\ calls' = Append(Passing(n), Whole(n))

\* A block of n has been missed: n is lost with all the frames before it, and
\* the first of them is reported unless a loss has been.
GiveUp(n) == /\ current' = n + 1 /\ reported' = TRUE
             /\ calls' = IF reported THEN << >> ELSE <<Lost(current)>>

\* A packet that is not wanted.
Ignore == calls' = << >> /\ UNCHANGED <<current, reported>>

Next == \/ Ignore
        \/ \E n \in {current, current', current' - 1} :
             /\ n >= current
             /\ Keep(n) \/ Foretell(n) \/ HandOver(n) \/ GiveUp(n)

Spec == Init /\ [][Next]_vars
===============================================================================
