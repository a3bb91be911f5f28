------------------------------ MODULE SampleFifo ------------------------------
(***************************************************************************)
(* What src/auddec.cpp promises to the rest of the client: decoded audio   *)
(* samples reach the audio device in the order they were decoded, none of  *)
(* them twice, and the device hears silence only when nothing is waiting.  *)
(* At most Capacity samples wait; a sample that finds no room is dropped   *)
(* before it is decoded, which is a stuttering step here.  On a machine    *)
(* where that is all the code can promise (exact is false) the samples are *)
(* released in order but the device may hear something else.               *)
(***************************************************************************)
EXTENDS Naturals, Sequences

CONSTANTS Capacity,   \* how many decoded samples may wait
          Sample,     \* the decoded samples
          Garbage,    \* what is no whole sample
          Silence     \* what the device is given when nothing waits

VARIABLES queue,      \* the samples that wait, oldest first
          device,     \* what the device was last given
          playing,    \* whether the device is asking for samples
          exact       \* whether the device hears exactly what was queued

vars == <<queue, device, playing, exact>>

Init == /\ queue = <<>>
        /\ device = Silence
        /\ playing = FALSE
        /\ exact \in BOOLEAN

Accept(s) == /\ playing
             /\ Len(queue) < Capacity
             /\ queue' = Append(queue, s)
             /\ UNCHANGED <<device, playing, exact>>

Play == /\ playing
        /\ queue # <<>>
        /\ exact => device' = Head(queue)
        /\ device' \in Sample \cup {Garbage}
        /\ queue' = Tail(queue)
        /\ UNCHANGED <<playing, exact>>

Underrun == /\ playing
            /\ queue = <<>>
            /\ device' = Silence
            /\ UNCHANGED <<queue, playing, exact>>

\* A stop keeps whatever is queued; a start discards it.
Start == /\ ~playing
         /\ playing' = TRUE
         /\ queue' = <<>>
         /\ UNCHANGED <<device, exact>>

Stop == /\ playing
        /\ playing' = FALSE
        /\ UNCHANGED <<queue, device, exact>>

Next == \/ \E s \in Sample : Accept(s)
        \/ Play
        \/ Underrun
        \/ Start
        \/ Stop

\* The device keeps asking while it plays.
Spec == Init /\ [][Next]_vars /\ WF_vars(Play)
===============================================================================
