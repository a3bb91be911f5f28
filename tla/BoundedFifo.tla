------------------------------ MODULE BoundedFifo ------------------------------
(***************************************************************************)
(* What a queue of moonlight-common-c promises to the threads on its two   *)
(* ends, with no list, no mutex and no condition variable: items leave in  *)
(* the order they came, never more than Bound wait, nothing is accepted    *)
(* once the queue is closing, nothing is taken once it is shut down, what  *)
(* was accepted before a drain is still handed out, and a closing queue    *)
(* lets its waiting thread go.                                             *)
(***************************************************************************)
EXTENDS Naturals, Sequences, Functions

CONSTANTS Items,      \* what the queue carries
          Bound       \* how many items may wait

VARIABLES queue,      \* the waiting items, oldest first
          shutdown,   \* closed at once
          draining,   \* closed once empty
          released    \* the waiting thread was told to leave

vars == <<queue, shutdown, draining, released>>

Init == /\ queue = <<>>
        /\ shutdown = FALSE /\ draining = FALSE /\ released = FALSE

Accept(i) == /\ ~shutdown /\ ~draining
             /\ Len(queue) < Bound
             /\ i \notin Range(queue)
             /\ queue' = Append(queue, i)
             /\ UNCHANGED <<shutdown, draining, released>>

Take == /\ ~shutdown
        /\ queue # <<>>
        /\ queue' = Tail(queue)
        /\ UNCHANGED <<shutdown, draining, released>>

Flush == /\ queue' = <<>>
         /\ UNCHANGED <<shutdown, draining, released>>

Shutdown == shutdown' = TRUE /\ UNCHANGED <<queue, draining, released>>

Drain == draining' = TRUE /\ UNCHANGED <<queue, shutdown, released>>

Release == /\ shutdown \/ (draining /\ queue = <<>>)
           /\ released' = TRUE
           /\ UNCHANGED <<queue, shutdown, draining>>

Reset == /\ released
         /\ queue' = <<>>
         /\ shutdown' = FALSE /\ draining' = FALSE /\ released' = FALSE

Next == \/ \E i \in Items : Accept(i)
        \/ Take \/ Flush \/ Shutdown \/ Drain \/ Release \/ Reset

\* The thread on the far end keeps taking, and leaves when the queue closes.
Spec == Init /\ [][Next]_vars /\ WF_vars(Take) /\ WF_vars(Release)
===============================================================================
