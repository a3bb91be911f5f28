-------------------------- MODULE LinkedBlockingQueue --------------------------
(***************************************************************************)
(* moonlight-common-c/src/LinkedBlockingQueue.c: the queue between every   *)
(* pair of streaming threads.  The entries are linked through themselves;  *)
(* a mutex guards the list and the flags, and the condition variable is    *)
(* signalled after the mutex is released, and only by an offer that found  *)
(* the queue empty.  A critical section is one step; the signal that       *)
(* follows it is another.                                                  *)
(*                                                                         *)
(* Every queue of the library has one thread that waits (the consumer);    *)
(* the others (Threads) offer, poll, flush, wake and close.  The consumer  *)
(* of a batching queue loops as asyncCallbackThreadFunc and                *)
(* inputSendThreadProc do: wait for an item, then peek at the next ones    *)
(* and poll those that can be batched; nobody else removes items from such *)
(* a queue.  On the other queues (decode units, audio packets, reference   *)
(* frame tuples, free lists) other threads flush or poll, and none peeks.  *)
(***************************************************************************)
EXTENDS Naturals, Sequences, FiniteSets

CONSTANTS Threads,    \* the threads other than the consumer
          Items,      \* the entries: each is in the queue at most once
          sizeBound,
          NULL,
          MaxWakes    \* how often the threads call LbqSignalQueueUserWake

ASSUME QueueAssumption == /\ sizeBound \in Nat \ {0}
                          /\ NULL \notin Items
                          /\ MaxWakes \in Nat

VARIABLES head, tail,        \* entries, or NULL
          flink,             \* entry -> the entry behind it
          currentSize,
          owned,             \* the entries the queue owns: offered, not yet given back
          shutdown, draining, pendingUserWake,
          signalling,        \* the threads between their unlock and their signal
          consumer,          \* where the consumer stands
          peeked,            \* the entry the consumer peeked at
          batches,           \* whether this is a batching queue
          wakes              \* user wakes so far

list == <<head, tail, flink, currentSize, owned>>
flags == <<shutdown, draining, pendingUserWake, batches, wakes>>
vars == <<head, tail, flink, currentSize, owned, shutdown, draining, pendingUserWake,
          signalling, consumer, peeked, batches, wakes>>

TypeOK == /\ head \in Items \cup {NULL}
          /\ tail \in Items \cup {NULL}
          /\ flink \in [Items -> Items \cup {NULL}]
          /\ currentSize \in 0 .. sizeBound
          /\ owned \subseteq Items
          /\ shutdown \in BOOLEAN
          /\ draining \in BOOLEAN
          /\ pendingUserWake \in BOOLEAN
          /\ signalling \subseteq Threads
          /\ consumer \in {"calling", "waiting", "woken", "batching", "peeked", "left"}
          /\ peeked \in Items \cup {NULL}
          /\ batches \in BOOLEAN
          /\ wakes \in 0 .. MaxWakes

Init == /\ head = NULL
        /\ tail = NULL
        /\ flink = [i \in Items |-> NULL]
        /\ currentSize = 0
        /\ owned = {}
        /\ shutdown = FALSE
        /\ draining = FALSE
        /\ pendingUserWake = FALSE
        /\ signalling = {}
        /\ consumer = "calling"
        /\ peeked = NULL
        /\ batches \in BOOLEAN
        /\ wakes = 0

(***************************************************************************)
(* The entries from head along flink; currentSize of them are meant to be  *)
(* there.                                                                  *)
(***************************************************************************)
Walk == LET at[k \in 1 .. currentSize] == IF k = 1 THEN head ELSE flink[at[k - 1]]
        IN  [k \in 1 .. currentSize |-> at[k]]

-------------------------------------------------------------------------------
(* The removal both Poll and Wait end in. *)
PopHead == /\ head' = flink[head]
           /\ currentSize' = currentSize - 1
           /\ tail' = IF flink[head] = NULL THEN NULL ELSE tail
           /\ owned' = owned \ {head}
           /\ UNCHANGED flink

(* The insertion behind the tail that Offer makes.  The entry's own flink  *)
(* is cleared before the lock is taken, while the caller still owns it.    *)
Enqueue(i) == /\ flink' = IF head = NULL
                          THEN [flink EXCEPT ![i] = NULL]
                          ELSE [flink EXCEPT ![i] = NULL, ![tail] = i]
              /\ head' = IF head = NULL THEN i ELSE head
              /\ tail' = i
              /\ currentSize' = currentSize + 1
              /\ owned' = owned \cup {i}

(* pthread_cond_signal wakes the waiting thread, or nobody. *)
Signal(t) == /\ t \in signalling
             /\ signalling' = signalling \ {t}
             /\ consumer' = IF consumer = "waiting" THEN "woken" ELSE consumer
             /\ UNCHANGED <<list, flags, peeked>>

Free(t) == t \in Threads \ signalling

(* Mutants of Offer: it signals when the queue was not empty; it forgets   *)
(* the bound.                                                              *)
OfferSignalsWrong(t, i) ==
  /\ Free(t)
  /\ ~shutdown /\ ~draining
  /\ currentSize # sizeBound
  /\ Enqueue(i)
  /\ signalling' = IF head = NULL THEN signalling ELSE signalling \cup {t}
  /\ UNCHANGED <<flags, consumer, peeked>>

OfferUnbounded(t, i) ==
  /\ Free(t)
  /\ ~shutdown /\ ~draining
  /\ Enqueue(i)
  /\ signalling' = IF head = NULL THEN signalling \cup {t} ELSE signalling
  /\ UNCHANGED <<flags, consumer, peeked>>

(* LbqOfferQueueItem by a thread that owns the entry.  On a closing or a   *)
(* full queue it returns an error and changes nothing.                     *)
Offer(t, i) ==
  /\ Free(t)
  /\ ~shutdown /\ ~draining
  /\ currentSize # sizeBound
  /\ Enqueue(i)
  /\ signalling' = IF head = NULL THEN signalling \cup {t} ELSE signalling
  /\ UNCHANGED <<flags, consumer, peeked>>

(* LbqPollQueueElement by a thread that is not the waiting one. *)
Poll(t) == /\ ~batches
           /\ Free(t)
           /\ ~shutdown
           /\ head # NULL
           /\ PopHead
           /\ UNCHANGED <<flags, signalling, consumer, peeked>>

(* LbqFlushQueueItems: the old list goes to the caller, who frees it. *)
Flush(t) == /\ ~batches
            /\ Free(t)
            /\ head # NULL
            /\ head' = NULL
            /\ tail' = NULL
            /\ currentSize' = 0
            /\ owned' = {}
            /\ UNCHANGED <<flink, flags, signalling, consumer, peeked>>

SignalQueueShutdown(t) == /\ Free(t)
                          /\ shutdown' = TRUE
                          /\ signalling' = signalling \cup {t}
                          /\ UNCHANGED <<list, draining, pendingUserWake, batches, wakes, consumer, peeked>>

SignalQueueDrain(t) == /\ Free(t)
                       /\ draining' = TRUE
                       /\ signalling' = signalling \cup {t}
                       /\ UNCHANGED <<list, shutdown, pendingUserWake, batches, wakes, consumer, peeked>>

SignalQueueUserWake(t) == /\ wakes < MaxWakes
                          /\ Free(t)
                          /\ wakes' = wakes + 1
                          /\ pendingUserWake' = TRUE
                          /\ signalling' = signalling \cup {t}
                          /\ UNCHANGED <<list, shutdown, draining, batches, consumer, peeked>>
-------------------------------------------------------------------------------
(* LbqWaitForQueueElement *)
NothingToDo == head = NULL /\ ~draining /\ ~shutdown /\ ~pendingUserWake

Waking == consumer \in {"calling", "woken"}

\* pthread_cond_wait releases the mutex and sleeps in one step.
Wait == /\ Waking
        /\ NothingToDo
        /\ consumer' = "waiting"
        /\ UNCHANGED <<list, flags, signalling, peeked>>

\* pthread_cond_wait may return without a signal.
SpuriousWake == /\ consumer = "waiting"
                /\ consumer' = "woken"
                /\ UNCHANGED <<list, flags, signalling, peeked>>

(* Mutant of WaitInterrupted: a drain is obeyed before the queue is empty. *)
WaitInterruptedByDrain == /\ Waking
                          /\ shutdown \/ (draining /\ ~pendingUserWake)
                          /\ consumer' = "left"
                          /\ UNCHANGED <<list, flags, signalling, peeked>>

\* Every caller's loop ends on LBQ_INTERRUPTED.
WaitInterrupted == /\ Waking
                   /\ shutdown \/ (draining /\ head = NULL /\ ~pendingUserWake)
                   /\ consumer' = "left"
                   /\ UNCHANGED <<list, flags, signalling, peeked>>

WaitUserWake == /\ Waking
                /\ ~shutdown
                /\ pendingUserWake
                /\ pendingUserWake' = FALSE
                /\ consumer' = "calling"
                /\ UNCHANGED <<list, shutdown, draining, batches, wakes, signalling, peeked>>

WaitPop == /\ Waking
           /\ ~shutdown /\ ~pendingUserWake
           /\ head # NULL
           /\ PopHead
           /\ consumer' = "batching"
           /\ UNCHANGED <<flags, signalling, peeked>>

(* LbqPeekQueueElement *)
Peek == /\ batches
        /\ consumer = "batching"
        /\ ~shutdown
        /\ head # NULL
        /\ peeked' = head
        /\ consumer' = "peeked"
        /\ UNCHANGED <<list, flags, signalling>>

(* Mutant of PollPeeked: it is made again without a new peek. *)
PollPeekedAgain == /\ consumer = "peeked"
                   /\ ~shutdown
                   /\ head # NULL
                   /\ PopHead
                   /\ UNCHANGED <<flags, signalling, consumer, peeked>>

\* The peeked entry can be batched and is polled; the poll may find the queue
\* shut down since.
PollPeeked == /\ consumer = "peeked"
              /\ ~shutdown
              /\ head # NULL
              /\ PopHead
              /\ peeked' = NULL
              /\ consumer' = "batching"
              /\ UNCHANGED <<flags, signalling>>

\* There is nothing (more) to batch.
EndBatch == /\ consumer \in {"batching", "peeked"}
            /\ peeked' = NULL
            /\ consumer' = "calling"
            /\ UNCHANGED <<list, flags, signalling>>
-------------------------------------------------------------------------------
(* LbqDestroyLinkedBlockingQueue, whose callers have joined the consumer   *)
(* and stopped the other threads, and the initialisation of the next use.  *)
Reinitialize == /\ consumer = "left"
                /\ signalling = {}
                /\ shutdown \/ draining
                /\ head' = NULL
                /\ tail' = NULL
                /\ currentSize' = 0
                /\ owned' = {}
                /\ shutdown' = FALSE
                /\ draining' = FALSE
                /\ pendingUserWake' = FALSE
                /\ consumer' = "calling"
                /\ batches' \in BOOLEAN
                /\ UNCHANGED <<flink, signalling, peeked, wakes>>

Consumer == \/ Wait \/ WaitInterrupted \/ WaitUserWake \/ WaitPop
            \/ Peek \/ PollPeeked \/ EndBatch

Other(t) == \/ \E i \in Items \ owned : Offer(t, i)
            \/ Poll(t)
            \/ Flush(t)
            \/ SignalQueueShutdown(t)
            \/ SignalQueueDrain(t)
            \/ SignalQueueUserWake(t)

Next == \/ Consumer
        \/ SpuriousWake
        \/ \E t \in Threads : Other(t) \/ Signal(t)
        \/ Reinitialize

\* The consumer's loop runs, and a thread that has unlocked goes on to signal.
Spec == /\ Init
        /\ [][Next]_vars
        /\ WF_vars(Consumer)
        /\ \A t \in Threads : WF_vars(Signal(t))
-------------------------------------------------------------------------------
\* The consumer never sleeps on a queue that has something for it unless a
\* signal that will wake it is already on its way: signalling only on the
\* transition from empty (LinkedBlockingQueue.c:124-128), after the unlock,
\* loses no wake-up.
NoLostWakeup == consumer = "waiting" /\ ~NothingToDo => signalling # {}

\* "This must be synchronized with LbqFlushQueueItems by the caller" (line
\* 133): with nobody else removing, the entry peeked at stays the head until
\* it is polled, so the batching loops poll the entry they looked at.
PeekedStaysHead == consumer = "peeked" => head = peeked

Fifo == INSTANCE BoundedFifo
          WITH Bound <- sizeBound, queue <- Walk, released <- consumer = "left"

\* The queue is the bounded FIFO of BoundedFifo, including that it keeps
\* handing out items and lets its consumer go when it closes, if only so many
\* user wakes are answered before the items are looked at (line 216).
ImplementsFifo == Fifo!Spec
===============================================================================
