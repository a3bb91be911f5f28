----------------------- MODULE LinkedBlockingQueueProofs -----------------------
(***************************************************************************)
(* For any number of threads, entries and any bound: the list stays a list *)
(* of exactly the entries the queue owns, the bound is kept, no wake-up is *)
(* lost, an entry peeked at stays the head where nobody else removes, and  *)
(* every step is a step of BoundedFifo or none.                            *)
(***************************************************************************)
EXTENDS LinkedBlockingQueue, SequenceTheorems, WellFoundedInduction, TLAPS

(***************************************************************************)
(* q lists the entries from head to tail.                                  *)
(***************************************************************************)
Chain(q) ==
  /\ \A j, k \in 1 .. currentSize : q[j] = q[k] => j = k
  /\ owned = {q[k] : k \in 1 .. currentSize}
  /\ head = IF currentSize = 0 THEN NULL ELSE q[1]
  /\ tail = IF currentSize = 0 THEN NULL ELSE q[currentSize]
  /\ \A k \in 1 .. currentSize :
       flink[q[k]] = IF k < currentSize THEN q[k + 1] ELSE NULL

ListInv == \E q \in [1 .. currentSize -> Items] : Chain(q)

ListTyped == /\ flink \in [Items -> Items \cup {NULL}]
             /\ currentSize \in 0 .. sizeBound

Less == {ss \in Nat \X Nat : ss[1] < ss[2]}

\* A set of numbers that holds 0, and the next of each it holds, holds them all.
LEMMA SetInduction ==
  ASSUME NEW T, 0 \in T, \A n \in Nat : n \in T => n + 1 \in T
  PROVE  Nat \subseteq T
<1> DEFINE U == Nat \ T
<1> SUFFICES ASSUME U # {} PROVE FALSE
  OBVIOUS
<1>1. IsWellFoundedOn(Less, Nat)
  BY NatLessThanWellFounded DEF OpToRel, Less
<1>2. PICK m \in U : \A n \in U : ~(<<n, m>> \in Less)
  BY <1>1, WFMin
<1>3. \A n \in U : ~(n < m)
  BY <1>2 DEF Less
<1>4. m \in Nat /\ m # 0 /\ m \notin T
  OBVIOUS
<1>5. m - 1 \in Nat
  BY <1>4
<1>6. m - 1 \in T
  BY <1>3, <1>5
<1> QED BY <1>4, <1>5, <1>6

\* Walking from head along flink passes the entries of the list, and no others.
WalkFollows ==
  currentSize \in Nat => \A q \in [1 .. currentSize -> Items] : Chain(q) => Walk = q

LEMMA WalkIsChain == WalkFollows
<1> SUFFICES ASSUME currentSize \in Nat, NEW q \in [1 .. currentSize -> Items], Chain(q)
             PROVE  Walk = q
  BY DEF WalkFollows
<1> DEFINE n == currentSize
           Step(f) == [k \in 1 .. n |-> IF k = 1 THEN head ELSE flink[f[k - 1]]]
           at == CHOOSE f : f = Step(f)
<1>1. \A k \in 1 .. n : q[k] = IF k = 1 THEN head ELSE flink[q[k - 1]]
  <2>1. ASSUME NEW k \in 1 .. n, k # 1 PROVE q[k] = flink[q[k - 1]]
    <3>1. k - 1 \in 1 .. n /\ k - 1 < n /\ (k - 1) + 1 = k
      BY <2>1
    <3> QED BY <3>1 DEF Chain
  <2> QED BY <2>1 DEF Chain
<1>2. q = Step(q)
  BY <1>1
<1>3. at = Step(at)
  <2> HIDE DEF Step
  <2> QED BY <1>2
<1>4. \A k \in 1 .. n : at[k] = IF k = 1 THEN head ELSE flink[at[k - 1]]
  <2> HIDE DEF at
  <2> QED BY <1>3
<1> DEFINE T == {k \in Nat : k + 1 \in 1 .. n => at[k + 1] = q[k + 1]}
<1>5. 0 \in T
  <2>1. 0 + 1 = 1 /\ (1 \in 1 .. n => at[1] = q[1])
    BY <1>1, <1>4
  <2> QED BY <2>1
<1>6. ASSUME NEW k \in Nat, k \in T PROVE k + 1 \in T
  <2> SUFFICES ASSUME (k + 1) + 1 \in 1 .. n PROVE at[(k + 1) + 1] = q[(k + 1) + 1]
    OBVIOUS
  <2>1. k + 1 \in 1 .. n /\ (k + 1) + 1 # 1 /\ ((k + 1) + 1) - 1 = k + 1
    OBVIOUS
  <2>2. at[k + 1] = q[k + 1]
    BY <1>6, <2>1
  <2> HIDE DEF at
  <2> QED BY <1>1, <1>4, <2>1, <2>2
<1>7. Nat \subseteq T
  <2> HIDE DEF T
  <2> QED BY <1>5, <1>6, SetInduction
<1>8. ASSUME NEW k \in 1 .. n PROVE at[k] = q[k]
  <2>1. k - 1 \in Nat /\ (k - 1) + 1 = k
    OBVIOUS
  <2>2. k - 1 \in T
    BY <1>7, <2>1
  <2> HIDE DEF at
  <2> QED BY <2>1, <2>2
<1>9. Walk = [k \in 1 .. n |-> at[k]]
  BY DEF Walk
<1> QED
  <2> HIDE DEF at
  <2> QED BY <1>8, <1>9

\* The list as a sequence.
LEMMA WalkIsSequence ==
  ListTyped /\ ListInv =>
    /\ Walk \in Seq(Items) /\ Len(Walk) = currentSize
    /\ owned = {Walk[k] : k \in 1 .. currentSize}
<1> SUFFICES ASSUME ListTyped, ListInv
             PROVE  /\ Walk \in Seq(Items) /\ Len(Walk) = currentSize
                    /\ owned = {Walk[k] : k \in 1 .. currentSize}
  OBVIOUS
<1>1. currentSize \in Nat
  BY QueueAssumption DEF ListTyped
<1>2. PICK q \in [1 .. currentSize -> Items] : Chain(q)
  BY DEF ListInv
<1>3. Walk = q
  BY <1>1, <1>2, WalkIsChain DEF WalkFollows
<1> QED BY <1>1, <1>2, <1>3 DEF Chain

\* Removing the head of a list leaves the list of the others.
LEMMA PopHeadKeepsList ==
  ASSUME ListTyped, ListInv, head # NULL, PopHead
  PROVE  ListTyped' /\ ListInv' /\ Walk # << >> /\ Walk' = Tail(Walk)
<1> USE QueueAssumption DEF ListTyped
<1>1. PICK q \in [1 .. currentSize -> Items] : Chain(q)
  BY DEF ListInv
<1>2. currentSize > 0 /\ head = q[1]
  BY <1>1 DEF Chain
<1>3. ListTyped'
  BY <1>2 DEF PopHead
<1> DEFINE r == [k \in 1 .. currentSize - 1 |-> q[k + 1]]
<1>4. r \in [1 .. currentSize' -> Items]
  BY <1>2 DEF PopHead
<1>5. \A j, k \in 1 .. currentSize' : r[j] = r[k] => j = k
  BY <1>1, <1>2 DEF PopHead, Chain
<1>6. owned' = {r[k] : k \in 1 .. currentSize'}
  <2>1. \A k \in 1 .. currentSize - 1 : r[k] = q[k + 1]
    OBVIOUS
  <2>2. ASSUME NEW e \in owned' PROVE \E k \in 1 .. currentSize - 1 : e = r[k]
    <3>1. PICK j \in 1 .. currentSize : e = q[j] /\ j # 1
      BY <1>1, <1>2 DEF PopHead, Chain
    <3>2. j - 1 \in 1 .. currentSize - 1 /\ (j - 1) + 1 = j
      BY <3>1
    <3> QED BY <2>1, <3>1, <3>2
  <2>3. ASSUME NEW k \in 1 .. currentSize - 1 PROVE r[k] \in owned'
    <3>1. k + 1 \in 1 .. currentSize /\ k + 1 # 1 /\ 1 \in 1 .. currentSize
      BY <1>2
    <3>2. q[k + 1] \in owned /\ q[k + 1] # q[1]
      BY <1>1, <3>1 DEF Chain
    <3> QED BY <2>1, <3>2, <1>2 DEF PopHead
  <2>4. currentSize' = currentSize - 1
    BY DEF PopHead
  <2> HIDE DEF r
  <2> QED BY <2>2, <2>3, <2>4
<1>7. flink[head] = IF currentSize = 1 THEN NULL ELSE q[2]
  BY <1>1, <1>2 DEF Chain
<1>8. head' = IF currentSize' = 0 THEN NULL ELSE r[1]
  BY <1>2, <1>7 DEF PopHead
<1>9. tail' = IF currentSize' = 0 THEN NULL ELSE r[currentSize']
  <2>1. CASE currentSize = 1
    BY <2>1, <1>7 DEF PopHead
  <2>2. CASE currentSize # 1
    <3>1. flink[head] # NULL
      BY <2>2, <1>2, <1>7
    <3> QED BY <2>2, <3>1, <1>1, <1>2 DEF PopHead, Chain
  <2> QED BY <2>1, <2>2
<1>10. \A k \in 1 .. currentSize' :
         flink'[r[k]] = IF k < currentSize' THEN r[k + 1] ELSE NULL
  BY <1>1, <1>2 DEF PopHead, Chain
<1>11. PICK s \in [1 .. currentSize' -> Items] : s = r
  BY <1>4
<1>12. Chain(s)'
  <2> HIDE DEF r
  <2> QED BY <1>5, <1>6, <1>8, <1>9, <1>10, <1>11 DEF Chain
<1>13. Walk' = s /\ Walk = q
  <2>1. WalkFollows'
    BY WalkIsChain, PTL
  <2>2. currentSize \in Nat /\ currentSize' \in Nat
    BY <1>3
  <2> QED BY <1>1, <1>12, <2>1, <2>2, WalkIsChain DEF WalkFollows
<1>14. q \in Seq(Items) /\ q # << >> /\ Len(q) = currentSize /\ s = Tail(q)
  <2>1. q \in Seq(Items) /\ Len(q) = currentSize
    OBVIOUS
  <2>2. /\ Tail(q) \in Seq(Items) /\ Len(Tail(q)) = currentSize - 1
        /\ \A k \in 1 .. currentSize - 1 : Tail(q)[k] = q[k + 1]
    BY <1>2, <2>1
  <2>3. /\ s \in Seq(Items) /\ Len(s) = currentSize - 1
        /\ \A k \in 1 .. currentSize - 1 : s[k] = q[k + 1]
    BY <1>2, <1>4, <1>11 DEF PopHead
  <2>4. s = Tail(q)
    BY <2>2, <2>3, SeqEqual
  <2> QED BY <1>2, <2>1, <2>4
<1> HIDE DEF r
<1> QED BY <1>3, <1>12, <1>13, <1>14 DEF ListInv

\* Linking an entry the queue does not own behind the tail leaves a list with it at the end.
LEMMA EnqueueKeepsList ==
  ASSUME ListTyped, ListInv, currentSize # sizeBound,
         NEW i \in Items, i \notin owned, Enqueue(i)
  PROVE  ListTyped' /\ ListInv' /\ Walk' = Append(Walk, i)
<1> USE QueueAssumption DEF ListTyped
<1>1. PICK q \in [1 .. currentSize -> Items] : Chain(q)
  BY DEF ListInv
<1>2. currentSize \in Nat /\ currentSize' = currentSize + 1
  BY DEF Enqueue
<1>3. \A k \in 1 .. currentSize : q[k] # i
  BY <1>1 DEF Chain
<1>4. ListTyped'
  BY <1>1, <1>2 DEF Enqueue, Chain
<1> DEFINE r == [k \in 1 .. currentSize + 1 |-> IF k = currentSize + 1 THEN i ELSE q[k]]
<1>5. r \in [1 .. currentSize' -> Items]
  BY <1>2
<1>6. \A j, k \in 1 .. currentSize' : r[j] = r[k] => j = k
  BY <1>1, <1>2, <1>3 DEF Chain
<1>7. owned' = {r[k] : k \in 1 .. currentSize'}
  <2>1. r[currentSize + 1] = i /\ \A k \in 1 .. currentSize : r[k] = q[k]
    BY <1>2
  <2>2. ASSUME NEW e \in owned' PROVE \E k \in 1 .. currentSize + 1 : e = r[k]
    BY <2>1, <2>2, <1>1, <1>2 DEF Enqueue, Chain
  <2>3. ASSUME NEW k \in 1 .. currentSize + 1 PROVE r[k] \in owned'
    <3>1. CASE k = currentSize + 1
      BY <3>1, <2>1 DEF Enqueue
    <3>2. CASE k \in 1 .. currentSize
      BY <3>2, <2>1, <1>1 DEF Enqueue, Chain
    <3> QED BY <3>1, <3>2, <1>2
  <2> HIDE DEF r
  <2> QED BY <2>2, <2>3, <1>2
<1>8. head' = r[1]
  BY <1>1, <1>2 DEF Enqueue, Chain
<1>9. tail' = r[currentSize']
  BY <1>2 DEF Enqueue
<1>10. ASSUME NEW k \in 1 .. currentSize'
       PROVE  flink'[r[k]] = IF k < currentSize' THEN r[k + 1] ELSE NULL
  <2>1. CASE k = currentSize + 1
    <3>1. tail # i
      BY <1>1, <1>3 DEF Chain
    <3> QED BY <2>1, <3>1, <1>2 DEF Enqueue
  <2>2. CASE k = currentSize
    <3>1. head # NULL /\ tail = q[k] /\ r[k] = q[k] /\ r[k + 1] = i
      BY <2>2, <1>1, <1>2 DEF Chain
    <3> QED BY <2>2, <3>1, <1>2, <1>3 DEF Enqueue
  <2>3. CASE k < currentSize
    <3>1. head # NULL /\ tail = q[currentSize] /\ r[k] = q[k] /\ r[k + 1] = q[k + 1]
      BY <2>3, <1>1, <1>2 DEF Chain
    <3>2. q[k] # tail /\ q[k] # i
      BY <2>3, <3>1, <1>1, <1>2, <1>3 DEF Chain
    <3>3. flink[q[k]] = q[k + 1]
      BY <2>3, <1>1, <1>2 DEF Chain
    <3> QED BY <2>3, <3>1, <3>2, <3>3, <1>2 DEF Enqueue
  <2> QED BY <2>1, <2>2, <2>3, <1>2
<1>11. PICK s \in [1 .. currentSize' -> Items] : s = r
  BY <1>5
<1>12. Chain(s)'
  <2> HIDE DEF r
  <2> QED BY <1>2, <1>6, <1>7, <1>8, <1>9, <1>10, <1>11 DEF Chain
<1>13. Walk' = s /\ Walk = q
  <2>1. WalkFollows'
    BY WalkIsChain, PTL
  <2> QED BY <1>1, <1>2, <1>12, <2>1, WalkIsChain DEF WalkFollows
<1>14. s = Append(q, i)
  <2>1. q \in Seq(Items) /\ Len(q) = currentSize
    BY <1>2
  <2>2. /\ Append(q, i) \in Seq(Items) /\ Len(Append(q, i)) = currentSize + 1
        /\ \A k \in 1 .. currentSize + 1 :
             Append(q, i)[k] = IF k = currentSize + 1 THEN i ELSE q[k]
    BY <1>2, <2>1
  <2>3. /\ s \in Seq(Items) /\ Len(s) = currentSize + 1
        /\ \A k \in 1 .. currentSize + 1 : s[k] = IF k = currentSize + 1 THEN i ELSE q[k]
    BY <1>2, <1>5, <1>11
  <2> QED BY <2>2, <2>3, SeqEqual
<1> HIDE DEF r
<1> QED BY <1>4, <1>12, <1>13, <1>14 DEF ListInv

Empty == currentSize = 0 /\ head = NULL /\ tail = NULL /\ owned = {}

\* The empty list is a list.
LEMMA EmptyIsList == Empty => ListInv /\ Walk = << >>
<1> SUFFICES ASSUME Empty PROVE ListInv /\ Walk = << >>
  OBVIOUS
<1> USE DEF Empty
<1>1. \A k : k \notin 1 .. currentSize
  OBVIOUS
<1> DEFINE q == [k \in 1 .. currentSize |-> NULL]
<1>2. q \in [1 .. currentSize -> Items]
  BY <1>1
<1> HIDE DEF q
<1>3. Chain(q)
  BY <1>1 DEF Chain
<1>4. q = << >>
  BY <1>1, <1>2
<1>5. Walk = q
  BY <1>2, <1>3, WalkIsChain DEF WalkFollows
<1> QED BY <1>2, <1>3, <1>4, <1>5 DEF ListInv
-------------------------------------------------------------------------------
(***************************************************************************)
(* The inductive invariant.  Besides the shape of the list, it says that a *)
(* consumer asleep over something to do has a signal coming: whoever made  *)
(* the queue non-empty, or set a flag, is still between its unlock and its *)
(* signal.                                                                 *)
(***************************************************************************)
QueueInv == TypeOK /\ ListInv /\ NoLostWakeup

LEMMA QueueInvInit == Init => QueueInv
<1> SUFFICES ASSUME Init PROVE QueueInv
  OBVIOUS
<1>1. TypeOK
  <2>1. flink \in [Items -> Items \cup {NULL}] /\ currentSize \in 0 .. sizeBound
    BY QueueAssumption DEF Init
  <2>2. /\ shutdown \in BOOLEAN /\ draining \in BOOLEAN /\ pendingUserWake \in BOOLEAN
        /\ batches \in BOOLEAN
    BY DEF Init
  <2>3. wakes \in 0 .. MaxWakes
    BY QueueAssumption DEF Init
  <2> QED BY <2>1, <2>2, <2>3 DEF Init, TypeOK
<1>2. ListInv
  BY EmptyIsList DEF Init, Empty
<1> QED BY <1>1, <1>2 DEF QueueInv, NoLostWakeup, Init

\* Steps that leave the list alone.
LEMMA ListUnchanged ==
  ASSUME ListInv, UNCHANGED list PROVE ListInv'
BY DEF ListInv, Chain, list

LEMMA ListEndsTyped ==
  ASSUME ListTyped, ListInv
  PROVE  head \in Items \cup {NULL} /\ tail \in Items \cup {NULL} /\ owned \subseteq Items
<1>1. PICK q \in [1 .. currentSize -> Items] : Chain(q)
  BY DEF ListInv
<1> QED BY <1>1, QueueAssumption DEF Chain, ListTyped

\* The flags, the signals and the consumer, for the steps that move entries.
LEMMA NextKeepsInv == QueueInv /\ [Next]_vars => QueueInv'
<1> SUFFICES ASSUME QueueInv, [Next]_vars PROVE QueueInv'
  OBVIOUS
<1> USE DEF QueueInv
<1>0. ListTyped
  BY DEF TypeOK, ListTyped
<1>1. ASSUME NEW t \in Threads, NEW i \in Items \ owned, Offer(t, i) PROVE QueueInv'
  <2>1. ListTyped' /\ ListInv'
    BY <1>0, <1>1, EnqueueKeepsList DEF Offer
  <2>2. TypeOK'
    BY <1>1, <2>1, ListEndsTyped DEF Offer, TypeOK, ListTyped, Free, flags, Enqueue
  <2>3. NoLostWakeup'
    BY <1>1 DEF Offer, NoLostWakeup, NothingToDo, flags
  <2> QED BY <2>1, <2>2, <2>3
<1>2. ASSUME NEW t \in Threads, Poll(t) PROVE QueueInv'
  <2>1. ListTyped' /\ ListInv'
    BY <1>0, <1>2, PopHeadKeepsList DEF Poll
  <2>2. TypeOK'
    BY <1>2, <2>1 DEF Poll, TypeOK, ListTyped, flags, PopHead
  <2>3. NoLostWakeup'
    BY <1>2 DEF Poll, NoLostWakeup, NothingToDo, flags
  <2> QED BY <2>1, <2>2, <2>3
<1>3. ASSUME NEW t \in Threads, Flush(t) PROVE QueueInv'
  <2>1. Empty' => ListInv'
    BY EmptyIsList, PTL
  <2>2. Empty'
    BY <1>3 DEF Flush, Empty
  <2>3. TypeOK' /\ NoLostWakeup'
    BY <1>3, QueueAssumption DEF Flush, TypeOK, flags, NoLostWakeup, NothingToDo
  <2> QED BY <2>1, <2>2, <2>3
<1>4. ASSUME NEW t \in Threads, SignalQueueShutdown(t) PROVE QueueInv'
  BY <1>4, ListUnchanged DEF SignalQueueShutdown, TypeOK, NoLostWakeup, list
<1>5. ASSUME NEW t \in Threads, SignalQueueDrain(t) PROVE QueueInv'
  BY <1>5, ListUnchanged DEF SignalQueueDrain, TypeOK, NoLostWakeup, list
<1>6. ASSUME NEW t \in Threads, SignalQueueUserWake(t) PROVE QueueInv'
  BY <1>6, ListUnchanged, QueueAssumption DEF SignalQueueUserWake, TypeOK, NoLostWakeup, list
<1>7. ASSUME NEW t \in Threads, Signal(t) PROVE QueueInv'
  <2>1. ListInv'
    BY <1>7, ListUnchanged DEF Signal
  <2>2. TypeOK' /\ NoLostWakeup'
    BY <1>7 DEF Signal, TypeOK, NoLostWakeup, list, flags
  <2> QED BY <2>1, <2>2
<1>8. CASE Wait
  BY <1>8, ListUnchanged DEF Wait, TypeOK, NoLostWakeup, NothingToDo, list, flags
<1>9. CASE SpuriousWake
  BY <1>9, ListUnchanged DEF SpuriousWake, TypeOK, NoLostWakeup, list, flags
<1>10. CASE WaitInterrupted
  BY <1>10, ListUnchanged DEF WaitInterrupted, TypeOK, NoLostWakeup, list, flags
<1>11. CASE WaitUserWake
  BY <1>11, ListUnchanged DEF WaitUserWake, TypeOK, NoLostWakeup, list
<1>12. CASE WaitPop
  <2>1. ListTyped' /\ ListInv'
    BY <1>0, <1>12, PopHeadKeepsList DEF WaitPop
  <2>2. TypeOK' /\ NoLostWakeup'
    BY <1>12, <2>1 DEF WaitPop, TypeOK, ListTyped, flags, PopHead, NoLostWakeup
  <2> QED BY <2>1, <2>2
<1>13. CASE Peek
  BY <1>13, ListUnchanged DEF Peek, TypeOK, NoLostWakeup, list, flags
<1>14. CASE PollPeeked
  <2>1. ListTyped' /\ ListInv'
    BY <1>0, <1>14, PopHeadKeepsList DEF PollPeeked
  <2>2. TypeOK' /\ NoLostWakeup'
    BY <1>14, <2>1 DEF PollPeeked, TypeOK, ListTyped, flags, PopHead, NoLostWakeup
  <2> QED BY <2>1, <2>2
<1>15. CASE EndBatch
  BY <1>15, ListUnchanged DEF EndBatch, TypeOK, NoLostWakeup, list, flags
<1>16. CASE Reinitialize
  <2>1. Empty' => ListInv'
    BY EmptyIsList, PTL
  <2>2. Empty'
    BY <1>16 DEF Reinitialize, Empty
  <2>3. /\ shutdown' \in BOOLEAN /\ draining' \in BOOLEAN /\ pendingUserWake' \in BOOLEAN
        /\ batches' \in BOOLEAN
    BY <1>16 DEF Reinitialize
  <2>4. TypeOK'
    BY <1>16, <2>3, QueueAssumption DEF Reinitialize, TypeOK
  <2>5. NoLostWakeup'
    BY <1>16 DEF Reinitialize, NoLostWakeup
  <2> QED BY <2>1, <2>2, <2>4, <2>5
<1>17. CASE UNCHANGED vars
  <2>1. ListInv'
    BY <1>17, ListUnchanged DEF vars, list
  <2>2. TypeOK' /\ NoLostWakeup'
    BY <1>17 DEF vars, TypeOK, NoLostWakeup, NothingToDo
  <2> QED BY <2>1, <2>2
<1> QED
  BY <1>1, <1>2, <1>3, <1>4, <1>5, <1>6, <1>7, <1>8, <1>9, <1>10, <1>11, <1>12,
     <1>13, <1>14, <1>15, <1>16, <1>17 DEF Next, Other, Consumer

LEMMA QueueInvariant == Spec => []QueueInv
BY QueueInvInit, NextKeepsInv, PTL DEF Spec

\* The types, among them that never more than sizeBound entries wait
\* (LinkedBlockingQueue.c:98).
THEOREM TypeCorrect == Spec => []TypeOK
BY QueueInvariant, PTL DEF QueueInv

\* The consumer never sleeps past an entry, a drain, a shutdown or a wake.
THEOREM WakeupsNotLost == Spec => []NoLostWakeup
BY QueueInvariant, PTL DEF QueueInv
-------------------------------------------------------------------------------
PeekInv == /\ PeekedStaysHead
           /\ consumer = "peeked" => batches /\ peeked \in Items

\* The batching loops of ControlStream.c and InputStream.c poll what they
\* peeked at, since no other thread polls or flushes their queues.
THEOREM PeekIsPolled == Spec => []PeekedStaysHead
<1>1. Init => PeekInv
  BY DEF Init, PeekInv, PeekedStaysHead
<1>2. PeekInv /\ TypeOK /\ [Next]_vars => PeekInv'
  <2> SUFFICES ASSUME PeekInv, TypeOK, [Next]_vars PROVE PeekInv'
    OBVIOUS
  <2> USE DEF PeekInv, PeekedStaysHead
  <2>1. ASSUME NEW t \in Threads, NEW i \in Items \ owned, Offer(t, i) PROVE PeekInv'
    BY <2>1, QueueAssumption DEF Offer, Enqueue, flags
  <2>2. ASSUME NEW t \in Threads, Other(t), \A i \in Items \ owned : ~Offer(t, i) PROVE PeekInv'
    BY <2>2 DEF Other, Poll, Flush, SignalQueueShutdown, SignalQueueDrain,
         SignalQueueUserWake, list, flags
  <2>3. ASSUME NEW t \in Threads, Signal(t) PROVE PeekInv'
    BY <2>3 DEF Signal, list, flags
  <2>4. CASE Consumer \/ SpuriousWake
    BY <2>4, QueueAssumption DEF Consumer, SpuriousWake, Wait, WaitInterrupted, WaitUserWake, WaitPop,
         Peek, PollPeeked, EndBatch, list, flags, TypeOK
  <2>5. CASE Reinitialize
    BY <2>5 DEF Reinitialize
  <2>6. CASE UNCHANGED vars
    BY <2>6 DEF vars
  <2> QED BY <2>1, <2>2, <2>3, <2>4, <2>5, <2>6 DEF Next
<1>3. PeekInv => PeekedStaysHead
  BY DEF PeekInv
<1> QED BY <1>1, <1>2, <1>3, TypeCorrect, PTL DEF Spec
-------------------------------------------------------------------------------
(***************************************************************************)
(* The refinement: the waiting items are the entries from head along       *)
(* flink.  A step of the code adds one at the end, takes the first, drops  *)
(* them all, sets a flag, lets the consumer go, or changes nothing the     *)
(* FIFO knows of.                                                          *)
(***************************************************************************)
LEMMA WalkUnchanged == UNCHANGED list => Walk' = Walk
BY DEF Walk, list

LEMMA EmptyWhenHeadless ==
  ASSUME ListTyped, ListInv, head = NULL PROVE currentSize = 0
<1>1. PICK q \in [1 .. currentSize -> Items] : Chain(q)
  BY DEF ListInv
<1>2. currentSize \in Nat
  BY QueueAssumption DEF ListTyped
<1> QED BY <1>1, <1>2, QueueAssumption DEF Chain

\* A thread that waits for an item gets the first one, and the order in which the threads'
\* offers took the mutex is the order the items leave in (LinkedBlockingQueue.c:91-275).
THEOREM QueueIsFifo == Spec => Fifo!Init /\ [][Fifo!Next]_(Fifo!vars)
<1>1. Init => Fifo!Init
  <2> SUFFICES ASSUME Init PROVE Fifo!Init
    OBVIOUS
  <2>1. Walk = << >>
    BY EmptyIsList DEF Init, Empty
  <2>2. (consumer = "left") = FALSE
    BY DEF Init
  <2> QED BY <2>1, <2>2 DEF Init, Fifo!Init
<1>2. QueueInv /\ [Next]_vars => [Fifo!Next]_(Fifo!vars)
  <2> SUFFICES ASSUME QueueInv, [Next]_vars PROVE [Fifo!Next]_(Fifo!vars)
    OBVIOUS
  <2> USE DEF QueueInv
  <2>0. ListTyped /\ ListInv
    BY DEF TypeOK, ListTyped
  <2>k. ASSUME UNCHANGED list, UNCHANGED <<shutdown, draining>>,
               consumer = "left" <=> consumer' = "left"
        PROVE  UNCHANGED Fifo!vars
    BY <2>k, WalkUnchanged DEF Fifo!vars
  <2>p. ASSUME head # NULL, PopHead, ~shutdown, UNCHANGED <<shutdown, draining>>,
               consumer = "left" <=> consumer' = "left"
        PROVE  Fifo!Take
    BY <2>0, <2>p, PopHeadKeepsList DEF Fifo!Take
  <2>1. ASSUME NEW t \in Threads, NEW i \in Items \ owned, Offer(t, i) PROVE Fifo!Accept(i)
    <3>1. Walk' = Append(Walk, i)
      BY <2>0, <2>1, EnqueueKeepsList DEF Offer
    <3>2. i \notin Fifo!Range(Walk) /\ Len(Walk) = currentSize
      BY <2>0, <2>1, WalkIsSequence DEF Fifo!Range
    <3>3. Len(Walk) < sizeBound
      BY <2>0, <2>1, <3>2, QueueAssumption DEF Offer, ListTyped
    <3> QED BY <2>1, <3>1, <3>2, <3>3 DEF Offer, flags, Fifo!Accept
  <2>2. ASSUME NEW t \in Threads, Poll(t) PROVE Fifo!Take
    BY <2>2, <2>p DEF Poll, flags
  <2>3. ASSUME NEW t \in Threads, Flush(t) PROVE Fifo!Flush
    <3>1. Empty' => Walk' = << >>
      <4>1. (Empty => ListInv /\ Walk = << >>)'
        BY EmptyIsList, PTL
      <4> QED BY <4>1
    <3>2. Walk' = << >>
      BY <2>3, <3>1 DEF Flush, Empty
    <3> QED BY <2>3, <3>2 DEF Flush, flags, Fifo!Flush
  <2>4. ASSUME NEW t \in Threads, SignalQueueShutdown(t) PROVE Fifo!Shutdown
    BY <2>4, WalkUnchanged DEF SignalQueueShutdown, Fifo!Shutdown
  <2>5. ASSUME NEW t \in Threads, SignalQueueDrain(t) PROVE Fifo!Drain
    BY <2>5, WalkUnchanged DEF SignalQueueDrain, Fifo!Drain
  <2>6. ASSUME NEW t \in Threads, SignalQueueUserWake(t) \/ Signal(t)
        PROVE  UNCHANGED Fifo!vars
    BY <2>6, <2>k DEF SignalQueueUserWake, Signal, flags
  <2>7. CASE Wait \/ SpuriousWake \/ WaitUserWake \/ Peek \/ EndBatch \/ UNCHANGED vars
    BY <2>7, <2>k DEF Wait, SpuriousWake, WaitUserWake, Peek, EndBatch, Waking, flags, vars, list
  <2>8. ASSUME WaitPop \/ PollPeeked PROVE Fifo!Take
    BY <2>8, <2>p DEF WaitPop, PollPeeked, Waking, flags
  <2>9. ASSUME WaitInterrupted PROVE Fifo!Release
    <3>1. Walk' = Walk /\ UNCHANGED <<shutdown, draining>> /\ consumer' = "left"
      BY <2>9, WalkUnchanged DEF WaitInterrupted, flags
    <3>2. draining /\ head = NULL => Walk = << >>
      <4>1. ASSUME head = NULL PROVE currentSize = 0
        BY <2>0, <4>1, EmptyWhenHeadless
      <4> QED BY <2>0, <4>1, WalkIsSequence
    <3> QED BY <2>9, <3>1, <3>2 DEF WaitInterrupted, Fifo!Release
  <2>10. ASSUME Reinitialize PROVE Fifo!Reset
    <3>1. (Empty => ListInv /\ Walk = << >>)'
      BY EmptyIsList, PTL
    <3>2. Walk' = << >>
      BY <2>10, <3>1 DEF Reinitialize, Empty
    <3> QED BY <2>10, <3>2 DEF Reinitialize, Fifo!Reset
  <2> QED
    BY <2>1, <2>2, <2>3, <2>4, <2>5, <2>6, <2>7, <2>8, <2>9, <2>10
       DEF Next, Consumer, Other, Fifo!Next
<1> QED BY <1>1, <1>2, QueueInvariant, PTL DEF Spec
===============================================================================
