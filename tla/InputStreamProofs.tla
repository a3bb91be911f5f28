--------------------------- MODULE InputStreamProofs ---------------------------
(***************************************************************************)
(* Motion and queued states of InputStream, for any number of threads and  *)
(* calls, any bound of the queue and any size of a packet's motion.        *)
(***************************************************************************)
EXTENDS InputStream, FiniteSetTheorems, SequenceTheorems, WellFoundedInduction,
        TLAPS

USE InputAssumption DEF InputAssumption

-------------------------------------------------------------------------------
(* The calls of the threads. *)

Motions == [Axes -> Int]
Call(s, k, v) == [stage |-> s, kind |-> k, value |-> v]

\* A call is of a known kind and hands over a value of that kind.
Fits(k, v) ==
  /\ k \in States \cup {"batch", "other"}
  /\ k = "move" => v \in Motions
  /\ k = "batch" => v \in Batch

CallInv ==
  /\ call = [t \in Threads |-> call[t]]
  /\ \A t \in Threads :
       \/ call[t] = NoCall
       \/ \E s, k, v : /\ call[t] = Call(s, k, v) /\ s \in {"state", "alloc", "offer"}
                       /\ s = "state" => k \in States
                       /\ (k = "move" /\ s = "state") \/ k = "batch" => Fits(k, v)
                       /\ k \in States \cup {"batch", "other"}

\* What becomes of the call of t.
Becomes(t, c) == call' = [call EXCEPT ![t] = c]

LEMMA BeginKind ==
  ASSUME NEW t \in Threads, Starts(t)
  PROVE  \E k, v : Begin(t, k, v) /\ Fits(k, v)
<1>1. CASE LiSendMouseMoveEvent(t)
  <2>1. \A d \in [Axes -> Shorts] : Fits("move", d)
    BY DEF Shorts, Motions, Fits, States
  <2>2. QED BY <1>1, <2>1 DEF LiSendMouseMoveEvent
<1>2. CASE \E k \in Latest : SendLatest(t, k)
  BY <1>2 DEF SendLatest, Latest, States, Fits
<1>3. CASE \E s \in Streams : SendBatch(t, s)
  <2>1. PICK s \in Streams, b \in {0, 1}, v \in Values :
          Begin(t, "batch", [kind |-> "batch", stream |-> s, buttons |-> b, value |-> v,
                             reliable |-> TRUE])
    BY <1>3 DEF SendBatch
  <2> DEFINE B == BOOLEAN
             p == [kind |-> "batch", stream |-> s, buttons |-> b, value |-> v, reliable |-> TRUE]
  <2>2. TRUE \in B
    OBVIOUS
  <2>3. Batch = [kind : {"batch"}, stream : Streams, buttons : {0, 1}, value : Values, reliable : B]
    BY DEF Batch
  <2>4. Begin(t, "batch", p)
    BY <2>1
  <2> HIDE DEF B
  <2>5. p \in Batch
    BY <2>2, <2>3
  <2> HIDE DEF p
  <2>6. Fits("batch", p)
    BY <2>5 DEF Fits
  <2>7. QED BY <2>4, <2>6
<1>4. CASE SendOther(t)
  BY <1>4 DEF SendOther, Fits
<1>5. QED BY <1>1, <1>2, <1>3, <1>4 DEF Starts

LEMMA CallStays ==
  ASSUME CallInv, NEW t \in Threads, NEW c, Becomes(t, c),
         \/ c = NoCall
         \/ \E s, k, v : /\ c = Call(s, k, v) /\ s \in {"state", "alloc", "offer"}
                         /\ s = "state" => k \in States
                         /\ (k = "move" /\ s = "state") \/ k = "batch" => Fits(k, v)
                         /\ k \in States \cup {"batch", "other"}
  PROVE  CallInv'
<1>1. call' = [u \in Threads |-> IF u = t THEN c ELSE call[u]]
  BY DEF CallInv, Becomes
<1>2. \A u \in Threads : call'[u] = IF u = t THEN c ELSE call[u]
  BY <1>1
<1>3. QED BY <1>1, <1>2 DEF CallInv

LEMMA CallShape ==
  ASSUME CallInv, NEW t \in Threads, call[t].stage # "none"
  PROVE  \E s, k, v : /\ call[t] = Call(s, k, v) /\ s \in {"state", "alloc", "offer"}
                      /\ s = "state" => k \in States
                      /\ (k = "move" /\ s = "state") \/ k = "batch" => Fits(k, v)
                      /\ k \in States \cup {"batch", "other"}
                      /\ s = call[t].stage /\ k = call[t].kind /\ v = call[t].value
  BY DEF CallInv, NoCall, Call

\* What allocatePacketHolder leaves of a call, a pen's included.
LEMMA AllocateBecomes ==
  ASSUME CallInv, NEW t \in Threads, Allocate(t)
  PROVE  \E k, w : /\ Becomes(t, Call("offer", k, w)) /\ (k = "batch" => Fits(k, w))
                   /\ k \in States \cup {"batch", "other"} /\ k = call[t].kind
<1>1. PICK s, k, v : /\ call[t] = Call(s, k, v) /\ k \in States \cup {"batch", "other"}
                     /\ k = "batch" => Fits(k, v)
                     /\ k = call[t].kind
  BY CallShape DEF Allocate
<1>2. CASE ~IsPen(call[t])
  <2>1. [call[t] EXCEPT !.stage = "offer"] = Call("offer", k, v)
    BY <1>1 DEF Call
  <2>2. call' = [call EXCEPT ![t] = [call[t] EXCEPT !.stage = "offer"]]
    BY <1>2 DEF Allocate
  <2>3. Becomes(t, Call("offer", k, v))
    BY <2>1, <2>2 DEF Becomes
  <2>4. QED BY <1>1, <2>3
<1>3. CASE IsPen(call[t])
  <2> DEFINE r == call[t].value.buttons # currentPenButtonState
             w == [v EXCEPT !.reliable = r]
  <2>0. call' = [call EXCEPT ![t].stage = "offer", ![t].value.reliable = r]
    BY <1>3 DEF Allocate
  <2> HIDE DEF r
  <2>1. k = "batch" /\ v \in Batch
    BY <1>1, <1>3 DEF IsPen, Call, Fits
  <2>2. r \in BOOLEAN
    BY DEF r
  <2>3. [call[t] EXCEPT !.stage = "offer", !.value.reliable = r] = Call("offer", k, w)
    <3> DEFINE c == Call(s, k, v)
               d == Call("offer", k, v)
    <3>1. [c EXCEPT !.stage = "offer"] = d
      BY DEF Call
    <3>2. ASSUME NEW x PROVE [d EXCEPT !.value = x] = Call("offer", k, x)
      BY DEF Call
    <3>3. d.value = v
      BY DEF Call
    <3> HIDE DEF c, d, Call
    <3>4. [c EXCEPT !.stage = "offer", !.value.reliable = r]
            = [[c EXCEPT !.stage = "offer"] EXCEPT !.value.reliable = r]
      OBVIOUS
    <3>5. [d EXCEPT !.value.reliable = r] = [d EXCEPT !.value = w]
      BY <3>3
    <3>6. QED BY <1>1, <3>1, <3>2, <3>4, <3>5 DEF c
  <2>4. call' = [call EXCEPT ![t] = [call[t] EXCEPT !.stage = "offer", !.value.reliable = r]]
    BY <2>0
  <2>5. Becomes(t, Call("offer", k, w))
    BY <2>3, <2>4 DEF Becomes
  <2>6. w \in Batch
    BY <2>1, <2>2 DEF Batch
  <2> HIDE DEF w
  <2>7. Fits(k, w)
    BY <2>1, <2>6 DEF Fits
  <2>8. QED BY <1>1, <2>1, <2>5, <2>7
<1>4. QED BY <1>2, <1>3

LEMMA CallInit == Init => CallInv
  BY DEF Init, CallInv, NoCall

LEMMA CallStep == CallInv /\ [Next]_vars => CallInv'
<1> SUFFICES ASSUME CallInv, [Next]_vars PROVE CallInv'
  OBVIOUS
<1>n. ASSUME UNCHANGED call PROVE CallInv'
  BY <1>n DEF CallInv
<1>1. ASSUME NEW t \in Threads, Starts(t) PROVE CallInv'
  <2>1. PICK k, v : Begin(t, k, v) /\ Fits(k, v)
    BY <1>1, BeginKind
  <2> DEFINE s == IF k \in States THEN "state" ELSE "alloc"
  <2>2. Becomes(t, Call(s, k, v))
    BY <2>1 DEF Begin, Becomes, Call
  <2>3. s \in {"state", "alloc", "offer"} /\ (s = "state" => k \in States)
    OBVIOUS
  <2> HIDE DEF s
  <2>4. QED BY <2>1, <2>2, <2>3, CallStays DEF Fits
<1>2. ASSUME NEW t \in Threads, Goes(t) PROVE CallInv'
  <2>1. CASE Becomes(t, NoCall)
    BY <2>1, CallStays
  <2>2. CASE Update(t) /\ call' = [call EXCEPT ![t].stage = "alloc"]
    <3>1. PICK s, k, v : /\ call[t] = Call(s, k, v) /\ s = "state" /\ k \in States
                         /\ k = "batch" => Fits(k, v)
      BY <2>2, CallShape DEF Update
    <3>2. [call[t] EXCEPT !.stage = "alloc"] = Call("alloc", k, v)
      BY <3>1 DEF Call
    <3>3. call' = [call EXCEPT ![t] = [call[t] EXCEPT !.stage = "alloc"]]
      BY <2>2
    <3>4. Becomes(t, Call("alloc", k, v))
      BY <3>2, <3>3 DEF Becomes
    <3>5. QED BY <3>1, <3>4, CallStays
  <2>3. CASE Allocate(t)
    <3>1. PICK k, w : /\ Becomes(t, Call("offer", k, w)) /\ (k = "batch" => Fits(k, w))
                      /\ k \in States \cup {"batch", "other"}
      BY <2>3, AllocateBecomes
    <3>2. QED BY <3>1, CallStays
  <2>4. QED BY <1>2, <2>1, <2>2, <2>3
           DEF Goes, Update, AllocateFails, OfferFails, Offer, Fail, Return, Becomes
<1>3. CASE inputSendThreadProc
  BY <1>n, <1>3 DEF inputSendThreadProc, TakePacket, JoinPacket, EndBatch, SplitMove, SendChunk,
     EndMove, TakeState, SendPacket, SendFails, Finish, threadVars, clientVars
<1>4. CASE stopInputStream \/ UNCHANGED vars
  BY <1>n, <1>4 DEF stopInputStream, StopBegins, CloseFreeList, Drain, Join, otherVars,
                    clientVars, vars
<1>5. QED BY <1>1, <1>2, <1>3, <1>4 DEF Next

-------------------------------------------------------------------------------
(* Packets. *)

PacketKinds == States \cup {"batch", "other"}

LEMMA PacketKind == \A p \in Packets : p.kind \in PacketKinds
  BY DEF Packets, Batch, PacketKinds

LEMMA QueueStep == CallInv /\ packetQueue \in Seq(Packets) /\ [Next]_vars
                     => packetQueue' \in Seq(Packets)
<1> SUFFICES ASSUME CallInv, packetQueue \in Seq(Packets), [Next]_vars
             PROVE packetQueue' \in Seq(Packets)
  OBVIOUS
<1>1. ASSUME NEW t \in Threads, Starts(t) PROVE packetQueue' = packetQueue
  <2>1. PICK k, v : Begin(t, k, v)
    BY <1>1, BeginKind
  <2>2. QED BY <2>1 DEF Begin
<1>2. ASSUME NEW t \in Threads, Goes(t) PROVE packetQueue' \in Seq(Packets)
  <2>1. CASE Update(t) \/ AllocateFails(t) \/ Allocate(t) \/ OfferFails(t)
    BY <2>1 DEF Update, AllocateFails, Allocate, OfferFails, Fail
  <2>2. CASE Offer(t)
    <3>1. PICK s, k, v : /\ call[t] = Call(s, k, v) /\ k \in PacketKinds
                         /\ k = "batch" => v \in Batch
                         /\ k = call[t].kind /\ v = call[t].value
      BY <2>2, CallShape DEF Offer, Fits, PacketKinds
    <3>2. CASE k = "batch"
      <4>1. packetQueue' = Append(packetQueue, v)
        BY <2>2, <3>1, <3>2 DEF Offer
      <4>2. v \in Packets
        BY <3>1, <3>2 DEF Packets
      <4>3. QED BY <4>1, <4>2
    <3>3. CASE k # "batch"
      <4>1. packetQueue' = Append(packetQueue, [kind |-> k])
        BY <2>2, <3>1, <3>3 DEF Offer
      <4>2. [kind |-> k] \in Packets
        BY <3>1, <3>3 DEF Packets, PacketKinds
      <4>3. QED BY <4>1, <4>2
    <3>4. QED BY <3>2, <3>3
  <2>3. QED BY <1>2, <2>1, <2>2 DEF Goes
<1>3. CASE inputSendThreadProc
  <2>1. CASE TakePacket \/ JoinPacket
    <3>1. packetQueue # << >> /\ packetQueue' = Tail(packetQueue)
      BY <2>1 DEF TakePacket, JoinPacket, NextJoins
    <3>2. QED BY <3>1
  <2>2. QED BY <1>3, <2>1 DEF inputSendThreadProc, EndBatch, SplitMove, SendChunk,
     EndMove, TakeState, SendPacket, SendFails, Finish
<1>4. CASE stopInputStream \/ UNCHANGED vars
  BY <1>4 DEF stopInputStream, StopBegins, CloseFreeList, Drain, Join, otherVars, vars
<1>5. QED BY <1>1, <1>2, <1>3, <1>4 DEF Next

-------------------------------------------------------------------------------
(* Motion.  A call adds to what is owed what it adds to the rest; a chunk  *)
(* is taken from the rest, and from what is owed once it is sent.          *)

MotionInv ==
  /\ CallInv /\ packetQueue \in Seq(Packets)
  /\ delta \in Motions /\ owed \in Motions
  /\ spc = "chunk" => holder.chunk \in Motions
  /\ MotionConserved

motionVars == <<delta, owed, spc, holder, failed>>

LEMMA MotionInit == Init => MotionInv
<1> SUFFICES ASSUME Init PROVE MotionInv
  OBVIOUS
<1>1. CallInv
  BY CallInit
<1>2. delta = Zero /\ owed = Zero /\ spc = "wait"
  BY DEF Init
<1>3. Zero \in Motions /\ \A a \in Axes : Zero[a] = 0
  BY DEF Zero, Motions
<1>4. MotionConserved
  BY <1>2, <1>3 DEF MotionConserved
<1>5. packetQueue \in Seq(Packets)
  BY DEF Init
<1>6. QED BY <1>1, <1>2, <1>3, <1>4, <1>5 DEF MotionInv

LEMMA MotionStep == MotionInv /\ [Next]_vars => MotionInv'
<1> SUFFICES ASSUME MotionInv, [Next]_vars PROVE MotionInv'
  OBVIOUS
<1>0. CallInv /\ CallInv' /\ packetQueue' \in Seq(Packets)
  BY CallStep, QueueStep DEF MotionInv
<1>n. ASSUME UNCHANGED motionVars PROVE MotionInv'
  BY <1>0, <1>n DEF MotionInv, MotionConserved, motionVars
<1>m. ASSUME UNCHANGED <<delta, owed, failed>>, spc # "chunk", spc' # "chunk" PROVE MotionInv'
  BY <1>0, <1>m DEF MotionInv, MotionConserved
<1>1. ASSUME NEW t \in Threads, Starts(t) PROVE MotionInv'
  <2>1. PICK k, v : Begin(t, k, v)
    BY <1>1, BeginKind
  <2>2. QED BY <1>n, <2>1 DEF Begin, stateVars, motionVars
<1>2. ASSUME NEW t \in Threads, Goes(t) PROVE MotionInv'
  <2>1. CASE Update(t) /\ call[t].kind = "move"
    <3>1. call[t].value \in Motions /\ UNCHANGED <<spc, holder, failed>>
      BY <1>0, <2>1, CallShape DEF Update, Fits
    <3> DEFINE v == call[t].value
    <3>2. /\ delta' = [a \in Axes |-> delta[a] + v[a]]
          /\ owed' = [a \in Axes |-> owed[a] + v[a]]
      BY <2>1 DEF Update
    <3>3. v \in Motions /\ delta \in Motions /\ owed \in Motions
      BY <3>1 DEF MotionInv
    <3> HIDE DEF v
    <3>4. delta' \in Motions /\ owed' \in Motions
      BY <3>2, <3>3 DEF Motions
    <3>5. spc = "chunk" => holder.chunk \in Motions
      BY DEF MotionInv
    <3>6. MotionConserved'
      BY <3>1, <3>2, <3>3, <3>5 DEF MotionInv, MotionConserved, Motions, Zero
    <3>7. QED BY <1>0, <3>1, <3>4, <3>5, <3>6 DEF MotionInv
  <2>2. CASE Update(t) /\ call[t].kind # "move"
    BY <1>n, <2>2 DEF Update, motionVars
  <2>3. CASE AllocateFails(t) \/ Allocate(t) \/ OfferFails(t) \/ Offer(t)
    BY <1>n, <2>3 DEF AllocateFails, Allocate, OfferFails, Offer, Fail, stateVars, motionVars
  <2>4. QED BY <1>2, <2>1, <2>2, <2>3 DEF Goes
<1>3. CASE inputSendThreadProc
  <2>1. CASE TakePacket
    <3>1. UNCHANGED <<delta, owed, failed>> /\ spc = "wait"
      BY <2>1 DEF TakePacket, stateVars
    <3>2. holder' \in Packets
      BY <2>1 DEF TakePacket, MotionInv
    <3>3. spc' # "chunk"
      BY <2>1, <3>2, PacketKind DEF TakePacket, PacketKinds, States, Latest
    <3>4. QED BY <1>m, <3>1, <3>3
  <2>2. CASE JoinPacket \/ EndBatch \/ TakeState \/ SendPacket \/ EndMove
    BY <1>m, <2>2 DEF JoinPacket, EndBatch, TakeState, SendPacket, EndMove, stateVars, Zero
  <2>3. CASE SplitMove
    <3>1. /\ spc' = "chunk" /\ holder'.chunk = Chunk /\ delta' = AfterChunk
          /\ spc = "move" /\ UNCHANGED <<owed, failed>>
      BY <2>3 DEF SplitMove
    <3>2. delta \in Motions /\ owed \in Motions
      BY DEF MotionInv
    <3>3. Chunk \in Motions /\ \A a \in Axes : Chunk[a] \in Int
      BY <3>2 DEF Chunk, Motions, Clip
    <3>4. AfterChunk \in Motions /\ \A a \in Axes : AfterChunk[a] + Chunk[a] = delta[a]
      BY <3>2, <3>3 DEF AfterChunk, Motions
    <3>5. ~failed => \A a \in Axes : owed[a] = delta[a]
      BY <3>1, <3>2 DEF MotionInv, MotionConserved, Zero, Motions
    <3>6. MotionConserved'
      BY <3>1, <3>4, <3>5 DEF MotionConserved
    <3>7. QED BY <1>0, <3>1, <3>2, <3>3, <3>4, <3>6 DEF MotionInv
  <2>4. CASE SendChunk
    <3>1. /\ spc = "chunk" /\ spc' = "move" /\ UNCHANGED <<delta, failed>>
          /\ owed' = [a \in Axes |-> owed[a] - holder.chunk[a]]
      BY <2>4 DEF SendChunk, stateVars
    <3> DEFINE c == holder.chunk
    <3>2. c \in Motions /\ delta \in Motions /\ owed \in Motions
      BY <3>1 DEF MotionInv
    <3>3. ~failed => \A a \in Axes : owed[a] = delta[a] + c[a]
      BY <3>1 DEF MotionInv, MotionConserved
    <3>4. owed' = [a \in Axes |-> owed[a] - c[a]]
      BY <3>1
    <3> HIDE DEF c
    <3>5. owed' \in Motions
      BY <3>2, <3>4 DEF Motions
    <3>6. MotionConserved'
      BY <3>1, <3>2, <3>3, <3>4 DEF MotionConserved, Zero, Motions
    <3>7. QED BY <1>0, <3>1, <3>2, <3>5, <3>6 DEF MotionInv
  <2>5. CASE SendFails
    <3>1. failed' /\ spc' = "dead" /\ UNCHANGED <<delta, owed>>
      BY <2>5 DEF SendFails, stateVars
    <3>2. QED BY <1>0, <3>1 DEF MotionInv, MotionConserved
  <2>6. CASE Finish
    BY <1>m, <2>6 DEF Finish, stateVars
  <2>7. QED BY <1>3, <2>1, <2>2, <2>3, <2>4, <2>5, <2>6 DEF inputSendThreadProc
<1>4. CASE stopInputStream \/ UNCHANGED vars
  BY <1>n, <1>4 DEF stopInputStream, StopBegins, CloseFreeList, Drain, Join, otherVars, stateVars,
                    vars, motionVars
<1>5. QED BY <1>1, <1>2, <1>3, <1>4 DEF Next

(* Whatever arrives while a motion is split and sent, none is lost or sent *)
(* twice.                                                                  *)
THEOREM MotionIsConserved == Spec => []MotionConserved
<1>1. MotionInv => MotionConserved
  BY DEF MotionInv
<1>2. QED BY <1>1, MotionInit, MotionStep, PTL DEF Spec

-------------------------------------------------------------------------------
(* Packets of a kind in a queue. *)

Queued(q, k) == \E i \in DOMAIN q : q[i].kind = k
Once(q, k) == \A i, j \in DOMAIN q : q[i].kind = k /\ q[j].kind = k => i = j

LEMMA OfAppended ==
  ASSUME NEW q \in Seq(Packets), NEW p \in Packets, NEW k
  PROVE  /\ Queued(Append(q, p), k) <=> Queued(q, k) \/ p.kind = k
         /\ Once(q, k) /\ (p.kind = k => ~Queued(q, k)) => Once(Append(q, p), k)
<1> DEFINE r == Append(q, p)
<1>1. /\ DOMAIN r = 1 .. Len(q) + 1 /\ DOMAIN q = 1 .. Len(q) /\ Len(q) \in Nat
      /\ \A i \in 1 .. Len(q) : r[i] = q[i]
      /\ r[Len(q) + 1] = p
  OBVIOUS
<1> HIDE DEF r
<1>2. Queued(r, k) <=> Queued(q, k) \/ p.kind = k
  BY <1>1 DEF Queued
<1>3. Once(q, k) /\ (p.kind = k => ~Queued(q, k)) => Once(r, k)
  BY <1>1 DEF Queued, Once
<1>4. QED BY <1>2, <1>3 DEF r

LEMMA OfTail ==
  ASSUME NEW q \in Seq(Packets), q # << >>, NEW k
  PROVE  /\ Queued(q, k) <=> Queued(Tail(q), k) \/ Head(q).kind = k
         /\ Once(q, k) => Once(Tail(q), k) /\ (Head(q).kind = k => ~Queued(Tail(q), k))
<1> DEFINE r == Tail(q)
<1>1. /\ DOMAIN r = 1 .. Len(q) - 1 /\ DOMAIN q = 1 .. Len(q) /\ Len(q) \in Nat \ {0}
      /\ \A i \in 1 .. Len(q) - 1 : r[i] = q[i + 1]
      /\ Head(q) = q[1]
  OBVIOUS
<1> HIDE DEF r
<1>2. \A i \in DOMAIN q : i = 1 \/ (i - 1 \in DOMAIN r /\ q[i] = r[i - 1])
  BY <1>1
<1>3. \A i \in DOMAIN r : i + 1 \in DOMAIN q /\ r[i] = q[i + 1] /\ i + 1 # 1
  BY <1>1
<1>a. Queued(q, k) => Queued(r, k) \/ Head(q).kind = k
  BY <1>1, <1>2 DEF Queued
<1>b. Queued(r, k) => Queued(q, k)
  BY <1>3 DEF Queued
<1>c. Head(q).kind = k => Queued(q, k)
  <2>1. 1 \in DOMAIN q
    BY <1>1
  <2>2. QED BY <1>1, <2>1 DEF Queued
<1>4. Queued(q, k) <=> Queued(r, k) \/ Head(q).kind = k
  BY <1>a, <1>b, <1>c
<1>5. Once(q, k) => Once(r, k)
  BY <1>1, <1>3 DEF Once
<1>6. Once(q, k) /\ Head(q).kind = k => ~Queued(r, k)
  <2> SUFFICES ASSUME Once(q, k), Head(q).kind = k, NEW i \in DOMAIN r PROVE r[i].kind # k
    BY DEF Queued
  <2>1. 1 \in DOMAIN q /\ q[1].kind = k
    BY <1>1
  <2>2. i + 1 \in DOMAIN q /\ r[i] = q[i + 1] /\ i + 1 # 1
    BY <1>3
  <2>3. QED BY <2>1, <2>2 DEF Once
<1>7. QED BY <1>4, <1>5, <1>6 DEF r

LEMMA HowMany ==
  ASSUME NEW q, NEW k, Once(q, k)
  PROVE  Cardinality({i \in DOMAIN q : q[i].kind = k}) = IF Queued(q, k) THEN 1 ELSE 0
<1> DEFINE S == {i \in DOMAIN q : q[i].kind = k}
<1>1. CASE Queued(q, k)
  <2>1. PICK i \in DOMAIN q : q[i].kind = k
    BY <1>1 DEF Queued
  <2>2. S = {i}
    BY <2>1 DEF Once
  <2>3. QED BY <1>1, <2>2, FS_Singleton
<1>2. CASE ~Queued(q, k)
  <2>1. S = {}
    BY <1>2 DEF Queued
  <2>2. QED BY <1>2, <2>1, FS_EmptySet
<1>3. QED BY <1>1, <1>2

-------------------------------------------------------------------------------
(* What the input thread holds. *)

HeldInv ==
  /\ spc \in {"wait", "batch", "move", "chunk", "state", "send", "done", "dead"}
  /\ spc = "dead" => failed
  /\ spc \in {"wait", "done"} => holder = NoPacket
  /\ spc = "batch" => holder \in Batch
  /\ spc = "state" => holder.kind \in Latest
  /\ spc = "move" => holder.kind \in {"move", "none"}
  /\ spc = "chunk" => holder.kind = "move"

ThreadInv == CallInv /\ packetQueue \in Seq(Packets) /\ HeldInv

LEMMA ThreadInit == Init => ThreadInv
<1> SUFFICES ASSUME Init PROVE ThreadInv
  OBVIOUS
<1>1. spc = "wait" /\ holder = NoPacket /\ packetQueue = << >>
  BY DEF Init
<1>2. QED BY <1>1, CallInit DEF ThreadInv, HeldInv

LEMMA ThreadStep == ThreadInv /\ [Next]_vars => ThreadInv'
<1> SUFFICES ASSUME ThreadInv, [Next]_vars PROVE ThreadInv'
  OBVIOUS
<1>0. CallInv' /\ packetQueue' \in Seq(Packets) /\ packetQueue \in Seq(Packets) /\ HeldInv
  BY CallStep, QueueStep DEF ThreadInv
<1> SUFFICES HeldInv'
  BY <1>0 DEF ThreadInv
<1>n. ASSUME UNCHANGED <<spc, holder, failed>> PROVE HeldInv'
  BY <1>0, <1>n DEF HeldInv
<1>1. ASSUME NEW t \in Threads, Starts(t) PROVE HeldInv'
  <2>1. PICK k, v : Begin(t, k, v)
    BY <1>1, BeginKind
  <2>2. QED BY <1>n, <2>1 DEF Begin
<1>2. ASSUME NEW t \in Threads, Goes(t) PROVE HeldInv'
  BY <1>n, <1>2 DEF Goes, Update, AllocateFails, Allocate, OfferFails, Offer, Fail
<1>3. CASE inputSendThreadProc
  <2>1. CASE TakePacket
    <3>1. holder' \in Packets /\ UNCHANGED failed
      BY <1>0, <2>1 DEF TakePacket
    <3>2. holder'.kind \in PacketKinds
      BY <3>1, PacketKind
    <3>3. holder'.kind = "batch" => holder' \in Batch
      BY <3>1 DEF Packets, States, Latest
    <3>4. CASE holder'.kind \in Latest
      BY <2>1, <3>4 DEF TakePacket, HeldInv
    <3>5. CASE holder'.kind = "other"
      BY <2>1, <3>5 DEF TakePacket, HeldInv, Latest
    <3>6. CASE holder'.kind \in {"batch", "move"}
      <4>1. spc' = holder'.kind
        BY <2>1, <3>6 DEF TakePacket, Latest
      <4>2. QED BY <3>3, <3>6, <4>1 DEF HeldInv
    <3>7. QED BY <3>2, <3>4, <3>5, <3>6 DEF PacketKinds, States
  <2>2. CASE JoinPacket
    <3>1. Head(packetQueue) \in Packets /\ Head(packetQueue).kind = "batch"
      BY <1>0, <2>2 DEF JoinPacket, NextJoins, Joins
    <3>2. Head(packetQueue) \in Batch /\ holder \in Batch
      BY <1>0, <2>2, <3>1 DEF JoinPacket, HeldInv, Packets, States, Latest
    <3> DEFINE B == BOOLEAN
    <3>3. Batch = [kind : {"batch"}, stream : Streams, buttons : {0, 1}, value : Values,
                   reliable : B]
      BY DEF Batch
    <3> HIDE DEF B
    <3>4. [holder EXCEPT !.value = Head(packetQueue).value] \in Batch
      BY <3>2, <3>3
    <3>5. holder' \in Batch /\ spc' = "batch"
      BY <2>2, <3>2, <3>4 DEF JoinPacket
    <3>6. QED BY <3>5 DEF HeldInv
  <2>3. CASE EndBatch \/ TakeState
    BY <2>3 DEF EndBatch, TakeState, HeldInv
  <2>4. CASE SplitMove
    <3>1. spc' = "chunk" /\ holder'.kind = "move"
      BY <2>4 DEF SplitMove
    <3>2. QED BY <3>1 DEF HeldInv
  <2>5. CASE SendChunk \/ EndMove \/ SendPacket
    <3>1. spc' \in {"move", "wait"} /\ holder' = NoPacket
      BY <2>5 DEF SendChunk, EndMove, SendPacket
    <3>2. holder'.kind = "none"
      BY <3>1 DEF NoPacket
    <3>3. QED BY <3>1, <3>2 DEF HeldInv
  <2>6. CASE SendFails
    BY <2>6 DEF SendFails, HeldInv
  <2>7. CASE Finish
    BY <1>0, <2>7 DEF Finish, HeldInv
  <2>8. QED BY <1>3, <2>1, <2>2, <2>3, <2>4, <2>5, <2>6, <2>7 DEF inputSendThreadProc
<1>4. CASE stopInputStream \/ UNCHANGED vars
  BY <1>n, <1>4 DEF stopInputStream, StopBegins, CloseFreeList, Drain, Join, otherVars, vars
<1>5. QED BY <1>1, <1>2, <1>3, <1>4 DEF Next

-------------------------------------------------------------------------------
(* Which states are dirty. *)

IsHeld(k) == (holder.kind = k /\ spc # "send") \/ (k = "move" /\ spc \in {"move", "chunk"})
Queues(t) == call[t].stage \in {"alloc", "offer"} /\ call[t].kind \in States

\* A call that is to queue a state's packet found none queued, and keeps the mutex.
LockInv ==
  /\ dirty = [k \in States |-> dirty[k]]
  /\ \A t \in Threads : Queues(t) => batchedInputMutex = t /\ ~dirty[call[t].kind]

StateInv ==
  \A k \in States :
    /\ Once(packetQueue, k)
    /\ ~(Queued(packetQueue, k) /\ IsHeld(k))
    /\ dirty[k] <=> Queued(packetQueue, k) \/ IsHeld(k)

DirtyInv == ThreadInv /\ LockInv /\ (~failed => StateInv)

LEMMA DirtyInit == Init => DirtyInv
<1> SUFFICES ASSUME Init PROVE DirtyInv
  OBVIOUS
<1>1. /\ spc = "wait" /\ holder.kind = "none" /\ packetQueue = << >> /\ ~failed
      /\ dirty = [k \in States |-> FALSE] /\ \A t \in Threads : call[t].stage = "none"
  BY DEF Init, NoPacket, NoCall
<1>2. ThreadInv
  BY ThreadInit
<1>3. LockInv
  BY <1>1 DEF LockInv, Queues
<1>4. StateInv
  BY <1>1 DEF StateInv, IsHeld, Once, Queued, States, Latest
<1>5. QED BY <1>2, <1>3, <1>4 DEF DirtyInv

LEMMA LockStep == ThreadInv /\ LockInv /\ [Next]_vars => LockInv'
<1> SUFFICES ASSUME ThreadInv, LockInv, [Next]_vars PROVE LockInv'
  OBVIOUS
<1>0. CallInv
  BY DEF ThreadInv
<1>c. ASSUME NEW t \in Threads, NEW c, Becomes(t, c)
      PROVE  call'[t] = c /\ \A u \in Threads \ {t} : call'[u] = call[u]
  BY <1>0, <1>c DEF CallInv, Becomes
<1>q. ASSUME NEW t \in Threads, NEW c, Becomes(t, c), UNCHANGED dirty,
             c.stage \in {"alloc", "offer"} /\ c.kind \in States
               => batchedInputMutex' = t /\ ~dirty[c.kind],
             \A u \in Threads \ {t} : batchedInputMutex = u => batchedInputMutex' = u
      PROVE  LockInv'
  BY <1>q, <1>c DEF LockInv, Queues
<1>n. ASSUME UNCHANGED <<call, batchedInputMutex>>,
             \/ UNCHANGED dirty
             \/ \E k : dirty' = [dirty EXCEPT ![k] = FALSE]
      PROVE  LockInv'
  BY <1>n DEF LockInv, Queues
<1>1. ASSUME NEW t \in Threads, Starts(t) PROVE LockInv'
  <2>1. PICK k, v : Begin(t, k, v)
    BY <1>1, BeginKind
  <2> DEFINE s == IF k \in States THEN "state" ELSE "alloc"
  <2>2. Becomes(t, Call(s, k, v)) /\ UNCHANGED <<dirty, batchedInputMutex>>
    BY <2>1 DEF Begin, Becomes, Call, stateVars
  <2>3. Call(s, k, v).stage \in {"alloc", "offer"} => Call(s, k, v).kind \notin States
    BY DEF Call
  <2> HIDE DEF s
  <2>4. QED BY <1>q, <2>2, <2>3
<1>2. ASSUME NEW t \in Threads, Goes(t) PROVE LockInv'
  <2>0. \A c : Becomes(t, c) => call'[t] = c
    BY <1>c
  <2>1. CASE Update(t) /\ dirty[call[t].kind]
    <3>1. Becomes(t, NoCall) /\ UNCHANGED <<dirty, batchedInputMutex>>
      BY <2>1 DEF Update, Becomes
    <3>2. QED BY <1>q, <3>1 DEF NoCall
  <2>2. CASE Update(t) /\ ~dirty[call[t].kind]
    <3>1. PICK k, v : call[t] = Call("state", k, v)
      BY <1>0, <2>2, CallShape DEF Update
    <3>2. [call[t] EXCEPT !.stage = "alloc"] = Call("alloc", k, v)
      BY <3>1 DEF Call
    <3>3. call' = [call EXCEPT ![t] = [call[t] EXCEPT !.stage = "alloc"]]
      BY <2>2 DEF Update
    <3>4. Becomes(t, Call("alloc", k, v))
      BY <3>2, <3>3 DEF Becomes
    <3>5. batchedInputMutex = "free" /\ batchedInputMutex' = t /\ UNCHANGED dirty
      BY <2>2 DEF Update
    <3>6. Call("alloc", k, v).kind = k /\ ~dirty[k]
      BY <2>2, <3>1 DEF Call
    <3>7. \A u \in Threads : batchedInputMutex # u
      BY <3>5, InputAssumption DEF InputAssumption
    <3>8. QED BY <1>q, <3>4, <3>5, <3>6, <3>7
  <2>3. CASE Allocate(t)
    <3>1. UNCHANGED <<dirty, batchedInputMutex>> /\ call[t].stage = "alloc"
      BY <2>3 DEF Allocate, stateVars
    <3>2. PICK k, w : Becomes(t, Call("offer", k, w)) /\ k = call[t].kind
      BY <1>0, <2>3, AllocateBecomes
    <3>3. Call("offer", k, w).kind = k
      BY DEF Call
    <3>4. k \in States => batchedInputMutex = t /\ ~dirty[k]
      BY <3>1, <3>2 DEF LockInv, Queues
    <3>5. QED BY <1>q, <3>1, <3>2, <3>3, <3>4
  <2>4. CASE AllocateFails(t) \/ OfferFails(t)
    <3>1. Becomes(t, NoCall) /\ UNCHANGED dirty
      BY <2>4 DEF AllocateFails, OfferFails, Fail, Return, Becomes, stateVars
    <3>2. \A u \in Threads \ {t} : batchedInputMutex = u => batchedInputMutex' = u
      BY <2>4 DEF AllocateFails, OfferFails, Fail, Return
    <3>3. QED BY <1>q, <3>1, <3>2 DEF NoCall
  <2>5. CASE Offer(t)
    <3> DEFINE c == call[t].kind
    <3>1. /\ Becomes(t, NoCall) /\ call[t].stage = "offer"
          /\ dirty' = [k \in States |-> dirty[k] \/ k = c]
          /\ \A u \in Threads \ {t} : batchedInputMutex = u => batchedInputMutex' = u
      BY <2>5 DEF Offer, Return, Becomes
    <3>2. call'[t].stage = "none" /\ \A u \in Threads \ {t} : call'[u] = call[u]
      BY <1>c, <3>1 DEF NoCall
    <3>3. c \in States => batchedInputMutex = t
      BY <3>1 DEF LockInv, Queues
    <3>4. ASSUME NEW u \in Threads, Queues(u)'
          PROVE  batchedInputMutex' = u /\ ~dirty'[call'[u].kind]
      <4>1. u # t /\ call'[u] = call[u] /\ Queues(u)
        BY <3>2, <3>4 DEF Queues
      <4>2. batchedInputMutex = u /\ ~dirty[call[u].kind] /\ call[u].kind \in States
        BY <4>1 DEF LockInv, Queues
      <4>3. call[u].kind # c
        BY <3>3, <4>1, <4>2
      <4> DEFINE k == call[u].kind
      <4>4. k \in States /\ k # c /\ ~dirty[k]
        BY <4>2, <4>3
      <4> HIDE DEF k, c
      <4>5. ~dirty'[k]
        BY <3>1, <4>4
      <4>6. QED BY <3>1, <4>1, <4>2, <4>5 DEF k
    <3>5. QED BY <3>1, <3>4 DEF LockInv
  <2>6. QED BY <1>2, <2>1, <2>2, <2>3, <2>4, <2>5 DEF Goes
<1>3. CASE inputSendThreadProc
  BY <1>n, <1>3 DEF inputSendThreadProc, TakePacket, JoinPacket, EndBatch, SplitMove, SendChunk,
     EndMove, TakeState, SendPacket, SendFails, Finish, threadVars, clientVars, stateVars, Free
<1>4. CASE stopInputStream \/ UNCHANGED vars
  BY <1>n, <1>4 DEF stopInputStream, StopBegins, CloseFreeList, Drain, Join, otherVars, clientVars,
                    stateVars, vars
<1>5. QED BY <1>1, <1>2, <1>3, <1>4 DEF Next

LEMMA StateStep == DirtyInv /\ [Next]_vars /\ ~failed' => StateInv'
<1> SUFFICES ASSUME DirtyInv, [Next]_vars, ~failed' PROVE StateInv'
  OBVIOUS
<1>0. CallInv /\ packetQueue \in Seq(Packets) /\ HeldInv /\ LockInv
  BY DEF DirtyInv, ThreadInv
<1>n. ASSUME UNCHANGED <<packetQueue, spc, holder, dirty, failed>> PROVE StateInv'
  BY <1>n DEF DirtyInv, StateInv, IsHeld
<1>1. ASSUME NEW t \in Threads, Starts(t) PROVE StateInv'
  <2>1. PICK k, v : Begin(t, k, v)
    BY <1>1, BeginKind
  <2>2. QED BY <1>n, <2>1 DEF Begin, stateVars
<1>2. ASSUME NEW t \in Threads, Goes(t) PROVE StateInv'
  <2>1. CASE Update(t) \/ AllocateFails(t) \/ Allocate(t) \/ OfferFails(t)
    BY <1>n, <2>1 DEF Update, AllocateFails, Allocate, OfferFails, Fail, stateVars
  <2>2. CASE Offer(t)
    <3> DEFINE c == call[t].kind
    <3>1. /\ UNCHANGED <<spc, holder, failed>> /\ call[t].stage = "offer"
          /\ dirty' = [k \in States |-> dirty[k] \/ k = c]
      BY <2>2 DEF Offer
    <3>2. PICK p \in Packets : packetQueue' = Append(packetQueue, p) /\ p.kind = c
      <4>1. PICK s, k, v : /\ call[t] = Call(s, k, v) /\ k \in PacketKinds
                           /\ k = "batch" => v \in Batch
                           /\ k = call[t].kind /\ v = call[t].value
        BY <1>0, <3>1, CallShape DEF Fits, PacketKinds
      <4>2. CASE k = "batch"
        <5>1. packetQueue' = Append(packetQueue, v)
          BY <2>2, <4>1, <4>2 DEF Offer
        <5>2. v \in Packets /\ v.kind = k
          BY <4>1, <4>2 DEF Packets, Batch
        <5>3. QED BY <4>1, <5>1, <5>2
      <4>3. CASE k # "batch"
        <5>1. packetQueue' = Append(packetQueue, [kind |-> k])
          BY <2>2, <4>1, <4>3 DEF Offer
        <5>2. [kind |-> k] \in Packets /\ [kind |-> k].kind = k
          BY <4>1, <4>3 DEF Packets, PacketKinds
        <5>3. QED BY <4>1, <5>1, <5>2
      <4>4. QED BY <4>2, <4>3
    <3>3. c \in States => ~dirty[c]
      BY <1>0, <3>1 DEF LockInv, Queues
    <3> HIDE DEF c
    <3> SUFFICES ASSUME NEW k \in States
                 PROVE  /\ Once(packetQueue', k)
                        /\ ~(Queued(packetQueue', k) /\ IsHeld(k)')
                        /\ dirty'[k] <=> Queued(packetQueue', k) \/ IsHeld(k)'
      BY DEF StateInv
    <3>4. IsHeld(k)' <=> IsHeld(k)
      BY <3>1 DEF IsHeld
    <3>5. dirty'[k] <=> dirty[k] \/ k = c
      BY <3>1
    <3>6. /\ Once(packetQueue, k)
          /\ ~(Queued(packetQueue, k) /\ IsHeld(k))
          /\ dirty[k] <=> Queued(packetQueue, k) \/ IsHeld(k)
      BY <3>1 DEF DirtyInv, StateInv
    <3>7. k = c => ~dirty[k]
      BY <3>3
    <3>8. /\ Queued(packetQueue', k) <=> Queued(packetQueue, k) \/ c = k
          /\ Once(packetQueue, k) /\ (c = k => ~Queued(packetQueue, k)) => Once(packetQueue', k)
      BY <1>0, <3>2, OfAppended
    <3>9. QED BY <3>4, <3>5, <3>6, <3>7, <3>8, Zenon
  <2>3. QED BY <1>2, <2>1, <2>2 DEF Goes
<1>3. CASE inputSendThreadProc
  <2> SUFFICES ASSUME NEW k \in States
               PROVE  /\ Once(packetQueue', k)
                      /\ ~(Queued(packetQueue', k) /\ IsHeld(k)')
                      /\ dirty'[k] <=> Queued(packetQueue', k) \/ IsHeld(k)'
    BY DEF StateInv
  <2>a. ~failed
    BY <1>3 DEF inputSendThreadProc, TakePacket, JoinPacket, EndBatch, SplitMove, SendChunk,
       EndMove, TakeState, SendPacket, SendFails, Finish
  <2>b. /\ Once(packetQueue, k)
        /\ ~(Queued(packetQueue, k) /\ IsHeld(k))
        /\ dirty[k] <=> Queued(packetQueue, k) \/ IsHeld(k)
    BY <2>a DEF DirtyInv, StateInv
  <2>m. ASSUME packetQueue # << >>, packetQueue' = Tail(packetQueue), UNCHANGED dirty, ~IsHeld(k),
               IsHeld(k)' <=> Head(packetQueue).kind = k
        PROVE  /\ Once(packetQueue', k)
               /\ ~(Queued(packetQueue', k) /\ IsHeld(k)')
               /\ dirty'[k] <=> Queued(packetQueue', k) \/ IsHeld(k)'
    <3>1. /\ Queued(packetQueue, k) <=> Queued(packetQueue', k) \/ Head(packetQueue).kind = k
          /\ Once(packetQueue, k) =>
               /\ Once(packetQueue', k)
               /\ Head(packetQueue).kind = k => ~Queued(packetQueue', k)
      BY <1>0, <2>m, OfTail
    <3>2. QED BY <2>b, <2>m, <3>1, Zenon
  <2>1. CASE TakePacket
    <3> DEFINE h == Head(packetQueue).kind
    <3>1. /\ spc = "wait" /\ packetQueue # << >> /\ packetQueue' = Tail(packetQueue)
          /\ UNCHANGED dirty /\ holder'.kind = h
          /\ spc' = CASE h \in Latest -> "state" [] h = "other" -> "send" [] OTHER -> h
      BY <2>1 DEF TakePacket, stateVars
    <3>2. h \in PacketKinds
      BY <1>0, <3>1, PacketKind
    <3>3. ~IsHeld(k)
      BY <1>0, <3>1 DEF HeldInv, IsHeld, NoPacket, States, Latest
    <3> HIDE DEF h
    <3>4. IsHeld(k)' <=> h = k
      BY <3>1, <3>2 DEF IsHeld, PacketKinds, States, Latest
    <3>5. QED BY <2>m, <3>1, <3>3, <3>4 DEF h
  <2>2. CASE JoinPacket
    <3>1. /\ spc = "batch" /\ UNCHANGED <<dirty, spc>>
          /\ packetQueue # << >> /\ packetQueue' = Tail(packetQueue)
          /\ Head(packetQueue).kind = "batch"
      BY <2>2 DEF JoinPacket, NextJoins, Joins, stateVars
    <3>2. ThreadInv'
      BY ThreadStep DEF DirtyInv
    <3>3. holder \in Batch /\ holder' \in Batch
      BY <1>0, <3>1, <3>2 DEF HeldInv, ThreadInv
    <3>4. holder.kind = "batch" /\ holder'.kind = "batch"
      BY <3>3 DEF Batch
    <3>5. ~IsHeld(k) /\ ~IsHeld(k)' /\ Head(packetQueue).kind # k
      BY <3>1, <3>4 DEF IsHeld, States, Latest
    <3>6. QED BY <2>m, <3>1, <3>5
  <2>n. ASSUME UNCHANGED <<packetQueue, dirty>>, IsHeld(k)' <=> IsHeld(k)
        PROVE  /\ Once(packetQueue', k)
               /\ ~(Queued(packetQueue', k) /\ IsHeld(k)')
               /\ dirty'[k] <=> Queued(packetQueue', k) \/ IsHeld(k)'
    BY <2>b, <2>n
  <2>3. CASE EndBatch
    <3>1. spc = "batch" /\ spc' = "send" /\ UNCHANGED <<packetQueue, dirty, holder>>
      BY <2>3 DEF EndBatch, stateVars
    <3>2. holder.kind = "batch"
      BY <1>0, <3>1 DEF HeldInv, Batch
    <3>3. QED BY <2>n, <3>1, <3>2 DEF IsHeld, States, Latest
  <2>4. CASE SplitMove
    <3>1. /\ spc = "move" /\ spc' = "chunk" /\ UNCHANGED <<packetQueue, dirty>>
          /\ holder'.kind = "move"
      BY <2>4 DEF SplitMove
    <3>2. QED BY <1>0, <2>n, <3>1 DEF HeldInv, IsHeld, States, Latest
  <2>5. CASE SendChunk
    <3>1. /\ spc = "chunk" /\ spc' = "move" /\ UNCHANGED <<packetQueue, dirty>>
          /\ holder'.kind = "none"
      BY <2>5 DEF SendChunk, NoPacket, stateVars
    <3>2. QED BY <1>0, <2>n, <3>1 DEF HeldInv, IsHeld, States, Latest
  <2>6. CASE EndMove
    <3>1. /\ spc = "move" /\ spc' = "wait" /\ UNCHANGED packetQueue
          /\ holder'.kind = "none" /\ dirty' = [dirty EXCEPT !["move"] = FALSE]
      BY <2>6 DEF EndMove, NoPacket
    <3>2. ~IsHeld(k)' /\ (IsHeld(k) <=> k = "move")
      BY <1>0, <3>1 DEF HeldInv, IsHeld, States, Latest
    <3>3. dirty'[k] <=> dirty[k] /\ k # "move"
      BY <1>0, <3>1 DEF LockInv
    <3>4. QED BY <2>b, <3>1, <3>2, <3>3
  <2>7. CASE TakeState
    <3>1. /\ spc = "state" /\ spc' = "send" /\ UNCHANGED packetQueue
          /\ dirty' = [dirty EXCEPT ![holder.kind] = FALSE]
      BY <2>7 DEF TakeState
    <3>2. ~IsHeld(k)' /\ (IsHeld(k) <=> k = holder.kind)
      BY <3>1 DEF IsHeld
    <3>3. dirty'[k] <=> dirty[k] /\ k # holder.kind
      BY <1>0, <3>1 DEF LockInv
    <3>4. QED BY <2>b, <3>1, <3>2, <3>3
  <2>8. CASE SendPacket
    <3>1. /\ spc = "send" /\ spc' = "wait" /\ UNCHANGED <<packetQueue, dirty>>
          /\ holder'.kind = "none"
      BY <2>8 DEF SendPacket, NoPacket, stateVars
    <3>2. QED BY <2>n, <3>1 DEF IsHeld, States, Latest
  <2>9. CASE SendFails
    BY <2>9 DEF SendFails
  <2>10. CASE Finish
    <3>1. spc = "wait" /\ spc' = "done" /\ UNCHANGED <<packetQueue, dirty, holder>>
      BY <2>10 DEF Finish, stateVars
    <3>2. QED BY <2>n, <3>1 DEF IsHeld
  <2>11. QED BY <1>3, <2>1, <2>2, <2>3, <2>4, <2>5, <2>6, <2>7, <2>8, <2>9, <2>10
            DEF inputSendThreadProc
<1>4. CASE stopInputStream \/ UNCHANGED vars
  BY <1>n, <1>4 DEF stopInputStream, StopBegins, CloseFreeList, Drain, Join, otherVars,
                    stateVars, vars
<1>5. QED BY <1>1, <1>2, <1>3, <1>4 DEF Next

LEMMA DirtyStep == DirtyInv /\ [Next]_vars => DirtyInv'
  BY ThreadStep, LockStep, StateStep DEF DirtyInv

\* What StateInv says of each state is what its packets number.
LEMMA DirtyCounts == DirtyInv => DirtyIsQueued
<1> SUFFICES ASSUME DirtyInv, NEW k \in States, ~failed
             PROVE  Cardinality({i \in DOMAIN packetQueue : packetQueue[i].kind = k})
                      + (IF IsHeld(k) THEN 1 ELSE 0) = IF dirty[k] THEN 1 ELSE 0
  BY DEF DirtyIsQueued, IsHeld
<1>1. /\ Once(packetQueue, k)
      /\ ~(Queued(packetQueue, k) /\ IsHeld(k))
      /\ dirty[k] <=> Queued(packetQueue, k) \/ IsHeld(k)
  BY DEF DirtyInv, StateInv
<1>2. Cardinality({i \in DOMAIN packetQueue : packetQueue[i].kind = k})
        = IF Queued(packetQueue, k) THEN 1 ELSE 0
  BY <1>1, HowMany
<1>3. QED BY <1>1, <1>2

(* A state waiting to be sent has one packet queued or held for it and     *)
(* never two, a state not waiting none: a change is neither forgotten nor  *)
(* sent by a packet of its own while one is queued.                        *)
THEOREM DirtyHasOnePacket == Spec => []DirtyIsQueued
<1>1. QED BY DirtyInit, DirtyStep, DirtyCounts, PTL DEF Spec

-------------------------------------------------------------------------------
(* Stopping. *)

DrainInv ==
  /\ DirtyInv
  /\ spc = "done" => packetQueue = << >> /\ draining
  /\ stop = "done" => spc \in {"done", "dead"}

LEMMA DrainStep == DrainInv /\ [Next]_vars => DrainInv'
<1> SUFFICES ASSUME DrainInv, [Next]_vars PROVE DrainInv'
  OBVIOUS
<1>0. DirtyInv'
  BY DirtyStep DEF DrainInv
<1>n. ASSUME UNCHANGED <<spc, packetQueue, draining, stop>> PROVE DrainInv'
  BY <1>0, <1>n DEF DrainInv
<1>1. ASSUME NEW t \in Threads, Starts(t) PROVE DrainInv'
  <2>1. PICK k, v : Begin(t, k, v)
    BY <1>1, BeginKind
  <2>2. QED BY <1>n, <2>1 DEF Begin, stopVars
<1>2. ASSUME NEW t \in Threads, Goes(t) PROVE DrainInv'
  <2>1. CASE Update(t) \/ AllocateFails(t) \/ Allocate(t) \/ OfferFails(t)
    BY <1>n, <2>1 DEF Update, AllocateFails, Allocate, OfferFails, Fail, stopVars
  <2>2. CASE Offer(t)
    BY <1>0, <2>2 DEF Offer, stopVars, DrainInv
  <2>3. QED BY <1>2, <2>1, <2>2 DEF Goes
<1>3. CASE inputSendThreadProc
  <2>1. CASE Finish
    BY <1>0, <2>1 DEF Finish, threadVars, stopVars, DrainInv
  <2>2. CASE TakePacket \/ JoinPacket \/ EndBatch \/ SplitMove \/ SendChunk \/ EndMove \/ TakeState
             \/ SendPacket \/ SendFails
    <3>1. spc \notin {"done", "dead"} /\ UNCHANGED stop
      BY <2>2 DEF TakePacket, JoinPacket, EndBatch, SplitMove, SendChunk, EndMove, TakeState,
                  SendPacket, SendFails, threadVars, stopVars
    <3>2. spc' # "done"
      <4>1. CASE TakePacket
        <5>1. holder' \in Packets
          BY <4>1 DEF TakePacket, DrainInv, DirtyInv, ThreadInv
        <5>2. QED BY <4>1, <5>1, PacketKind DEF TakePacket, PacketKinds, States, Latest
      <4>2. CASE JoinPacket
        BY <3>1, <4>2 DEF JoinPacket
      <4>3. QED BY <2>2, <4>1, <4>2 DEF EndBatch, SplitMove, SendChunk, EndMove, TakeState,
                                        SendPacket, SendFails
    <3>3. QED BY <1>0, <3>1, <3>2 DEF DrainInv
  <2>3. QED BY <1>3, <2>1, <2>2 DEF inputSendThreadProc
<1>4. CASE stopInputStream \/ UNCHANGED vars
  <2>1. UNCHANGED <<spc, packetQueue>>
    BY <1>4 DEF stopInputStream, StopBegins, CloseFreeList, Drain, Join, otherVars, vars
  <2>2. draining => draining'
    BY <1>4 DEF stopInputStream, StopBegins, CloseFreeList, Drain, Join, vars, stopVars
  <2>3. stop' = "done" => stop = "done" \/ spc \in {"done", "dead"}
    BY <1>4 DEF stopInputStream, StopBegins, CloseFreeList, Drain, Join, vars, stopVars
  <2>4. QED BY <1>0, <2>1, <2>2, <2>3 DEF DrainInv
<1>5. QED BY <1>1, <1>2, <1>3, <1>4 DEF Next

(* When the input thread has been joined, nothing is left queued and no    *)
(* state is left to be sent, unless sending has failed.                    *)
THEOREM StopDrains == Spec => []Drained
<1>1. Init => DrainInv
  BY DirtyInit DEF Init, DrainInv
<1>2. DrainInv => Drained
  <2> SUFFICES ASSUME DrainInv, stop = "done", ~failed
               PROVE  packetQueue = << >> /\ \A k \in States : ~dirty[k]
    BY DEF Drained
  <2>1. spc = "done" /\ packetQueue = << >> /\ holder.kind = "none"
    BY DEF DrainInv, DirtyInv, ThreadInv, HeldInv, NoPacket
  <2>2. \A k \in States : ~Queued(packetQueue, k) /\ ~IsHeld(k)
    BY <2>1 DEF Queued, IsHeld, States, Latest
  <2>3. QED BY <2>1, <2>2 DEF DrainInv, DirtyInv, StateInv
<1>3. QED BY <1>1, <1>2, DrainStep, PTL DEF Spec
-------------------------------------------------------------------------------
(***************************************************************************)
(* What the host has been shown.  A state that is neither dirty, nor about *)
(* to be queued, nor refused has been sent or is being sent as it now is;  *)
(* and the last packet of a stream that was accepted is the last one       *)
(* queued, or else the one held, or else the last one sent.                *)
(***************************************************************************)
Settled(k) == ~dirty[k] /\ ~refused[k] /\ \A t \in Threads : ~(Queues(t) /\ call[t].kind = k)

Current(k) ==
  IF k = "move" THEN delta = Zero
  ELSE IF spc = "send" /\ holder.kind = k THEN holder = Filled(k)
  ELSE k = "position" \/ latest[k] = Rest => shown[k] = latest[k]

Same(p, r) == p.buttons = r.buttons /\ p.value = r.value

\* The last packet of s in q, or base if there is none, says what r says.
EndsWith(q, s, base, r) ==
  IF \E i \in DOMAIN q : OfStream(q[i], s)
  THEN \A i \in DOMAIN q :
         OfStream(q[i], s) /\ (\A j \in DOMAIN q : j > i => ~OfStream(q[j], s)) => Same(q[i], r)
  ELSE Same(base, r)

Base(s) == IF spc \in {"batch", "send"} /\ OfStream(holder, s) THEN holder ELSE sent[s]

StreamInv == \A s \in Streams : EndsWith(packetQueue, s, Base(s), accepted[s])

ShownTypes ==
  /\ refused = [k \in States |-> refused[k]]
  /\ accepted = [s \in Streams |-> accepted[s]] /\ sent = [s \in Streams |-> sent[s]]
  /\ latest = [k \in Latest |-> latest[k]] /\ shown = [k \in Latest |-> shown[k]]

ShownInv ==
  /\ DirtyInv /\ ShownTypes
  /\ failed => spc = "dead"
  /\ ~failed => StreamInv /\ \A k \in States : Settled(k) => Current(k)

LEMMA EndsSame ==
  ASSUME NEW q, NEW s, NEW b, NEW c, NEW r, Same(b, c), EndsWith(q, s, c, r)
  PROVE  EndsWith(q, s, b, r)
  BY DEF EndsWith, Same

LEMMA EndsAppended ==
  ASSUME NEW q \in Seq(Packets), NEW p \in Packets, NEW s, NEW b, NEW r
  PROVE  /\ OfStream(p, s) /\ Same(p, r) => EndsWith(Append(q, p), s, b, r)
         /\ ~OfStream(p, s) /\ EndsWith(q, s, b, r) => EndsWith(Append(q, p), s, b, r)
<1> DEFINE a == Append(q, p)
           n == Len(q)
<1>1. /\ DOMAIN a = 1 .. n + 1 /\ DOMAIN q = 1 .. n /\ n \in Nat
      /\ \A i \in 1 .. n : a[i] = q[i]
      /\ a[n + 1] = p
  OBVIOUS
<1> HIDE DEF a, n
<1>2. ASSUME OfStream(p, s), Same(p, r) PROVE EndsWith(a, s, b, r)
  <2>1. n + 1 \in DOMAIN a /\ OfStream(a[n + 1], s)
    BY <1>1, <1>2
  <2>2. ASSUME NEW i \in DOMAIN a, \A j \in DOMAIN a : j > i => ~OfStream(a[j], s) PROVE a[i] = p
    BY <1>1, <2>1, <2>2
  <2>3. QED BY <1>2, <2>1, <2>2 DEF EndsWith
<1>3. ASSUME ~OfStream(p, s), EndsWith(q, s, b, r) PROVE EndsWith(a, s, b, r)
  <2>1. ASSUME NEW i \in DOMAIN a, OfStream(a[i], s) PROVE i \in DOMAIN q /\ a[i] = q[i]
    BY <1>1, <1>3, <2>1
  <2>2. \A i \in DOMAIN q : i \in DOMAIN a /\ a[i] = q[i]
    BY <1>1
  <2>3. QED BY <1>3, <2>1, <2>2 DEF EndsWith
<1>4. QED BY <1>2, <1>3 DEF a

LEMMA EndsTail ==
  ASSUME NEW q \in Seq(Packets), q # << >>, NEW s, NEW b, NEW r, EndsWith(q, s, b, r)
  PROVE  /\ OfStream(Head(q), s) => EndsWith(Tail(q), s, Head(q), r)
         /\ ~OfStream(Head(q), s) => EndsWith(Tail(q), s, b, r)
<1> DEFINE a == Tail(q)
           n == Len(q)
           h == Head(q)
<1>1. /\ DOMAIN a = 1 .. n - 1 /\ DOMAIN q = 1 .. n /\ n \in Nat \ {0}
      /\ \A i \in 1 .. n - 1 : a[i] = q[i + 1]
      /\ h = q[1]
  OBVIOUS
<1> HIDE DEF a, n, h
<1>2. \A i \in DOMAIN a : i + 1 \in DOMAIN q /\ a[i] = q[i + 1]
  BY <1>1
<1>3. \A i \in DOMAIN q : i = 1 \/ (i - 1 \in DOMAIN a /\ q[i] = a[i - 1])
  BY <1>1
<1>4. ASSUME NEW i \in DOMAIN a, OfStream(a[i], s), \A j \in DOMAIN a : j > i => ~OfStream(a[j], s)
      PROVE  Same(a[i], r)
  <2>1. i \in Int /\ i >= 1
    BY <1>1
  <2>2. i + 1 \in DOMAIN q /\ OfStream(q[i + 1], s)
    BY <1>2, <1>4
  <2>3. ASSUME NEW j \in DOMAIN q, j > i + 1 PROVE ~OfStream(q[j], s)
    <3>1. j \in Int /\ j # 1
      BY <1>1, <2>1, <2>3
    <3>2. j - 1 \in DOMAIN a /\ q[j] = a[j - 1] /\ j - 1 > i
      BY <1>3, <2>1, <2>3, <3>1
    <3>3. QED BY <1>4, <3>2
  <2>4. Same(q[i + 1], r)
    BY <2>2, <2>3 DEF EndsWith
  <2>5. QED BY <1>2, <2>4
<1>5. ASSUME OfStream(h, s), \A i \in DOMAIN a : ~OfStream(a[i], s) PROVE Same(h, r)
  <2>1. 1 \in DOMAIN q /\ OfStream(q[1], s)
    BY <1>1, <1>5
  <2>2. ASSUME NEW j \in DOMAIN q, j > 1 PROVE ~OfStream(q[j], s)
    BY <1>1, <1>3, <1>5, <2>2
  <2>3. Same(q[1], r)
    BY <2>1, <2>2 DEF EndsWith
  <2>4. QED BY <1>1, <2>3
<1>6. ASSUME ~OfStream(h, s), \A i \in DOMAIN a : ~OfStream(a[i], s) PROVE Same(b, r)
  <2>1. \A j \in DOMAIN q : ~OfStream(q[j], s)
    BY <1>1, <1>3, <1>6
  <2>2. QED BY <2>1 DEF EndsWith
<1>7. QED BY <1>4, <1>5, <1>6 DEF EndsWith, a, h

LEMMA StreamStep ==
  ASSUME DirtyInv, ShownTypes, StreamInv, [Next]_vars, ~failed'
  PROVE  StreamInv'
<1>0. CallInv /\ packetQueue \in Seq(Packets) /\ HeldInv
  BY DEF DirtyInv, ThreadInv
<1>n. ASSUME UNCHANGED <<packetQueue, spc, holder, sent, accepted>> PROVE StreamInv'
  BY <1>n DEF StreamInv, EndsWith, Base, Same
<1>b. ASSUME UNCHANGED <<packetQueue, accepted>>, \A s \in Streams : Base(s)' = Base(s)
      PROVE  StreamInv'
  BY <1>b DEF StreamInv, EndsWith, Same
<1>1. ASSUME NEW t \in Threads, Starts(t) PROVE StreamInv'
  <2>1. PICK k, v : Begin(t, k, v)
    BY <1>1, BeginKind
  <2>2. QED BY <1>n, <2>1 DEF Begin, hostVars
<1>2. ASSUME NEW t \in Threads, Goes(t) PROVE StreamInv'
  <2>1. CASE Update(t) \/ AllocateFails(t) \/ Allocate(t) \/ OfferFails(t)
    BY <1>n, <2>1 DEF Update, AllocateFails, Allocate, OfferFails, Fail, hostVars
  <2>2. CASE Offer(t)
    <3>1. PICK j, k, v : /\ call[t] = Call(j, k, v) /\ k \in PacketKinds
                         /\ k = "batch" => v \in Batch
                         /\ k = call[t].kind /\ v = call[t].value
      BY <1>0, <2>2, CallShape DEF Offer, Fits, PacketKinds
    <3>2. UNCHANGED <<spc, holder, sent>>
      BY <2>2 DEF Offer, hostVars
    <3>3. \A s \in Streams : Base(s)' = Base(s)
      BY <3>2 DEF Base
    <3>4. CASE k = "batch"
      <4>1. /\ packetQueue' = Append(packetQueue, v)
            /\ accepted' = [accepted EXCEPT ![v.stream] = v]
        BY <2>2, <3>1, <3>4 DEF Offer
      <4>2. v \in Packets /\ v.kind = "batch"
        BY <3>1, <3>4 DEF Packets, Batch
      <4>3. ASSUME NEW s \in Streams PROVE EndsWith(packetQueue', s, Base(s), accepted'[s])
        <5>1. CASE s = v.stream
          <6>1. accepted'[s] = v
            BY <4>1, <5>1 DEF ShownTypes
          <6>2. OfStream(v, s) /\ Same(v, v)
            BY <4>2, <5>1 DEF OfStream, Same
          <6>3. QED BY <1>0, <4>1, <4>2, <6>1, <6>2, EndsAppended
        <5>2. CASE s # v.stream
          <6>1. accepted'[s] = accepted[s] /\ ~OfStream(v, s)
            BY <4>1, <5>2 DEF ShownTypes, OfStream
          <6>2. EndsWith(packetQueue, s, Base(s), accepted[s])
            BY DEF StreamInv
          <6>3. QED BY <1>0, <4>1, <4>2, <6>1, <6>2, EndsAppended
        <5>3. QED BY <5>1, <5>2
      <4>4. QED BY <3>3, <4>3 DEF StreamInv
    <3>5. CASE k # "batch"
      <4> DEFINE p == [kind |-> k]
      <4>1. packetQueue' = Append(packetQueue, p) /\ accepted' = accepted
        BY <2>2, <3>1, <3>5 DEF Offer
      <4>2. p \in Packets /\ p.kind # "batch"
        BY <3>1, <3>5 DEF Packets, PacketKinds
      <4> HIDE DEF p
      <4>3. ASSUME NEW s \in Streams PROVE EndsWith(packetQueue', s, Base(s), accepted'[s])
        <5>1. EndsWith(packetQueue, s, Base(s), accepted[s]) /\ ~OfStream(p, s)
          BY <4>2 DEF StreamInv, OfStream
        <5>2. QED BY <1>0, <4>1, <4>2, <5>1, EndsAppended
      <4>4. QED BY <3>3, <4>3 DEF StreamInv
    <3>6. QED BY <3>4, <3>5
  <2>3. QED BY <1>2, <2>1, <2>2 DEF Goes
<1>3. CASE inputSendThreadProc
  <2>1. CASE TakePacket
    <3> DEFINE h == Head(packetQueue)
    <3>1. /\ spc = "wait" /\ packetQueue # << >> /\ packetQueue' = Tail(packetQueue)
          /\ holder' = h /\ UNCHANGED <<sent, accepted>>
          /\ spc' = CASE h.kind \in Latest -> "state" [] h.kind = "other" -> "send"
                      [] OTHER -> h.kind
      BY <2>1 DEF TakePacket, hostVars, threadVars, clientVars
    <3>2. h.kind = "batch" => spc' = "batch"
      BY <3>1 DEF Latest
    <3>3. ASSUME NEW s \in Streams
          PROVE  EndsWith(packetQueue', s, Base(s)', accepted'[s])
      <4>1. Base(s) = sent[s] /\ EndsWith(packetQueue, s, Base(s), accepted[s])
        BY <3>1 DEF Base, StreamInv
      <4>2. /\ OfStream(h, s) => EndsWith(packetQueue', s, h, accepted[s])
            /\ ~OfStream(h, s) => EndsWith(packetQueue', s, sent[s], accepted[s])
        BY <1>0, <3>1, <4>1, EndsTail
      <4>3. Base(s)' = IF OfStream(h, s) THEN h ELSE sent[s]
        BY <3>1, <3>2 DEF Base, OfStream
      <4>4. QED BY <3>1, <4>2, <4>3
    <3>4. QED BY <3>3 DEF StreamInv
  <2>2. CASE JoinPacket
    <3> DEFINE h == Head(packetQueue)
    <3>1. /\ spc = "batch" /\ packetQueue # << >> /\ packetQueue' = Tail(packetQueue)
          /\ UNCHANGED <<spc, sent, accepted>>
          /\ h.kind = "batch" /\ h.stream = holder.stream /\ h.buttons = holder.buttons
          /\ holder' = IF holder.stream = "pen" THEN h ELSE [holder EXCEPT !.value = h.value]
      BY <2>2 DEF JoinPacket, NextJoins, Joins, hostVars, threadVars, clientVars
    <3>2. holder \in Batch /\ h \in Packets
      BY <1>0, <3>1 DEF HeldInv
    <3>3. holder.kind = "batch" /\ h \in Batch
      BY <3>1, <3>2 DEF Packets, Batch, States, Latest
    <3>4. holder'.kind = "batch" /\ holder'.stream = holder.stream /\ Same(holder', h)
      BY <3>1, <3>2, <3>3 DEF Batch, Same
    <3> HIDE DEF h
    <3>5. ASSUME NEW s \in Streams
          PROVE  EndsWith(packetQueue', s, Base(s)', accepted'[s])
      <4>1. EndsWith(packetQueue, s, Base(s), accepted[s])
        BY DEF StreamInv
      <4>2. /\ OfStream(h, s) => EndsWith(packetQueue', s, h, accepted[s])
            /\ ~OfStream(h, s) => EndsWith(packetQueue', s, Base(s), accepted[s])
        BY <1>0, <3>1, <4>1, EndsTail DEF h
      <4>3. OfStream(h, s) <=> s = holder.stream
        BY <3>1 DEF OfStream
      <4>4. CASE s = holder.stream
        <5>1. Base(s)' = holder'
          BY <3>1, <3>4, <4>4 DEF Base, OfStream
        <5>2. QED BY <3>1, <3>4, <4>2, <4>3, <4>4, <5>1, EndsSame
      <4>5. CASE s # holder.stream
        <5>1. Base(s)' = Base(s)
          BY <3>1, <3>3, <3>4, <4>5 DEF Base, OfStream
        <5>2. QED BY <3>1, <4>2, <4>3, <4>5, <5>1
      <4>6. QED BY <4>4, <4>5
    <3>6. QED BY <3>5 DEF StreamInv
  <2>3. CASE EndBatch
    BY <1>b, <2>3 DEF EndBatch, hostVars, threadVars, clientVars, Base
  <2>4. CASE SplitMove \/ SendChunk \/ EndMove \/ Finish
    BY <1>b, <2>4 DEF SplitMove, SendChunk, EndMove, Finish, hostVars, threadVars, clientVars, Base
  <2>5. CASE TakeState
    <3>1. /\ spc = "state" /\ holder'.kind = holder.kind /\ holder.kind \in Latest
          /\ UNCHANGED <<packetQueue, sent, accepted>>
      BY <1>0, <2>5 DEF TakeState, Filled, HeldInv, hostVars, threadVars, clientVars
    <3>2. \A s \in Streams : Base(s)' = Base(s)
      BY <3>1 DEF Base, OfStream, Latest
    <3>3. QED BY <1>b, <3>1, <3>2
  <2>6. CASE SendPacket
    <3>1. /\ spc = "send" /\ spc' = "wait" /\ Show(holder) /\ UNCHANGED <<packetQueue, accepted>>
      BY <2>6 DEF SendPacket, threadVars, clientVars
    <3>2. ASSUME NEW s \in Streams PROVE Base(s)' = Base(s)
      <4>1. Base(s)' = sent'[s]
        BY <3>1 DEF Base
      <4>2. CASE holder.kind = "batch"
        <5>1. sent' = [sent EXCEPT ![holder.stream] = holder]
          BY <3>1, <4>2, Zenon DEF Show, Latest
        <5>2. QED BY <3>1, <4>1, <4>2, <5>1 DEF Base, OfStream, ShownTypes
      <4>3. CASE holder.kind # "batch"
        <5>1. sent' = sent
          BY <3>1, <4>3 DEF Show
        <5>2. QED BY <3>1, <4>1, <4>3, <5>1 DEF Base, OfStream
      <4>4. QED BY <4>2, <4>3
    <3>3. QED BY <1>b, <3>1, <3>2
  <2>7. CASE SendFails
    BY <2>7 DEF SendFails
  <2>8. QED BY <1>3, <2>1, <2>2, <2>3, <2>4, <2>5, <2>6, <2>7 DEF inputSendThreadProc
<1>4. CASE stopInputStream \/ UNCHANGED vars
  BY <1>n, <1>4 DEF stopInputStream, StopBegins, CloseFreeList, Drain, Join, otherVars, clientVars,
                    hostVars, vars
<1>5. QED BY <1>1, <1>2, <1>3, <1>4 DEF Next

\* What Show does to the readings the host has.
LEMMA ShowLatest ==
  ASSUME ShownTypes, NEW p, Show(p), NEW k \in Latest
  PROVE  /\ p.kind = k => shown'[k] = p.value \/ (~p.reliable /\ shown'[k] = shown[k])
         /\ p.kind # k => shown'[k] = shown[k]
<1>1. CASE p.kind = "batch"
  <2>1. UNCHANGED shown
    BY <1>1, Zenon DEF Show, Latest
  <2>2. QED BY <1>1, <2>1 DEF Latest
<1>2. CASE p.kind \in Latest
  <2>1. shown' = [shown EXCEPT ![p.kind] = p.value] \/ (~p.reliable /\ UNCHANGED shown)
    BY <1>2, Zenon DEF Show, Latest
  <2>2. QED BY <2>1 DEF ShownTypes
<1>3. CASE p.kind \notin Latest /\ p.kind # "batch"
  BY <1>3 DEF Show
<1>4. QED BY <1>1, <1>2, <1>3

LEMMA ShownTypesStep == CallInv /\ ShownTypes /\ [Next]_vars => ShownTypes'
<1> SUFFICES ASSUME CallInv, ShownTypes, [Next]_vars PROVE ShownTypes'
  OBVIOUS
<1> USE DEF ShownTypes
<1>n. ASSUME UNCHANGED <<refused, accepted, sent, latest, shown>> PROVE ShownTypes'
  BY <1>n
<1>1. ASSUME NEW t \in Threads, Starts(t) PROVE ShownTypes'
  <2>1. PICK k, v : Begin(t, k, v)
    BY <1>1, BeginKind
  <2>2. QED BY <2>1 DEF Begin, hostVars, stateVars
<1>2. ASSUME NEW t \in Threads, Goes(t) PROVE ShownTypes'
  <2>1. CASE Update(t)
    <3>1. UNCHANGED <<refused, accepted, sent, shown>>
      BY <2>1 DEF Update, hostVars
    <3>2. UNCHANGED latest \/ \E k, v : latest' = [latest EXCEPT ![k] = v]
      BY <2>1 DEF Update
    <3>3. QED BY <3>1, <3>2
  <2>2. CASE AllocateFails(t) \/ OfferFails(t)
    BY <2>2 DEF AllocateFails, OfferFails, Fail, hostVars, stateVars
  <2>3. CASE Allocate(t)
    BY <2>3 DEF Allocate, hostVars, stateVars
  <2>4. CASE Offer(t)
    <3>1. UNCHANGED <<sent, latest, shown>>
      BY <2>4 DEF Offer, hostVars
    <3>2. refused' = [k \in States |-> refused[k] /\ k # call[t].kind]
      BY <2>4 DEF Offer
    <3>3. UNCHANGED accepted \/ \E s, p : accepted' = [accepted EXCEPT ![s] = p]
      BY <2>4 DEF Offer
    <3>4. QED BY <3>1, <3>2, <3>3
  <2>5. QED BY <1>2, <2>1, <2>2, <2>3, <2>4 DEF Goes
<1>3. CASE inputSendThreadProc
  <2>1. UNCHANGED <<refused, accepted, latest>>
    BY <1>3 DEF inputSendThreadProc, TakePacket, JoinPacket, EndBatch, SplitMove, SendChunk,
       EndMove, TakeState, SendPacket, SendFails, Finish, threadVars, clientVars, stateVars
  <2>2. CASE SendPacket
    <3>1. Show(holder)
      BY <2>2 DEF SendPacket
    <3>2. UNCHANGED sent \/ \E s : sent' = [sent EXCEPT ![s] = holder]
      BY <3>1, Zenon DEF Show
    <3>3. UNCHANGED shown \/ \E k, v : shown' = [shown EXCEPT ![k] = v]
      BY <3>1, Zenon DEF Show
    <3>4. QED BY <2>1, <3>2, <3>3
  <2>3. CASE TakePacket \/ JoinPacket \/ EndBatch \/ SplitMove \/ SendChunk \/ EndMove \/ TakeState
             \/ SendFails \/ Finish
    BY <2>1, <2>3 DEF TakePacket, JoinPacket, EndBatch, SplitMove, SendChunk,
       EndMove, TakeState, SendFails, Finish, hostVars
  <2>4. QED BY <1>3, <2>2, <2>3 DEF inputSendThreadProc
<1>4. CASE stopInputStream \/ UNCHANGED vars
  BY <1>n, <1>4 DEF stopInputStream, StopBegins, CloseFreeList, Drain, Join, otherVars, clientVars,
                    hostVars, stateVars, vars
<1>5. QED BY <1>1, <1>2, <1>3, <1>4 DEF Next

LEMMA SettledStep ==
  ASSUME DirtyInv, ShownTypes, [Next]_vars, ~failed', ~failed,
         NEW k \in States, Settled(k) => Current(k), Settled(k)'
  PROVE  Current(k)'
<1>0. CallInv /\ packetQueue \in Seq(Packets) /\ HeldInv /\ LockInv /\ StateInv
  BY DEF DirtyInv, ThreadInv
<1>k. \/ k = "move" \/ k \in Latest
  BY DEF States
<1>n. ASSUME UNCHANGED <<delta, latest, shown, spc, holder>>, Settled(k) PROVE Current(k)'
  BY <1>n DEF Current, Filled
\* A step of the thread that neither shows a reading nor takes up a state.
<1>s. ASSUME UNCHANGED <<latest, shown, call, refused>>, dirty[k] => dirty'[k],
             k = "move" => delta' = delta,
             k \in Latest =>
               ~(spc = "send" /\ holder.kind = k) /\ ~(spc' = "send" /\ holder'.kind = k)
      PROVE  Current(k)'
  <2>1. Settled(k)
    BY <1>s DEF Settled, Queues
  <2>2. QED BY <1>k, <1>s, <2>1 DEF Current, Latest
<1>1. ASSUME NEW t \in Threads, Starts(t) PROVE Current(k)'
  <2>1. PICK j, v : Begin(t, j, v)
    BY <1>1, BeginKind
  <2>2. /\ UNCHANGED <<delta, latest, shown, spc, holder, dirty, refused>> /\ call[t] = NoCall
        /\ \E c : Becomes(t, c)
    BY <2>1 DEF Begin, stateVars, hostVars, Becomes
  <2>3. \A u \in Threads : u # t => call'[u] = call[u]
    BY <1>0, <2>2 DEF Becomes, CallInv
  <2>4. ~Queues(t)
    BY <2>2 DEF Queues, NoCall
  <2>5. Settled(k)
    BY <2>2, <2>3, <2>4 DEF Settled, Queues
  <2>6. QED BY <1>n, <2>2, <2>5
<1>2. ASSUME NEW t \in Threads, Goes(t) PROVE Current(k)'
  <2> DEFINE j == call[t].kind
  <2>0. /\ UNCHANGED <<shown, spc, holder>>
        /\ \E c : Becomes(t, c)
    BY <1>2 DEF Goes, Update, AllocateFails, OfferFails, Fail, Return, Allocate, Offer, hostVars,
                Becomes
  <2>c. \A u \in Threads : u # t => call'[u] = call[u]
    BY <1>0, <2>0 DEF Becomes, CallInv
  <2>o. ASSUME UNCHANGED dirty, UNCHANGED refused, ~Queues(t) \/ j # k PROVE Settled(k)
    BY <2>o, <2>c DEF Settled, Queues
  <2>1. CASE Update(t)
    <3>1. call[t].stage = "state" /\ UNCHANGED <<dirty, refused>>
      BY <2>1 DEF Update
    <3>2. ~Queues(t)
      BY <3>1 DEF Queues
    <3>3. Settled(k)
      BY <2>o, <3>1, <3>2
    <3>4. j # k
      <4>1. CASE dirty[j]
        BY <3>3, <4>1 DEF Settled
      <4>2. CASE ~dirty[j]
        <5>1. call' = [call EXCEPT ![t].stage = "alloc"]
          BY <2>1, <4>2 DEF Update
        <5>2. PICK s, i, v : call[t] = Call(s, i, v) /\ i = j
          BY <1>0, <3>1, CallShape
        <5>3. [call[t] EXCEPT !.stage = "alloc"] = Call("alloc", i, v)
          BY <5>2 DEF Call
        <5>4. call' = [call EXCEPT ![t] = [call[t] EXCEPT !.stage = "alloc"]]
          BY <5>1
        <5>5. call'[t] = Call("alloc", i, v)
          BY <1>0, <5>3, <5>4 DEF CallInv
        <5>6. call'[t].stage = "alloc" /\ call'[t].kind = i
          BY <5>5 DEF Call
        <5>7. QED BY <5>2, <5>6 DEF Settled, Queues
      <4>3. QED BY <4>1, <4>2
    <3>5. k = "move" => delta' = delta
      BY <2>1, <3>4 DEF Update
    <3>6. k \in Latest => latest'[k] = latest[k]
      BY <2>1, <3>4 DEF Update, ShownTypes
    <3>7. QED BY <1>k, <2>0, <3>3, <3>5, <3>6 DEF Current, Filled, Latest
  <2>2. CASE AllocateFails(t) \/ OfferFails(t)
    <3>1. /\ UNCHANGED <<delta, latest, dirty>>
          /\ refused' = [i \in States |-> refused[i] \/ i = j]
      BY <2>2 DEF AllocateFails, OfferFails, Fail, stateVars
    <3>2. j # k /\ ~refused[k] /\ ~dirty[k]
      BY <3>1 DEF Settled
    <3>3. Settled(k)
      BY <2>c, <3>2 DEF Settled, Queues
    <3>4. QED BY <1>n, <2>0, <3>1, <3>3
  <2>3. CASE Allocate(t)
    <3>1. UNCHANGED <<delta, latest, dirty, refused>>
      BY <2>3 DEF Allocate, stateVars
    <3>2. PICK i, w : Becomes(t, Call("offer", i, w)) /\ i = j
      BY <1>0, <2>3, AllocateBecomes
    <3>3. call'[t].stage = "offer" /\ call'[t].kind = j
      BY <1>0, <3>2 DEF Call, Becomes, CallInv
    <3>4. j # k
      BY <3>3 DEF Settled, Queues
    <3>5. QED BY <1>n, <2>0, <2>o, <3>1, <3>4
  <2>4. CASE Offer(t)
    <3>1. /\ UNCHANGED <<delta, latest>>
          /\ dirty' = [i \in States |-> dirty[i] \/ i = j]
          /\ refused' = [i \in States |-> refused[i] /\ i # j]
      BY <2>4 DEF Offer
    <3> HIDE DEF j
    <3>2. ~(dirty[k] \/ k = j) /\ ~(refused[k] /\ k # j)
      BY <3>1 DEF Settled
    <3>3. Settled(k)
      BY <2>c, <3>2 DEF Settled, Queues, j
    <3>4. QED BY <1>n, <2>0, <3>1, <3>3
  <2>5. QED BY <1>2, <2>1, <2>2, <2>3, <2>4 DEF Goes
<1>3. CASE inputSendThreadProc
  <2>0. UNCHANGED <<latest, call, refused>>
    BY <1>3 DEF inputSendThreadProc, TakePacket, JoinPacket, EndBatch, SplitMove, SendChunk,
       EndMove, TakeState, SendPacket, SendFails, Finish, threadVars, clientVars, stateVars
  <2>1. CASE TakePacket
    <3>1. /\ spc = "wait" /\ UNCHANGED <<shown, delta, dirty>>
          /\ spc' = "send" => holder'.kind \notin Latest
      BY <2>1 DEF TakePacket, stateVars, hostVars, Latest
    <3>2. QED BY <1>s, <2>0, <3>1
  <2>2. CASE JoinPacket \/ SendChunk \/ Finish
    BY <1>s, <2>0, <2>2 DEF JoinPacket, SendChunk, Finish, stateVars, hostVars
  <2>3. CASE EndBatch
    <3>1. spc = "batch" /\ UNCHANGED <<shown, delta, dirty, holder>>
      BY <2>3 DEF EndBatch, stateVars, hostVars
    <3>2. holder.kind = "batch"
      BY <1>0, <3>1 DEF HeldInv, Batch
    <3>3. QED BY <1>s, <2>0, <3>1, <3>2 DEF Latest
  <2>4. CASE SplitMove
    <3>1. spc = "move" /\ spc' = "chunk" /\ UNCHANGED <<shown, dirty>>
      BY <2>4 DEF SplitMove, hostVars
    <3>2. dirty["move"]
      BY <1>0, <3>1 DEF StateInv, IsHeld, States
    <3>3. k # "move"
      BY <3>1, <3>2 DEF Settled
    <3>4. QED BY <1>s, <2>0, <3>1, <3>3
  <2>5. CASE EndMove
    <3>1. /\ spc = "move" /\ spc' = "wait" /\ UNCHANGED <<shown, delta>> /\ delta = Zero
          /\ dirty' = [dirty EXCEPT !["move"] = FALSE]
      BY <2>5 DEF EndMove, hostVars
    <3>2. CASE k = "move"
      BY <3>1, <3>2 DEF Current
    <3>3. CASE k # "move"
      <4>1. dirty'[k] = dirty[k]
        BY <1>0, <3>1, <3>3 DEF LockInv
      <4>2. QED BY <1>s, <2>0, <3>1, <3>3, <4>1
    <3>4. QED BY <3>2, <3>3
  <2>6. CASE TakeState
    <3>1. /\ spc = "state" /\ spc' = "send" /\ holder' = Filled(holder.kind)
          /\ UNCHANGED <<shown, delta>> /\ holder.kind \in Latest
          /\ dirty' = [dirty EXCEPT ![holder.kind] = FALSE]
      BY <1>0, <2>6 DEF TakeState, hostVars, HeldInv
    <3>2. holder'.kind = holder.kind
      BY <3>1 DEF Filled
    <3>3. CASE k = holder.kind
      <4>1. Filled(k)' = Filled(k)
        BY <2>0 DEF Filled
      <4>2. QED BY <3>1, <3>2, <3>3, <4>1 DEF Current, Latest
    <3>4. CASE k # holder.kind
      <4>1. dirty'[k] = dirty[k]
        BY <1>0, <3>1, <3>4 DEF LockInv
      <4>2. QED BY <1>s, <2>0, <3>1, <3>2, <3>4, <4>1
    <3>5. QED BY <3>3, <3>4
  <2>7. CASE SendPacket
    <3>1. spc = "send" /\ spc' = "wait" /\ Show(holder) /\ UNCHANGED <<delta, dirty>>
      BY <2>7 DEF SendPacket, stateVars
    <3>2. Current(k)
      BY <2>0, <3>1 DEF Settled, Queues
    <3>3. CASE k = "move"
      BY <3>1, <3>2, <3>3 DEF Current
    <3>4. CASE k \in Latest /\ holder.kind # k
      <4>1. shown'[k] = shown[k]
        BY <3>1, <3>4, ShowLatest
      <4>2. QED BY <2>0, <3>1, <3>2, <3>4, <4>1 DEF Current, Latest
    <3>5. CASE k \in Latest /\ holder.kind = k
      <4>1. holder = Filled(k) /\ k # "move"
        BY <3>1, <3>2, <3>5 DEF Current, Latest
      <4>2. holder.value = latest[k] /\ (holder.reliable <=> k = "position" \/ latest[k] = Rest)
        BY <4>1 DEF Filled
      <4>3. shown'[k] = latest[k] \/ ~holder.reliable
        BY <3>1, <3>5, <4>2, ShowLatest
      <4>4. QED BY <2>0, <3>1, <4>1, <4>2, <4>3 DEF Current
    <3>6. QED BY <1>k, <3>3, <3>4, <3>5
  <2>8. CASE SendFails
    BY <2>8 DEF SendFails
  <2>9. QED BY <1>3, <2>1, <2>2, <2>3, <2>4, <2>5, <2>6, <2>7, <2>8 DEF inputSendThreadProc
<1>4. CASE stopInputStream \/ UNCHANGED vars
  <2>1. UNCHANGED <<delta, latest, shown, spc, holder, dirty, refused, call>>
    BY <1>4 DEF stopInputStream, StopBegins, CloseFreeList, Drain, Join, otherVars, clientVars,
                hostVars, stateVars, vars
  <2>2. Settled(k)
    BY <2>1 DEF Settled, Queues
  <2>3. QED BY <1>n, <2>1, <2>2
<1>5. QED BY <1>1, <1>2, <1>3, <1>4 DEF Next

LEMMA FailedStep ==
  ASSUME [Next]_vars, failed => spc = "dead"
  PROVE  /\ failed' => spc' = "dead"
         /\ ~failed' => ~failed
<1>n. ASSUME UNCHANGED <<spc, failed>> PROVE (failed' => spc' = "dead") /\ (~failed' => ~failed)
  BY <1>n
<1>1. ASSUME NEW t \in Threads, Starts(t) PROVE UNCHANGED <<spc, failed>>
  <2>1. PICK k, v : Begin(t, k, v)
    BY <1>1, BeginKind
  <2>2. QED BY <2>1 DEF Begin
<1>2. ASSUME NEW t \in Threads, Goes(t) PROVE UNCHANGED <<spc, failed>>
  BY <1>2 DEF Goes, Update, AllocateFails, OfferFails, Fail, Allocate, Offer
<1>3. CASE inputSendThreadProc
  <2>1. CASE SendFails
    BY <2>1 DEF SendFails
  <2>2. CASE ~SendFails
    <3>1. spc # "dead" /\ UNCHANGED failed
      BY <1>3, <2>2 DEF inputSendThreadProc, TakePacket, JoinPacket, EndBatch, SplitMove, SendChunk,
         EndMove, TakeState, SendPacket, Finish
    <3>2. QED BY <3>1
  <2>3. QED BY <2>1, <2>2
<1>4. CASE stopInputStream \/ UNCHANGED vars
  BY <1>n, <1>4 DEF stopInputStream, StopBegins, CloseFreeList, Drain, Join, otherVars, vars
<1>5. QED BY <1>n, <1>1, <1>2, <1>3, <1>4 DEF Next

LEMMA ShownInit == Init => ShownInv
<1> SUFFICES ASSUME Init PROVE ShownInv
  OBVIOUS
<1>1. /\ spc = "wait" /\ packetQueue = << >> /\ delta = Zero /\ accepted = sent /\ ~failed
      /\ latest = [k \in Latest |-> Rest] /\ shown = [k \in Latest |-> Rest]
      /\ refused = [k \in States |-> FALSE] /\ sent = [s \in Streams |-> Still(s)]
  BY DEF Init
<1>2. ShownTypes
  BY <1>1 DEF ShownTypes
<1>3. StreamInv
  BY <1>1 DEF StreamInv, EndsWith, Base, Same
<1>4. \A k \in States : Current(k)
  BY <1>1 DEF Current, States
<1>5. QED BY <1>1, <1>2, <1>3, <1>4, DirtyInit DEF ShownInv

LEMMA ShownStep == ShownInv /\ [Next]_vars => ShownInv'
<1> SUFFICES ASSUME ShownInv, [Next]_vars PROVE ShownInv'
  OBVIOUS
<1>1. DirtyInv /\ ShownTypes /\ CallInv
  BY DEF ShownInv, DirtyInv, ThreadInv
<1>2. DirtyInv' /\ ShownTypes'
  BY <1>1, DirtyStep, ShownTypesStep
<1>3. (failed' => spc' = "dead") /\ (~failed' => ~failed)
  BY FailedStep DEF ShownInv
<1>4. ASSUME ~failed' PROVE StreamInv'
  BY <1>1, <1>3, <1>4, StreamStep DEF ShownInv
<1>5. ASSUME ~failed', NEW k \in States, Settled(k)' PROVE Current(k)'
  <2>1. Settled(k) => Current(k)
    BY <1>3, <1>5 DEF ShownInv
  <2>2. QED BY <1>1, <1>3, <1>5, <2>1, SettledStep
<1>6. QED BY <1>2, <1>3, <1>4, <1>5 DEF ShownInv

(* When nothing is queued and no call is under way the host has the last   *)
(* position and the rest of a sensor, all motion, and the last state of    *)
(* every stream, except what was refused and what failed to be sent.       *)
THEOREM LastStateIsShown == Spec => []LastIsShown
<1>1. ShownInv => LastIsShown
  <2> SUFFICES ASSUME ShownInv, spc \in {"wait", "done"}, packetQueue = << >>,
                      \A t \in Threads : call[t] = NoCall
               PROVE  /\ \A k \in Latest : ~refused[k] /\ (k = "position" \/ latest[k] = Rest)
                                             => shown[k] = latest[k]
                      /\ ~refused["move"] => delta = Zero
                      /\ \A s \in Streams : /\ sent[s].buttons = accepted[s].buttons
                                            /\ sent[s].value = accepted[s].value
    BY DEF LastIsShown
  <2>1. ~failed /\ HeldInv /\ StateInv
    BY DEF ShownInv, DirtyInv, ThreadInv
  <2>2. holder.kind = "none"
    BY <2>1 DEF HeldInv, NoPacket
  <2>3. \A k \in States : ~dirty[k]
    BY <2>1, <2>2 DEF StateInv, IsHeld, Queued, States, Latest
  <2>4. \A t \in Threads : ~Queues(t)
    BY DEF Queues, NoCall
  <2>5. \A k \in States : ~refused[k] => Current(k)
    BY <2>1, <2>3, <2>4 DEF ShownInv, Settled
  <2>6. ASSUME NEW k \in Latest, ~refused[k], k = "position" \/ latest[k] = Rest
        PROVE  shown[k] = latest[k]
    BY <2>5, <2>6 DEF Current, States, Latest
  <2>7. ~refused["move"] => delta = Zero
    BY <2>5 DEF Current, States
  <2>8. ASSUME NEW s \in Streams PROVE Same(sent[s], accepted[s])
    BY <2>1 DEF ShownInv, StreamInv, EndsWith, Base
  <2>9. QED BY <2>6, <2>7, <2>8 DEF Same
<1>2. QED BY <1>1, ShownInit, ShownStep, PTL DEF Spec
-------------------------------------------------------------------------------
(***************************************************************************)
(* The order of buttons.  made[i] changes are made by the first i packets; *)
(* a packet put before them, behind them or taken from them shifts made.   *)
(***************************************************************************)
Less == {ss \in Nat \X Nat : ss[1] < ss[2]}

LEMMA SetInduction ==
  ASSUME NEW T, 0 \in T, \A n \in Nat : n \in T => n + 1 \in T
  PROVE  Nat \subseteq T
<1> DEFINE U == Nat \ T
<1> SUFFICES ASSUME U # {} PROVE FALSE
  OBVIOUS
<1>1. IsWellFoundedOn(Less, Nat)
  BY NatLessThanWellFounded DEF OpToRel, Less
<1>2. PICK m \in U : \A n \in U : ~(<<n, m>> \in Less)
  BY <1>1, WFMin
<1>3. \A n \in U : ~(n < m)
  BY <1>2 DEF Less
<1>4. m \in Nat /\ m # 0 /\ m \notin T
  OBVIOUS
<1>5. m - 1 \in Nat
  BY <1>4
<1>6. m - 1 \in T
  BY <1>3, <1>5
<1>7. QED BY <1>4, <1>5, <1>6

\* The buttons after n of the changes cs of b.
After(b, cs, n) == IF n = 0 THEN b ELSE cs[n]

Counts(made, b, q, s, cs) ==
  /\ made \in [0 .. Len(q) -> 0 .. Len(cs)]
  /\ made[0] = 0 /\ made[Len(q)] = Len(cs)
  /\ \A i \in 1 .. Len(q) :
       IF OfStream(q[i], s) /\ q[i].buttons # After(b, cs, made[i - 1])
       THEN made[i] = made[i - 1] + 1 /\ cs[made[i]] = q[i].buttons
       ELSE made[i] = made[i - 1]

LEMMA MakesCounts ==
  ASSUME NEW b, NEW q, NEW s, NEW cs
  PROVE  Makes(b, q, s, cs) <=> \E made : Counts(made, b, q, s, cs)
  BY DEF Makes, Counts, After

\* The packet p changes the buttons b of s.
Changes(p, s, b) == OfStream(p, s) /\ p.buttons # b

LEMMA MakesAppended ==
  ASSUME NEW S, NEW B, NEW q \in Seq(S), NEW p \in S, NEW s, NEW b, NEW cs \in Seq(B),
         Makes(b, q, s, cs)
  PROVE  /\ ~Changes(p, s, After(b, cs, Len(cs))) => Makes(b, Append(q, p), s, cs)
         /\ Changes(p, s, After(b, cs, Len(cs))) /\ p.buttons \in B
              => Makes(b, Append(q, p), s, Append(cs, p.buttons))
<1> DEFINE r == Append(q, p)
           n == Len(q)
           m == Len(cs)
<1>1. /\ Len(r) = n + 1 /\ n \in Nat /\ m \in Nat
      /\ \A i \in 1 .. n : r[i] = q[i]
      /\ r[n + 1] = p
  OBVIOUS
<1>2. PICK made : Counts(made, b, q, s, cs)
  BY MakesCounts
<1>3. made \in [0 .. n -> 0 .. m] /\ made[0] = 0 /\ made[n] = m
  BY <1>2 DEF Counts
<1>4. \A i \in 1 .. n : IF Changes(q[i], s, After(b, cs, made[i - 1]))
                        THEN made[i] = made[i - 1] + 1 /\ cs[made[i]] = q[i].buttons
                        ELSE made[i] = made[i - 1]
  BY <1>2 DEF Counts, Changes
<1>5. ASSUME ~Changes(p, s, After(b, cs, m)) PROVE Makes(b, r, s, cs)
  <2> DEFINE f == [i \in 0 .. n + 1 |-> IF i <= n THEN made[i] ELSE m]
  <2>1. f \in [0 .. Len(r) -> 0 .. m] /\ f[0] = 0 /\ f[Len(r)] = m
    BY <1>1, <1>3
  <2>2. \A i \in 0 .. n : f[i] = made[i]
    BY <1>1
  <2>3. f[n + 1] = m
    BY <1>1
  <2> HIDE DEF f, r, n, m
  <2>4. ASSUME NEW i \in 1 .. Len(r)
        PROVE  IF Changes(r[i], s, After(b, cs, f[i - 1]))
               THEN f[i] = f[i - 1] + 1 /\ cs[f[i]] = r[i].buttons
               ELSE f[i] = f[i - 1]
    <3>1. CASE i \in 1 .. n
      <4>1. f[i] = made[i] /\ f[i - 1] = made[i - 1] /\ r[i] = q[i]
        BY <1>1, <2>2, <3>1
      <4>2. QED BY <1>4, <3>1, <4>1
    <3>2. CASE i = n + 1
      <4>1. f[i] = m /\ f[i - 1] = m /\ r[i] = p
        BY <1>1, <1>3, <2>2, <2>3, <3>2
      <4>2. QED BY <1>5, <4>1
    <3>3. QED BY <1>1, <3>1, <3>2
  <2>5. Counts(f, b, r, s, cs)
    BY <2>1, <2>4 DEF Counts, Changes, m
  <2>6. QED BY <2>5, MakesCounts
<1>6. ASSUME Changes(p, s, After(b, cs, m)), p.buttons \in B
      PROVE  Makes(b, r, s, Append(cs, p.buttons))
  <2> DEFINE ds == Append(cs, p.buttons)
             f == [i \in 0 .. n + 1 |-> IF i <= n THEN made[i] ELSE m + 1]
  <2>0. Len(ds) = m + 1 /\ ds[m + 1] = p.buttons /\ \A i \in 1 .. m : ds[i] = cs[i]
    BY <1>6
  <2>1. f \in [0 .. Len(r) -> 0 .. Len(ds)] /\ f[0] = 0 /\ f[Len(r)] = Len(ds)
    BY <1>1, <1>3, <2>0
  <2>2. \A i \in 0 .. n : f[i] = made[i]
    BY <1>1
  <2>3. f[n + 1] = m + 1
    BY <1>1
  <2> HIDE DEF f, r, n, m, ds
  <2>a. \A k \in 0 .. m : After(b, ds, k) = After(b, cs, k)
    BY <1>1, <2>0 DEF After
  <2>4. ASSUME NEW i \in 1 .. Len(r)
        PROVE  IF Changes(r[i], s, After(b, ds, f[i - 1]))
               THEN f[i] = f[i - 1] + 1 /\ ds[f[i]] = r[i].buttons
               ELSE f[i] = f[i - 1]
    <3>1. CASE i \in 1 .. n
      <4>1. f[i] = made[i] /\ f[i - 1] = made[i - 1] /\ r[i] = q[i]
        BY <1>1, <2>2, <3>1
      <4>2. made[i - 1] \in 0 .. m /\ made[i] \in 0 .. m
        BY <1>1, <1>3, <3>1
      <4>3. After(b, ds, f[i - 1]) = After(b, cs, made[i - 1])
        BY <2>a, <4>1, <4>2
      <4>4. made[i] = made[i - 1] + 1 => ds[made[i]] = cs[made[i]]
        BY <1>1, <2>0, <4>2
      <4>5. QED BY <1>4, <3>1, <4>1, <4>3, <4>4
    <3>2. CASE i = n + 1
      <4>1. f[i] = m + 1 /\ f[i - 1] = m /\ r[i] = p
        BY <1>1, <1>3, <2>2, <2>3, <3>2
      <4>2. After(b, ds, m) = After(b, cs, m)
        BY <1>1, <2>a
      <4>3. QED BY <1>6, <2>0, <4>1, <4>2
    <3>3. QED BY <1>1, <3>1, <3>2
  <2>5. Counts(f, b, r, s, ds)
    BY <2>1, <2>4 DEF Counts, Changes
  <2>6. QED BY <2>5, MakesCounts DEF ds
<1>7. QED BY <1>5, <1>6

LEMMA MakesTail ==
  ASSUME NEW S, NEW B, NEW q \in Seq(S), q # << >>, NEW s, NEW b, NEW cs \in Seq(B),
         Makes(b, q, s, cs)
  PROVE  /\ ~Changes(Head(q), s, b) => Makes(b, Tail(q), s, cs)
         /\ Changes(Head(q), s, b) =>
              /\ cs # << >> /\ Head(cs) = Head(q).buttons
              /\ Makes(Head(q).buttons, Tail(q), s, Tail(cs))
<1> DEFINE r == Tail(q)
           n == Len(q)
           m == Len(cs)
           h == Head(q)
<1>1. /\ Len(r) = n - 1 /\ n \in Nat \ {0} /\ m \in Nat
      /\ \A i \in 1 .. n - 1 : r[i] = q[i + 1]
      /\ h = q[1]
  OBVIOUS
<1>2. PICK made : Counts(made, b, q, s, cs)
  BY MakesCounts
<1>3. made \in [0 .. n -> 0 .. m] /\ made[0] = 0 /\ made[n] = m
  BY <1>2 DEF Counts
<1>4. \A i \in 1 .. n : IF Changes(q[i], s, After(b, cs, made[i - 1]))
                        THEN made[i] = made[i - 1] + 1 /\ cs[made[i]] = q[i].buttons
                        ELSE made[i] = made[i - 1]
  BY <1>2 DEF Counts, Changes
<1>5. After(b, cs, 0) = b
  BY DEF After
<1>6. ASSUME ~Changes(h, s, b) PROVE Makes(b, r, s, cs)
  <2> DEFINE f == [i \in 0 .. n - 1 |-> made[i + 1]]
  <2>0. made[1] = 0
    <3>1. 1 \in 1 .. n /\ 1 - 1 = 0
      BY <1>1
    <3>2. QED BY <1>1, <1>3, <1>4, <1>5, <1>6, <3>1
  <2>1. f \in [0 .. Len(r) -> 0 .. m] /\ f[0] = 0 /\ f[Len(r)] = m
    BY <1>1, <1>3, <2>0
  <2>2. \A i \in 0 .. n - 1 : f[i] = made[i + 1]
    BY <1>1
  <2> HIDE DEF f, r, n, m, h
  <2>4. ASSUME NEW i \in 1 .. Len(r)
        PROVE  IF Changes(r[i], s, After(b, cs, f[i - 1]))
               THEN f[i] = f[i - 1] + 1 /\ cs[f[i]] = r[i].buttons
               ELSE f[i] = f[i - 1]
    <3>0. /\ i \in 0 .. n - 1 /\ i - 1 \in 0 .. n - 1 /\ i + 1 \in 1 .. n /\ i \in 1 .. n - 1
          /\ (i - 1) + 1 = i /\ (i + 1) - 1 = i
      BY <1>1
    <3>1. f[i] = made[i + 1] /\ f[i - 1] = made[i] /\ r[i] = q[i + 1]
      BY <1>1, <2>2, <3>0
    <3>2. QED BY <1>4, <3>0, <3>1
  <2>5. Counts(f, b, r, s, cs)
    BY <2>1, <2>4 DEF Counts, Changes, m
  <2>6. QED BY <2>5, MakesCounts
<1>7. ASSUME Changes(h, s, b)
      PROVE  cs # << >> /\ Head(cs) = h.buttons /\ Makes(h.buttons, r, s, Tail(cs))
  <2> DEFINE f == [i \in 0 .. n - 1 |-> made[i + 1] - 1]
             ds == Tail(cs)
  <2>0. made[1] = 1 /\ cs[1] = h.buttons
    <3>1. 1 \in 1 .. n /\ 1 - 1 = 0
      BY <1>1
    <3>2. QED BY <1>1, <1>3, <1>4, <1>5, <1>7, <3>1
  <2>1. cs # << >> /\ m >= 1 /\ Head(cs) = h.buttons
    <3>1. 1 \in 0 .. m
      BY <1>1, <1>3, <2>0
    <3>2. QED BY <2>0, <3>1
  <2>2. Len(ds) = m - 1 /\ \A i \in 1 .. m - 1 : ds[i] = cs[i + 1]
    BY <2>1
  <2>3. \A i \in 1 .. n : made[i] >= 1
    <3> DEFINE T == {k \in Nat : k + 1 <= n => made[k + 1] >= 1}
    <3>1. 0 \in T
      BY <2>0
    <3>2. ASSUME NEW k \in Nat, k \in T PROVE k + 1 \in T
      <4> SUFFICES ASSUME k + 2 <= n PROVE made[k + 2] >= 1
        OBVIOUS
      <4>1. k + 2 \in 1 .. n /\ (k + 2) - 1 = k + 1 /\ k + 1 \in 0 .. n /\ k + 1 <= n
        BY <1>1
      <4>2. made[k + 1] >= 1 /\ made[k + 1] \in Nat
        BY <1>1, <1>3, <3>2, <4>1
      <4>3. made[k + 2] \in {made[k + 1], made[k + 1] + 1}
        BY <1>4, <4>1
      <4>4. QED BY <4>2, <4>3
    <3> HIDE DEF T
    <3>3. Nat \subseteq T
      BY <3>1, <3>2, SetInduction
    <3>4. ASSUME NEW i \in 1 .. n PROVE made[i] >= 1
      <4>1. i - 1 \in Nat /\ (i - 1) + 1 = i /\ i <= n
        BY <1>1
      <4>2. i - 1 \in T
        BY <3>3, <4>1
      <4>3. QED BY <4>1, <4>2 DEF T
    <3>5. QED BY <3>4
  <2>4. f \in [0 .. Len(r) -> 0 .. Len(ds)]
    <3>1. ASSUME NEW i \in 0 .. n - 1 PROVE made[i + 1] - 1 \in 0 .. m - 1
      <4>1. i + 1 \in 1 .. n /\ i + 1 \in 0 .. n
        BY <1>1
      <4>2. made[i + 1] \in 0 .. m /\ made[i + 1] >= 1
        BY <1>3, <2>3, <4>1
      <4>3. QED BY <1>1, <4>2
    <3>2. QED BY <1>1, <2>2, <3>1
  <2>5. f[0] = 0 /\ f[Len(r)] = Len(ds)
    BY <1>1, <1>3, <2>0, <2>2
  <2>6. \A i \in 0 .. n - 1 : f[i] = made[i + 1] - 1
    BY <1>1
  <2> HIDE DEF f, r, n, m, h, ds
  <2>7. \A k \in 1 .. m : After(h.buttons, ds, k - 1) = After(b, cs, k)
    BY <1>1, <2>0, <2>2 DEF After
  <2>8. ASSUME NEW i \in 1 .. Len(r)
        PROVE  IF Changes(r[i], s, After(h.buttons, ds, f[i - 1]))
               THEN f[i] = f[i - 1] + 1 /\ ds[f[i]] = r[i].buttons
               ELSE f[i] = f[i - 1]
    <3>1. /\ f[i] = made[i + 1] - 1 /\ f[i - 1] = made[i] - 1 /\ r[i] = q[i + 1]
          /\ i + 1 \in 1 .. n /\ i \in 1 .. n /\ (i + 1) - 1 = i
      BY <1>1, <2>6
    <3>2. made[i] \in 1 .. m /\ made[i + 1] \in 1 .. m
      BY <1>1, <1>3, <2>3, <3>1
    <3>3. After(h.buttons, ds, f[i - 1]) = After(b, cs, made[i])
      BY <2>7, <3>1, <3>2
    <3>4. IF Changes(r[i], s, After(b, cs, made[i]))
          THEN made[i + 1] = made[i] + 1 /\ cs[made[i + 1]] = r[i].buttons
          ELSE made[i + 1] = made[i]
      BY <1>4, <3>1
    <3>5. ASSUME made[i + 1] = made[i] + 1 PROVE ds[f[i]] = cs[made[i + 1]]
      <4>a. \A x \in 1 .. m : x + 1 \in 1 .. m => x \in 1 .. m - 1 /\ (x + 1) - 1 = x
        BY <1>1
      <4>1. made[i] \in 1 .. m - 1 /\ (made[i] + 1) - 1 = made[i]
        BY <3>2, <3>5, <4>a
      <4>2. ds[made[i]] = cs[made[i] + 1]
        BY <2>2, <4>1
      <4>3. QED BY <3>1, <3>5, <4>1, <4>2
    <3>6. /\ made[i + 1] - 1 = (made[i] - 1) + 1 <=> made[i + 1] = made[i] + 1
          /\ made[i + 1] - 1 = made[i] - 1 <=> made[i + 1] = made[i]
      <4>1. \A x, y \in Int : (y - 1 = (x - 1) + 1 <=> y = x + 1) /\ (y - 1 = x - 1 <=> y = x)
        OBVIOUS
      <4>2. made[i] \in Int /\ made[i + 1] \in Int
        BY <1>1, <3>2
      <4>3. QED BY <4>1, <4>2
    <3>7. (f[i] = f[i - 1] + 1 <=> made[i + 1] = made[i] + 1)
          /\ (f[i] = f[i - 1] <=> made[i + 1] = made[i])
      BY <3>1, <3>6
    <3>8. QED BY <3>3, <3>4, <3>5, <3>6, <3>7
  <2>9. Counts(f, h.buttons, r, s, ds)
    BY <2>4, <2>5, <2>8 DEF Counts, Changes
  <2>10. Makes(h.buttons, r, s, ds)
    BY <2>9, MakesCounts
  <2>11. QED BY <2>1, <2>10 DEF ds
<1>8. QED BY <1>6, <1>7

LEMMA MakesPut ==
  ASSUME NEW S, NEW B, NEW q \in Seq(S), NEW p \in S, NEW s, NEW b, NEW cs \in Seq(B)
  PROVE  /\ ~Changes(p, s, b) /\ Makes(b, q, s, cs) => Makes(b, <<p>> \o q, s, cs)
         /\ /\ Changes(p, s, b) /\ cs # << >> /\ Head(cs) = p.buttons
            /\ Makes(p.buttons, q, s, Tail(cs))
            => Makes(b, <<p>> \o q, s, cs)
<1> DEFINE r == <<p>> \o q
           n == Len(q)
           m == Len(cs)
<1>1. /\ Len(r) = n + 1 /\ n \in Nat /\ m \in Nat
      /\ \A i \in 1 .. n : r[i + 1] = q[i]
      /\ r[1] = p
  OBVIOUS
<1>c. \A i \in 1 .. n + 1 : i = 1 \/ (i - 1 \in 1 .. n /\ (i - 1) + 1 = i)
  BY <1>1
<1>5. ASSUME ~Changes(p, s, b), Makes(b, q, s, cs) PROVE Makes(b, r, s, cs)
  <2>1. PICK made : Counts(made, b, q, s, cs)
    BY <1>5, MakesCounts
  <2>2. made \in [0 .. n -> 0 .. m] /\ made[0] = 0 /\ made[n] = m
    BY <2>1 DEF Counts
  <2>3. \A i \in 1 .. n : IF Changes(q[i], s, After(b, cs, made[i - 1]))
                          THEN made[i] = made[i - 1] + 1 /\ cs[made[i]] = q[i].buttons
                          ELSE made[i] = made[i - 1]
    BY <2>1 DEF Counts, Changes
  <2> DEFINE f == [i \in 0 .. n + 1 |-> IF i = 0 THEN 0 ELSE made[i - 1]]
  <2>4. \A i \in 1 .. n + 1 : i - 1 \in 0 .. n /\ f[i] = made[i - 1]
    BY <1>1
  <2>5. f \in [0 .. Len(r) -> 0 .. m] /\ f[0] = 0 /\ f[Len(r)] = m
    BY <1>1, <2>2
  <2> HIDE DEF f, r, n, m
  <2>6. ASSUME NEW i \in 1 .. Len(r)
        PROVE  IF Changes(r[i], s, After(b, cs, f[i - 1]))
               THEN f[i] = f[i - 1] + 1 /\ cs[f[i]] = r[i].buttons
               ELSE f[i] = f[i - 1]
    <3>1. CASE i = 1
      <4>0. 1 \in 1 .. n + 1 /\ 1 - 1 = 0
        BY <1>1
      <4>a. r[i] = p
        BY <1>1, <3>1
      <4>b. f[1] = made[0]
        BY <2>4, <4>0
      <4>c. f[i] = 0 /\ f[i - 1] = 0
        BY <2>2, <2>5, <3>1, <4>b
      <4>1. r[i] = p /\ f[i - 1] = 0 /\ f[i] = 0
        BY <4>a, <4>c
      <4>2. After(b, cs, 0) = b
        BY DEF After
      <4>3. QED BY <1>5, <4>1, <4>2
    <3>2. CASE i # 1
      <4>1. /\ i - 1 \in 1 .. n /\ (i - 1) + 1 = i /\ i \in 1 .. n + 1 /\ i - 1 \in 1 .. n + 1
        BY <1>1, <1>c, <3>2
      <4>2. f[i] = made[i - 1] /\ f[i - 1] = made[(i - 1) - 1] /\ r[i] = q[i - 1]
        BY <1>1, <2>4, <4>1
      <4>3. QED BY <2>3, <4>1, <4>2
    <3>3. QED BY <3>1, <3>2
  <2>7. Counts(f, b, r, s, cs)
    BY <2>5, <2>6 DEF Counts, Changes, m
  <2>8. QED BY <2>7, MakesCounts
<1>6. ASSUME Changes(p, s, b), cs # << >>, Head(cs) = p.buttons, Makes(p.buttons, q, s, Tail(cs))
      PROVE  Makes(b, r, s, cs)
  <2> DEFINE ds == Tail(cs)
  <2>0. /\ Len(ds) = m - 1 /\ m >= 1 /\ cs[1] = p.buttons
        /\ \A i \in 1 .. m - 1 : ds[i] = cs[i + 1]
    BY <1>6
  <2>1. PICK made : Counts(made, p.buttons, q, s, ds)
    BY <1>6, MakesCounts
  <2>2. made \in [0 .. n -> 0 .. m - 1] /\ made[0] = 0 /\ made[n] = m - 1
    BY <2>0, <2>1 DEF Counts
  <2>3. \A i \in 1 .. n : IF Changes(q[i], s, After(p.buttons, ds, made[i - 1]))
                          THEN made[i] = made[i - 1] + 1 /\ ds[made[i]] = q[i].buttons
                          ELSE made[i] = made[i - 1]
    BY <2>1 DEF Counts, Changes
  <2> DEFINE f == [i \in 0 .. n + 1 |-> IF i = 0 THEN 0 ELSE made[i - 1] + 1]
  <2>4. \A i \in 1 .. n + 1 : i - 1 \in 0 .. n /\ f[i] = made[i - 1] + 1
    BY <1>1
  <2>m. \A i \in 0 .. n : made[i] \in 0 .. m - 1 /\ made[i] + 1 \in 0 .. m
    BY <1>1, <2>2
  <2>5. f \in [0 .. Len(r) -> 0 .. m] /\ f[0] = 0 /\ f[Len(r)] = m
    <3>1. \A i \in 0 .. n + 1 : (IF i = 0 THEN 0 ELSE made[i - 1] + 1) \in 0 .. m
      BY <1>1, <2>4, <2>m
    <3>2. QED BY <1>1, <2>0, <2>2, <3>1
  <2> HIDE DEF f, r, n, m, ds
  <2>a. \A k \in 0 .. m - 1 : After(p.buttons, ds, k) = After(b, cs, k + 1)
    BY <1>1, <2>0 DEF After
  <2>6. ASSUME NEW i \in 1 .. Len(r)
        PROVE  IF Changes(r[i], s, After(b, cs, f[i - 1]))
               THEN f[i] = f[i - 1] + 1 /\ cs[f[i]] = r[i].buttons
               ELSE f[i] = f[i - 1]
    <3>1. CASE i = 1
      <4>0. 1 \in 1 .. n + 1 /\ 1 - 1 = 0
        BY <1>1
      <4>a. r[i] = p
        BY <1>1, <3>1
      <4>b. f[1] = made[0] + 1
        BY <2>4, <4>0
      <4>c. f[i] = 1 /\ f[i - 1] = 0
        BY <2>2, <2>5, <3>1, <4>b
      <4>1. r[i] = p /\ f[i - 1] = 0 /\ f[i] = 1
        BY <4>a, <4>c
      <4>2. After(b, cs, 0) = b
        BY DEF After
      <4>3. QED BY <1>6, <2>0, <4>1, <4>2
    <3>2. CASE i # 1
      <4> DEFINE x == made[(i - 1) - 1]
                 y == made[i - 1]
      <4>1. /\ i - 1 \in 1 .. n /\ (i - 1) + 1 = i /\ i \in 1 .. n + 1 /\ i - 1 \in 1 .. n + 1
            /\ (i - 1) - 1 \in 0 .. n /\ i - 1 \in 0 .. n
        BY <1>1, <1>c, <3>2
      <4>2. f[i] = y + 1 /\ f[i - 1] = x + 1 /\ r[i] = q[i - 1]
        BY <1>1, <2>4, <4>1
      <4>3. x \in 0 .. m - 1 /\ y \in 0 .. m - 1
        BY <2>m, <4>1
      <4>4. IF Changes(q[i - 1], s, After(p.buttons, ds, x))
            THEN y = x + 1 /\ ds[y] = q[i - 1].buttons
            ELSE y = x
        BY <2>3, <4>1
      <4> HIDE DEF x, y
      <4>5. After(p.buttons, ds, x) = After(b, cs, x + 1)
        BY <2>a, <4>3
      <4>6. y = x + 1 => ds[y] = cs[y + 1]
        BY <1>1, <2>0, <4>3
      <4>7. QED BY <4>2, <4>4, <4>5, <4>6
    <3>3. QED BY <3>1, <3>2
  <2>7. Counts(f, b, r, s, cs)
    BY <2>5, <2>6 DEF Counts, Changes, m
  <2>8. QED BY <2>7, MakesCounts
<1>7. QED BY <1>5, <1>6

\* The last of cs, seen from behind the first.
LEMMA AfterTail ==
  ASSUME NEW B, NEW cs \in Seq(B), cs # << >>, NEW b
  PROVE  After(Head(cs), Tail(cs), Len(Tail(cs))) = After(b, cs, Len(cs))
<1>1. CASE Len(cs) = 1
  BY <1>1 DEF After
<1>2. CASE Len(cs) # 1
  <2>0. Len(Tail(cs)) = Len(cs) - 1 /\ Len(cs) \in Nat /\ Len(cs) # 0
    OBVIOUS
  <2>1. Len(Tail(cs)) = Len(cs) - 1 /\ Len(cs) - 1 \in 1 .. Len(Tail(cs))
    BY <1>2, <2>0
  <2>2. Tail(cs)[Len(cs) - 1] = cs[Len(cs)]
    BY <2>1
  <2>3. QED BY <1>2, <2>1, <2>2 DEF After
<1>3. QED BY <1>1, <1>2

LEMMA AfterAppended ==
  ASSUME NEW B, NEW cs \in Seq(B), NEW c \in B, NEW b
  PROVE  After(b, Append(cs, c), Len(Append(cs, c))) = c
  BY DEF After

\* The changes queued are those the pending packets make, the last of them the last queued.
OrderInv ==
  \A s \in Streams :
    /\ Makes(sent[s].buttons, Pending, s, changes[s])
    /\ accepted[s].buttons = After(sent[s].buttons, changes[s], Len(changes[s]))

ButtonsInv ==
  /\ ShownInv
  /\ changes \in [Streams -> Seq({0, 1})]
  /\ ~failed => OrderInv

Held == Packets \cup {holder}

LEMMA PendingType == packetQueue \in Seq(Packets) => Pending \in Seq(Held)
<1> SUFFICES ASSUME packetQueue \in Seq(Packets) PROVE Pending \in Seq(Held)
  OBVIOUS
<1>1. packetQueue \in Seq(Held) /\ holder \in Held
  BY DEF Held
<1> HIDE DEF Held
<1>2. QED BY <1>1 DEF Pending

LEMMA OrderInit == Init => ButtonsInv
<1> SUFFICES ASSUME Init PROVE ButtonsInv
  OBVIOUS
<1>1. /\ spc = "wait" /\ packetQueue = << >> /\ accepted = sent
      /\ changes = [s \in Streams |-> << >>]
  BY DEF Init
<1>2. Pending = << >> /\ Len(<< >>) = 0
  BY <1>1 DEF Pending
<1>3. ASSUME NEW b, NEW s PROVE Makes(b, << >>, s, << >>)
  <2> DEFINE made == [i \in 0 .. 0 |-> 0]
  <2>1. made \in [0 .. 0 -> 0 .. 0] /\ made[0] = 0
    OBVIOUS
  <2> HIDE DEF made
  <2>2. Counts(made, b, << >>, s, << >>)
    BY <1>2, <2>1 DEF Counts
  <2>3. QED BY <2>2, MakesCounts
<1>4. OrderInv
  BY <1>1, <1>2, <1>3 DEF OrderInv, After
<1>5. changes \in [Streams -> Seq({0, 1})]
  BY <1>1
<1>6. QED BY <1>4, <1>5, ShownInit DEF ButtonsInv

\* The packet that is queued.
LEMMA OfferedPacket ==
  ASSUME CallInv, NEW t \in Threads, Offer(t)
  PROVE  \E p \in Packets :
           /\ packetQueue' = Append(packetQueue, p)
           /\ \/ /\ p \in Batch
                 /\ accepted' = [accepted EXCEPT ![p.stream] = p]
                 /\ changes' = IF p.buttons = accepted[p.stream].buttons THEN changes
                               ELSE [changes EXCEPT ![p.stream] = Append(@, p.buttons)]
              \/ p.kind # "batch" /\ UNCHANGED <<accepted, changes>>
<1>1. PICK j, k, v : /\ call[t] = Call(j, k, v) /\ k \in PacketKinds
                     /\ k = "batch" => v \in Batch
                     /\ k = call[t].kind /\ v = call[t].value
  BY CallShape DEF Offer, Fits, PacketKinds
<1>2. CASE k = "batch"
  <2>1. /\ packetQueue' = Append(packetQueue, v)
        /\ accepted' = [accepted EXCEPT ![v.stream] = v]
        /\ changes' = IF v.buttons = accepted[v.stream].buttons THEN changes
                      ELSE [changes EXCEPT ![v.stream] = Append(@, v.buttons)]
    BY <1>1, <1>2 DEF Offer
  <2>2. v \in Packets /\ v \in Batch
    BY <1>1, <1>2 DEF Packets
  <2>3. QED BY <2>1, <2>2
<1>3. CASE k # "batch"
  <2> DEFINE p == [kind |-> k]
  <2>1. packetQueue' = Append(packetQueue, p) /\ UNCHANGED <<accepted, changes>>
    BY <1>1, <1>3 DEF Offer
  <2>2. p \in Packets /\ p.kind # "batch"
    BY <1>1, <1>3 DEF Packets, PacketKinds
  <2> HIDE DEF p
  <2>3. QED BY <2>1, <2>2
<1>4. QED BY <1>2, <1>3

LEMMA PendingGrows ==
  ASSUME packetQueue \in Seq(Packets), NEW p \in Packets, UNCHANGED <<spc, holder>>,
         packetQueue' = Append(packetQueue, p)
  PROVE  Pending' = Append(Pending, p)
<1>1. CASE spc \notin {"batch", "send"}
  BY <1>1 DEF Pending
<1>2. CASE spc \in {"batch", "send"}
  <2> DEFINE q == packetQueue
             a == <<holder>> \o Append(q, p)
             b == Append(<<holder>> \o q, p)
             n == Len(q)
  <2>1. q \in Seq(Held) /\ p \in Held /\ holder \in Held /\ n \in Nat
    BY DEF Held
  <2> HIDE DEF q, Held
  <2>2. /\ a \in Seq(Held) /\ b \in Seq(Held) /\ Len(a) = n + 2 /\ Len(b) = n + 2
    BY <2>1
  <2>3. \A i \in 1 .. n + 2 : a[i] = b[i]
    BY <2>1
  <2>4. a = b
    BY <2>2, <2>3
  <2>5. QED BY <1>2, <2>4 DEF Pending, q
<1>3. QED BY <1>1, <1>2

LEMMA OrderOffer ==
  ASSUME ButtonsInv, ~failed, NEW t \in Threads, Offer(t)
  PROVE  changes' \in [Streams -> Seq({0, 1})] /\ OrderInv'
<1>0. /\ CallInv /\ packetQueue \in Seq(Packets) /\ ShownTypes /\ OrderInv
      /\ changes \in [Streams -> Seq({0, 1})]
  BY DEF ButtonsInv, ShownInv, DirtyInv, ThreadInv
<1>1. UNCHANGED <<spc, holder, sent>>
  BY DEF Offer, hostVars
<1>2. PICK p \in Packets :
        /\ packetQueue' = Append(packetQueue, p)
        /\ \/ /\ p \in Batch
              /\ accepted' = [accepted EXCEPT ![p.stream] = p]
              /\ changes' = IF p.buttons = accepted[p.stream].buttons THEN changes
                            ELSE [changes EXCEPT ![p.stream] = Append(@, p.buttons)]
           \/ p.kind # "batch" /\ UNCHANGED <<accepted, changes>>
  BY <1>0, OfferedPacket
<1>3. Pending' = Append(Pending, p) /\ Pending \in Seq(Held) /\ p \in Held
  BY <1>0, <1>1, <1>2, PendingGrows, PendingType DEF Held
<1>4. ASSUME NEW s \in Streams, ~OfStream(p, s),
             accepted'[s] = accepted[s], changes'[s] = changes[s]
      PROVE  /\ Makes(sent'[s].buttons, Pending', s, changes'[s])
             /\ accepted'[s].buttons = After(sent'[s].buttons, changes'[s], Len(changes'[s]))
  <2>1. /\ Makes(sent[s].buttons, Pending, s, changes[s])
        /\ accepted[s].buttons = After(sent[s].buttons, changes[s], Len(changes[s]))
        /\ changes[s] \in Seq({0, 1})
    BY <1>0 DEF OrderInv
  <2>2. \A b : ~Changes(p, s, b)
    BY <1>4 DEF Changes
  <2>3. Makes(sent[s].buttons, Append(Pending, p), s, changes[s])
    BY <1>3, <2>1, <2>2, MakesAppended
  <2>4. QED BY <1>1, <1>3, <1>4, <2>1, <2>3
<1>5. CASE p.kind # "batch" /\ UNCHANGED <<accepted, changes>>
  BY <1>0, <1>4, <1>5 DEF OfStream, OrderInv
<1>6. CASE /\ p \in Batch
           /\ accepted' = [accepted EXCEPT ![p.stream] = p]
           /\ changes' = IF p.buttons = accepted[p.stream].buttons THEN changes
                         ELSE [changes EXCEPT ![p.stream] = Append(@, p.buttons)]
  <2> DEFINE z == p.stream
             b == sent[z].buttons
             cs == changes[z]
  <2>1. p.kind = "batch" /\ z \in Streams /\ p.buttons \in {0, 1}
    BY <1>6 DEF Batch
  <2>2. /\ Makes(b, Pending, z, cs) /\ cs \in Seq({0, 1})
        /\ accepted[z].buttons = After(b, cs, Len(cs))
    BY <1>0, <2>1 DEF OrderInv
  <2>3. accepted'[z] = p
    BY <1>0, <1>6, <2>1 DEF ShownTypes
  <2>4. Changes(p, z, After(b, cs, Len(cs))) <=> p.buttons # accepted[z].buttons
    BY <2>1, <2>2 DEF Changes, OfStream
  <2>5. ASSUME NEW s \in Streams, s # z
        PROVE  ~OfStream(p, s) /\ accepted'[s] = accepted[s] /\ changes'[s] = changes[s]
    BY <1>0, <1>6, <2>5 DEF ShownTypes, OfStream
  <2>6. CASE p.buttons = accepted[z].buttons
    <3>1. changes' = changes
      BY <1>6, <2>6
    <3>2. Makes(b, Append(Pending, p), z, cs)
      BY <1>3, <2>2, <2>4, <2>6, MakesAppended
    <3>3. /\ Makes(sent'[z].buttons, Pending', z, changes'[z])
          /\ accepted'[z].buttons = After(sent'[z].buttons, changes'[z], Len(changes'[z]))
      BY <1>1, <1>3, <2>2, <2>3, <2>6, <3>1, <3>2
    <3>4. QED BY <1>0, <1>4, <2>5, <3>1, <3>3 DEF OrderInv
  <2>7. CASE p.buttons # accepted[z].buttons
    <3> DEFINE ds == Append(cs, p.buttons)
    <3>1. changes' = [changes EXCEPT ![z] = ds]
      BY <1>6, <2>7
    <3>2. Makes(b, Append(Pending, p), z, ds)
      BY <1>3, <2>1, <2>2, <2>4, <2>7, MakesAppended
    <3>a. ds \in Seq({0, 1})
      BY <2>1, <2>2
    <3>b. ASSUME NEW c \in {0, 1}, NEW es \in Seq({0, 1})
          PROVE  After(b, Append(es, c), Len(Append(es, c))) = c
      BY AfterAppended
    <3>3. After(b, ds, Len(ds)) = p.buttons /\ ds \in Seq({0, 1})
      BY <2>1, <2>2, <3>a, <3>b
    <3> HIDE DEF ds
    <3>4. changes'[z] = ds /\ changes' \in [Streams -> Seq({0, 1})]
      BY <1>0, <2>1, <3>1, <3>3
    <3>5. /\ Makes(sent'[z].buttons, Pending', z, changes'[z])
          /\ accepted'[z].buttons = After(sent'[z].buttons, changes'[z], Len(changes'[z]))
      BY <1>1, <1>3, <2>3, <3>2, <3>3, <3>4
    <3>6. QED BY <1>4, <2>5, <3>4, <3>5 DEF OrderInv
  <2>8. QED BY <2>6, <2>7
<1>7. QED BY <1>2, <1>5, <1>6

LEMMA OrderKept ==
  ASSUME ButtonsInv, ~failed, UNCHANGED <<sent, changes, accepted>>,
         \A s \in Streams, cs \in Seq({0, 1}) : \A b :
           Makes(b, Pending, s, cs) => Makes(b, Pending', s, cs)
  PROVE  changes' \in [Streams -> Seq({0, 1})] /\ OrderInv'
<1>1. OrderInv /\ changes \in [Streams -> Seq({0, 1})]
  BY DEF ButtonsInv
<1>2. ASSUME NEW s \in Streams PROVE Makes(sent[s].buttons, Pending', s, changes[s])
  <2>1. Makes(sent[s].buttons, Pending, s, changes[s]) /\ changes[s] \in Seq({0, 1})
    BY <1>1 DEF OrderInv
  <2>2. QED BY <2>1
<1>3. QED BY <1>1, <1>2 DEF OrderInv

LEMMA OrderTake ==
  ASSUME ButtonsInv, ~failed, TakePacket
  PROVE  changes' \in [Streams -> Seq({0, 1})] /\ OrderInv'
<1> DEFINE h == Head(packetQueue)
<1>0. packetQueue \in Seq(Packets)
  BY DEF ButtonsInv, ShownInv, DirtyInv, ThreadInv
<1>1. /\ spc = "wait" /\ packetQueue # << >> /\ packetQueue' = Tail(packetQueue)
      /\ holder' = h /\ UNCHANGED <<sent, accepted, changes>>
      /\ spc' = CASE h.kind \in Latest -> "state" [] h.kind = "other" -> "send"
                  [] OTHER -> h.kind
  BY DEF TakePacket, hostVars, threadVars, clientVars
<1>2. Pending = packetQueue
  BY <1>1 DEF Pending
<1>3. CASE spc' \in {"batch", "send"}
  <2>1. <<h>> \o Tail(packetQueue) = packetQueue
    BY <1>0, <1>1
  <2>2. Pending' = packetQueue
    BY <1>1, <1>3, <2>1 DEF Pending
  <2>3. QED BY <1>1, <1>2, <2>2, OrderKept
<1>4. CASE spc' \notin {"batch", "send"}
  <2>1. Pending' = Tail(packetQueue)
    BY <1>1, <1>4 DEF Pending
  <2>2. h.kind # "batch"
    BY <1>1, <1>4 DEF Latest
  <2>3. \A s, b : ~Changes(h, s, b)
    BY <2>2 DEF Changes, OfStream
  <2>4. ASSUME NEW s \in Streams, NEW cs \in Seq({0, 1}), NEW b, Makes(b, packetQueue, s, cs)
        PROVE  Makes(b, Tail(packetQueue), s, cs)
    BY <1>0, <1>1, <2>3, <2>4, MakesTail
  <2>5. QED BY <1>1, <1>2, <2>1, <2>4, OrderKept
<1>5. QED BY <1>3, <1>4

LEMMA OrderJoin ==
  ASSUME ButtonsInv, ~failed, JoinPacket
  PROVE  changes' \in [Streams -> Seq({0, 1})] /\ OrderInv'
<1> DEFINE q == packetQueue
           h == Head(q)
<1>0. q \in Seq(Packets) /\ HeldInv
  BY DEF ButtonsInv, ShownInv, DirtyInv, ThreadInv
<1>1. /\ spc = "batch" /\ q # << >> /\ packetQueue' = Tail(q)
      /\ UNCHANGED <<spc, sent, accepted, changes>>
      /\ h.kind = "batch" /\ h.stream = holder.stream /\ h.buttons = holder.buttons
      /\ holder' = IF holder.stream = "pen" THEN h ELSE [holder EXCEPT !.value = h.value]
  BY DEF JoinPacket, NextJoins, Joins, hostVars, threadVars, clientVars
<1>2. holder \in Batch
  BY <1>0, <1>1 DEF HeldInv
<1>3. /\ holder.kind = "batch" /\ holder'.kind = "batch" /\ holder'.stream = holder.stream
      /\ holder'.buttons = holder.buttons
  BY <1>1, <1>2 DEF Batch
<1>4. Pending = <<holder>> \o q /\ Pending' = <<holder'>> \o Tail(q)
  BY <1>1 DEF Pending
<1> DEFINE S == Held \cup {holder'}
<1>5. /\ q \in Seq(S) /\ Tail(q) \in Seq(S) /\ holder \in S /\ holder' \in S
      /\ Pending \in Seq(S)
  <2>1. q \in Seq(S) /\ holder \in S /\ holder' \in S
    BY <1>0 DEF Held
  <2> HIDE DEF S
  <2>2. QED BY <1>1, <1>4, <2>1
<1>6. Pending # << >> /\ Head(Pending) = holder /\ Tail(Pending) = q
  <2>1. /\ <<holder>> \o q # << >> /\ Head(<<holder>> \o q) = holder
        /\ Tail(<<holder>> \o q) = q
    BY <1>5
  <2>2. QED BY <1>4, <2>1
<1>7. \A s, b : /\ Changes(h, s, b) <=> Changes(holder, s, b)
                /\ Changes(holder', s, b) <=> Changes(holder, s, b)
  BY <1>1, <1>3 DEF Changes, OfStream
<1> HIDE DEF q, h, S
<1>8. ASSUME NEW s \in Streams, NEW cs \in Seq({0, 1}), NEW b, Makes(b, Pending, s, cs)
      PROVE  Makes(b, Pending', s, cs)
  <2>1. CASE ~Changes(holder, s, b)
    <3>1. Makes(b, q, s, cs)
      BY <1>5, <1>6, <1>8, <2>1, MakesTail
    <3>2. Makes(b, Tail(q), s, cs)
      BY <1>1, <1>5, <1>7, <2>1, <3>1, MakesTail DEF h
    <3>3. QED BY <1>4, <1>5, <1>7, <2>1, <3>2, MakesPut
  <2>2. CASE Changes(holder, s, b)
    <3> DEFINE c == holder.buttons
               ds == Tail(cs)
    <3>1. cs # << >> /\ Head(cs) = c /\ Makes(c, q, s, ds)
      BY <1>5, <1>6, <1>8, <2>2, MakesTail
    <3>2. ds \in Seq({0, 1})
      BY <3>1
    <3>3. ~Changes(h, s, c)
      BY <1>1 DEF Changes, q, h
    <3> HIDE DEF c, ds
    <3>4. Makes(c, Tail(q), s, ds)
      BY <1>1, <1>5, <3>1, <3>2, <3>3, MakesTail DEF h
    <3>5. QED BY <1>3, <1>4, <1>5, <1>7, <2>2, <3>1, <3>4, MakesPut DEF c, ds
  <2>3. QED BY <2>1, <2>2
<1>9. QED BY <1>1, <1>8, OrderKept

LEMMA OrderSend ==
  ASSUME ButtonsInv, ~failed, SendPacket
  PROVE  changes' \in [Streams -> Seq({0, 1})] /\ OrderInv'
<1>0. /\ packetQueue \in Seq(Packets) /\ ShownTypes /\ OrderInv
      /\ changes \in [Streams -> Seq({0, 1})]
  BY DEF ButtonsInv, ShownInv, DirtyInv, ThreadInv
<1>1. spc = "send" /\ spc' = "wait" /\ Show(holder) /\ UNCHANGED <<packetQueue, accepted>>
  BY DEF SendPacket, threadVars, clientVars
<1>2. Pending = <<holder>> \o packetQueue /\ Pending' = packetQueue
  BY <1>1 DEF Pending
<1>3. packetQueue \in Seq(Held) /\ holder \in Held
  BY <1>0 DEF Held
<1>4. /\ Pending \in Seq(Held) /\ Pending # << >> /\ Head(Pending) = holder
      /\ Tail(Pending) = Pending'
  <2>1. /\ <<holder>> \o packetQueue \in Seq(Held) /\ <<holder>> \o packetQueue # << >>
        /\ Head(<<holder>> \o packetQueue) = holder
        /\ Tail(<<holder>> \o packetQueue) = packetQueue
    BY <1>3
  <2>2. QED BY <1>2, <2>1
<1>5. ASSUME NEW s \in Streams, ~OfStream(holder, s), sent'[s] = sent[s], changes'[s] = changes[s]
      PROVE  /\ Makes(sent'[s].buttons, Pending', s, changes'[s])
             /\ accepted'[s].buttons = After(sent'[s].buttons, changes'[s], Len(changes'[s]))
  <2>1. /\ Makes(sent[s].buttons, Pending, s, changes[s])
        /\ accepted[s].buttons = After(sent[s].buttons, changes[s], Len(changes[s]))
        /\ changes[s] \in Seq({0, 1})
    BY <1>0 DEF OrderInv
  <2>2. \A b : ~Changes(holder, s, b)
    BY <1>5 DEF Changes
  <2>3. Makes(sent[s].buttons, Pending', s, changes[s])
    BY <1>4, <2>1, <2>2, MakesTail
  <2>4. QED BY <1>1, <1>5, <2>1, <2>3
<1>6. CASE holder.kind # "batch"
  <2>1. UNCHANGED <<sent, changes>>
    BY <1>1, <1>6 DEF Show
  <2>2. QED BY <1>0, <1>5, <1>6, <2>1 DEF OfStream, OrderInv
<1>7. CASE holder.kind = "batch"
  <2> DEFINE z == holder.stream
             b == sent[z].buttons
             cs == changes[z]
             c == holder.buttons
  <2>1. /\ sent' = [sent EXCEPT ![z] = holder]
        /\ changes' = IF c = b THEN changes ELSE [changes EXCEPT ![z] = Tail(@)]
    BY <1>1, <1>7, Zenon DEF Show, Latest
  <2>2. ASSUME NEW s \in Streams, s # z
        PROVE  ~OfStream(holder, s) /\ sent'[s] = sent[s] /\ changes'[s] = changes[s]
    BY <1>0, <2>1, <2>2 DEF ShownTypes, OfStream
  <2>3. CASE z \notin Streams
    <3>1. changes' = changes
      BY <1>0, <2>1, <2>3
    <3>2. \A s \in Streams : s # z
      BY <2>3
    <3>3. QED BY <1>0, <1>5, <2>2, <3>1, <3>2 DEF OrderInv
  <2>4. CASE z \in Streams
    <3>1. /\ Makes(b, Pending, z, cs) /\ cs \in Seq({0, 1})
          /\ accepted[z].buttons = After(b, cs, Len(cs))
      BY <1>0, <2>4 DEF OrderInv
    <3>2. sent'[z] = holder
      BY <1>0, <2>1, <2>4 DEF ShownTypes
    <3>3. Changes(holder, z, b) <=> c # b
      BY <1>7 DEF Changes, OfStream
    <3>4. CASE c = b
      <4>1. changes' = changes
        BY <2>1, <3>4
      <4>2. Makes(b, Pending', z, cs)
        BY <1>4, <3>1, <3>3, <3>4, MakesTail
      <4>3. /\ Makes(sent'[z].buttons, Pending', z, changes'[z])
            /\ accepted'[z].buttons = After(sent'[z].buttons, changes'[z], Len(changes'[z]))
        BY <1>1, <3>1, <3>2, <3>4, <4>1, <4>2
      <4>4. QED BY <1>0, <1>5, <2>2, <4>1, <4>3 DEF OrderInv
    <3>5. CASE c # b
      <4> DEFINE ds == Tail(cs)
      <4>1. changes' = [changes EXCEPT ![z] = ds]
        BY <2>1, <3>5
      <4>2. cs # << >> /\ Head(cs) = c /\ Makes(c, Pending', z, ds)
        BY <1>4, <3>1, <3>3, <3>5, MakesTail
      <4>3. ds \in Seq({0, 1}) /\ After(c, ds, Len(ds)) = After(b, cs, Len(cs))
        BY <3>1, <4>2, AfterTail
      <4> HIDE DEF ds
      <4>4. changes'[z] = ds /\ changes' \in [Streams -> Seq({0, 1})]
        BY <1>0, <2>4, <4>1, <4>3
      <4>5. /\ Makes(sent'[z].buttons, Pending', z, changes'[z])
            /\ accepted'[z].buttons = After(sent'[z].buttons, changes'[z], Len(changes'[z]))
        BY <1>1, <3>1, <3>2, <4>2, <4>3, <4>4
      <4>6. QED BY <1>5, <2>2, <4>4, <4>5 DEF OrderInv
    <3>6. QED BY <3>4, <3>5
  <2>5. QED BY <2>3, <2>4
<1>8. QED BY <1>6, <1>7

LEMMA ButtonsStep == ButtonsInv /\ [Next]_vars => ButtonsInv'
<1> SUFFICES ASSUME ButtonsInv, [Next]_vars PROVE ButtonsInv'
  OBVIOUS
<1>0. /\ ShownInv /\ ShownInv' /\ packetQueue \in Seq(Packets) /\ HeldInv
      /\ changes \in [Streams -> Seq({0, 1})]
  BY ShownStep DEF ButtonsInv, ShownInv, DirtyInv, ThreadInv
<1>f. (failed => spc = "dead") /\ (~failed' => ~failed)
  BY <1>0, FailedStep DEF ShownInv
<1> SUFFICES changes' \in [Streams -> Seq({0, 1})] /\ (~failed' => OrderInv')
  BY <1>0 DEF ButtonsInv
<1>a. ASSUME UNCHANGED changes,
             ~failed /\ ~failed' => changes' \in [Streams -> Seq({0, 1})] /\ OrderInv'
      PROVE  changes' \in [Streams -> Seq({0, 1})] /\ (~failed' => OrderInv')
  BY <1>0, <1>a, <1>f
<1>n. ASSUME UNCHANGED <<packetQueue, spc, holder, sent, accepted, changes>>
      PROVE  changes' \in [Streams -> Seq({0, 1})] /\ (~failed' => OrderInv')
  BY <1>0, <1>f, <1>n DEF ButtonsInv, OrderInv, Pending
<1>p. ASSUME UNCHANGED <<sent, accepted, changes>>, Pending' = Pending
      PROVE  changes' \in [Streams -> Seq({0, 1})] /\ (~failed' => OrderInv')
  BY <1>0, <1>f, <1>p DEF ButtonsInv, OrderInv
<1>1. ASSUME NEW t \in Threads, Starts(t)
      PROVE  changes' \in [Streams -> Seq({0, 1})] /\ (~failed' => OrderInv')
  <2>1. PICK k, v : Begin(t, k, v)
    BY <1>1, BeginKind
  <2>2. QED BY <1>n, <2>1 DEF Begin, hostVars
<1>2. ASSUME NEW t \in Threads, Goes(t)
      PROVE  changes' \in [Streams -> Seq({0, 1})] /\ (~failed' => OrderInv')
  <2>1. CASE Update(t) \/ AllocateFails(t) \/ Allocate(t) \/ OfferFails(t)
    BY <1>n, <2>1 DEF Update, AllocateFails, Allocate, OfferFails, Fail, hostVars
  <2>2. CASE Offer(t)
    <3>1. CASE ~failed
      BY <2>2, <3>1, OrderOffer
    <3>2. CASE failed
      <4>1. PICK p \in Packets :
              \/ /\ p \in Batch
                 /\ changes' = IF p.buttons = accepted[p.stream].buttons THEN changes
                               ELSE [changes EXCEPT ![p.stream] = Append(@, p.buttons)]
              \/ UNCHANGED changes
        BY <1>0, <2>2, OfferedPacket DEF ShownInv, DirtyInv, ThreadInv
      <4>2. ASSUME p \in Batch PROVE [changes EXCEPT ![p.stream] = Append(@, p.buttons)]
                                       \in [Streams -> Seq({0, 1})]
        <5>1. p.stream \in Streams /\ p.buttons \in {0, 1}
          BY <4>2 DEF Batch
        <5>2. Append(changes[p.stream], p.buttons) \in Seq({0, 1})
          BY <1>0, <5>1
        <5>3. QED BY <1>0, <5>1, <5>2
      <4>3. QED BY <1>0, <1>f, <3>2, <4>1, <4>2
    <3>3. QED BY <3>1, <3>2
  <2>3. QED BY <1>2, <2>1, <2>2 DEF Goes
<1>3. CASE inputSendThreadProc
  <2>0. ~failed
    BY <1>3, <1>f DEF inputSendThreadProc, TakePacket, JoinPacket, EndBatch, SplitMove, SendChunk,
       EndMove, TakeState, SendPacket, SendFails, Finish
  <2>1. CASE TakePacket
    BY <2>0, <2>1, OrderTake
  <2>2. CASE JoinPacket
    BY <2>0, <2>2, OrderJoin
  <2>3. CASE SendPacket
    BY <2>0, <2>3, OrderSend
  <2>4. CASE EndBatch \/ SplitMove \/ SendChunk \/ EndMove \/ Finish
    BY <1>p, <2>4 DEF EndBatch, SplitMove, SendChunk, EndMove, Finish, hostVars, threadVars,
                      clientVars, Pending
  <2>5. CASE TakeState
    <3>1. /\ spc = "state" /\ spc' = "send" /\ holder'.kind \in Latest
          /\ UNCHANGED <<packetQueue, sent, accepted, changes>>
      BY <1>0, <2>5 DEF TakeState, Filled, HeldInv, hostVars, threadVars, clientVars
    <3>2. Pending = packetQueue /\ Pending' = <<holder'>> \o packetQueue
      BY <3>1 DEF Pending
    <3> DEFINE S == Packets \cup {holder'}
    <3>3. packetQueue \in Seq(S) /\ holder' \in S
      BY <1>0
    <3>4. \A s, b : ~Changes(holder', s, b)
      BY <3>1 DEF Changes, OfStream, Latest
    <3> HIDE DEF S
    <3>5. ASSUME NEW s \in Streams, NEW cs \in Seq({0, 1}), NEW b, Makes(b, Pending, s, cs)
          PROVE  Makes(b, Pending', s, cs)
      BY <3>2, <3>3, <3>4, <3>5, MakesPut
    <3>6. QED BY <2>0, <3>1, <3>5, OrderKept
  <2>6. CASE SendFails
    BY <1>0, <2>6 DEF SendFails
  <2>7. QED BY <1>3, <2>1, <2>2, <2>3, <2>4, <2>5, <2>6 DEF inputSendThreadProc
<1>4. CASE stopInputStream \/ UNCHANGED vars
  BY <1>n, <1>4 DEF stopInputStream, StopBegins, CloseFreeList, Drain, Join, otherVars, clientVars,
                    hostVars, vars
<1>5. QED BY <1>1, <1>2, <1>3, <1>4 DEF Next

-------------------------------------------------------------------------------
(* Types. *)

StopTypes ==
  /\ {initialized, freeList, draining, failed} \subseteq BOOLEAN
  /\ stop \in {"no", "free list", "drain", "join", "done"}

CallTypes ==
  /\ batchedInputMutex \in Threads \cup {"free"}
  /\ currentPenButtonState \in {0, 1} /\ calls \in 0 .. CALLS
  /\ \A t \in Threads : call[t].stage = "none" \/ call[t].kind \in Kinds
  /\ \A t \in Threads :
       call[t].stage = "state" /\ call[t].kind \in Latest => call[t].value \in Values
  /\ Len(packetQueue) <= QUEUE

StateTypes ==
  /\ latest \in [Latest -> Values] /\ shown \in [Latest -> Values]
  /\ dirty \in [States -> BOOLEAN] /\ refused \in [States -> BOOLEAN]
  /\ sent \in [Streams -> Batch] /\ accepted \in [Streams -> Batch]
  /\ spc = "send" /\ holder.kind = "batch" => holder \in Batch
  /\ spc = "send" /\ holder.kind \in Latest => holder.value \in Values

TypeInv == ButtonsInv /\ MotionInv /\ StopTypes /\ CallTypes /\ StateTypes

LEMMA TypeInvInit == Init => TypeInv
<1> SUFFICES ASSUME Init PROVE TypeInv
  OBVIOUS
<1>1. StopTypes
  BY DEF Init, StopTypes
<1>2. CallTypes
  BY DEF Init, CallTypes, NoCall
<1>3. \A s \in Streams : Still(s) \in Batch
  <2> DEFINE B == BOOLEAN
  <2>1. Batch = [kind : {"batch"}, stream : Streams, buttons : {0, 1}, value : Values, reliable : B]
    BY DEF Batch
  <2>2. TRUE \in B
    OBVIOUS
  <2> HIDE DEF B
  <2>3. QED BY <2>1, <2>2 DEF Still, Values
<1>4. StateTypes
  BY <1>3 DEF Init, StateTypes, Values
<1>5. QED BY <1>1, <1>2, <1>4, OrderInit, MotionInit DEF TypeInv

LEMMA StopTypesStep == StopTypes /\ [Next]_vars => StopTypes'
<1> SUFFICES ASSUME StopTypes, [Next]_vars PROVE StopTypes'
  OBVIOUS
<1> USE DEF StopTypes
<1>1. ASSUME NEW t \in Threads, Starts(t) PROVE StopTypes'
  <2>1. PICK k, v : Begin(t, k, v)
    BY <1>1, BeginKind
  <2>2. UNCHANGED <<initialized, freeList, draining, stop, failed>>
    BY <2>1 DEF Begin, stopVars
  <2>3. QED BY <2>2
<1>2. ASSUME NEW t \in Threads, Goes(t) PROVE StopTypes'
  <2>1. UNCHANGED <<initialized, freeList, draining, stop, failed>>
    BY <1>2 DEF Goes, Update, AllocateFails, OfferFails, Fail, Allocate, Offer, stopVars
  <2>2. QED BY <2>1
<1>3. CASE inputSendThreadProc
  <2>1. UNCHANGED <<initialized, freeList, draining, stop>> /\ (failed' = TRUE \/ failed' = failed)
    BY <1>3 DEF inputSendThreadProc, TakePacket, JoinPacket, EndBatch, SplitMove, SendChunk,
       EndMove, TakeState, SendPacket, SendFails, Finish, threadVars, stopVars
  <2>2. failed' \in BOOLEAN
    BY <2>1
  <2>3. QED BY <2>1, <2>2
<1>4. CASE stopInputStream \/ UNCHANGED vars
  <2>1. /\ failed' = failed
        /\ initialized' = FALSE \/ initialized' = initialized
        /\ freeList' = FALSE \/ freeList' = freeList
        /\ draining' = TRUE \/ draining' = draining
    BY <1>4 DEF stopInputStream, StopBegins, CloseFreeList, Drain, Join, otherVars, vars, stopVars
  <2>2. {initialized', freeList', draining', failed'} \subseteq BOOLEAN
    BY <2>1, Zenon
  <2>3. stop' \in {"no", "free list", "drain", "join", "done"}
    BY <1>4 DEF stopInputStream, StopBegins, CloseFreeList, Drain, Join, vars, stopVars
  <2>4. QED BY <2>2, <2>3
<1>5. QED BY <1>1, <1>2, <1>3, <1>4 DEF Next

LEMMA BeginsOccurring ==
  ASSUME NEW t \in Threads, Starts(t)
  PROVE  \E k, v : k \in Kinds /\ Begin(t, k, v) /\ (k \in Latest => v \in Values)
<1>1. CASE "move" \in Kinds /\ LiSendMouseMoveEvent(t)
  BY <1>1 DEF LiSendMouseMoveEvent, Latest
<1>2. CASE \E k \in Latest \cap Kinds : SendLatest(t, k)
  BY <1>2 DEF SendLatest
<1>3. CASE "batch" \in Kinds /\ \E s \in Streams : SendBatch(t, s)
  <2>1. \E v : Begin(t, "batch", v)
    BY <1>3 DEF SendBatch
  <2>2. QED BY <1>3, <2>1 DEF Latest
<1>4. CASE "other" \in Kinds /\ SendOther(t)
  BY <1>4 DEF SendOther, Latest
<1>5. QED BY <1>1, <1>2, <1>3, <1>4 DEF Starts

LEMMA CallTypesStep ==
  CallTypes /\ CallInv /\ packetQueue \in Seq(Packets) /\ [Next]_vars => CallTypes'
<1> SUFFICES ASSUME CallTypes, CallInv, packetQueue \in Seq(Packets), [Next]_vars PROVE CallTypes'
  OBVIOUS
\* A step of the call of t that keeps its kind.
<1>k. ASSUME NEW t \in Threads, \A u \in Threads : u # t => call'[u] = call[u],
             \/ call'[t].stage = "none"
             \/ call'[t].stage # "state" /\ call'[t].kind = call[t].kind /\ call[t].stage # "none",
             batchedInputMutex' \in {batchedInputMutex, t, "free"}, UNCHANGED calls,
             currentPenButtonState' \in {0, 1}, Len(packetQueue') <= QUEUE
      PROVE  CallTypes'
  BY <1>k DEF CallTypes
<1>1. ASSUME NEW t \in Threads, Starts(t) PROVE CallTypes'
  <2>1. PICK k, v : k \in Kinds /\ Begin(t, k, v) /\ (k \in Latest => v \in Values)
    BY <1>1, BeginsOccurring
  <2> DEFINE s == IF k \in States THEN "state" ELSE "alloc"
  <2>2. /\ UNCHANGED <<batchedInputMutex, currentPenButtonState, packetQueue>>
        /\ calls < CALLS /\ calls' = calls + 1
        /\ Becomes(t, Call(s, k, v))
    BY <2>1 DEF Begin, Becomes, Call
  <2>3. call'[t] = Call(s, k, v) /\ \A u \in Threads : u # t => call'[u] = call[u]
    BY <2>2 DEF Becomes, CallInv
  <2>4. call'[t].kind = k /\ call'[t].value = v
    BY <2>3 DEF Call
  <2>5. calls' \in 0 .. CALLS
    BY <2>2 DEF CallTypes
  <2>6. QED BY <2>1, <2>2, <2>3, <2>4, <2>5 DEF CallTypes
<1>2. ASSUME NEW t \in Threads, Goes(t) PROVE CallTypes'
  <2>0. UNCHANGED calls /\ Len(packetQueue) <= QUEUE /\ currentPenButtonState \in {0, 1}
    BY <1>2 DEF Goes, Update, AllocateFails, OfferFails, Fail, Allocate, Offer, CallTypes
  <2>1. CASE Becomes(t, NoCall) /\ ~Offer(t)
    <3>1. call'[t].stage = "none" /\ \A u \in Threads : u # t => call'[u] = call[u]
      BY <2>1 DEF Becomes, CallInv, NoCall
    <3>2. /\ UNCHANGED <<packetQueue, currentPenButtonState>>
          /\ batchedInputMutex' \in {batchedInputMutex, t, "free"}
      <4>1. ~Allocate(t)
        <5>1. SUFFICES ASSUME Allocate(t) PROVE FALSE
          OBVIOUS
        <5>2. PICK k, w : Becomes(t, Call("offer", k, w))
          BY <5>1, AllocateBecomes
        <5>3. call'[t] = Call("offer", k, w)
          BY <5>2 DEF Becomes, CallInv
        <5>4. QED BY <3>1, <5>3 DEF Call
      <4>2. QED BY <1>2, <2>1, <4>1 DEF Goes, Update, AllocateFails, OfferFails, Fail, Return
    <3>3. QED BY <1>k, <2>0, <3>1, <3>2
  <2>2. CASE Update(t) /\ call' = [call EXCEPT ![t].stage = "alloc"]
    <3>1. PICK s, k, v : call[t] = Call(s, k, v) /\ s = "state"
      BY <2>2, CallShape DEF Update
    <3>2. [call[t] EXCEPT !.stage = "alloc"] = Call("alloc", k, v)
      BY <3>1 DEF Call
    <3>3. call' = [call EXCEPT ![t] = [call[t] EXCEPT !.stage = "alloc"]]
      BY <2>2
    <3>4. call'[t] = Call("alloc", k, v) /\ \A u \in Threads : u # t => call'[u] = call[u]
      BY <3>2, <3>3 DEF CallInv
    <3>5. call'[t].stage = "alloc" /\ call'[t].kind = call[t].kind /\ call[t].stage = "state"
      BY <3>1, <3>4 DEF Call
    <3>6. /\ UNCHANGED <<packetQueue, currentPenButtonState>>
          /\ batchedInputMutex' \in {batchedInputMutex, t, "free"}
      BY <2>2 DEF Update
    <3>7. QED BY <1>k, <2>0, <3>4, <3>5, <3>6
  <2>3. CASE Allocate(t)
    <3>1. PICK k, w : /\ Becomes(t, Call("offer", k, w)) /\ (k = "batch" => Fits(k, w))
                      /\ k = call[t].kind
      BY <2>3, AllocateBecomes
    <3>2. call'[t] = Call("offer", k, w) /\ \A u \in Threads : u # t => call'[u] = call[u]
      BY <3>1 DEF Becomes, CallInv
    <3>3. call'[t].stage = "offer" /\ call'[t].kind = call[t].kind /\ call[t].stage = "alloc"
      BY <2>3, <3>1, <3>2 DEF Call, Allocate
    <3>4. UNCHANGED <<packetQueue, batchedInputMutex>>
      BY <2>3 DEF Allocate
    <3>5. currentPenButtonState' \in {0, 1}
      <4>1. CASE IsPen(call[t])
        <5>1. currentPenButtonState' = call[t].value.buttons /\ call[t].kind = "batch"
          BY <2>3, <4>1 DEF Allocate, IsPen
        <5>2. call[t].value \in Batch
          BY <3>3, <5>1, CallShape DEF Fits
        <5>3. QED BY <5>1, <5>2 DEF Batch
      <4>2. CASE ~IsPen(call[t])
        BY <2>0, <2>3, <4>2 DEF Allocate
      <4>3. QED BY <4>1, <4>2
    <3>6. QED BY <1>k, <2>0, <3>2, <3>3, <3>4, <3>5
  <2>4. CASE Offer(t)
    <3>1. /\ Becomes(t, NoCall) /\ ~Full /\ UNCHANGED currentPenButtonState
          /\ batchedInputMutex' \in {batchedInputMutex, t, "free"}
      BY <2>4 DEF Offer, Return, Becomes
    <3>2. call'[t].stage = "none" /\ \A u \in Threads : u # t => call'[u] = call[u]
      BY <3>1 DEF Becomes, CallInv, NoCall
    <3>3. \E p \in Packets : packetQueue' = Append(packetQueue, p)
      BY <2>4, OfferedPacket
    <3>4. Len(packetQueue') <= QUEUE
      BY <3>1, <3>3 DEF Full
    <3>5. QED BY <1>k, <2>0, <3>1, <3>2, <3>4
  <2>5. QED BY <1>2, <2>1, <2>2, <2>3, <2>4
           DEF Goes, Update, AllocateFails, OfferFails, Offer, Fail, Return, Becomes
<1>n. ASSUME UNCHANGED <<call, batchedInputMutex, currentPenButtonState, calls>>,
             Len(packetQueue') <= QUEUE
      PROVE  CallTypes'
  BY <1>n DEF CallTypes
<1>3. CASE inputSendThreadProc
  <2>1. UNCHANGED <<call, batchedInputMutex, currentPenButtonState, calls>>
    BY <1>3 DEF inputSendThreadProc, TakePacket, JoinPacket, EndBatch, SplitMove, SendChunk,
       EndMove, TakeState, SendPacket, SendFails, Finish, threadVars, clientVars, Free
  <2>2. packetQueue' = packetQueue \/ (packetQueue # << >> /\ packetQueue' = Tail(packetQueue))
    BY <1>3 DEF inputSendThreadProc, TakePacket, JoinPacket, EndBatch, SplitMove, SendChunk,
       EndMove, TakeState, SendPacket, SendFails, Finish, NextJoins
  <2>3. Len(packetQueue) <= QUEUE /\ Len(packetQueue) \in Nat /\ QUEUE \in Nat
    BY DEF CallTypes
  <2>4. Len(packetQueue') <= QUEUE
    BY <2>2, <2>3
  <2>5. QED BY <1>n, <2>1, <2>4
<1>4. CASE stopInputStream \/ UNCHANGED vars
  BY <1>4 DEF stopInputStream, StopBegins, CloseFreeList, Drain, Join, otherVars, clientVars, vars,
              CallTypes
<1>5. QED BY <1>1, <1>2, <1>3, <1>4 DEF Next

LEMMA StateTypesStep ==
  StateTypes /\ ThreadInv /\ CallTypes /\ [Next]_vars => StateTypes'
<1> SUFFICES ASSUME StateTypes, ThreadInv, CallTypes, [Next]_vars PROVE StateTypes'
  OBVIOUS
<1>0. CallInv /\ packetQueue \in Seq(Packets) /\ HeldInv
  BY DEF ThreadInv
<1>n. ASSUME UNCHANGED <<latest, shown, dirty, refused, sent, accepted, spc, holder>>
      PROVE  StateTypes'
  BY <1>n DEF StateTypes
<1>1. ASSUME NEW t \in Threads, Starts(t) PROVE StateTypes'
  <2>1. PICK k, v : Begin(t, k, v)
    BY <1>1, BeginKind
  <2>2. QED BY <1>n, <2>1 DEF Begin, hostVars, stateVars
<1>2. ASSUME NEW t \in Threads, Goes(t) PROVE StateTypes'
  <2>1. CASE Update(t)
    <3>1. UNCHANGED <<shown, dirty, refused, sent, accepted, spc, holder>>
      BY <2>1 DEF Update, hostVars
    <3>2. call[t].stage = "state" /\ call[t].kind \in States
      BY <1>0, <2>1, CallShape DEF Update
    <3>3. UNCHANGED latest
            \/ (call[t].kind # "move" /\ latest' = [latest EXCEPT ![call[t].kind] = call[t].value])
      BY <2>1 DEF Update
    <3>4. call[t].kind # "move" => call[t].value \in Values
      BY <3>2 DEF CallTypes, States
    <3>5. latest' \in [Latest -> Values]
      BY <3>3, <3>4 DEF StateTypes
    <3>6. QED BY <3>1, <3>5 DEF StateTypes
  <2>2. CASE AllocateFails(t) \/ OfferFails(t)
    <3>1. UNCHANGED <<latest, shown, dirty, sent, accepted, spc, holder>>
      BY <2>2 DEF AllocateFails, OfferFails, Fail, hostVars, stateVars
    <3>2. refused' = [k \in States |-> refused[k] \/ k = call[t].kind]
      BY <2>2 DEF AllocateFails, OfferFails, Fail
    <3>3. refused' \in [States -> BOOLEAN]
      BY <3>2
    <3>4. QED BY <3>1, <3>3 DEF StateTypes
  <2>3. CASE Allocate(t)
    BY <1>n, <2>3 DEF Allocate, hostVars, stateVars
  <2>4. CASE Offer(t)
    <3>1. /\ UNCHANGED <<latest, shown, sent, spc, holder>>
          /\ dirty' = [k \in States |-> dirty[k] \/ k = call[t].kind]
          /\ refused' = [k \in States |-> refused[k] /\ k # call[t].kind]
      BY <2>4 DEF Offer, hostVars
    <3>2. dirty' \in [States -> BOOLEAN] /\ refused' \in [States -> BOOLEAN]
      BY <3>1
    <3>3. PICK p \in Packets : \/ p \in Batch /\ accepted' = [accepted EXCEPT ![p.stream] = p]
                               \/ UNCHANGED accepted
      BY <1>0, <2>4, OfferedPacket
    <3>4. accepted' \in [Streams -> Batch]
      BY <3>3 DEF StateTypes
    <3>5. QED BY <3>1, <3>2, <3>4 DEF StateTypes
  <2>5. QED BY <1>2, <2>1, <2>2, <2>3, <2>4 DEF Goes
<1>3. CASE inputSendThreadProc
  <2>0. UNCHANGED <<refused, accepted, latest>>
    BY <1>3 DEF inputSendThreadProc, TakePacket, JoinPacket, EndBatch, SplitMove, SendChunk,
       EndMove, TakeState, SendPacket, SendFails, Finish, threadVars, clientVars, stateVars
  <2>d. dirty' \in [States -> BOOLEAN]
    <3>1. UNCHANGED dirty \/ \E k : dirty' = [dirty EXCEPT ![k] = FALSE]
      BY <1>3 DEF inputSendThreadProc, TakePacket, JoinPacket, EndBatch, SplitMove, SendChunk,
         EndMove, TakeState, SendPacket, SendFails, Finish, stateVars
    <3>2. dirty \in [States -> BOOLEAN]
      BY DEF StateTypes
    <3>3. QED BY <3>1, <3>2
  <2>m. ASSUME UNCHANGED <<shown, sent>>,
               spc' = "send" /\ holder'.kind = "batch" => holder' \in Batch,
               spc' = "send" /\ holder'.kind \in Latest => holder'.value \in Values
        PROVE  StateTypes'
    BY <2>0, <2>d, <2>m DEF StateTypes
  <2>1. CASE TakePacket
    <3>1. /\ UNCHANGED <<shown, sent>>
          /\ spc' = "send" => holder'.kind \notin Latest /\ holder'.kind # "batch"
      BY <2>1 DEF TakePacket, hostVars, Latest
    <3>2. QED BY <2>m, <3>1
  <2>2. CASE JoinPacket \/ SplitMove \/ SendChunk \/ EndMove \/ SendFails \/ Finish
    BY <2>m, <2>2 DEF JoinPacket, SplitMove, SendChunk, EndMove, SendFails, Finish, hostVars
  <2>3. CASE EndBatch
    <3>1. UNCHANGED <<shown, sent, holder>> /\ holder \in Batch
      BY <1>0, <2>3 DEF EndBatch, hostVars, HeldInv
    <3>2. holder.kind = "batch"
      BY <3>1 DEF Batch
    <3>3. QED BY <2>m, <3>1, <3>2 DEF Latest
  <2>4. CASE TakeState
    <3>1. UNCHANGED <<shown, sent>> /\ holder' = Filled(holder.kind) /\ holder.kind \in Latest
      BY <1>0, <2>4 DEF TakeState, hostVars, HeldInv
    <3>2. holder'.kind = holder.kind /\ holder'.value = latest[holder.kind]
      BY <3>1 DEF Filled
    <3>3. latest[holder.kind] \in Values
      BY <3>1 DEF StateTypes
    <3>4. QED BY <2>m, <3>1, <3>2, <3>3 DEF Latest
  <2>5. CASE SendPacket
    <3>1. spc = "send" /\ spc' = "wait" /\ Show(holder)
      BY <2>5 DEF SendPacket
    <3>2. UNCHANGED sent \/ (holder.kind = "batch" /\ \E s : sent' = [sent EXCEPT ![s] = holder])
      BY <3>1, Zenon DEF Show, Latest
    <3>3. UNCHANGED shown
            \/ (holder.kind \in Latest /\ shown' = [shown EXCEPT ![holder.kind] = holder.value])
      BY <3>1, Zenon DEF Show, Latest
    <3>4. sent' \in [Streams -> Batch]
      BY <3>1, <3>2 DEF StateTypes
    <3>5. shown' \in [Latest -> Values]
      BY <3>1, <3>3 DEF StateTypes
    <3>6. QED BY <2>0, <2>d, <3>1, <3>4, <3>5 DEF StateTypes
  <2>6. QED BY <1>3, <2>1, <2>2, <2>3, <2>4, <2>5 DEF inputSendThreadProc
<1>4. CASE stopInputStream \/ UNCHANGED vars
  BY <1>n, <1>4 DEF stopInputStream, StopBegins, CloseFreeList, Drain, Join, otherVars, clientVars,
                    hostVars, stateVars, vars
<1>5. QED BY <1>1, <1>2, <1>3, <1>4 DEF Next

LEMMA TypeInvStep == TypeInv /\ [Next]_vars => TypeInv'
<1> SUFFICES ASSUME TypeInv, [Next]_vars PROVE TypeInv'
  OBVIOUS
<1>1. ThreadInv /\ CallInv /\ packetQueue \in Seq(Packets)
  BY DEF TypeInv, ButtonsInv, ShownInv, DirtyInv, ThreadInv
<1>2. ButtonsInv' /\ MotionInv'
  BY ButtonsStep, MotionStep DEF TypeInv
<1>3. StopTypes' /\ CallTypes' /\ StateTypes'
  BY <1>1, StopTypesStep, CallTypesStep, StateTypesStep DEF TypeInv
<1>4. QED BY <1>2, <1>3 DEF TypeInv

LEMMA TypesHold == TypeInv => TypeOK
<1> SUFFICES ASSUME TypeInv PROVE TypeOK
  OBVIOUS
<1>1. StopTypes /\ CallTypes /\ StateTypes /\ changes \in [Streams -> Seq({0, 1})]
  BY DEF TypeInv, ButtonsInv
<1>2. packetQueue \in Seq(Packets) /\ delta \in [Axes -> Int] /\ owed \in [Axes -> Int]
  BY DEF TypeInv, MotionInv, Motions
<1>3. spc \in {"wait", "batch", "move", "chunk", "state", "send", "done", "dead"}
  BY DEF TypeInv, ButtonsInv, ShownInv, DirtyInv, ThreadInv, HeldInv
<1>4. QED BY <1>1, <1>2, <1>3 DEF TypeOK, StopTypes, CallTypes, StateTypes

(* Each change of the buttons of a gamepad or the pen that was queued is   *)
(* sent, and in the order they were made, however packets are joined; and  *)
(* every variable keeps its type.                                          *)
THEOREM ButtonsAreInOrder == Spec => []ButtonsInOrder
<1>1. TypeInv => ButtonsInOrder
  BY TypesHold DEF TypeInv, ButtonsInv, OrderInv, ButtonsInOrder
<1>2. QED BY <1>1, TypeInvInit, TypeInvStep, PTL DEF Spec
================================================================================
