------------------------------ MODULE InputStream ------------------------------
(***************************************************************************)
(* InputStream.c: threads of the client hand input events to a bounded     *)
(* queue, and the input thread sends them to the host.  The position of    *)
(* the pointer, its motion and the readings of a sensor are kept beside    *)
(* the queue, which holds at most one packet for each of them; packets of  *)
(* a gamepad or a pen may be joined to the one before them.  Stopping      *)
(* drains the queue.                                                       *)
(***************************************************************************)
EXTENDS Integers, Sequences, FiniteSets, SequencesExt

CONSTANTS Threads,      \* of the client
          Kinds,        \* kinds of packets that occur
          Axes,         \* of the motion of the pointer
          Streams,      \* gamepads, and "pen"
          QUEUE,        \* MAX_QUEUED_INPUT_PACKETS, 150 in the code
          SHORT,        \* INT16_MAX
          CALLS         \* bound of the number of events

ASSUME InputAssumption ==
  /\ Kinds \subseteq {"move", "position", "sensor", "batch", "other"} /\ Threads # {}
  /\ "free" \notin Threads
  /\ {QUEUE, SHORT, CALLS} \subseteq Nat \ {0}

VARIABLES
  initialized, freeList, draining,   \* whether packetHolderFreeList is open, and packetQueue draining
  stop,         \* stopInputStream: "no", "free list", "drain", "join", "done"
  packetQueue,
  call,         \* the call each thread is in
  batchedInputMutex,
  delta,        \* currentRelativeMouseState.deltaX, deltaY
  latest,       \* currentAbsoluteMouseState, currentGamepadSensorState
  dirty,
  currentPenButtonState,
  spc, holder,  \* the input thread
  \* what the host has been sent, and what it has yet to be sent
  owed,         \* motion
  shown,        \* position and reading, as the host has them
  sent,         \* the last packet of each gamepad and of the pen
  accepted,     \* and the last one queued
  changes,      \* buttons queued since, in their order
  refused,      \* a state changed with no packet for it
  failed, calls

clientVars == <<call, calls, refused, accepted, currentPenButtonState>>
stopVars == <<initialized, freeList, draining, stop>>
stateVars == <<delta, latest, dirty>>
hostVars == <<shown, sent>>
vars == <<clientVars, stopVars, stateVars, hostVars, packetQueue, batchedInputMutex, spc, holder,
          owed, changes, failed>>

Latest == {"position", "sensor"}
States == Latest \cup {"move"}
Zero == [a \in Axes |-> 0]
Rest == 0                        \* of a sensor: no motion
Values == {Rest, 1}
Shorts == -SHORT - 1 .. SHORT
Batch == [kind : {"batch"}, stream : Streams, buttons : {0, 1}, value : Values, reliable : BOOLEAN]
Still(s) == [kind |-> "batch", stream |-> s, buttons |-> 0, value |-> Rest, reliable |-> TRUE]
Packets == Batch \cup [kind : States \cup {"other"}]
NoPacket == [kind |-> "none"]
NoCall == [stage |-> "none"]
Calls == [stage : {"state", "alloc", "offer"}, kind : States \cup {"other", "batch"},
          value : [Axes -> Shorts] \cup Values \cup Batch]

TypeOK ==
  /\ {initialized, freeList, draining, failed} \subseteq BOOLEAN
  /\ stop \in {"no", "free list", "drain", "join", "done"}
  /\ packetQueue \in Seq(Packets) /\ Len(packetQueue) <= QUEUE
  /\ \A t \in Threads : call[t].stage = "none" \/ call[t].kind \in Kinds
  /\ batchedInputMutex \in Threads \cup {"free"}
  /\ delta \in [Axes -> Int] /\ latest \in [Latest -> Values] /\ shown \in [Latest -> Values]
  /\ dirty \in [States -> BOOLEAN] /\ refused \in [States -> BOOLEAN]
  /\ spc \in {"wait", "batch", "move", "chunk", "state", "send", "done", "dead"}
  /\ sent \in [Streams -> Batch] /\ accepted \in [Streams -> Batch]
  /\ changes \in [Streams -> Seq({0, 1})] /\ currentPenButtonState \in {0, 1}
  /\ owed \in [Axes -> Int] /\ calls \in 0 .. CALLS

\* initializeInputStream and startInputStream
Init ==
  /\ initialized = TRUE /\ freeList = TRUE /\ draining = FALSE /\ stop = "no"
  /\ packetQueue = << >> /\ call = [t \in Threads |-> NoCall] /\ batchedInputMutex = "free"
  /\ delta = Zero /\ latest = [k \in Latest |-> Rest] /\ dirty = [k \in States |-> FALSE]
  /\ currentPenButtonState = 0
  /\ spc = "wait" /\ holder = NoPacket
  /\ owed = Zero /\ shown = [k \in Latest |-> Rest]
  /\ sent = [s \in Streams |-> Still(s)] /\ accepted = sent
  /\ changes = [s \in Streams |-> << >>]
  /\ refused = [k \in States |-> FALSE] /\ failed = FALSE /\ calls = 0
-------------------------------------------------------------------------------
(* Calls of the client's threads. *)
Begin(t, k, v) ==
  /\ call[t] = NoCall /\ initialized /\ calls < CALLS
  /\ calls' = calls + 1
  /\ call' = [call EXCEPT ![t] = [stage |-> IF k \in States THEN "state" ELSE "alloc",
                                  kind |-> k, value |-> v]]
  /\ UNCHANGED <<stopVars, stateVars, hostVars, packetQueue, batchedInputMutex, spc, holder, owed,
                 changes, failed, refused, accepted, currentPenButtonState>>

LiSendMouseMoveEvent(t) == \E d \in [Axes -> Shorts] : d # Zero /\ Begin(t, "move", d)

\* LiSendMousePositionEvent, LiSendControllerMotionEvent
SendLatest(t, k) == \E v \in Values : Begin(t, k, v)

\* LiSendMultiControllerEvent, LiSendPenEvent
SendBatch(t, s) ==
  \E b \in {0, 1}, v \in Values :
    Begin(t, "batch", [kind |-> "batch", stream |-> s, buttons |-> b, value |-> v,
                       reliable |-> TRUE])

\* Buttons, keys, scrolls, touches and the like.
SendOther(t) == Begin(t, "other", Rest)

\* The new state is combined with the last one; a packet may already be queued.
Update(t) ==
  LET c == call[t] IN
  /\ c.stage = "state" /\ batchedInputMutex = "free"
  /\ IF c.kind = "move"
     THEN /\ delta' = [a \in Axes |-> delta[a] + c.value[a]]
          /\ owed' = [a \in Axes |-> owed[a] + c.value[a]]
          /\ UNCHANGED latest
     ELSE latest' = [latest EXCEPT ![c.kind] = c.value] /\ UNCHANGED <<delta, owed>>
  /\ IF dirty[c.kind]
     THEN call' = [call EXCEPT ![t] = NoCall] /\ UNCHANGED batchedInputMutex
     ELSE call' = [call EXCEPT ![t].stage = "alloc"] /\ batchedInputMutex' = t
  /\ UNCHANGED <<calls, refused, accepted, currentPenButtonState, stopVars, dirty, hostVars,
                 packetQueue, spc, holder, changes, failed>>

Return(t) ==
  /\ call' = [call EXCEPT ![t] = NoCall]
  /\ batchedInputMutex' = IF batchedInputMutex = t THEN "free" ELSE batchedInputMutex

\* The call returns with an error, and no packet queued.
Fail(t) ==
  /\ Return(t)
  /\ refused' = [k \in States |-> refused[k] \/ k = call[t].kind]
  /\ UNCHANGED <<calls, accepted, currentPenButtonState, stopVars, stateVars, hostVars,
                 packetQueue, spc, holder, owed, changes, failed>>

\* allocatePacketHolder; it fails without memory too.
AllocateFails(t) == call[t].stage = "alloc" /\ Fail(t)

IsPen(c) == c.kind = "batch" /\ c.value.stream = "pen"

\* A pen that hovers or moves need only be shown reliably when its buttons change.
Allocate(t) ==
  LET c == call[t] IN
  /\ c.stage = "alloc" /\ freeList
  /\ IF IsPen(c)
     THEN /\ call' = [call EXCEPT ![t].stage = "offer",
                        ![t].value.reliable = c.value.buttons # currentPenButtonState]
          /\ currentPenButtonState' = c.value.buttons
     ELSE call' = [call EXCEPT ![t].stage = "offer"] /\ UNCHANGED currentPenButtonState
  /\ UNCHANGED <<calls, refused, accepted, stopVars, stateVars, hostVars, packetQueue,
                 batchedInputMutex, spc, holder, owed, changes, failed>>

Full == Len(packetQueue) >= QUEUE

OfferFails(t) == call[t].stage = "offer" /\ (Full \/ draining) /\ Fail(t)

Offer(t) ==
  LET c == call[t] IN
  /\ c.stage = "offer" /\ ~Full /\ ~draining
  /\ Return(t)
  /\ dirty' = [k \in States |-> dirty[k] \/ k = c.kind]
  /\ refused' = [k \in States |-> refused[k] /\ k # c.kind]
  /\ IF c.kind = "batch"
     THEN LET p == c.value IN
          /\ packetQueue' = Append(packetQueue, p)
          /\ accepted' = [accepted EXCEPT ![p.stream] = p]
          /\ changes' = IF p.buttons = accepted[p.stream].buttons THEN changes
                        ELSE [changes EXCEPT ![p.stream] = Append(@, p.buttons)]
     ELSE /\ packetQueue' = Append(packetQueue, [kind |-> c.kind])
          /\ UNCHANGED <<accepted, changes>>
  /\ UNCHANGED <<calls, currentPenButtonState, stopVars, delta, latest, hostVars, spc, holder, owed,
                 failed>>
-------------------------------------------------------------------------------
(* inputSendThreadProc; a packet is sent some time after it was taken. *)
threadVars == <<clientVars, stopVars>>
Free == batchedInputMutex = "free" /\ UNCHANGED batchedInputMutex

TakePacket ==
  /\ spc = "wait" /\ packetQueue # << >>
  /\ holder' = Head(packetQueue) /\ packetQueue' = Tail(packetQueue)
  /\ spc' = CASE holder'.kind \in Latest -> "state"
              [] holder'.kind = "other" -> "send"
              [] OTHER -> holder'.kind
  /\ UNCHANGED <<threadVars, stateVars, hostVars, batchedInputMutex, owed, changes, failed>>

\* Mutant of Joins: packets with other buttons are joined as well.
JoinsAny(p) == p.kind = "batch" /\ p.stream = holder.stream

\* The tests of a pen's event type (lines 515 and 540) are left out: every pen packet
\* is of one type that is batched.  Packets are joined here that the code keeps apart.
Joins(p) == p.kind = "batch" /\ p.stream = holder.stream /\ p.buttons = holder.buttons

NextJoins == packetQueue # << >> /\ Joins(Head(packetQueue))

\* Mutant of JoinPacket: a gamepad's packet keeps its older values.
JoinPacketOlder ==
  /\ spc = "batch" /\ NextJoins
  /\ holder' = IF holder.stream = "pen" THEN Head(packetQueue) ELSE holder
  /\ packetQueue' = Tail(packetQueue)
  /\ UNCHANGED <<threadVars, stateVars, hostVars, batchedInputMutex, spc, owed, changes, failed>>

\* A gamepad's packet takes the newer values; of a pen's, the newer packet is sent.
JoinPacket ==
  /\ spc = "batch" /\ NextJoins
  /\ holder' = IF holder.stream = "pen" THEN Head(packetQueue)
               ELSE [holder EXCEPT !.value = Head(packetQueue).value]
  /\ packetQueue' = Tail(packetQueue)
  /\ UNCHANGED <<threadVars, stateVars, hostVars, batchedInputMutex, spc, owed, changes, failed>>

EndBatch ==
  /\ spc = "batch" /\ ~NextJoins /\ spc' = "send"
  /\ UNCHANGED <<threadVars, stateVars, hostVars, packetQueue, batchedInputMutex, holder, owed,
                 changes, failed>>

Clip(d) == IF d < -SHORT - 1 THEN -SHORT - 1 ELSE IF d > SHORT THEN SHORT ELSE d
Chunk == [a \in Axes |-> Clip(delta[a])]
\* Mutant of AfterChunk: what does not fit a packet is forgotten.
NothingAfterChunk == Zero

AfterChunk == [a \in Axes |-> delta[a] - Chunk[a]]

SplitMove ==
  /\ spc = "move" /\ Free /\ delta # Zero
  /\ holder' = [kind |-> "move", chunk |-> Chunk] /\ delta' = AfterChunk
  /\ spc' = "chunk"
  /\ UNCHANGED <<threadVars, latest, dirty, hostVars, packetQueue, owed, changes, failed>>

\* The mutex is not held while the chunk is sent.
SendChunk ==
  /\ spc = "chunk" /\ spc' = "move"
  /\ owed' = [a \in Axes |-> owed[a] - holder.chunk[a]]
  /\ holder' = NoPacket
  /\ UNCHANGED <<threadVars, stateVars, hostVars, packetQueue, batchedInputMutex, changes, failed>>

EndMove ==
  /\ spc = "move" /\ Free /\ delta = Zero
  /\ dirty' = [dirty EXCEPT !["move"] = FALSE]
  /\ spc' = "wait" /\ holder' = NoPacket
  /\ UNCHANGED <<threadVars, delta, latest, hostVars, packetQueue, owed, changes, failed>>

\* A sensor at rest is shown reliably, other readings are not.
Filled(k) == [kind |-> k, value |-> latest[k], reliable |-> k = "position" \/ latest[k] = Rest]

\* Mutant of TakeState: the next change finds no packet queued, and queues none.
TakeStateDirty ==
  /\ spc = "state" /\ Free
  /\ holder' = Filled(holder.kind)
  /\ spc' = "send"
  /\ UNCHANGED <<threadVars, delta, latest, dirty, hostVars, packetQueue, owed, changes, failed>>

TakeState ==
  /\ spc = "state" /\ Free
  /\ holder' = Filled(holder.kind)
  /\ dirty' = [dirty EXCEPT ![holder.kind] = FALSE]
  /\ spc' = "send"
  /\ UNCHANGED <<threadVars, delta, latest, hostVars, packetQueue, owed, changes, failed>>

\* A packet sent unreliably may not be shown.
Show(p) ==
  CASE p.kind = "batch" ->
         /\ sent' = [sent EXCEPT ![p.stream] = p]
         /\ changes' = IF p.buttons = sent[p.stream].buttons THEN changes
                       ELSE [changes EXCEPT ![p.stream] = Tail(@)]
         /\ UNCHANGED shown
    [] p.kind \in Latest ->
         /\ \/ shown' = [shown EXCEPT ![p.kind] = p.value]
            \/ ~p.reliable /\ UNCHANGED shown
         /\ UNCHANGED <<sent, changes>>
    [] OTHER -> UNCHANGED <<shown, sent, changes>>

SendPacket ==
  /\ spc = "send" /\ Show(holder)
  /\ spc' = "wait" /\ holder' = NoPacket
  /\ UNCHANGED <<threadVars, stateVars, packetQueue, batchedInputMutex, owed, failed>>

\* Sending fails: the connection is over, and so is the thread.
SendFails ==
  /\ spc \in {"send", "chunk"}
  /\ spc' = "dead" /\ failed' = TRUE /\ holder' = NoPacket
  /\ UNCHANGED <<threadVars, stateVars, hostVars, packetQueue, batchedInputMutex, owed, changes>>

\* Mutant of Finish: the thread ends with packets still queued.
FinishAtOnce ==
  /\ spc = "wait" /\ draining
  /\ spc' = "done"
  /\ UNCHANGED <<threadVars, stateVars, hostVars, packetQueue, batchedInputMutex, holder, owed,
                 changes, failed>>

Finish ==
  /\ spc = "wait" /\ draining /\ packetQueue = << >>
  /\ spc' = "done"
  /\ UNCHANGED <<threadVars, stateVars, hostVars, packetQueue, batchedInputMutex, holder, owed,
                 changes, failed>>

inputSendThreadProc ==
  TakePacket \/ JoinPacket \/ EndBatch \/ SplitMove \/ SendChunk \/ EndMove \/ TakeState
  \/ SendPacket \/ SendFails \/ Finish
-------------------------------------------------------------------------------
(* stopInputStream *)
otherVars == <<clientVars, stateVars, hostVars, packetQueue, batchedInputMutex, spc, holder, owed,
               changes, failed>>

StopBegins ==
  stop = "no" /\ stop' = "free list" /\ initialized' = FALSE /\ UNCHANGED <<freeList, draining, otherVars>>

CloseFreeList ==
  stop = "free list" /\ stop' = "drain" /\ freeList' = FALSE
  /\ UNCHANGED <<initialized, draining, otherVars>>

Drain ==
  stop = "drain" /\ stop' = "join" /\ draining' = TRUE /\ UNCHANGED <<initialized, freeList, otherVars>>

Join ==
  stop = "join" /\ spc \in {"done", "dead"} /\ stop' = "done"
  /\ UNCHANGED <<initialized, freeList, draining, otherVars>>

stopInputStream == StopBegins \/ CloseFreeList \/ Drain \/ Join
-------------------------------------------------------------------------------
Starts(t) ==
  \/ "move" \in Kinds /\ LiSendMouseMoveEvent(t)
  \/ \E k \in Latest \cap Kinds : SendLatest(t, k)
  \/ "batch" \in Kinds /\ \E s \in Streams : SendBatch(t, s)
  \/ "other" \in Kinds /\ SendOther(t)

Goes(t) == Update(t) \/ AllocateFails(t) \/ Allocate(t) \/ OfferFails(t) \/ Offer(t)

Next ==
  \/ \E t \in Threads : Starts(t) \/ Goes(t)
  \/ inputSendThreadProc
  \/ stopInputStream

Spec == Init /\ [][Next]_vars
-------------------------------------------------------------------------------
(* Properties. *)

\* Motion given to the stream is sent, or waits to be: however it is combined, split
\* over packets or overtaken by more, none is lost or sent twice (InputStream.c:424-468).
MotionConserved ==
  LET chunk == IF spc = "chunk" THEN holder.chunk ELSE Zero IN
  ~failed => \A a \in Axes : owed[a] = delta[a] + chunk[a]

\* "Update ready to send (queued packet holder in packetQueue)", InputStream.c:33: a
\* state is dirty while one packet is to send it, and there is never a second.
DirtyIsQueued ==
  \A k \in States :
    LET queued == Cardinality({i \in DOMAIN packetQueue : packetQueue[i].kind = k})
        held == IF (holder.kind = k /\ spc # "send") \/ (k = "move" /\ spc \in {"move", "chunk"})
                THEN 1 ELSE 0 IN
    ~failed => queued + held = IF dirty[k] THEN 1 ELSE 0

\* The packets of stream s among q take its buttons from b through the changes cs, one
\* after the other: made[i] of them are made by the first i packets.
OfStream(p, s) == p.kind = "batch" /\ p.stream = s
Makes(b, q, s, cs) ==
  \E made \in [0 .. Len(q) -> 0 .. Len(cs)] :
    /\ made[0] = 0 /\ made[Len(q)] = Len(cs)
    /\ \A i \in 1 .. Len(q) :
         LET buttons == IF made[i - 1] = 0 THEN b ELSE cs[made[i - 1]] IN
         IF OfStream(q[i], s) /\ q[i].buttons # buttons
         THEN made[i] = made[i - 1] + 1 /\ cs[made[i]] = q[i].buttons
         ELSE made[i] = made[i - 1]

Pending == IF spc \in {"batch", "send"} THEN <<holder>> \o packetQueue ELSE packetQueue

\* Buttons are never joined away: each change of a gamepad's or the pen's buttons that
\* was queued is sent, in the order they were made (InputStream.c:384-395, 538-547).
ButtonsInOrder ==
  /\ TypeOK
  /\ ~failed => \A s \in Streams : Makes(sent[s].buttons, Pending, s, changes[s])

\* Once all is sent the host has the last position and a sensor's rest (InputStream.c:571-574),
\* and has been sent the last state of the pen and of every gamepad.
LastIsShown ==
  spc \in {"wait", "done"} /\ packetQueue = << >> /\ (\A t \in Threads : call[t] = NoCall) =>
    /\ \A k \in Latest :
         ~refused[k] /\ (k = "position" \/ latest[k] = Rest) => shown[k] = latest[k]
    /\ ~refused["move"] => delta = Zero
    /\ \A s \in Streams : sent[s].buttons = accepted[s].buttons /\ sent[s].value = accepted[s].value

\* "Signal the input send thread to drain all pending input packets before shutting
\* down", InputStream.c:735: none is left once it has been joined, and none comes after.
Drained == stop = "done" /\ ~failed => packetQueue = << >> /\ \A k \in States : ~dirty[k]
===============================================================================
