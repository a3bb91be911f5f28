# Moonlight for Tizen in TLA+

Moonlight for Tizen is a NaCl/Pepper client that streams games from a host PC
to a Samsung television: a JavaScript front end, a C++ module (`src/*.cpp`)
and the streaming library moonlight-common-c (`src/moonlight-common-c`).
Nearly all of its own logic is in threads and callbacks that share plain
globals, and in what the two ends of a lossy network make of each other's
packets. That is what is modelled here: nine components in detail, from the
session's threads and both media paths to the input stream. Each has an
abstract specification it implements or invariants that say why it works, and
all nine have proofs for every size of the instance.

## The system and its parts

| part | state it keeps | operations | hard behaviour | what makes it correct | here |
|---|---|---|---|---|---|
| Session threads (`main.cpp`, `connectionlistener.cpp`) | `m_Running`, `s_streamActive`, `m_ConnectionThread`, `m_InputThread` | start/stop request, connection, stop and input thread, posted callbacks | four kinds of thread, joins, no lock | a session that is to end does end and leaves nothing | `Session` |
| Connection stages (`Connection.c`) | `stage`, `alreadyTerminated`, `ConnectionInterrupted` | start 11 stages, stop them, terminate from any streaming thread | stop during start, two stops at once, failing stages | stages are a stack, undone once each | `Session`, `StreamLifecycle` |
| Audio decode and playback (`auddec.cpp`) | sample ring, two indexes | decode a packet, device callback | lock-free ring, wrap, load order | FIFO, no slot read while written | `AudioRing`, `SampleFifo` |
| Queues (`LinkedBlockingQueue.c`) | linked list, size, flags, condition variable | offer, wait, poll, peek, flush, shutdown, drain, wake | signal after unlock and only when empty | bounded FIFO, no lost wake-up | `LinkedBlockingQueue`, `BoundedFifo` |
| RTP audio queue and FEC (`RtpAudioQueue.c`, loop of `AudioStream.c`) | list of FEC blocks, next and oldest sequence number | add packet, drain, recover, give up | loss, reordering, duplication, 16 bit wrap | in sequence, once, nothing recoverable lost, never stuck | `RtpAudioQueue`, `AudioPlayout` |
| Gamepad polling (`gamepad.cpp`) | per slot: arrival, settle count, last state, timestamp | poll each 5 ms, reset from the main thread | unlocked resets between any two stores | arrival before states, hold-off, no change withheld | `GamepadPoll` |
| Video decode and presentation (`viddec.cpp`) | next and current picture, painting flag, decoder, what is bound | submit, PictureReady, PaintFinished, cleanup | callbacks in flight during cleanup, a slot of one | every picture recycled once, none left waiting, each painted with its own texture | `VideoPresenter`; the failure of its setup, in `Session` |
| RTP video queue and FEC (`RtpVideoQueue.c`) | pending and completed block lists, frame and block number, holes | add packet, reconstruct, hand over, speculative loss report | multi-block frames, wrap, loss | frames whole, in order and once; no recoverable frame foretold lost | `RtpVideoQueue`, `FrameFeed` |
| Video depacketizer (`VideoDepacketizer.c`) | frame numbers, waits for IDR/RFI/whole frame, decode unit queue | process payload, complete unit, drop, refresh | lost frames, overflow, refresh by another thread | the decoder gets only decodable frames, recovery ends | `VideoDepacketizer` |
| Control stream (`ControlStream.c`) | invalidation queue, IDR event, callback queue | request IDR, invalidate range, callbacks, termination | requests of several threads joined | no request lost, ranges in order | `FrameRequests`; its batching loop, in `LinkedBlockingQueue` |
| Input stream (`InputStream.c`) | packet queue, states beside it, dirty flags | queue and send, batching, stop | packets joined, split and refused; stop between two steps of a call | motion conserved, buttons in order, last state shown, drained | `InputStream` |
| Mouse and keyboard (`input.cpp`) | accumulated deltas | HandleInputEvent, ReportMouseMovement | deltas shared without a lock | | not modelled |
| RTSP, SDP, STUN, connection test | socket, text | one handshake | sequential I/O | | not modelled |
| HTTP, pairing, certificates (`http.cpp`, `libgamestream`) | request threads, keys | request, pair | sequential, cryptography | each callback answered once | not modelled |
| Front end (`static/js`) | game state, menus | start, stop, messages | | | its three messages, in `Session` |
| Vendored code (Opus, ENet, Reed-Solomon, h264bitstream, jQuery) | | | | | not modelled |

How they interact: the front end posts `startStream` and `stopStream`; the
connection thread brings up the stages, the last of which start the control,
video, audio and input threads. Packets of the network go through the RTP
queues, the depacketizer and a `LinkedBlockingQueue` to the decoders; decoded
audio goes through the ring to the device's thread. The input thread of
`main.cpp` polls the gamepads and hands events to the input stream through
another queue. Any streaming thread may report that the connection is lost,
upon which a thread of its own takes the stages down and posts
`OnConnectionStopped` to the main thread.

## The modules

### AudioRing, refining SampleFifo

`auddec.cpp` has a ring of 32 slots, a decoder that fills the slot at
`s_WriteIndex` and a device callback that copies the one at `s_ReadIndex`;
neither takes a lock. Filling and copying take time, so each has a step in
which it has begun and one in which it ends: what a slot holds in between is
`Garbage`. The decoder's actions are `DecodeBegin`, `DecodeEnd`/`DecodeError`
and `Publish`; the callback's are `CallbackEmpty`, `CallbackBegin`,
`CallbackCopy`, `CallbackAdvance`. `AudDecInit` and `AudDecCleanup` start and
stop the playback between them. The code orders its two stores by a barrier but
not its two loads: `loadsReorder`, chosen in the initial state, says whether
the CPU may copy the slot before it reads the index (`CallbackPrefetch`,
`CallbackLateTest`). `SampleFifo` is the queue of samples that the rest of the
client believes in. The names `RingInit`, `RingNext`, `RingSpec` and
`RingTypeOK` let the proofs of both audio modules live in one.

### LinkedBlockingQueue, refining BoundedFifo

The list itself (`head`, `tail`, `flink`, `currentSize`) and the flags, one
critical section a step, and the signal that follows the unlock another
(`signalling`). The consumer sleeps, wakes (also spuriously), and on the
batching queues peeks and polls as `asyncCallbackThreadFunc` and the input
send thread do. `batches` chooses which of the two uses a queue has: the
comment at `LinkedBlockingQueue.c:133` leaves to the callers that nobody else
removes items while one peeks, and the callers keep to it. `BoundedFifo` has
no list and no locks.

### Session, refining StreamLifecycle

Every thread has a program counter in `pc`: connection threads (one for each
start request), stop threads, input threads and the AsyncTerm threads of
`ClInternalConnectionTerminated`. `LiStopConnection` is walked stage by stage
(`StopTest`, `StopUndo`), because two threads may be in it at once and each test
and decrement is a step of its own. Bringing up a stage is one step that
succeeds or fails; `reporting` holds the stages whose thread stands between the
test of the flags and the store of `alreadyTerminated`. Undoing a stage joins
its threads and so waits for one that is reporting. The main thread runs posted
callbacks in order (`mainQueue`) and requests of the front end.
`joinedConnection` and `joinedInput` are the threads each stop thread has called
`pthread_join` for. A join is undefined if the handle was never assigned, or if
another stop thread joins or has joined the same thread: it then returns at any
time or never (`UndefinedJoin`). `Env` selects what the surroundings do; the
comment at `Circumstance` lists it. `StreamLifecycle` is a stack of stages that
is climbed, or taken down to the ground, and never both.

### RtpAudioQueue, refining AudioPlayout

The receive thread adds one packet a step (`Receive`, one disjunct for each way
`RtpaAddPacket` can return) and then drains the queue packet by packet. A block
is its base, the set of shards that came, the index of the next packet to play
and the two flags; Reed-Solomon is what it does, that enough shards give all
the data. The network is all the orders, losses and duplicates of the shards of
the last `Reach` blocks; the host numbers them from 0, and the client joins the
stream at one of the blocks `Starts`. Sequence numbers are modulo `W` with the
comparison of the code. `AudioPlayout` has no blocks and no queue: it plays
numbers in sequence and may conceal one only if it did not come in time.

`StartsAssumption` keeps the blocks joined at so far below the wrap that the
client is through its first block before the numbers wrap. It is there because
the code has no other mark for "no block yet" than the number 0
(`RtpAudioQueue.c:284`): a client that joined right before the wrap, and for
which block 0 were the first to play, would synchronize a second time and
leave out a block. A host begins a stream at 0, so a client would have to
miss minutes of it; such starts are in neither the run nor the proofs.

### GamepadPoll

One of the four slots. A step of the input thread is one load or store that
the main thread can see; the main thread's `ResetGamepadState` is six stores to
the slot (`ResetField`), the last sent state among them, which may fall between
any two of the other's. A reset follows every message of the page that sets
whether input is enabled, whatever was set before, and the end of a stream.
`heldOff`, `announced` and `hostShows` are what the host has been told.

What holds, holds once the input thread has taken the pad up after a reset
(`TakenUp`), and before that it may not. A reset that falls between the stores
of `gamepad.cpp:1030` and 1037 leaves a released state recorded as sent, and a
sample like it is withheld although the host shows a pressed button, until the
next poll takes the pad up and forgets the record. A state is stored and
compared whole: its seven fields are not told apart.

### RtpVideoQueue, refining FrameFeed

The queue's record is one variable, `queue`; `pendingFecBlockList` is a set of
sequence numbers, and packets recovered are in `made` as well. Adding a packet
is one step, since only the receive thread is in the queue, and `RtpvAddPacket`
has one disjunct for each way through it: `Reject` (stale), `BlockMissed` and
`BlocksLost` (a block of the frame was never there), `Refuse` (a duplicate, or
no use for it), `Wait`, `Complete` (the block is staged, and the frame handed
over with its last block) and `FailToRecover`. The order within is the code's:
`Begin` may report the frame before, `Queue` places the packet, `Count` keeps
the holes, `Admit` may foretell the loss. `calls` are the calls into the
depacketizer the packet caused. The network is `Arrive` (up to `Behind` places
late, up to `Ahead` missing, any number of times) until `Settle`; from then on
`ArriveInOrder`. `FrameFeed` has no packets: it says which calls may follow
which, and the next module takes its word for it. A frame may be passed over
in silence only if a loss has been reported since a block was last begun
(`reported`), which is what line 654 of the code does; any other silence is a
violation.

### VideoDepacketizer with FrameRequests

The receive thread is cut where it looks at what other threads write:
`FirstPacket`/`FirstPacketAfterGap` (the frame begins), `DropWhileWaiting`/
`LastPacket` (it ends), `DropPending`/`KeepFrame`, then `OfferUnit` or
`Overflow` and `FlushOverflow`. `Keep`, `Foretell` and `GiveUp` are the calls
of `FrameFeed` that hand over nothing. The decoder thread takes units, and on
`DR_NEED_IDR` runs `requestDecoderRefresh` store by store. `FrameRequests` has
the two threads of `ControlStream.c`, one that waits for the event and one
that joins queued ranges. All frame numbers are distances back from the frame on its
way, and those above `FAR` are one: the code only compares them. A frame is
its kind (`I`, `R`, `P`), by what it refers to. Between a request and the frame
that answers it any number of P frames may come.

Two parts of the library are modelled that this client does not set in motion:
`viddec.cpp:311` always returns `DR_OK`, so that no decoder asks for a refresh,
and `viddec.cpp:481` does not advertise reference frame invalidation, so that
no range is queued. `Verdicts` and `Modes` say which of them an instance has;
`VideoRecovery` and `VideoFirstWhole` are the client as it is.

### InputStream

A call of a client thread is `Begin`, then `Update` for a state kept beside
the queue (motion, position, sensor), `Allocate` or `AllocateFails`, `Offer`
or `OfferFails`; `batchedInputMutex` is held from `Update` to the end of the
call that queues. The input thread takes a packet and joins what follows
(`JoinPacket`), splits the motion into chunks and lets the mutex go while one
is sent (`SplitMove`, `SendChunk`), fills in a state (`TakeState`), and sends.
`stopInputStream` is four steps. `owed`, `sent`, `accepted`, `changes` and
`shown` record what the host has been and is to be sent.

### VideoPresenter

A handler of the main thread is one step: `DispatchGetPicture`,
`PictureReady`, `PaintFinished`, the last two with `PaintPicture` and its
bindings (`Draw`). The threads that start and stop a session take theirs
between handlers: `VidDecSetup`, `DeleteDecoder`, `DeleteSurface`. GetPicture
and SwapBuffers are asked for and answered later, by a callback that may meet
the next session. `stale` records that a callback has used a decoder that is
not its own: what that does is undefined, and two of the properties end there.

## What the runs check

| run | instance | states | shows |
|---|---|---|---|
| `AudioRing` | 4 slots, 2 samples | 36 796 | indexes' tests stay true, live slots are whole, each accepted sample released once, refines `SampleFifo` (order, no duplicate, silence only when empty, every accepted sample played) |
| `Lbq` | 3 entries, bound 2, 2 other threads, 2 wakes | 38 870 | no lost wake-up, peeked entry is polled, refines `BoundedFifo` with its liveness |
| `Session` | 2 threads of each kind, two reporting stages | 105 133 | stage assertions, no stop during a start, nothing left behind, gamepads released, refines `StreamLifecycle`, a session that is to end ends and the front end hears of it |
| `AudioQueue` | `W` = 12, 2+2 shards, joined at the first or third block, newer and older hosts | 160 184 | block state, refines `AudioPlayout`, playback goes on |
| `Gamepad` | hold-off 2, one button | 637 548 | states follow arrival and hold-off and the host shows the pad, once taken up after a reset; a reporting pad is heard |
| `VideoQueue` | `W` = 16, 9 frames of 1 or 2 blocks, 4 late, 5 missing | 25 909 | holes counted, only hopeless frames foretold lost, frames play once the network has settled, refines `FrameFeed` |
| `VideoLosses` | with and without invalidation, `FAR` = 2, a queue of 1 unit and one of 2 ranges, drop limit 2, both verdicts | 2.70 M | no request lost, ranges in order, waits have a reason, the decoder is offered only what it can decode |
| `VideoRecovery` | without invalidation, `FAR` = 1 | 23 924 | a decoder that waits is given a frame |
| `Input` | 2 threads, 3 calls of all kinds, queue of 2, motion of -2..1 a packet | 3.06 M | motion conserved, one packet a dirty state, buttons in order, last state shown, drained by the stop |
| `Presenter` | 2 sessions of 4 pictures, 3 textures, 2 targets | 34 948 | nobody left in the slot, pictures recycled once, painted with their own texture |
| `SessionStageAssert`, `VideoFirstWhole` | smallest that shows it | | a statement of the code that it does not keep, see below |

Where a module has a type invariant it is a property of its run, or a conjunct
of `FecBlockState`, `HolesCounted`, `WaitHasReason` or `ButtonsInOrder`.

Bounds. A ring of 4 has a full, an empty and a wrapped state and keeps the
decoder and the callback apart by more than one slot; nothing in the code looks
further than the next index. Three entries and a bound of two reach the refused
offer, an entry in the middle and one offered again. Two sessions are what is
needed for one to find the leftovers of another, two stop threads for a stop of
each or one with no session, and the stages 8 and 10 stand for threads that
exist before and after the video stage, whose decoder may fail. `W` = 12 with
blocks of two gives six blocks, three more than `Reach`, so that half the space
is larger than what is in flight, as in the code where 2^15 numbers are many
seconds, and every number wraps; a client that joins at the third block still
has three to go before that. A hold-off of 2 has a first, a last and an armed
count. `MaxWakes` bounds `LbqSignalQueueUserWake`, which this client never
calls; without the bound a queue answers wakes for ever and hands out nothing
(line 216). `Lead` bounds how far the host runs ahead of the playback: audio is
produced at the rate it is played, and a head that is further behind has waited
for longer than the out of sequence time.

The nine frames of `VideoQueue` have every kind of block the comparison
tells apart: one or two a frame, with less, as much and no parity. Their 29
packets pass the wrap at 16, and their number passes half the space of 7, as
the number of a frame, compared with 16 bits, does in the code after nine
minutes. `COOLDOWN` is one frame of what is 5 minutes in the code. `FAR` = 2
leaves three distances, enough for a range of its own before the one being
joined; two queued ranges are what their order takes, and a queue of one unit is
full as soon as it is used; a drop limit of 2 is reached, once with and once
without a frame in between (`VideoFirstWhole` takes 3, so that the limit does
not ask at once). `VideoRecovery` has the distances 0 and 1 only, for its
liveness. Of the input, three calls are what it takes to change a state while
its packet is held and once more while that is refused; a packet that carries
motion of -2..1 splits what two calls add up to; two streams, one of them the
pen, are joined by different rules. Two sessions of four pictures recycle a
texture twice while a third is in the slot.

`Session` excludes three circumstances. Several of user, decoder, host and
front end ending one session at once (`endsTogether`): `SessionStageAssert`
shows, for a stop of the user and a lost connection, that the stages are then
not kept in order. The user's stop and that of a missing decoder are of this
kind as well: both join one thread, which is undefined. A connection lost while
it comes up (`endsConnecting`): `LiStopConnection` then runs beside
`LiStartConnection` with nothing between them; no run shows it, and no property
but the types is claimed of it, except `StopNotDuringStart` in its theorem. And
a start request before the last teardown is over (`restartsEarly`), of which
Limelight.h leaves the effects open. `SessionEnds` excepts stop threads in an
undefined join, which a stop request with no session leads to.

`QuietIsReleased` says that with every thread gone the front end has been told,
and, unless some session was stopped while connecting (`lateStop`), that the
claims are given up: after such a stop the connection thread, completing later,
claims gamepads and input events again, and nobody gives them up.

`OffersDecodable` says two things: of a P frame, in every mode, that the frame
it refers to was queued; and of all frames but IDR frames, that nothing was
freed since an IDR frame was queued. The second is only claimed without
invalidation (`broken => rfi`): with it, an IDR frame that ends the wait for
one with its first packet, and is then found corrupt, or is itself freed by the
refresh, leaves a wait that an R frame ends, whose reference may be among the
frames freed. The property does not see that, nor what an R frame refers to
otherwise. It also excepts a frame that passes its tests while a refresh has
freed the queue but not yet stored `dropStatePending` (`dpc = "drop"`).
`HandedOutIsHeld` and `PaintedAsDecoded` end with `stale`.

`CHECK_DEADLOCK FALSE` stands where an instance may really stop: in the
`Session` runs, whose bounded threads may all have returned; in `Input`, once
the bounded calls are made and the stream is stopped; in `Presenter`, after
the last session; in `VideoQueue`, after the last packet.

Fairness. Threads that can take a step take one (`WF` for each): they are
preemptively scheduled and nothing of higher priority spins. A queue's
consumer loops for ever; the device's thread calls back while playback lasts.
The user, the host, failures, packets and pads are never obliged to act, with
two exceptions. `PlaysOn` supposes that of the newest block some shard comes
again and again at a moment when the thread is ready for it (`SF` on
`NewestComes`). `Recovers` supposes that the host goes on sending frames and
that some IDR frames and some others come whole, over and over (`SF` on
`Begins` and `Ends` of either); any particular frame, request or answer may be
lost. Both say no more than that the network is not dead. The decoder thread,
whose queue others flush, is given its turn (`SF` on `Take`).

## What the code does not keep

Two statements are refuted by runs:

- `Connection.c:138` asserts `stage == STAGE_NONE`: a user's stop and a lost
  connection undo one stage twice (`SessionStageAssert`).
- `VideoDepacketizer.c:1071`, "We wait for the first fully received frame
  after a loss" before asking for an IDR frame: when a frame foretold lost
  comes whole after all, nothing has set `waitingForNextSuccessfulFrame`, and
  it and the whole frames after it are dropped with nothing asked, up to the
  drop limit (`VideoFirstWhole`).

Others were met in modelling, and the models do as the code does:

- `auddec.cpp:21`, "If the indexes aren't equal, we have a sample": not where
  loads are reordered; `s_WriteIndex` is a plain int. `ImplementsFifo` and
  `ReleasesSamples` of `AudioRing` tell the two kinds of CPU apart.
- `main.cpp:85`, "LiStopConnection must not be invoked during
  LiStartConnection": a streaming thread that loses the connection early makes
  `Connection.c` do it, and so may two stop threads, the user's and that of a
  missing decoder, whose joins of one thread are undefined.
- `gamepad.cpp:1014`, the filter on the last sent state: a reset between the
  stores of lines 1030 and 1037 makes it withhold a change for a poll.
- `gamepad.cpp:961`, the hold-off after an arrival: a reset straddling the poll
  wipes the count it has just armed.
- `RtpAudioQueue.c:537` reports a block as unrecoverable for lack of shards:
  a block completed by the packet that is next in sequence is never recovered.
- `RtpAudioQueue.c:79` asserts that the next number never passes the first
  block: base 0 is both a value and the mark for none (line 284).
- `RtpVideoQueue.c:681`: the report of an earlier frame suppresses that of a
  later one; the depacketizer learns of it from the next whole frame.
- `VideoDepacketizer.c:708`, the next frame submitted after a refresh will be
  an IDR frame: one that is past its tests is submitted before it. No decoder
  of this client asks for a refresh.
- `VideoDepacketizer.c:480`, a decode unit that cannot be allocated: the frame
  stays in the chain and is submitted as part of the next.
- `InputStream.c:551`: of two pen packets the newer is sent, and as unreliably
  as it was queued, although the older carried the change of buttons that the
  comment at 1375 wants never dropped.
- `InputStream.c:801` and its like assert that a packet is only refused for
  the bound of the queue; during the drain it is refused for that.

## What is proved

For every value of the constants that satisfies the named assumptions:

- **AudioProofs**, the ring (from `RingAssumption`: at least two slots). Types,
  `ChecksStayTrue`, `LiveSlotsWhole`, `ReleasesSamples`. The invariant
  `RingInv` adds two things to the three properties: the slot a decoder is
  about to publish is whole, without which `LiveSlotsWhole` does not survive
  the publication, and both sides are idle while nothing plays, without which a
  restart's reset of the indexes would break the tests. A side that has passed
  its test keeps it true until it stores its index, because the other moves its
  own by one and only after a test of the opposite sense. `RingIsFifo`: every
  step is one of `SampleFifo`, whose queue is what the slots from the read
  index on hold. Only `Publish` and `CallbackAdvance` change it, since the
  decoder writes past its end; `HeadInv` says that the callback's copy is of
  the slot it will release, where loads stay in order.
- **AudioProofs**, the queue (from `RtpAudioAssumption`: any number of data and
  FEC shards, any lead of the host and lateness of the network for which what
  is in flight fits in half the sequence space, and from `StartsAssumption`).
  `FecBlockState`, and `ImplementsPlayout`, whole. The invariant is `AInv`. A
  place in the stream is measured by its age, the distance modulo `W` back
  from the end of the newest block: within half the space the comparison of the
  code is that of ages. `Listed` says so of every block that is listed: none is
  older than the oldest base and none is newer than what was sent, and the list
  goes from old to new, so it is sorted whatever has wrapped. `Turn` says
  from where packets are taken: the next number is in the oldest base's
  block, which is first if it is listed, all others are untouched, and once a
  packet of it was played it is listed. Without it the head of the list could be
  freed while the next number still points into it. `Holds` ties the blocks to
  `arrived`, the memory of the abstract module: a block has exactly the shards
  that came, but for the parity it did not need any more once whole, and what
  arrived is in some block, so that what the queue gives up never came.
  `Joined` is needed for the second test of line 284: until the first block
  is over the oldest base has not wrapped, and so is not 0 again. Each
  action has a lemma (`...Keeps`) that it keeps `AInv` and is a step of
  `AudioPlayout`, or none.
- **LinkedBlockingQueueProofs** (from `QueueAssumption`). Types,
  `NoLostWakeup`, `PeekedStaysHead`. `QueueInv` says that some one-to-one
  sequence of the entries owned runs from `head` along `flink` to `tail`, and
  that a sleeping consumer has either nothing to do or a signal on its way.
  `QueueIsFifo`: every step is one of `BoundedFifo`, whose queue is that
  sequence (`Walk`), which the list determines.
- **GamepadPollProofs** (from `GamepadAssumption`). Types and
  `AnnouncedAndHeldOff`: `HoldOffInv` says that what is still counted down and
  what has been held off add up to the whole hold-off. `HostShowsPad`:
  `ShownInv` follows a state from the pad to the host (`Copied`, `Sent`) and
  says what the stored timestamp is worth (`Looked`) and when nothing was sent
  yet (`Held`). Both hold while the pad is `TakenUp`: the last store of a
  reset makes the input thread take it up anew, which clears what a poll
  caught between two of the stores has left. Before that the theorems say
  nothing, and the code does not keep either property.
- **SessionProofs** (from `SessionAssumption`: the kinds of threads are
  disjoint). Types, whatever happens. `StopNotDuringStart`, where no session is
  ended by two at once and none begun early (`Apart`), also if a connection is
  lost while it comes up: by `JoinInv` one stop thread at a time joins, so the
  join is defined, and the thread it joins is the one connection thread that
  lives. It is of stop threads only: of the AsyncTerm thread of a connection
  lost while coming up nothing is claimed. And, for `Orderly` circumstances (the
  ones of run `Session`), any number of threads and sessions, and any failing
  stage, decoder or surface: `StageAssertions`, `QuietIsDown`, and that every
  step is one of `StreamLifecycle`. The invariant `OrderInv` is why no lock is
  needed then: one connection thread lives at a time and is the one to be
  joined; every stop thread that lives with it waits for it; a lost connection
  is reported while no agent is at work, and only once; one stop thread lives at
  a time; the stages that are up are the first `stage` ones; and while nobody
  takes the session down the front end is in the game with no `streamTerminated`
  on its way, so that no other session can begin. Of the three circumstances
  that `Orderly` excludes, `SessionStageAssert` shows that `endsTogether` has to
  be. `QuietIsReleased`: `Told` says who is yet to tell the front end, and
  `ReleaseInv` names, for what a session has claimed, the thread or message that
  will give it up, unless a stop came while it was coming up.
- **VideoDepacketizerProofs** (from `RequestsAssumption` and
  `DepacketizerAssumption`; any bounds, modes and verdicts).
  `RequestIsKept`, `RangesInOrder`, `WaitHasReason`. `RequestEffects` says once
  for all actions what a step does to the event and the ranges: it is
  `NextFrame`, a step of the request threads, or one of three calls.
  `PlaceInv` says where the feed and the start of a loss are: never behind
  each other in the wrong order, and at the frame on its way once it has
  begun. With it `RangeInv` holds: all queued ranges, and the one being
  joined, end at or behind both places, so that a new one cannot go back.
  `WaitInv` adds the types, and that a wait for a whole frame is set only with
  another and cleared with the last of them. `OffersDecodable` follows from
  `LinkInv` (while the client waits for nothing it has lost nothing) and
  `BrokenInv` (where frames were freed, a flag says so, or the decoder thread
  is about to, or an IDR frame is past its tests).
- **InputStreamProofs** (from `InputAssumption`; any number of threads and
  calls, any bound of the queue, any size of a packet's motion).
  `MotionConserved`, `DirtyIsQueued`, `Drained`. `CallInv` and `HeldInv` say
  which call and packet belong to which place of a thread. `LockInv` is why
  a state is queued once: the call that is to queue it found it not dirty, and
  keeps the mutex, without which nobody makes it dirty. `StateInv` says then
  that a state has one place, in the queue or with the input thread, and is
  dirty if and only if it has. `DrainInv` adds that the thread ends with
  its queue empty and draining, after which no offer is accepted.
  `LastIsShown`: a state that is neither dirty nor about to be queued nor
  refused is the one sent (`Current`), and the last packet of a stream that was
  accepted is the last one queued, or held, or sent (`StreamInv`).
  `ButtonsInOrder`: the changes that were queued are those the pending packets
  make, one by one (`OrderInv`), whatever is joined in between. `Makes` is a
  function from packets to changes; that it is kept when a packet is
  appended, joined or taken is shown on that function, place by place, by the
  least counterexample of `Nat` (`SetInduction`), since the library's induction
  takes an operator.
- **VideoPresenterProofs** (any number of sessions, pictures, textures and
  targets). `SlotWaitsForPaint`, `HandedOutIsHeld`, `PaintedAsDecoded`.
  `SlotInv`: whoever fills the slot leaves a callback on its way. `PictureInv`
  adds whose the pictures held are, phase by phase, and that those of one
  decoder have different textures, so that recycling one takes no other.
  `ScreenInv` ties the remembered texture and target to what is bound in the
  context of the session.
- **RtpVideoQueueProofs** (from `RtpVideoAssumption`: any sequence of frames of
  one to four blocks that follow each other without a gap, any number of them,
  any loss and duplication; only that a block, and how late a packet may be, fit
  in half the sequence space, without which the comparison of numbers means
  nothing). `ImplementsFeed`, whole: every call into the depacketizer is one
  `FrameFeed` allows, and no frame is passed over in silence but where
  `reported` allows it. `Covers` says why: what is staged are the blocks of the
  frame before the one collected, and while something is pending the buffer
  spans that block. The numbers of frames wrap in their comparison, so a late
  packet must be near: the queue is in no frame of which nothing has come
  (`Began`), each frame it has passed took a packet of the stream at least, and
  so it stands no more frames ahead of a packet than that is packets late
  (`ComesNear`). `HolesCounted`: a number has a place, its distance from the
  lowest one modulo `W`, and within half the space the code's comparison is that
  of places (`BeforePlaces`). `Tallied` counts what was received on either side
  of the data's end, and `Gauged` adds that the holes and what was received fill
  the buffer up to the highest place. `ForetoldIsHopeless` is from `Foretold`: a
  block that was reported has too many holes, or was found complete after all in
  this very frame, whose number keeps `COOLDOWN` away. `SettledFramesPlay` says
  that nothing a storm leaves in the queue costs a later frame. A block ends
  where the next begins, so the blocks are in the order of their places and a
  place belongs to one packet (`BlocksInOrder`, `OnePacket`; over the frames
  between two by `SetInduction`). `Settle` has a condition: the queue is less
  than half the space of packets, and of frames, behind. Without it the property
  does not hold, as every packet would look stale; the storm may leave the queue
  so if enough is lost in one piece. When the network settles at the end of a
  frame the queue therefore `Awaits` the packet that comes, whether or not it
  still collects an older frame, and each packet in order leaves it awaiting the
  next: data up to the last enter on the fast path, the last data completes the
  block without a repair, and the parity behind it is behind the queue too.
  `Played` is then kept: the last data of a frame is where the frame is given.

Only model-checked: the liveness properties and the fair parts of the
refinements (fairness and ENABLED are out of the prover's reach), namely
`SessionEnds`, `PadIsHeard`, `Recovers`, `PlaysOn` and what `BoundedFifo`,
`SampleFifo` and `StreamLifecycle` promise to happen.

## What is left out of the modelled parts

Decoded samples, packets and button states are members of small sets; logging,
statistics and formatting are left out. In `RtpAudioQueue`: the cache of free
blocks, the check of debug builds that recovers a packet it has, and a failing
allocation while a packet is handed out. In `RtpVideoQueue`: the same check, and
hosts before generation 5. In `VideoDepacketizer`: the bytes within a frame,
codecs other than H.264, hosts that do not mark the type of a frame, and the
failing allocation of line 480; a report of a loss looks once at the wait for an
IDR frame, which the code reads at lines 104 and 1129. In `InputStream`: all pen
packets are of one batchable type (lines 515 and 540 tell them apart), so that
more are joined than in the code; the splitting of text, the batched scroll of
old hosts, encryption and waits. In `VideoPresenter`: the rewriting of the SPS
and the feeding of the decoder; handlers are atomic against the stopping thread,
which is one reason more why what follows a deleted decoder is not judged. In
`Session`: what a stage does inside (it succeeds or fails), module loading and
the front end beyond its three messages. In `GamepadPoll`: the other three
slots, so the renumbering of pads, the button mapping and rumble. Assertions
(`LC_ASSERT`) do nothing in a release build; where one is a property, the model
goes on as the code does.

## Not modelled

- `input.cpp`: the deltas are shared without a lock and some motion is lost,
  which no comment forbids; key and modifier tables are data.
- `http.cpp`, `libgamestream`: a thread for each request that blocks and
  answers once; pairing is a sequence of four requests and cryptography.
- RTSP, SDP, connection tests, STUN: sequential I/O over one socket, whose
  failure is a failing stage of `Session`.
- Sockets, ENet's protocol and encryption, by which packets come and go.
- Vendored code: Opus, ENet, Reed-Solomon, h264bitstream, the headers of
  OpenSSL and curl, jQuery. It is seven eighths of the repository's lines.
  Of the 19 000 lines of the client itself (`src/*.cpp`, `libgamestream`,
  `moonlight-common-c/src`) a quarter is mapped to definitions: nearly all of
  `auddec.cpp`, `LinkedBlockingQueue.c`, `Connection.c` and the two RTP
  queues, more than half of `VideoDepacketizer.c`, `viddec.cpp` and `main.cpp`,
  and nearly half of `InputStream.c` and `gamepad.cpp`.

## Plan

1. A second slot of `GamepadPoll` with a coarser interleaving, for the
   renumbering of pads (`gamepad.cpp:710`).
2. The RTSP parser and the pairing sequence as operators, checked against what
   they are to accept.
3. The receive and decoder threads of `AudioStream.c` and `VideoStream.c`
   around the queues: start, first packet, time-out, stop.
