-------------------------------- MODULE Session --------------------------------
(***************************************************************************)
(* The life of a streaming session: Connection.c of moonlight-common-c,    *)
(* which brings eleven stages up and takes them down, and the threads of   *)
(* main.cpp and connectionlistener.cpp that drive it.  Nothing in either   *)
(* file takes a lock: stage, the two flags, m_Running and the pthread_t    *)
(* fields are plain globals of several threads.                            *)
(*                                                                         *)
(* Threads: the main thread (JavaScript messages and posted callbacks, one *)
(* at a time), one connection thread per start request, one stop thread    *)
(* per StopConnection, one input thread per established connection, one    *)
(* AsyncTerm thread per termination callback, and the streaming threads of *)
(* stages 8 to 11, which may report that the connection is lost.           *)
(***************************************************************************)
EXTENDS Integers, Sequences, FiniteSets

CONSTANTS ConnectionThreads, StopThreads, TermThreads, InputThreads,
          NoThread,    \* a pthread_t that was never assigned
          Reporters,   \* the stages whose threads may lose the connection
          Env          \* what the surroundings do, see Circumstance

(***************************************************************************)
(* Which behaviours of the host, the network, the user and the front end   *)
(* are present in an instance:                                             *)
(*   surfaceFails, startFails, decoderFails   what can fail                *)
(*   userStops         a stop request while streaming                      *)
(*   stopsConnecting   a stop request while the connection is coming up    *)
(*   stopsIdle         a stop request with no session (the red key)        *)
(*   hostEnds          a streaming thread loses the connection             *)
(*   endsConnecting    ... even before LiStartConnection has returned      *)
(*   endsTogether      a session may be ended by several of them at once;  *)
(*                     a missing decoder is one of them, as it calls       *)
(*                     StopConnection as the user does                     *)
(*   restartsEarly     a start request before the last teardown is over    *)
(***************************************************************************)
Circumstance == {"surfaceFails", "startFails", "decoderFails", "userStops",
                 "stopsConnecting", "stopsIdle", "hostEnds", "endsConnecting",
                 "endsTogether", "restartsEarly"}

STAGE_PLATFORM_INIT       == 1
STAGE_CONTROL_STREAM_START == 8
STAGE_VIDEO_STREAM_START  == 9
STAGE_INPUT_STREAM_START  == 11

Stages == STAGE_PLATFORM_INIT .. STAGE_INPUT_STREAM_START

\* initializeVideoStream and initializeInputStream return no error.
FailableStages == Stages \ {6, 7}

Agents == ConnectionThreads \cup StopThreads \cup TermThreads

Threads == Agents \cup InputThreads

ASSUME SessionAssumption ==
  /\ Reporters \subseteq STAGE_CONTROL_STREAM_START .. STAGE_INPUT_STREAM_START
  /\ Env \subseteq Circumstance
  /\ ConnectionThreads \cap (StopThreads \cup TermThreads \cup InputThreads) = {}
  /\ StopThreads \cap (TermThreads \cup InputThreads) = {}
  /\ TermThreads \cap InputThreads = {}
  /\ NoThread \notin Threads

VARIABLES
  \* Connection.c
  stage, alreadyTerminated, ConnectionInterrupted,
  up,              \* the stages whose resources exist
  reporting,       \* the stages with a thread inside ClInternalConnectionTerminated
  \* threads
  pc,              \* where each thread stands
  at,              \* the stage an agent is bringing up, testing or undoing
  joinedConnection, joinedInput,   \* the threads a stop thread has called
                                   \* pthread_join for, NoThread before that
  \* MoonlightInstance
  m_ConnectionThread, m_InputThread, m_Running, s_streamActive, inputRequested,
  mainQueue,       \* CallOnMainThread, in order
  \* the front end
  inGame,
  terminatedMsgs,  \* streamTerminated messages on their way to it
  ending,          \* someone has set out to end the session
  lateStop         \* some session was stopped while it was connecting

library == <<stage, alreadyTerminated, ConnectionInterrupted, up, reporting>>
instance == <<m_ConnectionThread, m_InputThread, m_Running, s_streamActive, inputRequested>>
joins == <<joinedConnection, joinedInput>>
frontEnd == <<inGame, terminatedMsgs, ending, lateStop>>
vars == <<stage, alreadyTerminated, ConnectionInterrupted, up, reporting,
          pc, at, joinedConnection, joinedInput, m_ConnectionThread, m_InputThread, m_Running,
          s_streamActive, inputRequested, mainQueue, inGame, terminatedMsgs, ending,
          lateStop>>

TypeOK ==
  /\ stage \in Int
  /\ alreadyTerminated \in BOOLEAN
  /\ ConnectionInterrupted \in BOOLEAN
  /\ up \subseteq Stages
  /\ reporting \subseteq Reporters
  /\ pc \in [Threads -> {"unborn", "start", "started", "established", "spawn", "running",
                         "begin", "joinConnection", "stopRunning", "joinInput",
                         "stop", "test", "undo", "stopped", "exited"}]
  /\ at \in [Agents -> Stages \cup {0}]
  /\ joinedConnection \in [StopThreads -> ConnectionThreads \cup {NoThread}]
  /\ joinedInput \in [StopThreads -> InputThreads \cup {NoThread}]
  /\ m_ConnectionThread \in ConnectionThreads \cup {NoThread}
  /\ m_InputThread \in InputThreads \cup {NoThread}
  /\ m_Running \in BOOLEAN
  /\ s_streamActive \in BOOLEAN
  /\ inputRequested \in BOOLEAN
  /\ mainQueue \in Seq({"OnConnectionStarted", "OnConnectionStopped"})
  /\ inGame \in BOOLEAN
  /\ terminatedMsgs \in Nat
  /\ ending \in BOOLEAN
  /\ lateStop \in BOOLEAN

Init ==
  /\ stage = 0
  /\ alreadyTerminated = FALSE
  /\ ConnectionInterrupted = FALSE
  /\ up = {}
  /\ reporting = {}
  /\ pc = [t \in Threads |-> "unborn"]
  /\ at = [a \in Agents |-> 0]
  /\ joinedConnection = [s \in StopThreads |-> NoThread]
  /\ joinedInput = [s \in StopThreads |-> NoThread]
  /\ m_ConnectionThread = NoThread
  /\ m_InputThread = NoThread
  /\ m_Running = FALSE
  /\ s_streamActive = FALSE
  /\ inputRequested = FALSE
  /\ mainQueue = <<>>
  /\ inGame = FALSE
  /\ terminatedMsgs = 0
  /\ ending = FALSE
  /\ lateStop = FALSE

\* A thread between its creation and its return.
Live(t) == pc[t] \notin {"unborn", "exited"}

Quiet == mainQueue = <<>> /\ \A t \in Threads : ~Live(t)

Connecting == \E c \in ConnectionThreads : Live(c)

\* The connection is up and both the connection thread and the main thread
\* have done what they do when it comes up.
Streaming == inputRequested /\ ~Connecting

Go(t, label) == pc' = [pc EXCEPT ![t] = label]
-------------------------------------------------------------------------------
(* LiStopConnection, run by any agent: raise both flags, then walk the     *)
(* stages from the top, undoing the one that equals stage.                 *)
StopFlags(a) ==
  /\ pc[a] = "stop"
  /\ alreadyTerminated' = TRUE
  /\ ConnectionInterrupted' = TRUE
  /\ at' = [at EXCEPT ![a] = STAGE_INPUT_STREAM_START]
  /\ Go(a, "test")
  /\ UNCHANGED <<stage, up, reporting, joins, instance, mainQueue, frontEnd>>

StopTest(a) ==
  /\ pc[a] = "test"
  /\ at[a] > 0
  /\ IF stage = at[a]
     THEN Go(a, "undo") /\ UNCHANGED at
     ELSE at' = [at EXCEPT ![a] = @ - 1] /\ UNCHANGED pc
  /\ UNCHANGED <<library, joins, instance, mainQueue, frontEnd>>

(* Mutant of StopUndo: the undone stage is not counted off. *)
StopUndoUncounted(a) ==
  /\ pc[a] = "undo"
  /\ at[a] \notin reporting
  /\ up' = up \ {at[a]}
  /\ at' = [at EXCEPT ![a] = @ - 1]
  /\ Go(a, "test")
  /\ UNCHANGED <<stage, alreadyTerminated, ConnectionInterrupted, reporting,
                 joins, instance, mainQueue, frontEnd>>

\* Undoing a stage joins its threads, so it waits for one that is reporting.
StopUndo(a) ==
  /\ pc[a] = "undo"
  /\ at[a] \notin reporting
  /\ up' = up \ {at[a]}
  /\ stage' = stage - 1
  /\ at' = [at EXCEPT ![a] = @ - 1]
  /\ Go(a, "test")
  /\ UNCHANGED <<alreadyTerminated, ConnectionInterrupted, reporting,
                 joins, instance, mainQueue, frontEnd>>

StopDone(a) ==
  /\ pc[a] = "test"
  /\ at[a] = 0
  /\ Go(a, "stopped")
  /\ UNCHANGED <<library, at, joins, instance, mainQueue, frontEnd>>

LiStopConnection(a) == StopFlags(a) \/ StopTest(a) \/ StopUndo(a) \/ StopDone(a)
-------------------------------------------------------------------------------
(* LiStartConnection, run by a connection thread.  The flags are cleared   *)
(* on entry; the resources of a stage exist before stage counts it.        *)
StartEntry(c) ==
  /\ pc[c] = "begin"
  /\ alreadyTerminated' = FALSE
  /\ ConnectionInterrupted' = FALSE
  /\ at' = [at EXCEPT ![c] = STAGE_PLATFORM_INIT]
  /\ Go(c, "start")
  /\ UNCHANGED <<stage, up, reporting, joins, instance, mainQueue, frontEnd>>

StartStage(c) ==
  /\ pc[c] = "start"
  /\ up' = up \cup {at[c]}
  /\ Go(c, "started")
  /\ UNCHANGED <<stage, alreadyTerminated, ConnectionInterrupted, reporting,
                 at, joins, instance, mainQueue, frontEnd>>

(* Mutant of StartStageFails: the error is returned without Cleanup. *)
StartStageFailsUnclean(c) ==
  /\ pc[c] = "start"
  /\ at[c] \in FailableStages
  /\ "startFails" \in Env
  /\ Go(c, "stopped")
  /\ UNCHANGED <<library, at, joins, instance, mainQueue, frontEnd>>

\* A failed stage has undone its own part; Cleanup undoes the others.
StartStageFails(c) ==
  /\ pc[c] = "start"
  /\ at[c] \in FailableStages
  /\ "startFails" \in Env
  /\ Go(c, "stop")
  /\ UNCHANGED <<library, at, joins, instance, mainQueue, frontEnd>>

(* Mutant of StageComplete: one stage too many is begun. *)
StageCompleteRunsOn(c) ==
  /\ pc[c] = "started"
  /\ stage' = stage + 1
  /\ at' = [at EXCEPT ![c] = @ + 1]
  /\ Go(c, "start")
  /\ UNCHANGED <<alreadyTerminated, ConnectionInterrupted, up, reporting,
                 joins, instance, mainQueue, frontEnd>>

StageComplete(c) ==
  /\ pc[c] = "started"
  /\ stage' = stage + 1
  /\ IF at[c] < STAGE_INPUT_STREAM_START
     THEN /\ at' = [at EXCEPT ![c] = @ + 1]
          /\ Go(c, "start")
          /\ UNCHANGED mainQueue
     ELSE /\ mainQueue' = Append(mainQueue, "OnConnectionStarted")
          /\ Go(c, "established")
          /\ UNCHANGED at
  /\ UNCHANGED <<alreadyTerminated, ConnectionInterrupted, up, reporting,
                 joins, instance, frontEnd>>

\* The rest of ConnectionThreadFunc.
SetRunning(c) ==
  /\ pc[c] = "established"
  /\ m_Running' = TRUE
  /\ s_streamActive' = TRUE
  /\ Go(c, "spawn")
  /\ UNCHANGED <<library, at, joins, m_ConnectionThread, m_InputThread,
                 inputRequested, mainQueue, frontEnd>>

SpawnInput(c) ==
  /\ pc[c] = "spawn"
  /\ \E i \in InputThreads :
       /\ pc[i] = "unborn"
       /\ m_InputThread' = i
       /\ pc' = [pc EXCEPT ![c] = "exited", ![i] = "running"]
  /\ UNCHANGED <<library, at, joins, m_ConnectionThread, m_Running,
                 s_streamActive, inputRequested, mainQueue, frontEnd>>

StartFailed(c) ==
  /\ pc[c] = "stopped"
  /\ s_streamActive' = FALSE
  /\ terminatedMsgs' = terminatedMsgs + 1
  /\ Go(c, "exited")
  /\ UNCHANGED <<library, at, joins, m_ConnectionThread, m_InputThread, m_Running,
                 inputRequested, mainQueue, inGame, ending, lateStop>>
-------------------------------------------------------------------------------
(* Mutant of OnConnectionStopped: the gamepads stay claimed. *)
OnConnectionStoppedKeepsPads ==
  /\ m_Running' = FALSE
  /\ inputRequested' = FALSE
  /\ terminatedMsgs' = terminatedMsgs + 1
  /\ UNCHANGED s_streamActive

(* MoonlightInstance::OnConnectionStopped *)
OnConnectionStopped ==
  /\ m_Running' = FALSE
  /\ s_streamActive' = FALSE
  /\ inputRequested' = FALSE
  /\ terminatedMsgs' = terminatedMsgs + 1

\* VidDecSetup finds no decoder: it calls StopConnection on the connection
\* thread, whose stop thread joins that very thread, and then fails the stage.
DecoderFails(c) ==
  /\ pc[c] = "start"
  /\ at[c] = STAGE_VIDEO_STREAM_START
  /\ "decoderFails" \in Env
  /\ ending => "endsTogether" \in Env
  /\ \E s \in StopThreads :
       /\ pc[s] = "unborn"
       /\ pc' = [pc EXCEPT ![c] = "stop", ![s] = "begin"]
  /\ OnConnectionStopped
  /\ ending' = TRUE
  /\ UNCHANGED <<library, at, joins, m_ConnectionThread, m_InputThread,
                 mainQueue, inGame, lateStop>>

ConnectionThread(c) ==
  \/ StartEntry(c) \/ StartStage(c) \/ StartStageFails(c) \/ DecoderFails(c)
  \/ StageComplete(c) \/ SetRunning(c) \/ SpawnInput(c)
  \/ LiStopConnection(c) \/ StartFailed(c)
-------------------------------------------------------------------------------
(* StopThreadFunc.  Each join reads the pthread_t once, when it is called. *)
(* To join a pthread_t that was never assigned, or a thread that another   *)
(* thread joins or has joined, is undefined: such a call returns at any    *)
(* time or never.                                                          *)
UndefinedJoin(joined, s) ==
  joined[s] = NoThread \/ \E r \in StopThreads \ {s} : joined[r] = joined[s]

JoinReturns(joined, s) == ~UndefinedJoin(joined, s) => pc[joined[s]] = "exited"

InUndefinedJoin(s) == \/ pc[s] = "joinConnection" /\ UndefinedJoin(joinedConnection, s)
                      \/ pc[s] = "joinInput" /\ UndefinedJoin(joinedInput, s)

CallJoinConnection(s) ==
  /\ pc[s] = "begin"
  /\ joinedConnection' = [joinedConnection EXCEPT ![s] = m_ConnectionThread]
  /\ Go(s, "joinConnection")
  /\ UNCHANGED <<library, at, joinedInput, instance, mainQueue, frontEnd>>

(* Mutant of ReturnJoinConnection: the connection thread is not waited for. *)
SkipJoinConnection(s) ==
  /\ pc[s] = "joinConnection"
  /\ Go(s, "stopRunning")
  /\ UNCHANGED <<library, at, joins, instance, mainQueue, frontEnd>>

ReturnJoinConnection(s) ==
  /\ pc[s] = "joinConnection"
  /\ JoinReturns(joinedConnection, s)
  /\ Go(s, "stopRunning")
  /\ UNCHANGED <<library, at, joins, instance, mainQueue, frontEnd>>

(* Mutant of CallJoinInput: the input thread is not told to stop. *)
CallJoinInputOnly(s) ==
  /\ pc[s] = "stopRunning"
  /\ joinedInput' = [joinedInput EXCEPT ![s] = m_InputThread]
  /\ Go(s, "joinInput")
  /\ UNCHANGED <<library, at, joinedConnection, instance, mainQueue, frontEnd>>

CallJoinInput(s) ==
  /\ pc[s] = "stopRunning"
  /\ m_Running' = FALSE
  /\ joinedInput' = [joinedInput EXCEPT ![s] = m_InputThread]
  /\ Go(s, "joinInput")
  /\ UNCHANGED <<library, at, joinedConnection, m_ConnectionThread, m_InputThread, s_streamActive,
                 inputRequested, mainQueue, frontEnd>>

ReturnJoinInput(s) ==
  /\ pc[s] = "joinInput"
  /\ JoinReturns(joinedInput, s)
  /\ Go(s, "stop")
  /\ UNCHANGED <<library, at, joins, instance, mainQueue, frontEnd>>

StopThreadReturns(s) ==
  /\ pc[s] = "stopped"
  /\ Go(s, "exited")
  /\ UNCHANGED <<library, at, joins, instance, mainQueue, frontEnd>>

StopThread(s) ==
  \/ CallJoinConnection(s) \/ ReturnJoinConnection(s)
  \/ CallJoinInput(s) \/ ReturnJoinInput(s)
  \/ LiStopConnection(s) \/ StopThreadReturns(s)

(* InputThreadFunc: polls until it sees m_Running false. *)
InputThread(i) ==
  /\ pc[i] = "running"
  /\ ~m_Running
  /\ Go(i, "exited")
  /\ UNCHANGED <<library, at, joins, instance, mainQueue, frontEnd>>
-------------------------------------------------------------------------------
(* ClInternalConnectionTerminated, on a thread of stage r: the test of the *)
(* flags, then the store and the AsyncTerm thread.                         *)
Report(r) ==
  /\ "hostEnds" \in Env
  /\ Connecting => "endsConnecting" \in Env
  /\ ending => "endsTogether" \in Env
  /\ r \in up \ reporting
  /\ ~alreadyTerminated
  /\ ~ConnectionInterrupted
  /\ reporting' = reporting \cup {r}
  /\ ending' = TRUE
  /\ UNCHANGED <<stage, alreadyTerminated, ConnectionInterrupted, up, pc, at, joins,
                 instance, mainQueue, inGame, terminatedMsgs, lateStop>>

RaiseTermination(r) ==
  /\ r \in reporting
  /\ reporting' = reporting \ {r}
  /\ alreadyTerminated' = TRUE
  /\ \E t \in TermThreads : pc[t] = "unborn" /\ Go(t, "stop")
  /\ UNCHANGED <<stage, ConnectionInterrupted, up, at, joins,
                 instance, mainQueue, frontEnd>>

(* The client's callback on the AsyncTerm thread: ClConnectionTerminated. *)
PostStopped(t) ==
  /\ pc[t] = "stopped"
  /\ mainQueue' = Append(mainQueue, "OnConnectionStopped")
  /\ Go(t, "exited")
  /\ UNCHANGED <<library, at, joins, instance, frontEnd>>

TermThread(t) == LiStopConnection(t) \/ PostStopped(t)
-------------------------------------------------------------------------------
(* The main thread: what the other threads posted, and JavaScript.         *)
RunStarted ==
  /\ mainQueue # <<>>
  /\ Head(mainQueue) = "OnConnectionStarted"
  /\ mainQueue' = Tail(mainQueue)
  /\ inputRequested' = TRUE
  /\ UNCHANGED <<library, pc, at, joins, m_ConnectionThread, m_InputThread,
                 m_Running, s_streamActive, frontEnd>>

RunStopped ==
  /\ mainQueue # <<>>
  /\ Head(mainQueue) = "OnConnectionStopped"
  /\ mainQueue' = Tail(mainQueue)
  /\ OnConnectionStopped
  /\ UNCHANGED <<library, pc, at, joins, m_ConnectionThread, m_InputThread,
                 inGame, ending, lateStop>>

MayStart == /\ ~inGame
            /\ "restartsEarly" \in Env \/ (Quiet /\ terminatedMsgs = 0)

HandleStartStream(c) ==
  /\ MayStart
  /\ pc[c] = "unborn"
  /\ Go(c, "begin")
  /\ m_ConnectionThread' = c
  /\ inGame' = TRUE
  /\ ending' = FALSE
  /\ UNCHANGED <<library, at, joins, m_InputThread, m_Running, s_streamActive,
                 inputRequested, mainQueue, terminatedMsgs, lateStop>>

\* InitializeRenderingSurface fails: no connection thread is created.
StartStreamFails ==
  /\ MayStart
  /\ "surfaceFails" \in Env
  /\ OnConnectionStopped
  /\ inGame' = TRUE
  /\ ending' = TRUE
  /\ UNCHANGED <<library, pc, at, joins, m_ConnectionThread, m_InputThread, mainQueue, lateStop>>

(* StopConnection on the main thread. *)
HandleStopStream(s) ==
  /\ \/ inGame /\ Streaming /\ "userStops" \in Env
     \/ inGame /\ ~Streaming /\ "stopsConnecting" \in Env
     \/ ~inGame /\ "stopsIdle" \in Env
  /\ ending => "endsTogether" \in Env
  /\ pc[s] = "unborn"
  /\ Go(s, "begin")
  /\ OnConnectionStopped
  /\ ending' = TRUE
  /\ lateStop' = (lateStop \/ (inGame /\ ~Streaming))
  /\ UNCHANGED <<library, at, joins, m_ConnectionThread, m_InputThread, mainQueue, inGame>>

\* messages.js: the front end leaves the game.
StreamTerminated ==
  /\ terminatedMsgs > 0
  /\ terminatedMsgs' = terminatedMsgs - 1
  /\ inGame' = FALSE
  /\ UNCHANGED <<library, pc, at, joins, instance, mainQueue, ending, lateStop>>

MainThread == RunStarted \/ RunStopped
-------------------------------------------------------------------------------
Next ==
  \/ \E c \in ConnectionThreads : ConnectionThread(c) \/ HandleStartStream(c)
  \/ \E s \in StopThreads : StopThread(s) \/ HandleStopStream(s)
  \/ \E t \in TermThreads : TermThread(t)
  \/ \E i \in InputThreads : InputThread(i)
  \/ \E r \in Reporters : Report(r) \/ RaiseTermination(r)
  \/ MainThread
  \/ StartStreamFails
  \/ StreamTerminated

\* Every thread that can take a step takes it, but an undefined join need not
\* return; the user, the host and the failures are free never to act.
Fairness ==
  /\ \A c \in ConnectionThreads : WF_vars(ConnectionThread(c))
  /\ \A s \in StopThreads : WF_vars(~InUndefinedJoin(s) /\ StopThread(s))
  /\ \A t \in TermThreads : WF_vars(TermThread(t))
  /\ \A i \in InputThreads : WF_vars(InputThread(i))
  /\ \A r \in Reporters : WF_vars(RaiseTermination(r))
  /\ WF_vars(MainThread)
  /\ WF_vars(StreamTerminated)

Spec == Init /\ [][Next]_vars /\ Fairness
-------------------------------------------------------------------------------
Stopping(a) == pc[a] \in {"stop", "test", "undo"}

\* The assertions of Connection.c on stage, whoever runs it and whatever the
\* others do: each stage++ of LiStartConnection counts the stage just brought
\* up (lines 341 to 507), a stage is undone by one thread only and while it
\* exists, and a LiStopConnection leaves no stage behind (line 138).
StageAssertions ==
  /\ \A c \in ConnectionThreads : pc[c] = "started" => stage + 1 = at[c]
  /\ \A a \in Agents : pc[a] = "undo" => stage = at[a] /\ at[a] \in up
  /\ \A a, b \in Agents : pc[a] = "undo" /\ pc[b] = "undo" => a = b
  /\ \A a \in Agents : pc[a] = "stopped" => stage = 0

\* When every thread has gone, nothing of the session is left: no stage, no
\* input loop to be entered, no report under way.
QuietIsDown == Quiet => stage = 0 /\ up = {} /\ reporting = {} /\ ~m_Running

\* ... the front end has been told, and the client no longer claims gamepads and
\* input events: although the thread that gives them up runs beside the one that
\* claims them, they are left claimed only by a stop that came while the
\* connection was coming up.
QuietIsReleased ==
  Quiet => /\ inGame => terminatedMsgs > 0
           /\ ~lateStop => ~s_streamActive /\ ~inputRequested

Lifecycle == INSTANCE StreamLifecycle
               WITH Top <- STAGE_INPUT_STREAM_START,
                    height <- Cardinality(up),
                    descending <- \E a \in Agents : Stopping(a)

\* The connection is climbed and taken down as StreamLifecycle says: never
\* both at once, and a descent, once begun, reaches the ground.
ImplementsLifecycle == Lifecycle!Spec

\* A session that anyone has set out to end is over some time later, with the
\* front end told and every thread gone: no join waits for ever, except one that
\* is undefined.
SessionEnds ==
  ending ~> ~inGame /\ mainQueue = <<>> /\ \A t \in Threads :
              Live(t) => t \in StopThreads /\ InUndefinedJoin(t)

\* main.cpp:85-86, "We must join the connection thread first, because
\* LiStopConnection must not be invoked during LiStartConnection": no stop thread
\* takes stages down before every connection thread has ended, which the join of
\* line 87 gives as long as it is the only one.
StopNotDuringStart == \A s \in StopThreads : Stopping(s) => ~Connecting
-------------------------------------------------------------------------------
(* What the code says of itself, and keeps only as long as nobody else     *)
(* ends the session that is being ended.                                   *)

\* Connection.c:138, LC_ASSERT(stage == STAGE_NONE).
StageNoneAfterStop == \A a \in Agents : pc[a] = "stopped" => stage = 0
===============================================================================
