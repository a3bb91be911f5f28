----------------------------- MODULE SessionProofs -----------------------------
(***************************************************************************)
(* What holds of a session for any number of threads, and in particular of *)
(* sessions one after another: the types; and, while no two of the user,   *)
(* the host and the front end act at once (Orderly), the order of the      *)
(* stages, although no lock keeps it.                                      *)
(***************************************************************************)
EXTENDS Session, FiniteSetTheorems, TLAPS

Labels == {"unborn", "start", "started", "established", "spawn", "running",
           "begin", "joinConnection", "stopRunning", "joinInput",
           "stop", "test", "undo", "stopped", "exited"}

(***************************************************************************)
(* Types.  Flags for Zenon, Positions with what keeps at from leaving the  *)
(* stages, Handles for the rest.                                           *)
(***************************************************************************)
Flags ==
  /\ alreadyTerminated \in BOOLEAN /\ ConnectionInterrupted \in BOOLEAN
  /\ m_Running \in BOOLEAN /\ s_streamActive \in BOOLEAN /\ inputRequested \in BOOLEAN
  /\ inGame \in BOOLEAN /\ ending \in BOOLEAN /\ lateStop \in BOOLEAN

Handles ==
  /\ reporting \subseteq Reporters
  /\ joinedConnection \in [StopThreads -> ConnectionThreads \cup {NoThread}]
  /\ joinedInput \in [StopThreads -> InputThreads \cup {NoThread}]
  /\ m_ConnectionThread \in ConnectionThreads \cup {NoThread}
  /\ m_InputThread \in InputThreads \cup {NoThread}
  /\ mainQueue \in Seq({"OnConnectionStarted", "OnConnectionStopped"})
  /\ terminatedMsgs \in Nat

Positions ==
  /\ stage \in Int
  /\ up \subseteq 1 .. STAGE_INPUT_STREAM_START
  /\ pc \in [Threads -> Labels]
  /\ at \in [Agents -> 0 .. STAGE_INPUT_STREAM_START]
  /\ \A a \in Agents : pc[a] \in {"start", "started", "undo"} => at[a] > 0

TypeInv == Flags /\ Handles /\ Positions

LEMMA TypeInvTypes == TypeInv => TypeOK
  BY DEF TypeInv, TypeOK, Flags, Handles, Positions, Labels, Stages,
         STAGE_PLATFORM_INIT, STAGE_INPUT_STREAM_START

LEMMA InitTyped == Init => TypeInv
<1> SUFFICES ASSUME Init PROVE TypeInv  OBVIOUS
<1>1. Flags   BY Zenon DEF Init, Flags
<1>2. Handles  BY DEF Init, Handles
<1>3. Positions
  BY DEF Init, Positions, Labels, Agents, Threads, STAGE_INPUT_STREAM_START
<1>4. QED  BY <1>1, <1>2, <1>3 DEF TypeInv

LEMMA LiStopConnectionFlags ==
  ASSUME Flags, NEW a \in Agents, LiStopConnection(a) PROVE Flags'
<1> USE DEF Flags, library, instance, joins, frontEnd, OnConnectionStopped
<1>1. CASE StopFlags(a)  BY <1>1 DEF StopFlags
<1>2. CASE StopTest(a)
  <2>1. CASE stage = at[a]  BY <1>2, <2>1 DEF StopTest
  <2>2. CASE ~(stage = at[a])  BY <1>2, <2>2 DEF StopTest
  <2>3. QED  BY <2>1, <2>2
<1>3. CASE StopUndo(a)  BY <1>3 DEF StopUndo
<1>4. CASE StopDone(a)  BY <1>4 DEF StopDone
<1>5. QED
  BY <1>1, <1>2, <1>3, <1>4 DEF LiStopConnection

LEMMA ConnectionThreadFlags ==
  ASSUME Flags, NEW c \in ConnectionThreads, ConnectionThread(c) PROVE Flags'
<1> USE DEF Flags, library, instance, joins, frontEnd, OnConnectionStopped
<1>1. CASE StartEntry(c)  BY <1>1 DEF StartEntry
<1>2. CASE StartStage(c)  BY <1>2 DEF StartStage
<1>3. CASE StartStageFails(c)  BY <1>3 DEF StartStageFails
<1>4. CASE DecoderFails(c)  BY <1>4 DEF DecoderFails
<1>5. CASE StageComplete(c)
  <2>1. CASE at[c] < STAGE_INPUT_STREAM_START  BY <1>5, <2>1 DEF StageComplete
  <2>2. CASE ~(at[c] < STAGE_INPUT_STREAM_START)  BY <1>5, <2>2 DEF StageComplete
  <2>3. QED  BY <2>1, <2>2
<1>6. CASE SetRunning(c)  BY <1>6 DEF SetRunning
<1>7. CASE SpawnInput(c)  BY <1>7 DEF SpawnInput
<1>8. CASE LiStopConnection(c)  BY <1>8, LiStopConnectionFlags DEF Agents
<1>9. CASE StartFailed(c)  BY <1>9 DEF StartFailed
<1>10. QED
  BY <1>1, <1>2, <1>3, <1>4, <1>5, <1>6, <1>7, <1>8, <1>9 DEF ConnectionThread

LEMMA StopThreadFlags ==
  ASSUME Flags, NEW s \in StopThreads, StopThread(s) PROVE Flags'
<1> USE DEF Flags, library, instance, joins, frontEnd, OnConnectionStopped
<1>1. CASE CallJoinConnection(s)  BY <1>1 DEF CallJoinConnection
<1>2. CASE ReturnJoinConnection(s)  BY <1>2 DEF ReturnJoinConnection
<1>3. CASE CallJoinInput(s)  BY <1>3 DEF CallJoinInput
<1>4. CASE ReturnJoinInput(s)  BY <1>4 DEF ReturnJoinInput
<1>5. CASE LiStopConnection(s)  BY <1>5, LiStopConnectionFlags DEF Agents
<1>6. CASE StopThreadReturns(s)  BY <1>6 DEF StopThreadReturns
<1>7. QED
  BY <1>1, <1>2, <1>3, <1>4, <1>5, <1>6 DEF StopThread

LEMMA FlagsTyped == ASSUME Flags, [Next]_vars PROVE Flags'
<1> USE DEF Flags, library, instance, joins, frontEnd, OnConnectionStopped
<1>1. CASE \E c \in ConnectionThreads : ConnectionThread(c)
  BY <1>1, ConnectionThreadFlags DEF Agents
<1>2. CASE \E c \in ConnectionThreads : HandleStartStream(c)
  BY <1>2 DEF HandleStartStream
<1>3. CASE \E s \in StopThreads : StopThread(s)  BY <1>3, StopThreadFlags DEF Agents
<1>4. CASE \E s \in StopThreads : HandleStopStream(s)
  <2>1. PICK s \in StopThreads : HandleStopStream(s)  BY <1>4
  <2>2. CASE inGame /\ ~Streaming
    <3>1. lateStop' = TRUE  BY <2>1, <2>2 DEF HandleStopStream
    <3>2. QED  BY <2>1, <3>1 DEF HandleStopStream
  <2>3. CASE ~(inGame /\ ~Streaming)
    <3>1. lateStop' = lateStop  BY <2>1, <2>3, Zenon DEF HandleStopStream
    <3>2. QED  BY <2>1, <3>1 DEF HandleStopStream
  <2>4. QED  BY <2>2, <2>3
<1>5. CASE \E t \in TermThreads : LiStopConnection(t)
  BY <1>5, LiStopConnectionFlags DEF Agents
<1>6. CASE \E t \in TermThreads : PostStopped(t)  BY <1>6 DEF PostStopped
<1>7. CASE \E i \in InputThreads : InputThread(i)  BY <1>7 DEF InputThread
<1>8. CASE \E r \in Reporters : Report(r)  BY <1>8 DEF Report
<1>9. CASE \E r \in Reporters : RaiseTermination(r)  BY <1>9 DEF RaiseTermination
<1>10. CASE RunStarted  BY <1>10 DEF RunStarted
<1>11. CASE RunStopped  BY <1>11 DEF RunStopped
<1>12. CASE StartStreamFails  BY <1>12 DEF StartStreamFails
<1>13. CASE StreamTerminated  BY <1>13 DEF StreamTerminated
<1>14. CASE UNCHANGED vars  BY <1>14 DEF vars
<1>15. QED
  BY <1>1, <1>2, <1>3, <1>4, <1>5, <1>6, <1>7, <1>8, <1>9, <1>10, <1>11, <1>12, <1>13, <1>14
  DEF Next, TermThread, MainThread

LEMMA LiStopConnectionHandles ==
  ASSUME Handles, NEW a \in Agents, LiStopConnection(a) PROVE Handles'
<1> USE DEF Handles, Go, library, instance, joins, frontEnd, Threads, Agents, OnConnectionStopped
<1>1. CASE StopFlags(a)  BY <1>1 DEF StopFlags
<1>2. CASE StopTest(a)
  <2>1. CASE stage = at[a]  BY <1>2, <2>1 DEF StopTest
  <2>2. CASE ~(stage = at[a])  BY <1>2, <2>2 DEF StopTest
  <2>3. QED  BY <2>1, <2>2
<1>3. CASE StopUndo(a)  BY <1>3 DEF StopUndo
<1>4. CASE StopDone(a)  BY <1>4 DEF StopDone
<1>5. QED
  BY <1>1, <1>2, <1>3, <1>4 DEF LiStopConnection

LEMMA ConnectionThreadHandles ==
  ASSUME Handles, NEW c \in ConnectionThreads, ConnectionThread(c) PROVE Handles'
<1> USE DEF Handles, Go, library, instance, joins, frontEnd, Threads, Agents, OnConnectionStopped
<1>1. CASE StartEntry(c)  BY <1>1 DEF StartEntry
<1>2. CASE StartStage(c)  BY <1>2 DEF StartStage
<1>3. CASE StartStageFails(c)  BY <1>3 DEF StartStageFails
<1>4. CASE DecoderFails(c)  BY <1>4 DEF DecoderFails
<1>5. CASE StageComplete(c)
  <2>1. CASE at[c] < STAGE_INPUT_STREAM_START  BY <1>5, <2>1, SMTT(40) DEF StageComplete
  <2>2. CASE ~(at[c] < STAGE_INPUT_STREAM_START)  BY <1>5, <2>2, SMTT(40) DEF StageComplete
  <2>3. QED  BY <2>1, <2>2
<1>6. CASE SetRunning(c)  BY <1>6 DEF SetRunning
<1>7. CASE SpawnInput(c)  BY <1>7 DEF SpawnInput
<1>8. CASE LiStopConnection(c)  BY <1>8, LiStopConnectionHandles DEF Agents
<1>9. CASE StartFailed(c)  BY <1>9 DEF StartFailed
<1>10. QED
  BY <1>1, <1>2, <1>3, <1>4, <1>5, <1>6, <1>7, <1>8, <1>9 DEF ConnectionThread

LEMMA StopThreadHandles ==
  ASSUME Handles, NEW s \in StopThreads, StopThread(s) PROVE Handles'
<1> USE DEF Handles, Go, library, instance, joins, frontEnd, Threads, Agents, OnConnectionStopped
<1>1. CASE CallJoinConnection(s)  BY <1>1 DEF CallJoinConnection
<1>2. CASE ReturnJoinConnection(s)  BY <1>2 DEF ReturnJoinConnection
<1>3. CASE CallJoinInput(s)  BY <1>3 DEF CallJoinInput
<1>4. CASE ReturnJoinInput(s)  BY <1>4 DEF ReturnJoinInput
<1>5. CASE LiStopConnection(s)  BY <1>5, LiStopConnectionHandles DEF Agents
<1>6. CASE StopThreadReturns(s)  BY <1>6 DEF StopThreadReturns
<1>7. QED
  BY <1>1, <1>2, <1>3, <1>4, <1>5, <1>6 DEF StopThread

LEMMA HandlesTyped == ASSUME Handles, [Next]_vars PROVE Handles'
<1> USE DEF Handles, Go, library, instance, joins, frontEnd, Threads, Agents, OnConnectionStopped
<1>1. CASE \E c \in ConnectionThreads : ConnectionThread(c)
  BY <1>1, ConnectionThreadHandles DEF Agents
<1>2. CASE \E c \in ConnectionThreads : HandleStartStream(c)
  BY <1>2 DEF HandleStartStream
<1>3. CASE \E s \in StopThreads : StopThread(s)  BY <1>3, StopThreadHandles DEF Agents
<1>4. CASE \E s \in StopThreads : HandleStopStream(s)  BY <1>4 DEF HandleStopStream
<1>5. CASE \E t \in TermThreads : LiStopConnection(t)
  BY <1>5, LiStopConnectionHandles DEF Agents
<1>6. CASE \E t \in TermThreads : PostStopped(t)  BY <1>6 DEF PostStopped
<1>7. CASE \E i \in InputThreads : InputThread(i)  BY <1>7 DEF InputThread
<1>8. CASE \E r \in Reporters : Report(r)  BY <1>8 DEF Report
<1>9. CASE \E r \in Reporters : RaiseTermination(r)  BY <1>9 DEF RaiseTermination
<1>10. CASE RunStarted  BY <1>10 DEF RunStarted
<1>11. CASE RunStopped  BY <1>11 DEF RunStopped
<1>12. CASE StartStreamFails  BY <1>12 DEF StartStreamFails
<1>13. CASE StreamTerminated  BY <1>13 DEF StreamTerminated
<1>14. CASE UNCHANGED vars  BY <1>14 DEF vars
<1>15. QED
  BY <1>1, <1>2, <1>3, <1>4, <1>5, <1>6, <1>7, <1>8, <1>9, <1>10, <1>11, <1>12, <1>13, <1>14
  DEF Next, TermThread, MainThread

LEMMA LiStopConnectionPositions ==
  ASSUME Positions, NEW a \in Agents, LiStopConnection(a) PROVE Positions'
<1> USE DEF Positions, Labels, Go, library, instance, joins, frontEnd, Threads, Agents,
            STAGE_PLATFORM_INIT, STAGE_INPUT_STREAM_START
<1>1. CASE StopFlags(a)  BY <1>1 DEF StopFlags
<1>2. CASE StopTest(a)
  <2>1. CASE stage = at[a]  BY <1>2, <2>1 DEF StopTest
  <2>2. CASE ~(stage = at[a])  BY <1>2, <2>2 DEF StopTest
  <2>3. QED  BY <2>1, <2>2
<1>3. CASE StopUndo(a)
  <2>1. at[a] \in 1 .. STAGE_INPUT_STREAM_START  BY <1>3 DEF StopUndo
  <2>2. up' \subseteq 1 .. STAGE_INPUT_STREAM_START  BY <1>3, <2>1 DEF StopUndo
  <2>3. pc' \in [Threads -> Labels]  BY <1>3 DEF StopUndo
  <2>4. at' \in [Agents -> 0 .. STAGE_INPUT_STREAM_START]  BY <1>3, <2>1 DEF StopUndo
  <2>5. \A b \in Agents : pc'[b] \in {"start", "started", "undo"} => at'[b] > 0
    BY <1>3, <2>1 DEF StopUndo
  <2>6. stage' \in Int  BY <1>3 DEF StopUndo
  <2>7. QED  BY <2>2, <2>3, <2>4, <2>5, <2>6
<1>4. CASE StopDone(a)  BY <1>4 DEF StopDone
<1>5. QED
  BY <1>1, <1>2, <1>3, <1>4 DEF LiStopConnection

LEMMA ConnectionThreadPositions ==
  ASSUME Positions, NEW c \in ConnectionThreads, ConnectionThread(c) PROVE Positions'
<1> USE DEF Positions, Labels, Go, library, instance, joins, frontEnd, Threads, Agents,
            STAGE_PLATFORM_INIT, STAGE_INPUT_STREAM_START
<1>1. CASE StartEntry(c)  BY <1>1 DEF StartEntry
<1>2. CASE StartStage(c)
  <2>1. at[c] \in 1 .. STAGE_INPUT_STREAM_START  BY <1>2 DEF StartStage
  <2>2. up' \subseteq 1 .. STAGE_INPUT_STREAM_START  BY <1>2, <2>1 DEF StartStage
  <2>3. pc' \in [Threads -> Labels]  BY <1>2 DEF StartStage
  <2>4. at' \in [Agents -> 0 .. STAGE_INPUT_STREAM_START]  BY <1>2, <2>1 DEF StartStage
  <2>5. \A b \in Agents : pc'[b] \in {"start", "started", "undo"} => at'[b] > 0
    BY <1>2, <2>1 DEF StartStage
  <2>6. stage' \in Int  BY <1>2 DEF StartStage
  <2>7. QED  BY <2>2, <2>3, <2>4, <2>5, <2>6
<1>3. CASE StartStageFails(c)  BY <1>3 DEF StartStageFails
<1>4. CASE DecoderFails(c)  BY <1>4 DEF DecoderFails
<1>5. CASE StageComplete(c)
  <2>1. CASE at[c] < STAGE_INPUT_STREAM_START  BY <1>5, <2>1 DEF StageComplete
  <2>2. CASE ~(at[c] < STAGE_INPUT_STREAM_START)  BY <1>5, <2>2 DEF StageComplete
  <2>3. QED  BY <2>1, <2>2
<1>6. CASE SetRunning(c)  BY <1>6 DEF SetRunning
<1>7. CASE SpawnInput(c)  BY <1>7 DEF SpawnInput
<1>8. CASE LiStopConnection(c)  BY <1>8, LiStopConnectionPositions DEF Agents
<1>9. CASE StartFailed(c)  BY <1>9 DEF StartFailed
<1>10. QED
  BY <1>1, <1>2, <1>3, <1>4, <1>5, <1>6, <1>7, <1>8, <1>9 DEF ConnectionThread

LEMMA StopThreadPositions ==
  ASSUME Positions, NEW s \in StopThreads, StopThread(s) PROVE Positions'
<1> USE DEF Positions, Labels, Go, library, instance, joins, frontEnd, Threads, Agents,
            STAGE_PLATFORM_INIT, STAGE_INPUT_STREAM_START
<1>1. CASE CallJoinConnection(s)  BY <1>1 DEF CallJoinConnection
<1>2. CASE ReturnJoinConnection(s)  BY <1>2 DEF ReturnJoinConnection
<1>3. CASE CallJoinInput(s)  BY <1>3 DEF CallJoinInput
<1>4. CASE ReturnJoinInput(s)  BY <1>4 DEF ReturnJoinInput
<1>5. CASE LiStopConnection(s)  BY <1>5, LiStopConnectionPositions DEF Agents
<1>6. CASE StopThreadReturns(s)  BY <1>6 DEF StopThreadReturns
<1>7. QED
  BY <1>1, <1>2, <1>3, <1>4, <1>5, <1>6 DEF StopThread

LEMMA PositionsTyped == ASSUME Positions, [Next]_vars PROVE Positions'
<1> USE DEF Positions, Labels, Go, library, instance, joins, frontEnd, Threads, Agents,
            STAGE_PLATFORM_INIT, STAGE_INPUT_STREAM_START
<1>1. CASE \E c \in ConnectionThreads : ConnectionThread(c)
  BY <1>1, ConnectionThreadPositions DEF Agents
<1>2. CASE \E c \in ConnectionThreads : HandleStartStream(c)
  BY <1>2 DEF HandleStartStream
<1>3. CASE \E s \in StopThreads : StopThread(s)  BY <1>3, StopThreadPositions DEF Agents
<1>4. CASE \E s \in StopThreads : HandleStopStream(s)  BY <1>4 DEF HandleStopStream
<1>5. CASE \E t \in TermThreads : LiStopConnection(t)
  BY <1>5, LiStopConnectionPositions DEF Agents
<1>6. CASE \E t \in TermThreads : PostStopped(t)  BY <1>6 DEF PostStopped
<1>7. CASE \E i \in InputThreads : InputThread(i)  BY <1>7 DEF InputThread
<1>8. CASE \E r \in Reporters : Report(r)  BY <1>8 DEF Report
<1>9. CASE \E r \in Reporters : RaiseTermination(r)  BY <1>9 DEF RaiseTermination
<1>10. CASE RunStarted  BY <1>10 DEF RunStarted
<1>11. CASE RunStopped  BY <1>11 DEF RunStopped
<1>12. CASE StartStreamFails  BY <1>12 DEF StartStreamFails
<1>13. CASE StreamTerminated  BY <1>13 DEF StreamTerminated
<1>14. CASE UNCHANGED vars  BY <1>14 DEF vars
<1>15. QED
  BY <1>1, <1>2, <1>3, <1>4, <1>5, <1>6, <1>7, <1>8, <1>9, <1>10, <1>11, <1>12, <1>13, <1>14
  DEF Next, TermThread, MainThread

LEMMA TypedStep == TypeInv /\ [Next]_vars => TypeInv'
  BY FlagsTyped, HandlesTyped, PositionsTyped DEF TypeInv

(***************************************************************************)
(* Every variable keeps its type, for any threads, reporters and Env; so   *)
(* does stage, whatever several threads do to it at once.                  *)
(***************************************************************************)
THEOREM TypeCorrect == Spec => []TypeOK
<1>1. Spec => []TypeInv  BY InitTyped, TypedStep, PTL DEF Spec
<1>2. QED  BY <1>1, TypeInvTypes, PTL

-------------------------------------------------------------------------------
(***************************************************************************)
(* Joins: while no two of user, decoder and host end a session together    *)
(* and the next one waits for its threads to go (Apart), one stop thread   *)
(* at a time joins a connection thread, so that its join is defined.       *)
(***************************************************************************)
Apart == Env \cap {"endsTogether", "restartsEarly"} = {}

\* There is one connection thread at a time, and it is the one to be joined.
OneConnection == \A c \in ConnectionThreads : Live(c) => m_ConnectionThread = c

\* While it lives, a stop thread is kept waiting for it.
StopsWait ==
  \A c \in ConnectionThreads, s \in StopThreads :
    Live(c) /\ Live(s) => pc[s] = "begin" \/ (pc[s] = "joinConnection" /\ joinedConnection[s] = c)

OneStop == \A r, s \in StopThreads : Live(r) /\ Live(s) => r = s

StopsEnd == \A s \in StopThreads : Live(s) => ending

\* Who has joined a connection thread that lives is waiting still.
JoinersLive ==
  \A c \in ConnectionThreads, s \in StopThreads : Live(c) /\ joinedConnection[s] = c => Live(s)

\* What is joined, or is next to be, has been created.
Born ==
  \A c \in ConnectionThreads :
    pc[c] = "unborn" => m_ConnectionThread # c /\ \A s \in StopThreads : joinedConnection[s] # c

JoinInv == OneConnection /\ StopsWait /\ OneStop /\ StopsEnd /\ JoinersLive /\ Born

LEMMA InitJoins == Init => JoinInv
  BY SessionAssumption
  DEF Init, JoinInv, Agents, Threads, Live, OneConnection, StopsWait, OneStop, StopsEnd,
      JoinersLive, Born

\* A step of another thread, which creates no thread and joins none.
Elsewhere ==
  /\ \A t \in ConnectionThreads \cup StopThreads :
       pc'[t] = pc[t] \/ (Live(t) /\ pc'[t] # "unborn")
  /\ \A s \in StopThreads : Live(s)' => pc'[s] = pc[s] \/ \A c \in ConnectionThreads : ~Live(c)
  /\ \A s \in StopThreads, c \in ConnectionThreads :
       Live(s) /\ ~Live(s)' => ~Live(c)
  /\ UNCHANGED <<m_ConnectionThread, joinedConnection>>
  /\ ending => ending'

LEMMA ElsewhereJoins == ASSUME TypeInv, JoinInv, Elsewhere PROVE JoinInv'
<1> USE DEF JoinInv, Elsewhere, Live
<1>1. OneConnection'  BY DEF OneConnection
<1>2. StopsWait'      BY DEF StopsWait
<1>3. OneStop'        BY DEF OneStop
<1>4. StopsEnd'       BY DEF StopsEnd
<1>5. JoinersLive'    BY DEF JoinersLive
<1>6. Born'           BY DEF Born
<1>7. QED  BY <1>1, <1>2, <1>3, <1>4, <1>5, <1>6

LEMMA LiStopConnectionJoins ==
  ASSUME TypeInv, JoinInv, NEW a \in Agents, LiStopConnection(a) PROVE JoinInv'
<1>1. /\ pc[a] \in {"stop", "test", "undo"} /\ pc \in [Threads -> Labels] /\ a \in Threads
      /\ \E l \in {"test", "undo", "stopped"} : pc' = pc \/ pc' = [pc EXCEPT ![a] = l]
      /\ UNCHANGED <<m_ConnectionThread, joinedConnection, ending>>
  BY DEF LiStopConnection, StopFlags, StopTest, StopUndo, StopDone, Go, TypeInv, Positions,
         Agents, Threads, instance, joins, frontEnd
<1>2. PICK l \in {"test", "undo", "stopped"} : pc' = pc \/ pc' = [pc EXCEPT ![a] = l]
  BY <1>1
<1>3. a \in StopThreads => \A c \in ConnectionThreads : ~Live(c)
  BY <1>1 DEF JoinInv, StopsWait, Live
<1>4. Elsewhere
  BY <1>1, <1>2, <1>3 DEF Elsewhere, Live, Threads, Agents
<1>5. QED  BY <1>4, ElsewhereJoins

LEMMA ConnectionThreadJoins ==
  ASSUME Apart, TypeInv, JoinInv, NEW c \in ConnectionThreads, ConnectionThread(c) PROVE JoinInv'
<1>0. /\ pc \in [Threads -> Labels] /\ c \in Threads /\ c \in Agents
      /\ ConnectionThreads \cap (StopThreads \cup InputThreads) = {}
      /\ StopThreads \cap InputThreads = {}
      /\ ConnectionThreads \cup StopThreads \cup InputThreads \subseteq Threads
  BY SessionAssumption DEF TypeInv, Positions, Agents, Threads
<1>n. ASSUME Live(c), NEW l \in Labels \ {"unborn"}, pc' = [pc EXCEPT ![c] = l],
             UNCHANGED <<m_ConnectionThread, joinedConnection, ending>>
      PROVE  JoinInv'
  BY <1>0, <1>n, ElsewhereJoins DEF Elsewhere, Live
<1> USE DEF Go, library, instance, joins, frontEnd, Live, Labels
<1>1. CASE StartEntry(c)  BY <1>n, <1>1 DEF StartEntry
<1>2. CASE StartStage(c)  BY <1>n, <1>2 DEF StartStage
<1>3. CASE StartStageFails(c)  BY <1>n, <1>3 DEF StartStageFails
<1>4. CASE DecoderFails(c)
  <2>1. PICK s \in StopThreads : /\ pc[s] = "unborn"
                                 /\ pc' = [pc EXCEPT ![c] = "stop", ![s] = "begin"]
    BY <1>4 DEF DecoderFails
  <2>2. /\ ~ending /\ ending' /\ pc[c] = "start"
        /\ UNCHANGED <<m_ConnectionThread, joinedConnection>>
    BY <1>4 DEF DecoderFails, Apart
  <2>3. \A r \in StopThreads : ~Live(r)
    BY <2>2 DEF JoinInv, StopsEnd
  <2>4. \A r \in StopThreads : pc'[r] = IF r = s THEN "begin" ELSE pc[r]
    BY <1>0, <2>1
  <2>5. \A d \in ConnectionThreads : pc'[d] = IF d = c THEN "stop" ELSE pc[d]
    BY <1>0, <2>1
  <2>6. OneConnection' /\ Born'
    BY <2>2, <2>5 DEF JoinInv, OneConnection, Born
  <2>7. StopsWait' /\ OneStop' /\ StopsEnd'
    BY <2>2, <2>3, <2>4 DEF StopsWait, OneStop, StopsEnd
  <2>8. JoinersLive'
    BY <2>2, <2>3, <2>5 DEF JoinInv, JoinersLive
  <2>9. QED  BY <2>6, <2>7, <2>8 DEF JoinInv
<1>5. CASE StageComplete(c)  BY <1>n, <1>5 DEF StageComplete
<1>6. CASE SetRunning(c)  BY <1>n, <1>6 DEF SetRunning
<1>7. CASE SpawnInput(c)
  <2>1. PICK i \in InputThreads : pc' = [pc EXCEPT ![c] = "exited", ![i] = "running"]
    BY <1>7 DEF SpawnInput
  <2>2. Elsewhere  BY <1>0, <1>7, <2>1 DEF SpawnInput, Elsewhere
  <2>3. QED  BY <2>2, ElsewhereJoins
<1>8. CASE LiStopConnection(c)  BY <1>0, <1>8, LiStopConnectionJoins
<1>9. CASE StartFailed(c)  BY <1>n, <1>9 DEF StartFailed
<1>10. QED
  BY <1>1, <1>2, <1>3, <1>4, <1>5, <1>6, <1>7, <1>8, <1>9 DEF ConnectionThread

\* The only stop thread to join a connection thread that lives waits for it.
LEMMA StopThreadJoins ==
  ASSUME TypeInv, JoinInv, NEW s \in StopThreads, StopThread(s) PROVE JoinInv'
<1>0. /\ pc \in [Threads -> Labels] /\ s \in Threads /\ s \in Agents
      /\ ConnectionThreads \cap StopThreads = {}
      /\ ConnectionThreads \cup StopThreads \subseteq Threads
      /\ joinedConnection \in [StopThreads -> ConnectionThreads \cup {NoThread}]
      /\ m_ConnectionThread \in ConnectionThreads \cup {NoThread}
      /\ NoThread \notin ConnectionThreads
  BY SessionAssumption DEF TypeInv, Positions, Handles, Agents, Threads
<1>n. ASSUME Live(s), \A c \in ConnectionThreads : ~Live(c),
             NEW l \in Labels \ {"unborn"}, pc' = [pc EXCEPT ![s] = l],
             UNCHANGED <<m_ConnectionThread, joinedConnection, ending>>
      PROVE  JoinInv'
  BY <1>0, <1>n, ElsewhereJoins DEF Elsewhere, Live
<1> USE DEF Go, library, instance, joins, frontEnd, Live, Labels
<1>1. CASE CallJoinConnection(s)
  <2>1. /\ pc[s] = "begin" /\ pc' = [pc EXCEPT ![s] = "joinConnection"]
        /\ joinedConnection' = [joinedConnection EXCEPT ![s] = m_ConnectionThread]
        /\ UNCHANGED <<m_ConnectionThread, ending>>
    BY <1>1 DEF CallJoinConnection
  <2>2. \A t \in ConnectionThreads \cup StopThreads :
          pc'[t] = IF t = s THEN "joinConnection" ELSE pc[t]
    BY <1>0, <2>1
  <2>3. OneConnection' /\ OneStop' /\ StopsEnd'
    BY <1>0, <2>1, <2>2 DEF JoinInv, OneConnection, OneStop, StopsEnd
  <2>4. StopsWait'
    BY <1>0, <2>1, <2>2 DEF JoinInv, OneConnection, StopsWait, OneStop
  <2>5. JoinersLive'
    BY <1>0, <2>1, <2>2 DEF JoinInv, JoinersLive
  <2>6. Born'
    BY <1>0, <2>1, <2>2 DEF JoinInv, Born
  <2>7. QED  BY <2>3, <2>4, <2>5, <2>6 DEF JoinInv
<1>2. CASE ReturnJoinConnection(s)
  <2>1. ASSUME NEW c \in ConnectionThreads, Live(c) PROVE FALSE
    <3>1. joinedConnection[s] = c /\ pc[s] = "joinConnection"
      BY <1>2, <2>1 DEF ReturnJoinConnection, JoinInv, StopsWait
    <3>2. ~UndefinedJoin(joinedConnection, s)
      BY <1>0, <1>2, <2>1, <3>1
      DEF ReturnJoinConnection, UndefinedJoin, JoinInv, JoinersLive, OneStop
    <3>3. QED  BY <1>2, <2>1, <3>1, <3>2 DEF ReturnJoinConnection, JoinReturns
  <2>2. QED  BY <1>n, <1>2, <2>1 DEF ReturnJoinConnection
<1>3. CASE CallJoinInput(s)
  BY <1>n, <1>3 DEF CallJoinInput, JoinInv, StopsWait
<1>4. CASE ReturnJoinInput(s)
  BY <1>n, <1>4 DEF ReturnJoinInput, JoinInv, StopsWait
<1>5. CASE LiStopConnection(s)  BY <1>0, <1>5, LiStopConnectionJoins
<1>6. CASE StopThreadReturns(s)
  BY <1>n, <1>6 DEF StopThreadReturns, JoinInv, StopsWait
<1>7. QED  BY <1>1, <1>2, <1>3, <1>4, <1>5, <1>6 DEF StopThread

LEMMA JoinsStep == ASSUME Apart, TypeInv, JoinInv, [Next]_vars PROVE JoinInv'
<1>0. /\ pc \in [Threads -> Labels]
      /\ ConnectionThreads \cap (StopThreads \cup TermThreads \cup InputThreads) = {}
      /\ StopThreads \cap (TermThreads \cup InputThreads) = {}
      /\ ConnectionThreads \cup StopThreads \cup TermThreads \cup InputThreads \subseteq Threads
      /\ joinedConnection \in [StopThreads -> ConnectionThreads \cup {NoThread}]
  BY SessionAssumption DEF TypeInv, Positions, Handles, Agents, Threads
<1>n. ASSUME ending => ending', UNCHANGED <<m_ConnectionThread, joinedConnection>>,
             \A t \in ConnectionThreads \cup StopThreads : pc'[t] = pc[t]
      PROVE  JoinInv'
  BY <1>n, ElsewhereJoins DEF Elsewhere, Live
<1> USE DEF Go, library, instance, joins, frontEnd
<1>1. CASE \E c \in ConnectionThreads : ConnectionThread(c)
  BY <1>1, ConnectionThreadJoins
<1>2. CASE \E c \in ConnectionThreads : HandleStartStream(c)
  <2>1. PICK c \in ConnectionThreads : HandleStartStream(c)  BY <1>2
  <2>2. /\ \A t \in Threads : ~Live(t)
        /\ pc' = [pc EXCEPT ![c] = "begin"] /\ pc[c] = "unborn"
        /\ m_ConnectionThread' = c /\ UNCHANGED joinedConnection
    BY <2>1 DEF HandleStartStream, MayStart, Quiet, Apart
  <2>3. \A t \in ConnectionThreads \cup StopThreads : Live(t)' => t = c
    BY <1>0, <2>2 DEF Live
  <2>4. OneConnection' /\ StopsWait' /\ OneStop' /\ StopsEnd'
    BY <1>0, <2>2, <2>3 DEF OneConnection, StopsWait, OneStop, StopsEnd
  <2>5. JoinersLive'
    BY <2>2, <2>3 DEF JoinersLive, JoinInv, Born
  <2>6. Born'
    BY <1>0, <2>2 DEF JoinInv, Born
  <2>7. QED  BY <2>4, <2>5, <2>6 DEF JoinInv
<1>3. CASE \E s \in StopThreads : StopThread(s)  BY <1>3, StopThreadJoins
<1>4. CASE \E s \in StopThreads : HandleStopStream(s)
  <2>1. PICK s \in StopThreads : HandleStopStream(s)  BY <1>4
  <2>2. /\ ~ending /\ ending' /\ pc' = [pc EXCEPT ![s] = "begin"] /\ pc[s] = "unborn"
        /\ UNCHANGED <<m_ConnectionThread, joinedConnection>>
    BY <2>1 DEF HandleStopStream, Apart
  <2>3. \A r \in StopThreads : ~Live(r)
    BY <2>2 DEF JoinInv, StopsEnd
  <2>4. /\ \A r \in StopThreads : pc'[r] = IF r = s THEN "begin" ELSE pc[r]
        /\ \A d \in ConnectionThreads : pc'[d] = pc[d]
    BY <1>0, <2>2
  <2>5. OneConnection' /\ Born'
    BY <2>2, <2>4 DEF JoinInv, OneConnection, Born, Live
  <2>6. StopsWait' /\ OneStop' /\ StopsEnd'
    BY <2>2, <2>3, <2>4 DEF StopsWait, OneStop, StopsEnd, Live
  <2>7. JoinersLive'
    BY <2>2, <2>3, <2>4 DEF JoinInv, JoinersLive, Live
  <2>8. QED  BY <2>5, <2>6, <2>7 DEF JoinInv
<1>5. CASE \E t \in TermThreads : LiStopConnection(t)
  BY <1>5, LiStopConnectionJoins DEF Agents
<1>6. CASE \E t \in TermThreads : PostStopped(t)
  BY <1>0, <1>n, <1>6 DEF PostStopped
<1>7. CASE \E i \in InputThreads : InputThread(i)
  BY <1>0, <1>n, <1>7 DEF InputThread
<1>8. CASE \E r \in Reporters : Report(r)  BY <1>n, <1>8 DEF Report
<1>9. CASE \E r \in Reporters : RaiseTermination(r)
  BY <1>0, <1>n, <1>9 DEF RaiseTermination
<1>10. CASE RunStarted  BY <1>n, <1>10 DEF RunStarted
<1>11. CASE RunStopped  BY <1>n, <1>11 DEF RunStopped
<1>12. CASE StartStreamFails  BY <1>n, <1>12 DEF StartStreamFails
<1>13. CASE StreamTerminated  BY <1>n, <1>13 DEF StreamTerminated
<1>14. CASE UNCHANGED vars  BY <1>n, <1>14 DEF vars
<1>15. QED
  BY <1>1, <1>2, <1>3, <1>4, <1>5, <1>6, <1>7, <1>8, <1>9, <1>10, <1>11, <1>12, <1>13, <1>14
  DEF Next, TermThread, MainThread

LEMMA JoinInvariant == ASSUME Apart PROVE Spec => [](TypeInv /\ JoinInv)
<1>1. Init => TypeInv /\ JoinInv  BY InitTyped, InitJoins
<1>2. TypeInv /\ JoinInv /\ [Next]_vars => (TypeInv /\ JoinInv)'
  BY TypedStep, JoinsStep
<1>3. QED  BY <1>1, <1>2, PTL DEF Spec

(***************************************************************************)
(* What the comment of main.cpp:85 asks: no stop thread takes stages down  *)
(* while a connection thread lives, for any number of sessions, whatever   *)
(* fails, whenever the user stops and although the connection may be lost  *)
(* while it comes up; as long as no session is ended by two at once, whose *)
(* stop threads would join the same thread, and none is begun too early.   *)
(***************************************************************************)
THEOREM StopKeepsOut == ASSUME Apart PROVE Spec => []StopNotDuringStart
<1>1. JoinInv => StopNotDuringStart
  BY DEF JoinInv, StopsWait, Live, Stopping, Connecting, StopNotDuringStart
<1>2. QED  BY <1>1, JoinInvariant, PTL

-------------------------------------------------------------------------------
(***************************************************************************)
(* Order: what keeps the threads off each other's stages although nothing  *)
(* locks them.                                                             *)
(***************************************************************************)

\* A session is ended by one of its enders, not while it is coming up by a
\* lost connection, and the next one is started when it is over.
Orderly == Env \cap {"endsConnecting", "endsTogether", "restartsEarly"} = {}

LEMMA OrderlyApart == Orderly => Apart  BY DEF Orderly, Apart

\* A connection thread that has given up takes its stages down.
Failing(c) == pc[c] \in {"stop", "test", "undo", "stopped"}

\* While a connection thread lives, no AsyncTerm thread does.
OthersWait ==
  \A c \in ConnectionThreads, t \in TermThreads : Live(c) => ~Live(t)

EndersKnown ==
  /\ \A t \in TermThreads : Live(t) => ending
  /\ reporting # {} => ending

\* The connection is lost while no agent is at work, and lost once.
ReportAlone ==
  /\ reporting # {} => stage # 0 /\ \A a \in Agents : ~Live(a)
  /\ \A q, r \in reporting : q = r

TermAlone ==
  \A t \in TermThreads : Live(t) => reporting = {} /\ \A a \in Agents : Live(a) => a = t

\* The stages that are up are the first ones, as many as stage counts, but
\* for the one just brought up; and how every walk stands to stage.
Heights ==
  /\ stage \in 0 .. STAGE_INPUT_STREAM_START
  /\ up = 1 .. stage \/ \E c \in ConnectionThreads : pc[c] = "started" /\ up = 1 .. (stage + 1)
  /\ \A c \in ConnectionThreads :
       /\ pc[c] = "begin" => stage = 0
       /\ pc[c] \in {"start", "started"} => at[c] = stage + 1
       /\ pc[c] = "started" => up = 1 .. (stage + 1)
       /\ pc[c] \in {"established", "spawn"} => stage = STAGE_INPUT_STREAM_START
  /\ \A a \in Agents :
       /\ pc[a] = "test" => stage <= at[a]
       /\ pc[a] = "undo" => stage = at[a] /\ stage > 0
       /\ pc[a] = "stopped" => stage = 0

\* A session is on and no agent is taking it down.
Unchallenged ==
  /\ stage # 0 \/ \E c \in ConnectionThreads : Live(c)
  /\ \A s \in StopThreads : ~Live(s)
  /\ \A t \in TermThreads : ~Live(t)
  /\ \A c \in ConnectionThreads : ~Failing(c)

\* Then the front end is in the game, nothing on its way will take it out (so
\* that no other session can start), and the input loop runs once it may.
InGame ==
  Unchallenged =>
    /\ inGame
    /\ terminatedMsgs = 0
    /\ \A k \in 1 .. Len(mainQueue) : mainQueue[k] # "OnConnectionStopped"
    /\ \/ \E c \in ConnectionThreads : pc[c] \in {"begin", "start", "started", "established"}
       \/ m_Running

\* m_Running is seen by an input thread, or by one about to be created.
RunningHeard ==
  m_Running => \/ \E c \in ConnectionThreads : pc[c] = "spawn"
               \/ \E i \in InputThreads : pc[i] = "running"

StagesHeld ==
  /\ OthersWait /\ EndersKnown /\ ReportAlone /\ TermAlone
  /\ Heights /\ InGame /\ RunningHeard

OrderInv == JoinInv /\ StagesHeld

LEMMA InitOrdered == Init => OrderInv
  BY SessionAssumption, InitJoins
  DEF Init, OrderInv, Agents, Threads, Live, Failing, Unchallenged, STAGE_INPUT_STREAM_START,
      StagesHeld, OthersWait, EndersKnown, ReportAlone, TermAlone,
      Heights, InGame, RunningHeard

LEMMA LiStopConnectionOrdered ==
  ASSUME Orderly, TypeInv, OrderInv, NEW a \in Agents, LiStopConnection(a) PROVE StagesHeld'
<1> USE SessionAssumption
    DEF Orderly, TypeInv, Positions, Handles, Go, library, instance, joins, frontEnd,
            Agents, Threads, Live, Failing, Unchallenged,
            STAGE_PLATFORM_INIT, STAGE_INPUT_STREAM_START,
            OrderInv, JoinInv, OneConnection, StopsWait, OneStop, StopsEnd, StagesHeld,
            OthersWait, EndersKnown, ReportAlone, TermAlone, Heights, InGame, RunningHeard
<1>1. CASE StopFlags(a)
  <2>1. OthersWait' /\ EndersKnown' /\ ReportAlone' /\ TermAlone'  BY <1>1 DEF StopFlags
  <2>2. Heights'  BY <1>1 DEF StopFlags
  <2>3. InGame' /\ RunningHeard'  BY <1>1 DEF StopFlags
  <2>4. QED  BY <2>1, <2>2, <2>3
<1>2. CASE StopTest(a)
  <2>1. OthersWait' /\ EndersKnown' /\ ReportAlone' /\ TermAlone'  BY <1>2 DEF StopTest
  <2>2. Heights'  BY <1>2 DEF StopTest
  <2>3. InGame' /\ RunningHeard'  BY <1>2 DEF StopTest
  <2>4. QED  BY <2>1, <2>2, <2>3
<1>3. CASE StopUndo(a)
  <2>1. stage = at[a] /\ stage > 0 /\ stage' = stage - 1 /\ up' = up \ {stage}
    BY <1>3 DEF StopUndo
  <2>2. at' = [at EXCEPT ![a] = stage - 1] /\ pc' = [pc EXCEPT ![a] = "test"]
    BY <1>3, <2>1 DEF StopUndo
  <2>3. \A c \in ConnectionThreads :
          pc[c] \notin {"begin", "start", "started", "established", "spawn"}
    BY <1>3 DEF StopUndo
  <2>4. \A b \in Agents : b # a => pc[b] # "undo"  BY <1>3, <2>1 DEF StopUndo
  <2>5. up = 1 .. stage  BY <2>3
  <2>6. up' = 1 .. stage'  BY <2>1, <2>5
  <2>7. stage' \in 0 .. STAGE_INPUT_STREAM_START  BY <2>1
  <2>8. \A b \in Agents : /\ pc'[b] = "test" => stage' <= at'[b]
                          /\ pc'[b] # "undo"
                          /\ pc'[b] = "stopped" => stage' = 0
    <3>1. \A b \in Agents : pc'[b] # "undo"  BY <2>2, <2>4, SMTT(40)
    <3>2. \A b \in Agents : pc'[b] = "test" => stage' <= at'[b]
      BY <2>1, <2>2, SMTT(40)
    <3>3. \A b \in Agents : pc'[b] = "stopped" => stage' = 0
      BY <2>1, <2>2, SMTT(40)
    <3>4. QED  BY <3>1, <3>2, <3>3
  <2>9. \A c \in ConnectionThreads :
          pc'[c] \notin {"begin", "start", "started", "established", "spawn"}
    BY <2>2, <2>3
  <2>10. Heights'  BY <2>6, <2>7, <2>8, <2>9
  <2>11. OthersWait'  BY <1>3 DEF StopUndo
  <2>12. EndersKnown' /\ ReportAlone' /\ TermAlone'  BY <1>3 DEF StopUndo
  <2>14. InGame'  BY <1>3 DEF StopUndo
  <2>15. RunningHeard'  BY <1>3 DEF StopUndo
  <2>16. QED  BY <2>10, <2>11, <2>12, <2>14, <2>15
<1>4. CASE StopDone(a)  BY <1>4 DEF StopDone
<1>5. QED
  BY <1>1, <1>2, <1>3, <1>4
  DEF LiStopConnection

LEMMA ConnectionThreadOrdered ==
  ASSUME Orderly, TypeInv, OrderInv, NEW c \in ConnectionThreads, ConnectionThread(c)
  PROVE  StagesHeld'
<1> USE SessionAssumption
    DEF Orderly, TypeInv, Positions, Handles, Go, library, instance, joins, frontEnd,
            Agents, Threads, Live, Failing, Unchallenged,
            STAGE_PLATFORM_INIT, STAGE_INPUT_STREAM_START,
            OrderInv, JoinInv, OneConnection, StopsWait, OneStop, StopsEnd, StagesHeld,
            OthersWait, EndersKnown, ReportAlone, TermAlone, Heights, InGame, RunningHeard
<1>1. CASE StartEntry(c)  BY <1>1 DEF StartEntry
<1>2. CASE StartStage(c)
  <2>1. OthersWait' /\ EndersKnown' /\ ReportAlone' /\ TermAlone'  BY <1>2 DEF StartStage
  <2>2. Heights'
    <3>1. /\ pc[c] = "start" /\ pc' = [pc EXCEPT ![c] = "started"] /\ at[c] = stage + 1
          /\ up' = up \cup {stage + 1} /\ UNCHANGED <<stage, at>>
      BY <1>2 DEF StartStage
    <3>2. \A d \in ConnectionThreads : d # c => ~Live(d)  BY <3>1
    <3>3. up = 1 .. stage  BY <3>1, <3>2
    <3>4. up' = 1 .. (stage' + 1)  BY <3>1, <3>3
    <3>5. \A a \in Agents : /\ pc'[a] = pc[a] \/ a = c
                           /\ pc'[c] = "started"
      BY <3>1
    <3>6. QED  BY <3>1, <3>2, <3>4, <3>5, SMTT(40)
  <2>3. InGame' /\ RunningHeard'  BY <1>2 DEF StartStage
  <2>4. QED  BY <2>1, <2>2, <2>3
<1>3. CASE StartStageFails(c)  BY <1>3 DEF StartStageFails
<1>4. CASE DecoderFails(c)
  <2>2. OthersWait'  BY <1>4 DEF DecoderFails, OnConnectionStopped
  <2>3. EndersKnown'  BY <1>4 DEF DecoderFails, OnConnectionStopped
  <2>4. ReportAlone'  BY <1>4 DEF DecoderFails, OnConnectionStopped
  <2>5. TermAlone'  BY <1>4 DEF DecoderFails, OnConnectionStopped
  <2>7. Heights'  BY <1>4 DEF DecoderFails, OnConnectionStopped
  <2>8. InGame'  BY <1>4 DEF DecoderFails, OnConnectionStopped
  <2>9. RunningHeard'  BY <1>4 DEF DecoderFails, OnConnectionStopped
  <2>10. QED  BY <2>2, <2>3, <2>4, <2>5, <2>7, <2>8, <2>9
<1>5. CASE StageComplete(c)
  <2>1. CASE at[c] < STAGE_INPUT_STREAM_START
    <3>1. UNCHANGED mainQueue /\ Go(c, "start") /\ at' = [at EXCEPT ![c] = @ + 1]
      BY <1>5, <2>1 DEF StageComplete
    <3>2. stage' = stage + 1 /\ pc[c] = "started" /\ at[c] = stage + 1
      BY <1>5 DEF StageComplete
    <3>3. QED  BY <1>5, <2>1, <3>1, <3>2 DEF StageComplete
  <2>2. CASE ~(at[c] < STAGE_INPUT_STREAM_START)
    <3>1. /\ mainQueue' = Append(mainQueue, "OnConnectionStarted")
          /\ Go(c, "established") /\ UNCHANGED at
      BY <1>5, <2>2 DEF StageComplete
    <3>2. stage' = STAGE_INPUT_STREAM_START /\ pc[c] = "started" /\ up = 1 .. stage'
      BY <1>5, <2>2 DEF StageComplete
    <3>3. Unchallenged' => Unchallenged
      BY <1>5, <3>1, <3>2 DEF StageComplete
    <3>4. InGame'
      BY <1>5, <3>1, <3>3 DEF StageComplete
    <3>5. OthersWait' /\ EndersKnown' /\ ReportAlone' /\ TermAlone'
      BY <1>5, <3>1 DEF StageComplete
    <3>6. RunningHeard'
      BY <1>5, <3>1 DEF StageComplete
    <3>7. Heights'
      <4>1. UNCHANGED up /\ stage' = 11 /\ up = 1 .. stage'
        BY <1>5, <3>2 DEF StageComplete
      <4>2. \A d \in ConnectionThreads : d # c => ~Live(d)
        BY <3>2
      <4>3. \A a \in Agents : pc'[a] \notin {"test", "undo", "stopped"}
        BY <3>1, <3>2, <4>2
      <4>4. \A d \in ConnectionThreads : pc'[d] \notin {"begin", "start", "started"}
        BY <3>1, <3>2, <4>2
      <4>5. QED  BY <4>1, <4>3, <4>4
    <3>8. QED  BY <3>4, <3>5, <3>6, <3>7
  <2>3. QED  BY <2>1, <2>2
<1>6. CASE SetRunning(c)  BY <1>6 DEF SetRunning
<1>7. CASE SpawnInput(c)
  <2>2. OthersWait'  BY <1>7 DEF SpawnInput
  <2>3. EndersKnown'  BY <1>7 DEF SpawnInput
  <2>4. ReportAlone'  BY <1>7 DEF SpawnInput
  <2>5. TermAlone'  BY <1>7 DEF SpawnInput
  <2>7. Heights'  BY <1>7 DEF SpawnInput
  <2>8. InGame'  BY <1>7, SMTT(40) DEF SpawnInput
  <2>9. RunningHeard'  BY <1>7 DEF SpawnInput
  <2>10. QED  BY <2>2, <2>3, <2>4, <2>5, <2>7, <2>8, <2>9
<1>8. CASE LiStopConnection(c)  BY <1>8, LiStopConnectionOrdered
<1>9. CASE StartFailed(c)  BY <1>9 DEF StartFailed
<1>10. QED
  BY <1>1, <1>2, <1>3, <1>4, <1>5, <1>6, <1>7, <1>8, <1>9
  DEF ConnectionThread

LEMMA StopThreadOrdered ==
  ASSUME Orderly, TypeInv, OrderInv, NEW s \in StopThreads, StopThread(s) PROVE StagesHeld'
<1> USE SessionAssumption
    DEF Orderly, TypeInv, Positions, Handles, Go, library, instance, joins, frontEnd,
            Agents, Threads, Live, Failing, Unchallenged,
            STAGE_PLATFORM_INIT, STAGE_INPUT_STREAM_START,
            OrderInv, JoinInv, OneConnection, StopsWait, OneStop, StopsEnd, StagesHeld,
            OthersWait, EndersKnown, ReportAlone, TermAlone, Heights, InGame, RunningHeard
<1>1. CASE CallJoinConnection(s)  BY <1>1 DEF CallJoinConnection
<1>2. CASE ReturnJoinConnection(s)  BY <1>2 DEF ReturnJoinConnection
<1>3. CASE CallJoinInput(s)  BY <1>3 DEF CallJoinInput
<1>4. CASE ReturnJoinInput(s)  BY <1>4 DEF ReturnJoinInput
<1>5. CASE LiStopConnection(s)  BY <1>5, LiStopConnectionOrdered
<1>6. CASE StopThreadReturns(s)  BY <1>6 DEF StopThreadReturns
<1>7. QED
  BY <1>1, <1>2, <1>3, <1>4, <1>5, <1>6
  DEF StopThread

LEMMA StagesHeldStep == ASSUME Orderly, TypeInv, OrderInv, [Next]_vars PROVE StagesHeld'
<1> USE SessionAssumption
    DEF Orderly, TypeInv, Positions, Handles, Go, library, instance, joins, frontEnd,
            Agents, Threads, Live, Failing, Unchallenged,
            STAGE_PLATFORM_INIT, STAGE_INPUT_STREAM_START,
            OrderInv, JoinInv, OneConnection, StopsWait, OneStop, StopsEnd, StagesHeld,
            OthersWait, EndersKnown, ReportAlone, TermAlone, Heights, InGame, RunningHeard
<1>1. CASE \E c \in ConnectionThreads : ConnectionThread(c)
  BY <1>1, ConnectionThreadOrdered
<1>2. CASE \E c \in ConnectionThreads : HandleStartStream(c)
  BY <1>2 DEF HandleStartStream, MayStart, Quiet
<1>3. CASE \E s \in StopThreads : StopThread(s)  BY <1>3, StopThreadOrdered
<1>4. CASE \E s \in StopThreads : HandleStopStream(s)
  BY <1>4 DEF HandleStopStream, OnConnectionStopped
<1>5. CASE \E t \in TermThreads : LiStopConnection(t)  BY <1>5, LiStopConnectionOrdered
<1>6. CASE \E t \in TermThreads : PostStopped(t)
  BY <1>6 DEF PostStopped
<1>7. CASE \E i \in InputThreads : InputThread(i)
  BY <1>7 DEF InputThread
<1>8. CASE \E r \in Reporters : Report(r)
  BY <1>8 DEF Report, Connecting
<1>9. CASE \E r \in Reporters : RaiseTermination(r)
  <2>1. PICK r \in Reporters : RaiseTermination(r)  BY <1>9
  <2>2. reporting' = {}  BY <2>1 DEF RaiseTermination
  <2>3. PICK t \in TermThreads : pc[t] = "unborn" /\ Go(t, "stop")
    BY <2>1 DEF RaiseTermination
  <2>4. \A a \in Agents : ~Live(a)  BY <2>1 DEF RaiseTermination
  <2>5. UNCHANGED <<stage, up, mainQueue, m_Running, ending, m_ConnectionThread>>
    BY <2>1 DEF RaiseTermination
  <2>7. OthersWait'  BY <2>2, <2>3, <2>4, <2>5
  <2>8. EndersKnown'  BY <2>1, <2>3, <2>5 DEF RaiseTermination
  <2>9. ReportAlone'  BY <2>2, <2>3, <2>4, <2>5
  <2>10. TermAlone'  BY <2>2, <2>3, <2>4, <2>5
  <2>12. Heights'  BY <2>2, <2>3, <2>4, <2>5
  <2>13. InGame'  BY <2>2, <2>3, <2>4, <2>5
  <2>14. RunningHeard'  BY <2>2, <2>3, <2>4, <2>5
  <2>15. QED  BY <2>7, <2>8, <2>9, <2>10, <2>12, <2>13, <2>14
<1>10. CASE RunStarted
  BY <1>10 DEF RunStarted
<1>11. CASE RunStopped
  BY <1>11 DEF RunStopped, OnConnectionStopped
<1>12. CASE StartStreamFails
  BY <1>12 DEF StartStreamFails, MayStart, Quiet, OnConnectionStopped
<1>13. CASE StreamTerminated
  BY <1>13 DEF StreamTerminated
<1>14. CASE UNCHANGED vars
  BY <1>14 DEF vars
<1>15. QED
  BY <1>1, <1>2, <1>3, <1>4, <1>5, <1>6, <1>7, <1>8, <1>9, <1>10, <1>11, <1>12, <1>13, <1>14
  DEF Next, TermThread, MainThread

LEMMA OrderedStep == ASSUME Orderly, TypeInv, OrderInv, [Next]_vars PROVE OrderInv'
  BY StagesHeldStep, JoinsStep, OrderlyApart DEF OrderInv

LEMMA OrderInvariant == ASSUME Orderly PROVE Spec => [](TypeInv /\ OrderInv)
<1>1. Init => TypeInv /\ OrderInv  BY InitTyped, InitOrdered
<1>2. TypeInv /\ OrderInv /\ [Next]_vars => (TypeInv /\ OrderInv)'
  BY TypedStep, OrderedStep
<1>3. QED  BY <1>1, <1>2, PTL DEF Spec

(***************************************************************************)
(* In orderly circumstances the assertions of Connection.c on stage hold,  *)
(* for any number of sessions and threads, whatever fails and whether the  *)
(* user stops the session before, while or after it comes up.              *)
(***************************************************************************)
THEOREM StagesInOrder == ASSUME Orderly PROVE Spec => []StageAssertions
<1>1. TypeInv /\ OrderInv => StageAssertions
  <2> SUFFICES ASSUME TypeInv, OrderInv PROVE StageAssertions  OBVIOUS
  <2> USE DEF OrderInv, StagesHeld, Heights, Agents
  <2>1. \A c \in ConnectionThreads : pc[c] = "started" => stage + 1 = at[c]
    BY DEF TypeInv, Positions
  <2>2. \A a \in Agents : pc[a] = "undo" => stage = at[a] /\ at[a] \in up
    BY DEF TypeInv, Positions
  <2>3. \A a, b \in Agents : pc[a] = "undo" /\ pc[b] = "undo" => a = b
    BY DEF JoinInv, OneConnection, StopsWait, OneStop, OthersWait, TermAlone, Live
  <2>4. QED  BY <2>1, <2>2, <2>3 DEF StageAssertions
<1>2. QED  BY <1>1, OrderInvariant, PTL

(***************************************************************************)
(* In orderly circumstances a session whose threads have gone has left     *)
(* nothing behind: no stage, no report under way and no input loop.        *)
(***************************************************************************)
THEOREM QuietMeansDown == ASSUME Orderly PROVE Spec => []QuietIsDown
<1>1. TypeInv /\ OrderInv => QuietIsDown
  <2> SUFFICES ASSUME TypeInv, OrderInv, Quiet
               PROVE stage = 0 /\ up = {} /\ reporting = {} /\ ~m_Running
    BY DEF QuietIsDown
  <2> USE DEF OrderInv, StagesHeld, Quiet, Live, Agents, Threads
  <2>1. ~m_Running  BY DEF RunningHeard
  <2>2. stage = 0  BY <2>1 DEF InGame, Unchallenged, Failing
  <2>3. up = {}  BY <2>2 DEF Heights
  <2>4. reporting = {}  BY <2>2 DEF ReportAlone
  <2>5. QED  BY <2>1, <2>2, <2>3, <2>4
<1>2. QED  BY <1>1, OrderInvariant, PTL

-------------------------------------------------------------------------------
(***************************************************************************)
(* The safety half of ImplementsLifecycle.                                 *)
(***************************************************************************)
Descending == \E a \in Agents : Stopping(a)

LEMMA HeightOf == ASSUME NEW n \in Nat PROVE Cardinality(1 .. n) = n
  BY FS_Interval

LEMMA HeightNow ==
  ASSUME TypeInv, OrderInv
  PROVE /\ Descending => up = 1 .. stage
        /\ \A c \in ConnectionThreads : pc[c] = "start" => up = 1 .. stage /\ ~Descending
        /\ \A c \in ConnectionThreads : pc[c] = "started" => ~Descending
  BY DEF OrderInv, JoinInv, OneConnection, StopsWait, StagesHeld, Heights, OthersWait, TermAlone,
         Agents, Live, Stopping, Descending

\* A step that leaves the stages alone and stops no one from stopping.
Level == UNCHANGED up /\ \A a \in Agents : Stopping(a) => Stopping(a)'

LEMMA LevelMaps == Level => [Lifecycle!Next]_(Lifecycle!vars)
<1> SUFFICES ASSUME Level PROVE [Lifecycle!Next]_(Lifecycle!vars)  OBVIOUS
<1> USE DEF Level, Descending, Lifecycle!Next, Lifecycle!vars
<1>1. CASE Descending \/ ~Descending'  BY <1>1
<1>2. CASE ~Descending /\ Descending'
  <2>1. Lifecycle!Turn  BY <1>2 DEF Lifecycle!Turn
  <2>2. QED  BY <2>1
<1>3. QED  BY <1>1, <1>2

LEMMA StopMaps ==
  ASSUME TypeInv, OrderInv, NEW a \in Agents, LiStopConnection(a)
  PROVE [Lifecycle!Next]_(Lifecycle!vars)
<1> USE DEF Go, Stopping, Lifecycle!Next, Lifecycle!vars
<1>1. a \in Threads  BY DEF Agents, Threads
<1>2. pc \in [Threads -> Labels]  BY DEF TypeInv, Positions
<1>3. CASE StopFlags(a) \/ StopTest(a)
  <2>1. UNCHANGED up  BY <1>3 DEF StopFlags, StopTest, library
  <2>2. Stopping(a) /\ Stopping(a)'  BY <1>1, <1>2, <1>3 DEF StopFlags, StopTest
  <2>3. QED  BY <2>1, <2>2
<1>4. CASE StopUndo(a)
  <2>1. Stopping(a) /\ Stopping(a)'  BY <1>1, <1>2, <1>4 DEF StopUndo
  <2>2. stage \in Nat \ {0} /\ at[a] = stage
    BY <1>4 DEF StopUndo, OrderInv, StagesHeld, Heights, STAGE_INPUT_STREAM_START
  <2>3. up = 1 .. stage  BY <2>1, HeightNow DEF Descending
  <2>4. up' = 1 .. (stage - 1)  BY <1>4, <2>2, <2>3 DEF StopUndo
  <2>5. Cardinality(up) = stage /\ Cardinality(up') = stage - 1
    BY <2>2, <2>3, <2>4, HeightOf
  <2>6. Lifecycle!Pop  BY <2>1, <2>2, <2>5 DEF Lifecycle!Pop
  <2>7. QED  BY <2>6
<1>5. CASE StopDone(a)
  <2>1. Stopping(a) /\ UNCHANGED up  BY <1>5 DEF StopDone, library
  <2>2. stage = 0
    BY <1>5 DEF StopDone, OrderInv, StagesHeld, Heights, TypeInv, Positions,
                STAGE_INPUT_STREAM_START
  <2>3. up = 1 .. 0  BY <2>1, <2>2, HeightNow DEF Descending
  <2>4. Cardinality(up) = 0  BY <2>3, HeightOf
  <2>5. CASE Descending'  BY <2>1, <2>5 DEF Descending
  <2>6. CASE ~Descending'
    <3>1. Lifecycle!Rest  BY <2>1, <2>4, <2>6 DEF Lifecycle!Rest, Descending
    <3>2. QED  BY <3>1
  <2>7. QED  BY <2>5, <2>6
<1>6. QED  BY <1>3, <1>4, <1>5 DEF LiStopConnection

LEMMA ConnectionMaps ==
  ASSUME TypeInv, OrderInv, NEW c \in ConnectionThreads, ConnectionThread(c)
  PROVE [Lifecycle!Next]_(Lifecycle!vars)
<1> USE DEF Go, Stopping, Level, library, Agents, Threads, TypeInv, Positions
<1>1. CASE StartEntry(c)  BY <1>1, LevelMaps DEF StartEntry
<1>2. CASE StartStage(c)
  <2>1. up = 1 .. stage /\ ~Descending  BY <1>2, HeightNow DEF StartStage
  <2>2. stage \in Nat /\ at[c] = stage + 1
    BY <1>2 DEF StartStage, OrderInv, StagesHeld, Heights, STAGE_INPUT_STREAM_START
  <2>3. up' = 1 .. (stage + 1)  BY <1>2, <2>1, <2>2 DEF StartStage
  <2>4. Cardinality(up) = stage /\ Cardinality(up') = stage + 1
    BY <2>1, <2>2, <2>3, HeightOf
  <2>5. ~Descending'  BY <1>2, <2>1 DEF StartStage, Descending
  <2>6. stage < STAGE_INPUT_STREAM_START  BY <2>2 DEF STAGE_INPUT_STREAM_START
  <2>7. Lifecycle!Push  BY <2>1, <2>4, <2>5, <2>6 DEF Lifecycle!Push, Descending
  <2>8. QED  BY <2>7 DEF Lifecycle!Next
<1>3. CASE StartStageFails(c)  BY <1>3, LevelMaps DEF StartStageFails
<1>4. CASE DecoderFails(c)  BY <1>4, LevelMaps DEF DecoderFails
<1>5. CASE StageComplete(c)  BY <1>5, LevelMaps DEF StageComplete
<1>6. CASE SetRunning(c)  BY <1>6, LevelMaps DEF SetRunning
<1>7. CASE SpawnInput(c)  BY <1>7, LevelMaps DEF SpawnInput
<1>8. CASE LiStopConnection(c)  BY <1>8, StopMaps
<1>9. CASE StartFailed(c)  BY <1>9, LevelMaps DEF StartFailed
<1>10. QED
  BY <1>1, <1>2, <1>3, <1>4, <1>5, <1>6, <1>7, <1>8, <1>9 DEF ConnectionThread

LEMMA StopThreadMaps ==
  ASSUME TypeInv, OrderInv, NEW s \in StopThreads, StopThread(s)
  PROVE [Lifecycle!Next]_(Lifecycle!vars)
<1> USE DEF Go, Stopping, Level, library, Agents, Threads, TypeInv, Positions
<1>1. CASE CallJoinConnection(s)  BY <1>1, LevelMaps DEF CallJoinConnection
<1>2. CASE ReturnJoinConnection(s)  BY <1>2, LevelMaps DEF ReturnJoinConnection
<1>3. CASE CallJoinInput(s)  BY <1>3, LevelMaps DEF CallJoinInput
<1>4. CASE ReturnJoinInput(s)  BY <1>4, LevelMaps DEF ReturnJoinInput
<1>5. CASE LiStopConnection(s)  BY <1>5, StopMaps
<1>6. CASE StopThreadReturns(s)  BY <1>6, LevelMaps DEF StopThreadReturns
<1>7. QED  BY <1>1, <1>2, <1>3, <1>4, <1>5, <1>6 DEF StopThread

(***************************************************************************)
(* In orderly circumstances the stages are climbed and taken down as one   *)
(* stack: never both at once, and down to the ground.                      *)
(***************************************************************************)
THEOREM ClimbsAndDescends ==
  ASSUME Orderly PROVE Spec => Lifecycle!Init /\ [][Lifecycle!Next]_(Lifecycle!vars)
<1>1. Init => Lifecycle!Init
  BY FS_EmptySet DEF Init, Lifecycle!Init, Stopping, Agents, Threads
<1>2. ASSUME TypeInv, OrderInv, [Next]_vars PROVE [Lifecycle!Next]_(Lifecycle!vars)
  <2> USE DEF Go, Stopping, Level, library, Agents, Threads, TypeInv, Positions
  <2>1. CASE \E c \in ConnectionThreads : ConnectionThread(c)
    BY <1>2, <2>1, ConnectionMaps
  <2>2. CASE \E c \in ConnectionThreads : HandleStartStream(c)
    BY <1>2, <2>2, LevelMaps DEF HandleStartStream
  <2>3. CASE \E s \in StopThreads : StopThread(s)  BY <1>2, <2>3, StopThreadMaps
  <2>4. CASE \E s \in StopThreads : HandleStopStream(s)
    BY <1>2, <2>4, LevelMaps DEF HandleStopStream
  <2>5. CASE \E t \in TermThreads : LiStopConnection(t)  BY <1>2, <2>5, StopMaps
  <2>6. CASE \E t \in TermThreads : PostStopped(t)
    BY <1>2, <2>6, LevelMaps DEF PostStopped
  <2>7. CASE \E i \in InputThreads : InputThread(i)
    BY <1>2, <2>7, LevelMaps DEF InputThread
  <2>8. CASE \E r \in Reporters : Report(r) \/ RaiseTermination(r)
    BY <1>2, <2>8, LevelMaps DEF Report, RaiseTermination
  <2>9. CASE RunStarted \/ RunStopped
    BY <2>9, LevelMaps DEF RunStarted, RunStopped
  <2>10. CASE StartStreamFails \/ StreamTerminated
    BY <2>10, LevelMaps DEF StartStreamFails, StreamTerminated
  <2>11. CASE UNCHANGED vars  BY <2>11, LevelMaps DEF vars
  <2>12. QED
    BY <1>2, <2>1, <2>2, <2>3, <2>4, <2>5, <2>6, <2>7, <2>8, <2>9, <2>10, <2>11
    DEF Next, TermThread, MainThread
<1>3. QED  BY <1>1, <1>2, OrderInvariant, PTL DEF Spec

-------------------------------------------------------------------------------
(***************************************************************************)
(* Release: what a session claims while it is up, the thread or message    *)
(* that will give it up once the session is being ended.  Only a stop that *)
(* came while the connection was coming up (lateStop) breaks the order.    *)
(***************************************************************************)
Posted(m) == \E k \in 1 .. Len(mainQueue) : mainQueue[k] = m

Claimed == s_streamActive \/ inputRequested \/ Posted("OnConnectionStarted")

StoppedLast == Len(mainQueue) > 0 /\ mainQueue[Len(mainQueue)] = "OnConnectionStopped"

Lost == \E t \in TermThreads : Live(t)

\* A connection thread that has not come up, or will not.
NotUp(c) == pc[c] \in {"begin", "start", "started"} \/ Failing(c)

StopsAlone == \A c \in ConnectionThreads, s \in StopThreads : Live(c) /\ Live(s) => Failing(c)

StartedOnce ==
  /\ inputRequested => ~Posted("OnConnectionStarted")
  /\ \A j, k \in 1 .. Len(mainQueue) :
       mainQueue[j] = "OnConnectionStarted" /\ mainQueue[k] = "OnConnectionStarted" => j = k

Released ==
  /\ \A c \in ConnectionThreads : NotUp(c) => ~Claimed
  /\ Claimed => Unchallenged \/ Lost \/ StoppedLast
  /\ Posted("OnConnectionStopped") => ending
  /\ StopsAlone /\ StartedOnce

ReleaseInv == ~lateStop => Released

LEMMA InitReleased == Init => ReleaseInv
  BY DEF Init, ReleaseInv, Released, Claimed, Posted, NotUp, Failing, StopsAlone, StartedOnce,
         Live, Agents, Threads

\* Nothing new is claimed, and no message posted or run.
Fewer ==
  /\ s_streamActive' => s_streamActive
  /\ inputRequested' => inputRequested
  /\ ending => ending'
  /\ UNCHANGED <<mainQueue, lateStop>>

LEMMA FewerClaims ==
  ASSUME Fewer
  PROVE  /\ Claimed' => Claimed
         /\ StoppedLast <=> StoppedLast'
         /\ Posted("OnConnectionStopped")' <=> Posted("OnConnectionStopped")
         /\ StartedOnce => StartedOnce'
  BY DEF Fewer, Claimed, StoppedLast, Posted, StartedOnce

LEMMA KeptReleased ==
  ASSUME ReleaseInv, Fewer, StopsAlone => StopsAlone',
         \A c \in ConnectionThreads : NotUp(c)' => NotUp(c) \/ ~Claimed',
         Claimed' /\ Unchallenged => Unchallenged' \/ Lost',
         Lost => Lost'
  PROVE  ReleaseInv'
<1>1. ReleaseInv' <=> (~lateStop => Released')
  BY DEF ReleaseInv, Fewer
<1>2. ending => ending'
  BY DEF Fewer
<1>3. QED BY <1>1, <1>2, FewerClaims DEF ReleaseInv, Released

LEMMA LiStopConnectionReleased ==
  ASSUME TypeInv, ReleaseInv, NEW a \in Agents, LiStopConnection(a) PROVE ReleaseInv'
<1>1. Fewer
  BY DEF LiStopConnection, StopFlags, StopTest, StopUndo, StopDone, Fewer, instance, frontEnd
<1>2. /\ pc[a] \in {"stop", "test", "undo"} /\ pc \in [Threads -> Labels] /\ a \in Threads
      /\ \E l \in {"test", "undo", "stopped"} : pc' = pc \/ pc' = [pc EXCEPT ![a] = l]
  BY DEF LiStopConnection, StopFlags, StopTest, StopUndo, StopDone, Go, TypeInv, Positions,
         Agents, Threads
<1>3. PICK l \in {"test", "undo", "stopped"} : pc' = pc \/ pc' = [pc EXCEPT ![a] = l]
  BY <1>2
<1>4. \A t \in Threads : (Live(t)' <=> Live(t)) /\ (Failing(t)' <=> Failing(t))
                         /\ (NotUp(t)' => NotUp(t))
  BY <1>2, <1>3 DEF Live, Failing, NotUp
<1>5. ~Unchallenged
  BY <1>2 DEF Unchallenged, Agents, Live, Failing
<1>6. QED BY <1>1, <1>4, <1>5, KeptReleased DEF StopsAlone, Lost, Threads, Agents

LEMMA ConnectionThreadReleased ==
  ASSUME TypeInv, OrderInv, ReleaseInv, NEW c \in ConnectionThreads, ConnectionThread(c)
  PROVE  ReleaseInv'
<1> USE DEF Go, library, instance, joins, frontEnd
<1>0. /\ pc \in [Threads -> Labels] /\ c \in Threads /\ c \in Agents
      /\ ConnectionThreads \cap (StopThreads \cup TermThreads \cup InputThreads) = {}
      /\ StopThreads \cap TermThreads = {}
      /\ ConnectionThreads \cup StopThreads \cup TermThreads \subseteq Threads
  BY SessionAssumption DEF TypeInv, Positions, Agents, Threads
\* The one connection thread that lives moves on, and is still not up.
<1>n. ASSUME Fewer, pc[c] \in {"begin", "start", "started"}, NEW l \in {"start", "started", "stop"},
             pc' = [pc EXCEPT ![c] = l], Claimed' => Claimed
      PROVE  ReleaseInv'
  <2>1. \A d \in ConnectionThreads : NotUp(d)' => NotUp(d)
    BY <1>n, <1>0 DEF NotUp, Failing
  <2>2. Lost => Lost'
    BY <1>n, <1>0 DEF Lost, Live
  <2>3. ~lateStop => ~Claimed
    BY <1>n DEF ReleaseInv, Released, NotUp
  <2>4. ~lateStop => ~Claimed'
    BY <1>n, <2>3
  <2>5. StopsAlone => StopsAlone' 
    BY <1>n, <1>0 DEF StopsAlone, Live, Failing, NotUp
  <2>6. CASE lateStop
    BY <1>n, <2>6 DEF Fewer, ReleaseInv
  <2>7. CASE ~lateStop
    BY <1>n, <2>1, <2>2, <2>4, <2>5, <2>7, KeptReleased
  <2>8. QED BY <2>6, <2>7
<1>1. CASE StartEntry(c)
  BY <1>n, <1>1, FewerClaims DEF StartEntry, Fewer
<1>2. CASE StartStage(c)
  BY <1>n, <1>2, FewerClaims DEF StartStage, Fewer
<1>3. CASE StartStageFails(c)
  BY <1>n, <1>3, FewerClaims DEF StartStageFails, Fewer
<1>4. CASE DecoderFails(c)
  <2>1. PICK s \in StopThreads : /\ pc[s] = "unborn"
                                 /\ pc' = [pc EXCEPT ![c] = "stop", ![s] = "begin"]
    BY <1>4 DEF DecoderFails
  <2>2. Fewer
    BY <1>4 DEF DecoderFails, OnConnectionStopped, Fewer
  <2>3. pc[c] = "start"
    BY <1>4 DEF DecoderFails
  <2>4. \A d \in ConnectionThreads : NotUp(d)' => NotUp(d)
    BY <1>0, <2>1, <2>3 DEF NotUp, Failing
  <2>5. \A d \in ConnectionThreads : Live(d) => d = c
    BY <2>3 DEF OrderInv, JoinInv, OneConnection, Live
  <2>6. \A d \in ConnectionThreads : Live(d)' => Failing(d)'
    BY <1>0, <2>1, <2>5 DEF Live, Failing
  <2>7. Lost => Lost'
    BY <1>0, <2>1 DEF Lost, Live
  <2>8. ~lateStop => ~Claimed'
    BY <2>2, <2>3, FewerClaims DEF ReleaseInv, Released, NotUp
  <2>9. CASE lateStop
    BY <2>2, <2>9 DEF Fewer, ReleaseInv
  <2>10. CASE ~lateStop
    BY <2>2, <2>4, <2>6, <2>7, <2>8, <2>10, KeptReleased DEF StopsAlone
  <2>11. QED BY <2>9, <2>10
<1>5. CASE StageComplete(c)
  <2>1. CASE at[c] < STAGE_INPUT_STREAM_START
    BY <1>n, <1>5, <2>1, FewerClaims DEF StageComplete, Fewer
  <2>2. CASE ~(at[c] < STAGE_INPUT_STREAM_START)
    <3>1. /\ mainQueue' = Append(mainQueue, "OnConnectionStarted")
          /\ pc[c] = "started" /\ pc' = [pc EXCEPT ![c] = "established"]
          /\ UNCHANGED <<s_streamActive, inputRequested, lateStop, ending>>
      BY <1>5, <2>2 DEF StageComplete
    <3> SUFFICES ASSUME ~lateStop PROVE Released'
      BY <3>1 DEF ReleaseInv
    <3>2. Released /\ ~Claimed
      BY <3>1 DEF ReleaseInv, Released, NotUp
    <3>3. \A d \in ConnectionThreads : Live(d) => d = c
      BY <3>1 DEF OrderInv, JoinInv, OneConnection, Live
    <3>4. \A d \in ConnectionThreads : ~NotUp(d)'
      BY <1>0, <3>1, <3>3 DEF NotUp, Failing, Live
    <3>5. \A s \in StopThreads : ~Live(s)'
      BY <1>0, <3>1, <3>2 DEF Released, StopsAlone, Live, Failing
    <3>6. \A t \in TermThreads : ~Live(t)'
      BY <1>0, <3>1 DEF OrderInv, StagesHeld, OthersWait, Live
    <3>7. Unchallenged'
      BY <1>0, <3>1, <3>4, <3>5, <3>6 DEF Unchallenged, NotUp, Live
    <3>8. mainQueue \in Seq({"OnConnectionStarted", "OnConnectionStopped"})
      BY DEF TypeInv, Handles
    <3>9. Posted("OnConnectionStopped")' => Posted("OnConnectionStopped")
      BY <3>1, <3>8 DEF Posted
    <3>10. StartedOnce'
      BY <3>1, <3>2, <3>8 DEF StartedOnce, Claimed, Posted
    <3>11. QED BY <3>1, <3>2, <3>4, <3>5, <3>7, <3>9, <3>10 DEF Released, StopsAlone
  <2>3. QED BY <2>1, <2>2
<1>6. CASE SetRunning(c)
  <2>1. /\ pc[c] = "established" /\ pc' = [pc EXCEPT ![c] = "spawn"]
        /\ UNCHANGED <<stage, inputRequested, mainQueue, lateStop, ending>>
    BY <1>6 DEF SetRunning
  <2> SUFFICES ASSUME ~lateStop PROVE Released'
    BY <2>1 DEF ReleaseInv
  <2>2. Released
    BY DEF ReleaseInv
  <2>3. \A d \in ConnectionThreads : Live(d) => d = c
    BY <2>1 DEF OrderInv, JoinInv, OneConnection, Live
  <2>4. \A d \in ConnectionThreads : ~NotUp(d)'
    BY <1>0, <2>1, <2>3 DEF NotUp, Failing, Live
  <2>5. \A s \in StopThreads : ~Live(s)'
    BY <1>0, <2>1, <2>2 DEF Released, StopsAlone, Live, Failing
  <2>6. \A t \in TermThreads : ~Live(t)'
    BY <1>0, <2>1 DEF OrderInv, StagesHeld, OthersWait, Live
  <2>7. Unchallenged'
    BY <1>0, <2>1, <2>4, <2>5, <2>6 DEF Unchallenged, NotUp, Live
  <2>8. Posted("OnConnectionStopped")' => Posted("OnConnectionStopped")
    BY <2>1 DEF Posted
  <2>9. StartedOnce'
    BY <2>1, <2>2 DEF Released, StartedOnce, Posted
  <2>10. QED BY <2>1, <2>2, <2>4, <2>5, <2>7, <2>8, <2>9 DEF Released, StopsAlone
<1>7. CASE SpawnInput(c)
  <2>1. PICK i \in InputThreads : pc' = [pc EXCEPT ![c] = "exited", ![i] = "running"]
    BY <1>7 DEF SpawnInput
  <2>2. Fewer /\ stage' = stage /\ pc[c] = "spawn"
    BY <1>7 DEF SpawnInput, Fewer
  <2>3. stage = STAGE_INPUT_STREAM_START
    BY <2>2 DEF OrderInv, StagesHeld, Heights
  <2>4. \A t \in ConnectionThreads \cup StopThreads \cup TermThreads :
          /\ t # c => pc'[t] = pc[t]
          /\ t = c => pc'[t] = "exited"
    BY <1>0, <2>1, SessionAssumption DEF Threads, Agents
  <2>5. Unchallenged => Unchallenged'
    BY <2>2, <2>3, <2>4 DEF Unchallenged, Live, Failing, STAGE_INPUT_STREAM_START
  <2>6. Lost => Lost'
    BY <1>0, <2>4 DEF Lost, Live
  <2>7. /\ \A d \in ConnectionThreads : NotUp(d)' => NotUp(d)
        /\ StopsAlone => StopsAlone'
    BY <1>0, <2>4 DEF NotUp, StopsAlone, Live, Failing
  <2>8. QED BY <2>2, <2>5, <2>6, <2>7, KeptReleased
<1>8. CASE LiStopConnection(c)
  BY <1>0, <1>8, LiStopConnectionReleased
<1>9. CASE StartFailed(c)
  <2>1. /\ Fewer /\ pc[c] = "stopped" /\ pc' = [pc EXCEPT ![c] = "exited"]
    BY <1>9 DEF StartFailed, Fewer
  <2>2. /\ ~Unchallenged
        /\ Lost => Lost'
        /\ \A d \in ConnectionThreads : NotUp(d)' => NotUp(d)
        /\ StopsAlone => StopsAlone'
    BY <1>0, <2>1 DEF Unchallenged, Lost, NotUp, StopsAlone, Live, Failing
  <2>3. QED BY <2>1, <2>2, KeptReleased
<1>10. QED
  BY <1>1, <1>2, <1>3, <1>4, <1>5, <1>6, <1>7, <1>8, <1>9 DEF ConnectionThread

LEMMA StopThreadReleased ==
  ASSUME TypeInv, ReleaseInv, NEW s \in StopThreads, StopThread(s) PROVE ReleaseInv'
<1>1. CASE LiStopConnection(s)
  BY <1>1, LiStopConnectionReleased DEF Agents
<1>2. CASE \/ CallJoinConnection(s) \/ ReturnJoinConnection(s) \/ CallJoinInput(s)
           \/ ReturnJoinInput(s) \/ StopThreadReturns(s)
  <2>1. Fewer
    BY <1>2 DEF CallJoinConnection, ReturnJoinConnection, CallJoinInput, ReturnJoinInput,
                StopThreadReturns, Fewer, instance, frontEnd
  <2>2. Live(s) /\ \E l \in Labels : pc' = [pc EXCEPT ![s] = l]
    BY <1>2 DEF CallJoinConnection, ReturnJoinConnection, CallJoinInput, ReturnJoinInput,
                StopThreadReturns, Go, Live, Labels
  <2>3. \A t \in ConnectionThreads \cup TermThreads : pc'[t] = pc[t]
    BY <2>2, SessionAssumption DEF TypeInv, Positions, Threads, Agents
  <2>4. \A t \in StopThreads : Live(t)' => Live(t)
    BY <2>2, SessionAssumption DEF TypeInv, Positions, Threads, Agents, Live
  <2>5. /\ ~Unchallenged
        /\ Lost => Lost'
        /\ \A d \in ConnectionThreads : NotUp(d)' => NotUp(d)
        /\ StopsAlone => StopsAlone'
    BY <2>2, <2>3, <2>4 DEF Unchallenged, Lost, NotUp, StopsAlone, Live, Failing
  <2>6. QED BY <2>1, <2>5, KeptReleased
<1>3. QED BY <1>1, <1>2 DEF StopThread

\* A session that runs is ended by the user while it streams, or was never one.
LEMMA HandleStopStreamReleased ==
  ASSUME Orderly, TypeInv, OrderInv, ReleaseInv, NEW s \in StopThreads, HandleStopStream(s)
  PROVE  ReleaseInv'
<1>0. /\ pc \in [Threads -> Labels] /\ s \in Threads
      /\ ConnectionThreads \cap StopThreads = {} /\ StopThreads \cap TermThreads = {}
      /\ ConnectionThreads \cup StopThreads \cup TermThreads \subseteq Threads
  BY SessionAssumption DEF TypeInv, Positions, Agents, Threads
<1>1. /\ pc' = [pc EXCEPT ![s] = "begin"] /\ pc[s] = "unborn" /\ ~ending
      /\ mainQueue' = mainQueue /\ ending' = TRUE /\ stage' = stage
      /\ s_streamActive' = FALSE /\ inputRequested' = FALSE
      /\ lateStop' = (lateStop \/ (inGame /\ ~Streaming))
  BY DEF HandleStopStream, OnConnectionStopped, Orderly, Go, library
<1> SUFFICES ASSUME ~lateStop' PROVE Released'
  BY DEF ReleaseInv
<1>2. ~lateStop /\ (inGame => Streaming)
  BY <1>1
<1>3. Released
  BY <1>2 DEF ReleaseInv
<1>4. /\ StartedOnce' /\ (Posted("OnConnectionStarted")' <=> Posted("OnConnectionStarted"))
  BY <1>1, <1>3 DEF Released, StartedOnce, Posted
<1>5. CASE inGame
  <2>1. inputRequested /\ \A c \in ConnectionThreads : ~Live(c)
    BY <1>2, <1>5 DEF Streaming, Connecting
  <2>2. ~Claimed'
    BY <1>1, <1>3, <1>4, <2>1 DEF Claimed, Released, StartedOnce
  <2>3. \A c \in ConnectionThreads : ~Live(c)'
    BY <1>0, <1>1, <2>1 DEF Live
  <2>4. QED BY <1>1, <1>4, <2>2, <2>3 DEF Released, StopsAlone
<1>6. CASE ~inGame
  <2>1. ~Unchallenged
    BY <1>6 DEF OrderInv, StagesHeld, InGame
  <2>2. ~Lost
    BY <1>1 DEF OrderInv, StagesHeld, EndersKnown, Lost
  <2>3. ~StoppedLast
    BY <1>1, <1>3 DEF Released, StoppedLast, Posted, TypeInv, Handles
  <2>4. ~Claimed
    BY <1>3, <2>1, <2>2, <2>3 DEF Released
  <2>5. ~Claimed'
    BY <1>1, <1>4, <2>4 DEF Claimed
  <2>6. ASSUME NEW c \in ConnectionThreads, Live(c) PROVE Failing(c)
    <3>1. \A d \in ConnectionThreads : Live(d) => d = c
      BY <2>6 DEF OrderInv, JoinInv, OneConnection
    <3>2. \A t \in StopThreads \cup TermThreads : ~Live(t)
      BY <1>1 DEF OrderInv, JoinInv, StopsEnd, StagesHeld, EndersKnown
    <3>3. QED BY <2>1, <2>6, <3>1, <3>2 DEF Unchallenged, Live, Failing
  <2>7. StopsAlone'
    BY <1>0, <1>1, <2>6 DEF StopsAlone, Live, Failing
  <2>8. QED BY <1>1, <1>4, <2>5, <2>7 DEF Released
<1>7. QED BY <1>5, <1>6

LEMMA PostStoppedReleased ==
  ASSUME TypeInv, OrderInv, ReleaseInv, NEW t \in TermThreads, PostStopped(t) PROVE ReleaseInv'
<1>0. /\ pc \in [Threads -> Labels] /\ t \in Threads
      /\ ConnectionThreads \cap TermThreads = {} /\ StopThreads \cap TermThreads = {}
      /\ ConnectionThreads \cup StopThreads \cup TermThreads \subseteq Threads
  BY SessionAssumption DEF TypeInv, Positions, Agents, Threads
<1>1. /\ pc' = [pc EXCEPT ![t] = "exited"] /\ pc[t] = "stopped"
      /\ mainQueue' = Append(mainQueue, "OnConnectionStopped")
      /\ UNCHANGED <<s_streamActive, inputRequested, lateStop, ending>>
  BY DEF PostStopped, Go, instance, frontEnd
<1> SUFFICES ASSUME ~lateStop PROVE Released'
  BY <1>1 DEF ReleaseInv
<1>2. Released
  BY DEF ReleaseInv
<1>3. mainQueue \in Seq({"OnConnectionStarted", "OnConnectionStopped"})
  BY DEF TypeInv, Handles
<1>4. /\ StoppedLast'
      /\ Posted("OnConnectionStarted")' => Posted("OnConnectionStarted")
  BY <1>1, <1>3 DEF StoppedLast, Posted
<1>5. StartedOnce'
  BY <1>1, <1>2, <1>3 DEF Released, StartedOnce, Posted
<1>6. Live(t) /\ ending
  BY <1>1 DEF OrderInv, StagesHeld, EndersKnown, Live
<1>7. \A c \in ConnectionThreads : ~Live(c)
  BY <1>6 DEF OrderInv, StagesHeld, OthersWait
<1>8. \A c \in ConnectionThreads : ~Live(c)' /\ ~NotUp(c)'
  BY <1>0, <1>1, <1>7 DEF Live, NotUp, Failing
<1>9. QED BY <1>1, <1>4, <1>5, <1>6, <1>8 DEF Released, StopsAlone

LEMMA RunReleased ==
  ASSUME TypeInv, OrderInv, ReleaseInv, RunStarted \/ RunStopped PROVE ReleaseInv'
<1>1. /\ mainQueue # << >> /\ mainQueue' = Tail(mainQueue)
      /\ UNCHANGED <<pc, stage, ending, lateStop>>
  BY DEF RunStarted, RunStopped, library, frontEnd
<1> SUFFICES ASSUME ~lateStop PROVE Released'
  BY <1>1 DEF ReleaseInv
<1>2. Released
  BY DEF ReleaseInv
<1>3. mainQueue \in Seq({"OnConnectionStarted", "OnConnectionStopped"})
  BY DEF TypeInv, Handles
<1>4. /\ Len(mainQueue') = Len(mainQueue) - 1 /\ Len(mainQueue) > 0
      /\ \A k \in 1 .. Len(mainQueue') : mainQueue'[k] = mainQueue[k + 1]
      /\ Head(mainQueue) = mainQueue[1]
  BY <1>1, <1>3
<1>5. /\ Posted("OnConnectionStarted")' => Posted("OnConnectionStarted")
      /\ Posted("OnConnectionStopped")' => Posted("OnConnectionStopped")
      /\ StoppedLast => StoppedLast' \/ Len(mainQueue) = 1
  BY <1>3, <1>4 DEF Posted, StoppedLast
<1>6. \A c \in ConnectionThreads, s \in StopThreads : Live(c)' /\ Live(s)' => Failing(c)'
  BY <1>1, <1>2 DEF Released, StopsAlone, Live, Failing
<1>7. (Unchallenged => Unchallenged') /\ (Lost => Lost')
      /\ \A c \in ConnectionThreads : NotUp(c)' => NotUp(c)
  BY <1>1 DEF Unchallenged, Lost, Live, Failing, NotUp
<1>8. \A j, k \in 1 .. Len(mainQueue') :
        mainQueue'[j] = "OnConnectionStarted" /\ mainQueue'[k] = "OnConnectionStarted" => j = k
  <2>1. SUFFICES ASSUME NEW j \in 1 .. Len(mainQueue'), NEW k \in 1 .. Len(mainQueue'),
                        mainQueue'[j] = "OnConnectionStarted",
                        mainQueue'[k] = "OnConnectionStarted"
                 PROVE  j = k
    OBVIOUS
  <2>2. j + 1 \in 1 .. Len(mainQueue) /\ k + 1 \in 1 .. Len(mainQueue)
    BY <1>3, <1>4
  <2>3. mainQueue[j + 1] = "OnConnectionStarted" /\ mainQueue[k + 1] = "OnConnectionStarted"
    BY <1>4, <2>1
  <2>4. j + 1 = k + 1
    BY <1>2, <2>2, <2>3 DEF Released, StartedOnce
  <2>5. QED BY <2>4
<1>9. CASE RunStarted
  <2>1. mainQueue[1] = "OnConnectionStarted" /\ s_streamActive' = s_streamActive
    BY <1>4, <1>9 DEF RunStarted
  <2>2. Claimed
    BY <1>4, <2>1 DEF Claimed, Posted
  <2>3. ~Posted("OnConnectionStarted")'
    <3>1. ASSUME NEW k \in 1 .. Len(mainQueue'), mainQueue'[k] = "OnConnectionStarted"
          PROVE  FALSE
      <4>1. k + 1 \in 1 .. Len(mainQueue) /\ 1 \in 1 .. Len(mainQueue)
        BY <1>3, <1>4
      <4>2. mainQueue[k + 1] = "OnConnectionStarted"
        BY <1>4, <3>1
      <4>3. k + 1 = 1
        BY <1>2, <2>1, <4>1, <4>2 DEF Released, StartedOnce
      <4>4. QED BY <4>3
    <3>2. QED BY <3>1 DEF Posted
  <2>4. StoppedLast => StoppedLast'
    BY <1>5, <2>1 DEF StoppedLast
  <2>5. StartedOnce'
    BY <1>8, <2>3 DEF StartedOnce
  <2>6. QED BY <1>1, <1>2, <1>5, <1>6, <1>7, <2>2, <2>4, <2>5 DEF Released, StopsAlone
<1>10. CASE RunStopped
  <2>1. ~s_streamActive' /\ ~inputRequested'
    BY <1>10 DEF RunStopped, OnConnectionStopped
  <2>2. Claimed' => Claimed /\ Len(mainQueue) > 1
    <3>1. SUFFICES ASSUME Posted("OnConnectionStarted")' PROVE Claimed /\ Len(mainQueue) > 1
      BY <2>1 DEF Claimed
    <3>2. QED BY <1>3, <1>4, <1>5, <3>1 DEF Claimed, Posted
  <2>3. StartedOnce'
    BY <1>8, <2>1 DEF StartedOnce
  <2>4. QED BY <1>1, <1>2, <1>5, <1>6, <1>7, <2>2, <2>3 DEF Released, StopsAlone
<1>11. QED BY <1>9, <1>10

\* What a quiet client has claimed, only a late stop has left.
LEMMA QuietReleased ==
  ASSUME TypeInv, OrderInv, ReleaseInv, Quiet, ~lateStop PROVE ~Claimed
<1> USE DEF Quiet, Threads, Agents
<1>1. stage = 0
  BY DEF OrderInv, StagesHeld, RunningHeard, InGame, Unchallenged, Failing, Live
<1>2. ~Unchallenged
  BY <1>1 DEF Unchallenged
<1>3. ~Lost /\ ~StoppedLast
  BY DEF Lost, StoppedLast
<1>4. QED BY <1>2, <1>3 DEF ReleaseInv, Released

LEMMA HandleStartStreamReleased ==
  ASSUME Orderly, TypeInv, OrderInv, ReleaseInv, NEW c \in ConnectionThreads, HandleStartStream(c)
  PROVE  ReleaseInv'
<1>1. /\ pc' = [pc EXCEPT ![c] = "begin"] /\ Quiet
      /\ UNCHANGED <<s_streamActive, inputRequested, mainQueue, lateStop>>
  BY DEF HandleStartStream, MayStart, Orderly, Go
<1> SUFFICES ASSUME ~lateStop PROVE Released'
  BY <1>1 DEF ReleaseInv
<1>2. ~Claimed
  BY <1>1, QuietReleased
<1>3. ~Claimed' /\ StartedOnce' /\ ~Posted("OnConnectionStopped")'
  BY <1>1, <1>2 DEF Claimed, StartedOnce, Posted, Quiet
<1>4. \A s \in StopThreads : ~Live(s)'
  BY <1>1, SessionAssumption DEF Quiet, Live, Threads, Agents, TypeInv, Positions
<1>5. QED BY <1>3, <1>4 DEF Released, StopsAlone

LEMMA ReleasedStep ==
  ASSUME Orderly, TypeInv, OrderInv, ReleaseInv, [Next]_vars PROVE ReleaseInv'
<1> USE DEF library, instance, joins, frontEnd
<1>n. ASSUME Fewer, UNCHANGED <<pc, stage>> PROVE ReleaseInv'
  BY <1>n, KeptReleased DEF Unchallenged, Lost, Live, Failing, NotUp, StopsAlone
<1>1. CASE \E c \in ConnectionThreads : ConnectionThread(c) \/ HandleStartStream(c)
  BY <1>1, ConnectionThreadReleased, HandleStartStreamReleased
<1>2. CASE \E s \in StopThreads : StopThread(s) \/ HandleStopStream(s)
  BY <1>2, StopThreadReleased, HandleStopStreamReleased
<1>3. CASE \E t \in TermThreads : TermThread(t)
  BY <1>3, LiStopConnectionReleased, PostStoppedReleased DEF TermThread, Agents
<1>4. CASE \E i \in InputThreads : InputThread(i)
  <2>1. PICK i \in InputThreads : InputThread(i)
    BY <1>4
  <2>2. Fewer /\ stage' = stage /\ pc' = [pc EXCEPT ![i] = "exited"]
    BY <2>1 DEF InputThread, Fewer, Go
  <2>3. \A t \in Agents : pc'[t] = pc[t]
    BY <2>2, SessionAssumption DEF Agents, Threads, TypeInv, Positions
  <2>4. QED BY <2>2, <2>3, KeptReleased
            DEF Unchallenged, Lost, Live, Failing, NotUp, StopsAlone, Agents
<1>5. CASE \E r \in Reporters : Report(r)
  BY <1>n, <1>5 DEF Report, Fewer
<1>6. CASE \E r \in Reporters : RaiseTermination(r)
  <2>1. PICK t \in TermThreads : pc[t] = "unborn" /\ pc' = [pc EXCEPT ![t] = "stop"]
    BY <1>6 DEF RaiseTermination, Go
  <2>2. Fewer
    BY <1>6 DEF RaiseTermination, Fewer
  <2>3. /\ \A u \in ConnectionThreads \cup StopThreads : pc'[u] = pc[u]
        /\ Lost'
    BY <2>1, SessionAssumption DEF Agents, Threads, TypeInv, Positions, Lost, Live
  <2>4. QED BY <2>2, <2>3, KeptReleased DEF Live, Failing, NotUp, StopsAlone
<1>7. CASE MainThread
  BY <1>7, RunReleased DEF MainThread
<1>8. CASE StartStreamFails
  BY <1>n, <1>8 DEF StartStreamFails, OnConnectionStopped, Fewer
<1>9. CASE StreamTerminated
  BY <1>n, <1>9 DEF StreamTerminated, Fewer
<1>10. CASE UNCHANGED vars
  BY <1>n, <1>10 DEF vars, Fewer
<1>11. QED BY <1>1, <1>2, <1>3, <1>4, <1>5, <1>6, <1>7, <1>8, <1>9, <1>10 DEF Next

(***************************************************************************)
(* Told: who is in the game and has no word of its end on the way has a    *)
(* session that is on, or is being taken down by who will send that word.  *)
(***************************************************************************)
OnOrToBeTold ==
  (\E c \in ConnectionThreads : Live(c)) \/ stage # 0 \/ Lost \/ Posted("OnConnectionStopped")

Told ==
  /\ inGame /\ terminatedMsgs = 0 => OnOrToBeTold
  /\ \A s \in StopThreads : Live(s) => ~inGame \/ terminatedMsgs > 0

LEMMA InitTold == Init => Told
  BY DEF Init, Told, Live, Threads, Agents

LEMMA KeptTold ==
  ASSUME Told, UNCHANGED <<inGame, terminatedMsgs>>, \A s \in StopThreads : Live(s)' => Live(s),
         OnOrToBeTold => OnOrToBeTold' \/ \E s \in StopThreads : Live(s)
  PROVE  Told'
  BY DEF Told

LEMMA LiStopConnectionTold ==
  ASSUME TypeInv, Told, NEW a \in Agents, LiStopConnection(a) PROVE Told'
<1>1. UNCHANGED <<mainQueue, inGame, terminatedMsgs>>
  BY DEF LiStopConnection, StopFlags, StopTest, StopUndo, StopDone, frontEnd
<1>2. /\ pc[a] \in {"stop", "test", "undo"} /\ pc \in [Threads -> Labels] /\ a \in Threads
      /\ \E l \in {"test", "undo", "stopped"} : pc' = pc \/ pc' = [pc EXCEPT ![a] = l]
  BY DEF LiStopConnection, StopFlags, StopTest, StopUndo, StopDone, Go, TypeInv, Positions,
         Agents, Threads
<1>3. PICK l \in {"test", "undo", "stopped"} : pc' = pc \/ pc' = [pc EXCEPT ![a] = l]
  BY <1>2
<1>4. \A t \in Threads : Live(t)' <=> Live(t)
  BY <1>2, <1>3 DEF Live
<1>5. Live(a)  BY <1>2 DEF Live
<1>6. OnOrToBeTold => OnOrToBeTold' \/ \E s \in StopThreads : Live(s)
  BY <1>4, <1>5 DEF OnOrToBeTold, Lost, Agents, Threads
<1>7. QED  BY <1>1, <1>4, <1>6, KeptTold DEF Threads, Agents

LEMMA ConnectionThreadTold ==
  ASSUME TypeInv, OrderInv, Told, NEW c \in ConnectionThreads, ConnectionThread(c) PROVE Told'
<1> USE DEF Go, library, instance, joins, frontEnd
<1>0. /\ pc \in [Threads -> Labels] /\ c \in Threads /\ c \in Agents
      /\ ConnectionThreads \cap (StopThreads \cup TermThreads \cup InputThreads) = {}
      /\ StopThreads \cap InputThreads = {}
      /\ ConnectionThreads \cup StopThreads \cup TermThreads \subseteq Threads
      /\ terminatedMsgs \in Nat
  BY SessionAssumption DEF TypeInv, Positions, Handles, Agents, Threads
\* The connection thread lives on, and with it the session.
<1>n. ASSUME UNCHANGED <<inGame, terminatedMsgs>>,
             NEW l \in Labels \ {"unborn", "exited"}, pc' = [pc EXCEPT ![c] = l]
      PROVE  Told'
  <2>1. Live(c)' /\ \A s \in StopThreads : Live(s)' => Live(s)
    BY <1>0, <1>n DEF Live
  <2>2. OnOrToBeTold'  BY <2>1 DEF OnOrToBeTold
  <2>3. QED  BY <1>n, <2>1, <2>2, KeptTold
<1> USE DEF Labels
<1>1. CASE StartEntry(c)  BY <1>n, <1>1 DEF StartEntry
<1>2. CASE StartStage(c)  BY <1>n, <1>2 DEF StartStage
<1>3. CASE StartStageFails(c)  BY <1>n, <1>3 DEF StartStageFails
<1>4. CASE DecoderFails(c)
  <2>1. terminatedMsgs' > 0  BY <1>0, <1>4 DEF DecoderFails, OnConnectionStopped
  <2>2. QED  BY <2>1 DEF Told
<1>5. CASE StageComplete(c)  BY <1>n, <1>5 DEF StageComplete
<1>6. CASE SetRunning(c)  BY <1>n, <1>6 DEF SetRunning
<1>7. CASE SpawnInput(c)
  <2>1. PICK i \in InputThreads : pc' = [pc EXCEPT ![c] = "exited", ![i] = "running"]
    BY <1>7 DEF SpawnInput
  <2>2. /\ stage' = stage /\ pc[c] = "spawn" /\ UNCHANGED <<inGame, terminatedMsgs>>
    BY <1>7 DEF SpawnInput
  <2>3. stage = STAGE_INPUT_STREAM_START
    BY <2>2 DEF OrderInv, StagesHeld, Heights
  <2>4. OnOrToBeTold'  BY <2>2, <2>3 DEF OnOrToBeTold, STAGE_INPUT_STREAM_START
  <2>5. \A s \in StopThreads : Live(s)' => Live(s)
    BY <1>0, <2>1 DEF Live
  <2>6. QED  BY <2>2, <2>4, <2>5, KeptTold
<1>8. CASE LiStopConnection(c)  BY <1>0, <1>8, LiStopConnectionTold
<1>9. CASE StartFailed(c)
  <2>1. terminatedMsgs' > 0  BY <1>0, <1>9 DEF StartFailed
  <2>2. QED  BY <2>1 DEF Told
<1>10. QED
  BY <1>1, <1>2, <1>3, <1>4, <1>5, <1>6, <1>7, <1>8, <1>9 DEF ConnectionThread

LEMMA StopThreadTold ==
  ASSUME TypeInv, Told, NEW s \in StopThreads, StopThread(s) PROVE Told'
<1>1. CASE LiStopConnection(s)  BY <1>1, LiStopConnectionTold DEF Agents
<1>2. CASE \/ CallJoinConnection(s) \/ ReturnJoinConnection(s) \/ CallJoinInput(s)
           \/ ReturnJoinInput(s) \/ StopThreadReturns(s)
  <2>1. /\ UNCHANGED <<inGame, terminatedMsgs>>
        /\ Live(s) /\ \E l \in Labels : pc' = [pc EXCEPT ![s] = l]
    BY <1>2 DEF CallJoinConnection, ReturnJoinConnection, CallJoinInput, ReturnJoinInput,
                StopThreadReturns, frontEnd, Go, Live, Labels
  <2>2. \A r \in StopThreads : Live(r)' => Live(r)
    BY <2>1 DEF TypeInv, Positions, Threads, Agents, Live
  <2>3. QED  BY <2>1, <2>2, KeptTold
<1>3. QED  BY <1>1, <1>2 DEF StopThread

LEMMA RunStartedTold == ASSUME TypeInv, Told, RunStarted PROVE Told'
<1>1. /\ mainQueue # << >> /\ mainQueue' = Tail(mainQueue)
      /\ Head(mainQueue) = "OnConnectionStarted"
      /\ UNCHANGED <<pc, stage, inGame, terminatedMsgs>>
  BY DEF RunStarted, library, frontEnd
<1>2. mainQueue \in Seq({"OnConnectionStarted", "OnConnectionStopped"})
  BY DEF TypeInv, Handles
<1>3. ASSUME Posted("OnConnectionStopped") PROVE Posted("OnConnectionStopped")'
  <2>1. PICK k \in 1 .. Len(mainQueue) : mainQueue[k] = "OnConnectionStopped"
    BY <1>3 DEF Posted
  <2>2. k # 1  BY <1>1, <1>2, <2>1
  <2>3. k - 1 \in 1 .. Len(mainQueue') /\ mainQueue'[k - 1] = mainQueue[k]
    BY <1>1, <1>2, <2>2
  <2>4. QED  BY <2>1, <2>3 DEF Posted
<1>4. QED  BY <1>1, <1>3, KeptTold DEF OnOrToBeTold, Lost, Live

LEMMA ToldStep == ASSUME Orderly, TypeInv, OrderInv, Told, [Next]_vars PROVE Told'
<1> USE DEF library, instance, joins, frontEnd
<1>0. /\ terminatedMsgs \in Nat /\ pc \in [Threads -> Labels]
      /\ mainQueue \in Seq({"OnConnectionStarted", "OnConnectionStopped"})
  BY DEF TypeInv, Handles, Positions
<1>n. ASSUME UNCHANGED <<inGame, terminatedMsgs, pc, stage, mainQueue>> PROVE Told'
  BY <1>n, KeptTold DEF OnOrToBeTold, Lost, Live, Posted
<1>t. ASSUME terminatedMsgs' > 0 PROVE Told'
  BY <1>t DEF Told
<1>1. CASE \E c \in ConnectionThreads : ConnectionThread(c)
  BY <1>1, ConnectionThreadTold
<1>2. CASE \E c \in ConnectionThreads : HandleStartStream(c)
  <2>1. PICK c \in ConnectionThreads : HandleStartStream(c)  BY <1>2
  <2>2. pc' = [pc EXCEPT ![c] = "begin"] /\ \A t \in Threads : ~Live(t)
    BY <2>1 DEF HandleStartStream, MayStart, Quiet, Orderly, Go
  <2>3. Live(c)' /\ \A s \in StopThreads : ~Live(s)'
    BY <1>0, <2>2, SessionAssumption DEF Live, Threads, Agents
  <2>4. QED  BY <2>3 DEF Told, OnOrToBeTold
<1>3. CASE \E s \in StopThreads : StopThread(s)  BY <1>3, StopThreadTold
<1>4. CASE \E s \in StopThreads : HandleStopStream(s)
  BY <1>0, <1>t, <1>4 DEF HandleStopStream, OnConnectionStopped
<1>5. CASE \E t \in TermThreads : LiStopConnection(t)
  BY <1>5, LiStopConnectionTold DEF Agents
<1>6. CASE \E t \in TermThreads : PostStopped(t)
  <2>1. PICK t \in TermThreads : PostStopped(t)  BY <1>6
  <2>2. /\ mainQueue' = Append(mainQueue, "OnConnectionStopped")
        /\ pc' = [pc EXCEPT ![t] = "exited"]
        /\ UNCHANGED <<inGame, terminatedMsgs>>
    BY <2>1 DEF PostStopped, Go
  <2>3. OnOrToBeTold'  BY <1>0, <2>2 DEF OnOrToBeTold, Posted
  <2>4. \A s \in StopThreads : Live(s)' => Live(s)
    BY <1>0, <2>2 DEF Live, Threads, Agents
  <2>5. QED  BY <2>2, <2>3, <2>4, KeptTold
<1>7. CASE \E i \in InputThreads : InputThread(i)
  <2>1. PICK i \in InputThreads : InputThread(i)  BY <1>7
  <2>2. /\ pc' = [pc EXCEPT ![i] = "exited"]
        /\ UNCHANGED <<stage, mainQueue, inGame, terminatedMsgs>>
    BY <2>1 DEF InputThread, Go
  <2>3. \A t \in Agents : pc'[t] = pc[t]
    BY <1>0, <2>2, SessionAssumption DEF Threads, Agents
  <2>4. QED  BY <2>2, <2>3, KeptTold DEF OnOrToBeTold, Lost, Live, Posted, Agents
<1>8. CASE \E r \in Reporters : Report(r)  BY <1>n, <1>8 DEF Report
<1>9. CASE \E r \in Reporters : RaiseTermination(r)
  <2>1. PICK t \in TermThreads : pc[t] = "unborn" /\ pc' = [pc EXCEPT ![t] = "stop"]
    BY <1>9 DEF RaiseTermination, Go
  <2>2. UNCHANGED <<inGame, terminatedMsgs>>  BY <1>9 DEF RaiseTermination
  <2>3. \A s \in StopThreads : pc'[s] = pc[s]
    BY <1>0, <2>1, SessionAssumption DEF Threads, Agents
  <2>4. Lost'  BY <1>0, <2>1 DEF Lost, Live, Threads, Agents
  <2>5. QED  BY <2>2, <2>3, <2>4, KeptTold DEF OnOrToBeTold, Live
<1>10. CASE RunStarted  BY <1>10, RunStartedTold
<1>11. CASE RunStopped  BY <1>0, <1>t, <1>11 DEF RunStopped, OnConnectionStopped
<1>12. CASE StartStreamFails
  BY <1>0, <1>t, <1>12 DEF StartStreamFails, OnConnectionStopped
<1>13. CASE StreamTerminated
  <2>1. ~inGame'  BY <1>13 DEF StreamTerminated
  <2>2. QED  BY <2>1 DEF Told
<1>14. CASE UNCHANGED vars  BY <1>n, <1>14 DEF vars
<1>15. QED
  BY <1>1, <1>2, <1>3, <1>4, <1>5, <1>6, <1>7, <1>8, <1>9, <1>10, <1>11, <1>12, <1>13, <1>14
  DEF Next, TermThread, MainThread

(***************************************************************************)
(* In orderly circumstances a session whose threads have gone has told the *)
(* front end of its end, and claims no gamepads and no input events, but   *)
(* where some session was stopped while it was coming up; for any number   *)
(* of sessions, whatever fails.                                            *)
(***************************************************************************)
THEOREM QuietMeansReleased == ASSUME Orderly PROVE Spec => []QuietIsReleased
<1>1. TypeInv /\ OrderInv /\ ReleaseInv /\ Told => QuietIsReleased
  <2> SUFFICES ASSUME TypeInv, OrderInv, ReleaseInv, Told, Quiet
               PROVE  /\ inGame => terminatedMsgs > 0
                      /\ ~lateStop => ~s_streamActive /\ ~inputRequested
    BY DEF QuietIsReleased
  <2>1. stage = 0
    BY DEF OrderInv, StagesHeld, RunningHeard, InGame, Unchallenged, Failing, Live, Quiet,
           Threads, Agents
  <2>2. ~OnOrToBeTold
    BY <2>1 DEF OnOrToBeTold, Lost, Posted, Quiet, Threads, Agents
  <2>3. inGame => terminatedMsgs > 0
    BY <2>2 DEF Told, TypeInv, Handles
  <2>4. QED  BY <2>3, QuietReleased DEF Claimed
<1>2. TypeInv /\ OrderInv /\ ReleaseInv /\ Told /\ [Next]_vars => ReleaseInv' /\ Told'
  BY ReleasedStep, ToldStep
<1>3. QED BY <1>1, <1>2, InitReleased, InitTold, OrderInvariant, PTL DEF Spec

===============================================================================
