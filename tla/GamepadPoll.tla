------------------------------ MODULE GamepadPoll ------------------------------
(***************************************************************************)
(* src/gamepad.cpp: the input thread polls the gamepads every 5 ms and     *)
(* announces them and their states to the host, while the main thread      *)
(* resets the same fields, one store at a time and with no lock, when the  *)
(* user turns gamepad input on or off and when the stream stops.           *)
(*                                                                         *)
(* This is one slot of the four: the fields of the others are touched by   *)
(* the same two loops and never read for this one, except that the number  *)
(* of connected pads below it labels its events (controllerIndex).  A step *)
(* of a thread is one load or store that the other thread can see, with    *)
(* two exceptions: the test of line 965 and the call it decides on are one *)
(* step, and so are stores of the same thread that clear several fields of *)
(* a slot to what a reset clears them to.  What a pad reports is           *)
(* abstracted to what is pressed.                                          *)
(***************************************************************************)
EXTENDS Integers

CONSTANTS SETTLE,       \* samples held off after an arrival (20 in the code)
          Pressed,      \* what can be pressed
          Released      \* nothing is

ASSUME GamepadAssumption == SETTLE \in Nat \ {0} /\ Released \notin Pressed

Buttons == Pressed \cup {Released}

VARIABLES
  \* the pad, and the copy the last Sample made of it
  connected, buttons,
  moved,           \* its timestamp has changed since the last Sample
  padConnected, padButtons,
  \* the fields both threads write
  s_connectedLast, s_arrivalSent, s_arrivalSettleCount, s_hasLastSentState,
  s_lastSentState,
  stampKnown,      \* m_LastPadTimestamps equals the copied timestamp
  m_GamepadInputEnabled, s_streamActive, m_Running,
  \* the input thread
  pc,
  count,           \* the register of s_arrivalSettleCount--; -1 when a reset came
                   \* between the test of the count and its decrement
  refused,         \* the arrival tried in this poll was not queued
  \* the next field ResetGamepadState clears on the main thread; 0 at rest
  reset,
  \* the host
  announced,       \* the arrival reached it since the slot was last seen empty
  heldOff,         \* samples held off since that arrival
  hostShows,       \* what the host's virtual pad shows
  lost             \* ... which s_lastSentState misses: the last state event was
                   \* refused, or an arrival after it released everything

pad == <<connected, buttons, moved>>
copy == <<padConnected, padButtons>>
fields == <<s_connectedLast, s_arrivalSent, s_arrivalSettleCount,
            s_hasLastSentState, s_lastSentState, stampKnown>>
switches == <<m_GamepadInputEnabled, s_streamActive, m_Running>>
host == <<announced, heldOff, hostShows, lost>>
vars == <<connected, buttons, moved, padConnected, padButtons, s_connectedLast,
          s_arrivalSent, s_arrivalSettleCount, s_hasLastSentState, s_lastSentState,
          stampKnown, m_GamepadInputEnabled, s_streamActive, m_Running, pc, count,
          refused, reset, announced, heldOff, hostShows, lost>>

TypeOK ==
  /\ connected \in BOOLEAN /\ buttons \in Buttons /\ moved \in BOOLEAN
  /\ padConnected \in BOOLEAN /\ padButtons \in Buttons
  /\ s_connectedLast \in BOOLEAN /\ s_arrivalSent \in BOOLEAN
  /\ s_arrivalSettleCount \in -1 .. SETTLE
  /\ s_hasLastSentState \in BOOLEAN /\ s_lastSentState \in Buttons
  /\ stampKnown \in BOOLEAN
  /\ m_GamepadInputEnabled \in BOOLEAN /\ s_streamActive \in BOOLEAN /\ m_Running \in BOOLEAN
  /\ pc \in {"absent", "sample", "slot", "stamp", "skip", "fresh", "enabled", "arrival",
             "arrived", "arm", "settle", "decrement", "count", "filter", "compare", "send",
             "store", "record"}
  /\ count \in -1 .. SETTLE /\ refused \in BOOLEAN /\ reset \in 0 .. 6
  /\ announced \in BOOLEAN /\ heldOff \in 0 .. SETTLE
  /\ hostShows \in Buttons /\ lost \in BOOLEAN

\* What the fields hold for a pad that is not there, or that was never seen.
Blank == /\ s_arrivalSent = FALSE /\ s_arrivalSettleCount = 0
         /\ s_hasLastSentState = FALSE /\ s_lastSentState = Released
         /\ stampKnown = FALSE

Clear == /\ s_arrivalSent' = FALSE /\ s_arrivalSettleCount' = 0
         /\ s_hasLastSentState' = FALSE /\ s_lastSentState' = Released
         /\ stampKnown' = FALSE

Init ==
  /\ connected \in BOOLEAN /\ buttons = Released /\ moved = TRUE
  /\ padConnected = FALSE /\ padButtons = Released
  /\ s_connectedLast = FALSE /\ Blank
  /\ m_GamepadInputEnabled = TRUE /\ s_streamActive = FALSE /\ m_Running = FALSE
  /\ pc = "absent" /\ count = 0 /\ refused = FALSE
  /\ reset = 0
  /\ announced = FALSE /\ heldOff = 0 /\ hostShows = Released /\ lost = FALSE

Step(from, to) == pc = from /\ pc' = to

\* The loop goes on to the next slot, and from the last to the next poll.
EndOfSlot(from) == Step(from, "sample") /\ refused' = FALSE
-------------------------------------------------------------------------------
(* The pad.  Every report carries a new timestamp. *)
PadReports ==
  /\ connected
  /\ buttons' \in Buttons
  /\ moved' = TRUE
  /\ UNCHANGED <<connected, copy, fields, switches, pc, count, refused, reset, host>>

PadPlugs ==
  /\ connected' = ~connected
  /\ buttons' = Released
  /\ moved' = TRUE
  /\ UNCHANGED <<copy, fields, switches, pc, count, refused, reset, host>>
-------------------------------------------------------------------------------
(* ResetGamepadState(true, ...) on the main thread, in the order of its    *)
(* stores.                                                                 *)
ResetField ==
  /\ reset # 0
  /\ s_arrivalSent' = (s_arrivalSent /\ reset # 1)
  /\ s_arrivalSettleCount' = IF reset = 2 THEN 0 ELSE s_arrivalSettleCount
  /\ s_hasLastSentState' = (s_hasLastSentState /\ reset # 3)
  /\ s_lastSentState' = IF reset = 4 THEN Released ELSE s_lastSentState
  /\ stampKnown' = (stampKnown /\ reset # 5)
  /\ s_connectedLast' = (s_connectedLast /\ reset # 6)
  /\ reset' = (reset + 1) % 7
  /\ UNCHANGED <<pad, copy, switches, pc, count, refused, host>>

\* Whatever the page sent is stored, and the fields are reset, also when gamepad
\* input is already on or already off.
SetGamepadInputEnabledState ==
  /\ reset = 0
  /\ m_GamepadInputEnabled' \in BOOLEAN
  /\ reset' = 1
  /\ UNCHANGED <<pad, copy, fields, s_streamActive, m_Running, pc, count, refused, host>>

\* OnConnectionStopped
StreamStops ==
  /\ reset = 0
  /\ s_streamActive
  /\ m_Running' = FALSE
  /\ s_streamActive' = FALSE
  /\ reset' = 1
  /\ UNCHANGED <<pad, copy, fields, m_GamepadInputEnabled, pc, count, refused, host>>

\* ConnectionThreadFunc: the last input thread was joined, the next one is
\* created after the reset of this thread, which stores what a reset of the main
\* thread stores and may fall into one.
StreamStarts ==
  /\ Step("absent", "sample")
  /\ m_Running' = TRUE /\ s_streamActive' = TRUE
  /\ s_connectedLast' = FALSE /\ Clear
  /\ announced' = FALSE /\ heldOff' = 0 /\ hostShows' = Released /\ lost' = FALSE
  /\ UNCHANGED <<pad, copy, m_GamepadInputEnabled, count, refused, reset>>
-------------------------------------------------------------------------------
(* InputThreadFunc and PollGamepads. *)
Sample ==
  /\ m_Running
  /\ Step("sample", "slot")
  /\ padConnected' = connected
  /\ padButtons' = buttons
  /\ stampKnown' = (stampKnown /\ ~moved)
  /\ moved' = FALSE
  /\ UNCHANGED <<connected, buttons, s_connectedLast, s_arrivalSent, s_arrivalSettleCount,
                 s_hasLastSentState, s_lastSentState, switches, count, refused, reset,
                 host>>

InputThreadReturns ==
  /\ ~m_Running
  /\ Step("sample", "absent")
  /\ UNCHANGED <<pad, copy, fields, switches, count, refused, reset, host>>

EmptySlot ==
  /\ EndOfSlot("slot")
  /\ ~padConnected
  /\ s_connectedLast' = FALSE /\ Clear
  /\ announced' = FALSE
  /\ UNCHANGED <<pad, copy, switches, count, reset, heldOff, hostShows, lost>>

FirstSeen ==
  /\ Step("slot", "stamp")
  /\ padConnected /\ ~s_connectedLast
  /\ s_connectedLast' = TRUE /\ Clear
  /\ UNCHANGED <<pad, copy, switches, count, refused, reset, host>>

SeenBefore ==
  /\ Step("slot", "stamp")
  /\ padConnected /\ s_connectedLast
  /\ UNCHANGED <<pad, copy, fields, switches, count, refused, reset, host>>

TestStamp ==
  /\ Step("stamp", IF stampKnown THEN "skip" ELSE "fresh")
  /\ UNCHANGED <<pad, copy, fields, switches, count, refused, reset, host>>

\* An unchanged timestamp ends the slot, before the settle count is looked at.
StoreStamp ==
  /\ EndOfSlot("skip") \/ (Step("fresh", "enabled") /\ UNCHANGED refused)
  /\ stampKnown' = TRUE
  /\ UNCHANGED <<pad, copy, s_connectedLast, s_arrivalSent, s_arrivalSettleCount,
                 s_hasLastSentState, s_lastSentState, switches, count, reset, host>>

TestInputEnabled ==
  /\ IF m_GamepadInputEnabled THEN Step("enabled", "arrival") /\ UNCHANGED refused
                              ELSE EndOfSlot("enabled")
  /\ UNCHANGED <<pad, copy, fields, switches, count, reset, host>>

ArrivalDue == s_streamActive /\ ~s_arrivalSent

\* LiSendControllerArrivalEvent queues the arrival and a released state.
SendArrival ==
  /\ ArrivalDue
  /\ Step("arrival", "arrived")
  /\ announced' = TRUE
  /\ heldOff' = 0
  /\ hostShows' = Released
  /\ lost' = s_hasLastSentState
  /\ UNCHANGED <<pad, copy, fields, switches, count, refused, reset>>

(* Mutant of ArrivalRefused: the result is not looked at. *)
ArrivalRefusedUnseen ==
  /\ ArrivalDue
  /\ Step("arrival", "settle")
  /\ s_arrivalSent' = TRUE
  /\ refused' = TRUE
  /\ UNCHANGED <<pad, copy, s_connectedLast, s_arrivalSettleCount, s_hasLastSentState,
                 s_lastSentState, stampKnown, switches, count, reset, host>>

\* The input queue is full, or is not there yet or any more.
ArrivalRefused ==
  /\ ArrivalDue
  /\ Step("arrival", "settle")
  /\ s_arrivalSent' = FALSE
  /\ refused' = TRUE
  /\ UNCHANGED <<pad, copy, s_connectedLast, s_arrivalSettleCount, s_hasLastSentState,
                 s_lastSentState, stampKnown, switches, count, reset, host>>

NoArrivalDue ==
  /\ ~ArrivalDue
  /\ Step("arrival", "settle")
  /\ UNCHANGED <<pad, copy, fields, switches, count, refused, reset, host>>

StoreArrivalSent ==
  /\ Step("arrived", "arm")
  /\ s_arrivalSent' = TRUE
  /\ UNCHANGED <<pad, copy, s_connectedLast, s_arrivalSettleCount, s_hasLastSentState,
                 s_lastSentState, stampKnown, switches, count, refused, reset, host>>

ArmSettle ==
  /\ Step("arm", "settle")
  /\ s_arrivalSettleCount' = SETTLE
  /\ UNCHANGED <<pad, copy, s_connectedLast, s_arrivalSent, s_hasLastSentState,
                 s_lastSentState, stampKnown, switches, count, refused, reset, host>>

(* Mutant of Settling: no test against zero. *)
SettlingPastZero ==
  /\ Step("settle", "decrement")
  /\ UNCHANGED <<pad, copy, fields, switches, count, refused, reset, host>>

\* The count is loaded for the test and again for the decrement.
Settling ==
  /\ s_arrivalSettleCount > 0
  /\ Step("settle", "decrement")
  /\ UNCHANGED <<pad, copy, fields, switches, count, refused, reset, host>>

LoadSettle ==
  /\ Step("decrement", "count")
  /\ count' = s_arrivalSettleCount - 1
  /\ UNCHANGED <<pad, copy, fields, switches, refused, reset, host>>

(* Mutants of StoreSettle: the count never reaches zero; the state held    *)
(* off is recorded as sent.                                                *)
StoreSettleStuck ==
  /\ EndOfSlot("count")
  /\ count' = 0
  /\ heldOff' = IF heldOff < SETTLE THEN heldOff + 1 ELSE heldOff
  /\ UNCHANGED <<pad, copy, fields, switches, reset, announced, hostShows, lost>>

StoreSettleRecords ==
  /\ EndOfSlot("count")
  /\ s_arrivalSettleCount' = count
  /\ s_hasLastSentState' = TRUE /\ s_lastSentState' = padButtons
  /\ count' = 0
  /\ heldOff' = IF heldOff < SETTLE THEN heldOff + 1 ELSE heldOff
  /\ UNCHANGED <<pad, copy, s_connectedLast, s_arrivalSent, stampKnown, switches,
                 reset, announced, hostShows, lost>>

StoreSettle ==
  /\ EndOfSlot("count")
  /\ s_arrivalSettleCount' = count
  /\ count' = 0
  /\ heldOff' = IF heldOff < SETTLE THEN heldOff + 1 ELSE heldOff
  /\ UNCHANGED <<pad, copy, s_connectedLast, s_arrivalSent, s_hasLastSentState,
                 s_lastSentState, stampKnown, switches, reset, announced, hostShows, lost>>

Settled ==
  /\ s_arrivalSettleCount <= 0
  /\ Step("settle", "filter")
  /\ UNCHANGED <<pad, copy, fields, switches, count, refused, reset, host>>

\* The state-change filter loads the flag, and then the state.
Filter ==
  /\ Step("filter", IF s_hasLastSentState THEN "compare" ELSE "send")
  /\ UNCHANGED <<pad, copy, fields, switches, count, refused, reset, host>>

Compare ==
  /\ IF s_lastSentState = padButtons THEN EndOfSlot("compare")
                                     ELSE Step("compare", "send") /\ UNCHANGED refused
  /\ UNCHANGED <<pad, copy, fields, switches, count, reset, host>>

\* LiSendMultiControllerEvent.  Only the debug output looks at its result.
SendState ==
  /\ Step("send", "store")
  /\ \/ hostShows' = padButtons /\ lost' = FALSE
     \/ lost' = TRUE /\ UNCHANGED hostShows
  /\ UNCHANGED <<pad, copy, fields, switches, count, refused, reset, announced, heldOff>>

StoreState ==
  /\ Step("store", "record")
  /\ s_lastSentState' = padButtons
  /\ UNCHANGED <<pad, copy, s_connectedLast, s_arrivalSent, s_arrivalSettleCount,
                 s_hasLastSentState, stampKnown, switches, count, refused, reset, host>>

RecordState ==
  /\ EndOfSlot("record")
  /\ s_hasLastSentState' = TRUE
  /\ UNCHANGED <<pad, copy, s_connectedLast, s_arrivalSent, s_arrivalSettleCount,
                 s_lastSentState, stampKnown, switches, count, reset, host>>

InputThread ==
  \/ Sample \/ InputThreadReturns \/ EmptySlot \/ FirstSeen \/ SeenBefore
  \/ TestStamp \/ StoreStamp \/ TestInputEnabled
  \/ SendArrival \/ ArrivalRefused \/ NoArrivalDue
  \/ StoreArrivalSent \/ ArmSettle \/ Settling \/ LoadSettle \/ StoreSettle \/ Settled
  \/ Filter \/ Compare \/ SendState \/ StoreState \/ RecordState

Next ==
  \/ PadReports \/ PadPlugs
  \/ ResetField \/ SetGamepadInputEnabledState \/ StreamStops \/ StreamStarts
  \/ InputThread

\* Both threads run; pads, user and stream need not do anything.
Spec == Init /\ [][Next]_vars /\ WF_vars(InputThread) /\ WF_vars(ResetField)
-------------------------------------------------------------------------------
\* The main thread is not among the fields, and the input thread has taken the
\* pad up since the last reset, whose last store makes it start the pad over.
TakenUp == reset = 0 /\ s_connectedLast

\* Once a pad has been taken up after a reset, wherever the stores of that reset
\* fell among the polls, a state goes out to a running stream only when the pad is
\* announced and its hold-off is over, unless the arrival was refused in this poll.
AnnouncedAndHeldOff ==
  pc = "send" /\ TakenUp /\ s_streamActive => refused \/ (announced /\ heldOff = SETTLE)

\* Once a pad has been taken up after a reset and a state of it has been sent, the
\* host shows what the pad last reported: the two filters (the timestamp at line
\* 805 and the last sent state at 1014) withhold no change.  A reset between the
\* stores of lines 1030 and 1037 leaves a state recorded as sent that was not; the
\* change it withholds is withheld until the next poll, which takes the pad up.
HostShowsPad ==
  /\ pc = "sample" /\ TakenUp /\ m_GamepadInputEnabled
  /\ s_hasLastSentState /\ stampKnown /\ ~lost
  => hostShows = padButtons

Steady == /\ s_streamActive /\ m_GamepadInputEnabled /\ reset = 0
          /\ connected

\* A pad that keeps reporting is heard: the hold-off, counted in fresh samples
\* only (the test of the timestamp comes first), ends.
PadIsHeard == <>[]Steady /\ []<>moved => <>[]s_hasLastSentState
===============================================================================
