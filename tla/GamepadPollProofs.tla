--------------------------- MODULE GamepadPollProofs ---------------------------
(***************************************************************************)
(* The hold-off and the two filters of GamepadPoll, for every length of    *)
(* the hold-off and every pad.  Both arguments start where the input       *)
(* thread takes the pad up (FirstSeen): a reset ends with the store that   *)
(* makes it do so, and until the next reset it has the fields to itself.   *)
(***************************************************************************)
EXTENDS GamepadPoll, TLAPS

\* What is counted down and what has been held off add up to the hold-off.
HoldOff ==
  /\ s_arrivalSent => announced
  /\ s_arrivalSent /\ pc # "arm" => s_arrivalSettleCount + heldOff = SETTLE
  /\ pc = "arrived" => announced /\ heldOff = 0 /\ ~s_arrivalSent
  /\ pc = "arm" => announced /\ heldOff = 0 /\ s_arrivalSent
  /\ pc \in {"decrement", "count"} => s_arrivalSettleCount > 0
  /\ pc = "count" => count = s_arrivalSettleCount - 1
  /\ pc \in {"settle", "decrement", "count", "filter", "compare", "send"}
       => refused \/ s_arrivalSent
  /\ pc \in {"filter", "compare", "send"} => s_arrivalSettleCount <= 0

HoldOffInv == TakenUp /\ s_streamActive => HoldOff

\* B is BOOLEAN, of which the steps need to know its two members only.
FlagsIn(B) ==
  /\ connected \in B /\ moved \in B /\ padConnected \in B
  /\ s_connectedLast \in B /\ s_arrivalSent \in B
  /\ s_hasLastSentState \in B /\ stampKnown \in B
  /\ m_GamepadInputEnabled \in B /\ s_streamActive \in B /\ m_Running \in B
  /\ refused \in B /\ announced \in B /\ lost \in B

Flags == FlagsIn(BOOLEAN)

Values ==
  /\ buttons \in Buttons /\ padButtons \in Buttons
  /\ s_lastSentState \in Buttons /\ hostShows \in Buttons
  /\ s_arrivalSettleCount \in -1 .. SETTLE /\ count \in -1 .. SETTLE /\ heldOff \in 0 .. SETTLE
  /\ reset \in 0 .. 6
  /\ pc \in {"absent", "sample", "slot", "stamp", "skip", "fresh", "enabled", "arrival",
             "arrived", "arm", "settle", "decrement", "count", "filter", "compare", "send",
             "store", "record"}

\* Only a positive count is decremented, and a reset can but clear it.
Counted == pc = "decrement" => s_arrivalSettleCount >= 0

\* TypeOK in two parts: Zenon is good at truth values, SMT at the rest.
LEMMA TypeParts == TypeOK <=> Flags /\ Values
  BY DEF TypeOK, Flags, FlagsIn, Values

LEMMA InitTyped == Init => TypeOK
<1> SUFFICES ASSUME Init PROVE Flags /\ Values  BY TypeParts
<1>1. Flags   BY Zenon DEF Init, Blank, Flags, FlagsIn
<1>2. Values  BY GamepadAssumption DEF Init, Blank, Values, Buttons
<1>3. QED  BY <1>1, <1>2

LEMMA InitCounted == Init => Counted  BY DEF Init, Counted

LEMMA FlagsKept ==
  ASSUME NEW B, TRUE \in B, FALSE \in B, FlagsIn(B), [Next]_vars PROVE FlagsIn(B)'
<1> USE DEF FlagsIn, Clear, Step, EndOfSlot, fields, pad, copy, host, switches
<1>1. CASE PadReports  BY <1>1 DEF PadReports
<1>2. CASE PadPlugs  BY <1>2 DEF PadPlugs
<1>3. CASE ResetField  BY <1>3 DEF ResetField
<1>4. CASE SetGamepadInputEnabledState
  <2>1. m_GamepadInputEnabled' \in {TRUE, FALSE}
    BY <1>4, Zenon DEF SetGamepadInputEnabledState
  <2>2. UNCHANGED <<pad, copy, fields, s_streamActive, m_Running, refused, host>>
    BY <1>4, Zenon DEF SetGamepadInputEnabledState
  <2>3. m_GamepadInputEnabled' \in B  BY <2>1
  <2>4. QED  BY <2>2, <2>3
<1>5. CASE StreamStops  BY <1>5 DEF StreamStops
<1>6. CASE StreamStarts  BY <1>6 DEF StreamStarts
<1>7. CASE Sample  BY <1>7 DEF Sample
<1>8. CASE InputThreadReturns  BY <1>8 DEF InputThreadReturns
<1>9. CASE EmptySlot  BY <1>9 DEF EmptySlot
<1>10. CASE FirstSeen  BY <1>10 DEF FirstSeen
<1>11. CASE SeenBefore  BY <1>11 DEF SeenBefore
<1>12. CASE TestStamp  BY <1>12 DEF TestStamp
<1>13. CASE StoreStamp  BY <1>13 DEF StoreStamp
<1>14. CASE TestInputEnabled
  <2>1. refused' = FALSE \/ refused' = refused  BY <1>14 DEF TestInputEnabled
  <2>2. UNCHANGED <<pad, copy, fields, switches, host>>
    BY <1>14, Zenon DEF TestInputEnabled
  <2>3. CASE refused' = FALSE    BY <2>2, <2>3
  <2>4. CASE refused' = refused  BY <2>2, <2>4
  <2>5. QED  BY <2>1, <2>3, <2>4
<1>15. CASE SendArrival  BY <1>15 DEF SendArrival
<1>16. CASE ArrivalRefused  BY <1>16 DEF ArrivalRefused
<1>17. CASE NoArrivalDue  BY <1>17 DEF NoArrivalDue
<1>18. CASE StoreArrivalSent  BY <1>18 DEF StoreArrivalSent
<1>19. CASE ArmSettle  BY <1>19 DEF ArmSettle
<1>20. CASE Settling  BY <1>20 DEF Settling
<1>21. CASE LoadSettle  BY <1>21 DEF LoadSettle
<1>22. CASE StoreSettle  BY <1>22 DEF StoreSettle
<1>23. CASE Settled  BY <1>23 DEF Settled
<1>24. CASE Filter  BY <1>24 DEF Filter
<1>25. CASE Compare
  <2>1. refused' = FALSE \/ refused' = refused  BY <1>25 DEF Compare
  <2>2. UNCHANGED <<pad, copy, fields, switches, host>>
    BY <1>25, Zenon DEF Compare
  <2>3. CASE refused' = FALSE    BY <2>2, <2>3
  <2>4. CASE refused' = refused  BY <2>2, <2>4
  <2>5. QED  BY <2>1, <2>3, <2>4
<1>26. CASE SendState
  <2>1. lost' = FALSE \/ lost' = TRUE  BY <1>26 DEF SendState
  <2>2. UNCHANGED <<pad, copy, fields, switches, refused, announced>>
    BY <1>26 DEF SendState
  <2>3. CASE lost' = FALSE  BY <2>2, <2>3
  <2>4. CASE lost' = TRUE   BY <2>2, <2>4
  <2>5. QED  BY <2>1, <2>3, <2>4
<1>27. CASE StoreState  BY <1>27 DEF StoreState
<1>28. CASE RecordState  BY <1>28 DEF RecordState
<1>29. CASE UNCHANGED vars  BY <1>29 DEF vars
<1>30. QED
  BY <1>1, <1>2, <1>3, <1>4, <1>5, <1>6, <1>7, <1>8, <1>9, <1>10, <1>11, <1>12, <1>13,
     <1>14, <1>15, <1>16, <1>17, <1>18, <1>19, <1>20, <1>21, <1>22, <1>23, <1>24, <1>25, <1>26,
     <1>27, <1>28, <1>29
  DEF Next, InputThread

LEMMA FlagsTyped == ASSUME Flags, [Next]_vars PROVE Flags'
  BY FlagsKept DEF Flags

LEMMA ValuesTyped == ASSUME Values, Counted, [Next]_vars PROVE Values' /\ Counted'
<1> USE GamepadAssumption
    DEF Values, Counted, Buttons, Clear, Step, EndOfSlot, fields, pad, copy, host, switches
<1>1. CASE PadReports  BY <1>1 DEF PadReports
<1>2. CASE PadPlugs  BY <1>2 DEF PadPlugs
<1>3. CASE ResetField  BY <1>3 DEF ResetField
<1>4. CASE SetGamepadInputEnabledState  BY <1>4 DEF SetGamepadInputEnabledState
<1>5. CASE StreamStops  BY <1>5 DEF StreamStops
<1>6. CASE StreamStarts  BY <1>6 DEF StreamStarts
<1>7. CASE Sample  BY <1>7 DEF Sample
<1>8. CASE InputThreadReturns  BY <1>8 DEF InputThreadReturns
<1>9. CASE EmptySlot  BY <1>9 DEF EmptySlot
<1>10. CASE FirstSeen  BY <1>10 DEF FirstSeen
<1>11. CASE SeenBefore  BY <1>11 DEF SeenBefore
<1>12. CASE TestStamp  BY <1>12 DEF TestStamp
<1>13. CASE StoreStamp  BY <1>13 DEF StoreStamp
<1>14. CASE TestInputEnabled  BY <1>14 DEF TestInputEnabled
<1>15. CASE SendArrival  BY <1>15 DEF SendArrival
<1>16. CASE ArrivalRefused  BY <1>16 DEF ArrivalRefused
<1>17. CASE NoArrivalDue  BY <1>17 DEF NoArrivalDue
<1>18. CASE StoreArrivalSent  BY <1>18 DEF StoreArrivalSent
<1>19. CASE ArmSettle  BY <1>19 DEF ArmSettle
<1>20. CASE Settling  BY <1>20 DEF Settling
<1>21. CASE LoadSettle  BY <1>21 DEF LoadSettle
<1>22. CASE StoreSettle  BY <1>22 DEF StoreSettle
<1>23. CASE Settled  BY <1>23 DEF Settled
<1>24. CASE Filter  BY <1>24 DEF Filter
<1>25. CASE Compare  BY <1>25 DEF Compare
<1>26. CASE SendState  BY <1>26 DEF SendState
<1>27. CASE StoreState  BY <1>27 DEF StoreState
<1>28. CASE RecordState  BY <1>28 DEF RecordState
<1>29. CASE UNCHANGED vars  BY <1>29 DEF vars
<1>30. QED
  BY <1>1, <1>2, <1>3, <1>4, <1>5, <1>6, <1>7, <1>8, <1>9, <1>10, <1>11, <1>12, <1>13,
     <1>14, <1>15, <1>16, <1>17, <1>18, <1>19, <1>20, <1>21, <1>22, <1>23, <1>24, <1>25, <1>26,
     <1>27, <1>28, <1>29
  DEF Next, InputThread

\* Every field, register and program counter keeps its type: the settle count,
\* which the input thread tests, loads again and decrements while the main thread
\* clears it, goes below zero by one at most (PollGamepads, ResetGamepadState).
THEOREM TypeCorrect == Spec => []TypeOK
<1>1. ASSUME TypeOK, Counted, [Next]_vars PROVE TypeOK' /\ Counted'
  <2>1. Flags' /\ Values' /\ Counted'  BY <1>1, TypeParts, FlagsTyped, ValuesTyped
  <2>2. QED  BY <2>1, TypeParts, PTL
<1>2. TypeOK /\ Counted /\ [Next]_vars => TypeOK' /\ Counted'  BY <1>1
<1>3. QED  BY InitTyped, InitCounted, <1>2, PTL DEF Spec
-------------------------------------------------------------------------------
\* The last store of a reset makes the input thread take the pad up again.
LEMMA ResetEnds == ASSUME TypeOK, ResetField PROVE ~TakenUp'
<1>1. reset \in 0 .. 6 /\ reset # 0 /\ reset' = (reset + 1) % 7  BY DEF TypeOK, ResetField
<1>2. reset' = 0 => reset = 6  BY <1>1
<1>3. s_connectedLast' = (s_connectedLast /\ reset # 6)  BY DEF ResetField
<1>4. reset = 6 => ~s_connectedLast'  BY <1>3, Zenon
<1>5. QED  BY <1>2, <1>4 DEF TakenUp

LEMMA HoldOffStarts == Init => HoldOffInv
  BY GamepadAssumption DEF Init, Blank, HoldOffInv, HoldOff, TakenUp

\* Only FirstSeen makes TakenUp true, and it clears what the sum is about; from
\* then on only the input thread counts.
LEMMA HoldOffStep == ASSUME TypeOK, HoldOffInv, [Next]_vars PROVE HoldOffInv'
<1> USE GamepadAssumption
    DEF TypeOK, HoldOffInv, HoldOff, TakenUp, Clear, Step, EndOfSlot, fields, pad, copy, host,
        switches
<1>1. CASE PadReports  BY <1>1 DEF PadReports
<1>2. CASE PadPlugs  BY <1>2 DEF PadPlugs
<1>3. CASE ResetField
  <2>1. ~TakenUp'  BY <1>3, ResetEnds
  <2>2. QED  BY <2>1
<1>4. CASE SetGamepadInputEnabledState  BY <1>4 DEF SetGamepadInputEnabledState
<1>5. CASE StreamStops  BY <1>5 DEF StreamStops
<1>6. CASE StreamStarts  BY <1>6 DEF StreamStarts
<1>7. CASE Sample  BY <1>7 DEF Sample
<1>8. CASE InputThreadReturns  BY <1>8 DEF InputThreadReturns
<1>9. CASE EmptySlot  BY <1>9 DEF EmptySlot
<1>10. CASE FirstSeen  BY <1>10 DEF FirstSeen
<1>11. CASE SeenBefore  BY <1>11 DEF SeenBefore
<1>12. CASE TestStamp  BY <1>12 DEF TestStamp
<1>13. CASE StoreStamp  BY <1>13 DEF StoreStamp
<1>14. CASE TestInputEnabled  BY <1>14 DEF TestInputEnabled
<1>15. CASE SendArrival  BY <1>15 DEF SendArrival, ArrivalDue
<1>16. CASE ArrivalRefused  BY <1>16 DEF ArrivalRefused
<1>17. CASE NoArrivalDue  BY <1>17 DEF NoArrivalDue, ArrivalDue
<1>18. CASE StoreArrivalSent  BY <1>18 DEF StoreArrivalSent
<1>19. CASE ArmSettle  BY <1>19 DEF ArmSettle
<1>20. CASE Settling  BY <1>20 DEF Settling
<1>21. CASE LoadSettle  BY <1>21 DEF LoadSettle
<1>22. CASE StoreSettle  BY <1>22 DEF StoreSettle
<1>23. CASE Settled  BY <1>23 DEF Settled
<1>24. CASE Filter  BY <1>24 DEF Filter
<1>25. CASE Compare  BY <1>25 DEF Compare
<1>26. CASE SendState  BY <1>26 DEF SendState
<1>27. CASE StoreState  BY <1>27 DEF StoreState
<1>28. CASE RecordState  BY <1>28 DEF RecordState
<1>29. CASE UNCHANGED vars  BY <1>29 DEF vars
<1>30. QED
  BY <1>1, <1>2, <1>3, <1>4, <1>5, <1>6, <1>7, <1>8, <1>9, <1>10, <1>11, <1>12, <1>13,
     <1>14, <1>15, <1>16, <1>17, <1>18, <1>19, <1>20, <1>21, <1>22, <1>23, <1>24, <1>25, <1>26,
     <1>27, <1>28, <1>29
  DEF Next, InputThread

\* Once a pad has been taken up after a reset, a state follows its arrival by the
\* whole hold-off, unless the arrival was refused in that poll, however the stores
\* of the main thread's resets fell (PollGamepads, lines 961-999).
THEOREM StatesAreHeldOff == Spec => []AnnouncedAndHeldOff
<1>1. TypeOK /\ HoldOffInv /\ [Next]_vars => HoldOffInv'  BY HoldOffStep
<1>2. TypeOK /\ HoldOffInv => AnnouncedAndHeldOff
  BY DEF TypeOK, HoldOffInv, HoldOff, AnnouncedAndHeldOff
<1>3. QED  BY TypeCorrect, HoldOffStarts, <1>1, <1>2, PTL DEF Spec
-------------------------------------------------------------------------------
(***************************************************************************)
(* The two filters, for a pad that has been taken up after the last reset. *)
(* What has been sent is what the host shows (Sent); a timestamp that is   *)
(* known belongs to a state that has been looked at (Looked); and a        *)
(* hold-off, which ends a slot early, means that nothing has been sent, or *)
(* that an arrival has released it since (Held).                           *)
(***************************************************************************)
Copied == ~moved => buttons = padButtons

Sent ==
  /\ s_hasLastSentState /\ ~lost /\ pc \notin {"store", "record"} => hostShows = s_lastSentState
  /\ pc \in {"store", "record"} /\ ~lost => hostShows = padButtons
  /\ pc = "record" => s_lastSentState = padButtons

Looked ==
  /\ m_GamepadInputEnabled /\ s_hasLastSentState /\ ~lost
  /\ pc = "skip" \/ (stampKnown /\ pc \in {"absent", "sample", "slot", "stamp"})
  => s_lastSentState = padButtons

Held ==
  /\ s_arrivalSettleCount > 0 \/ pc \in {"arrived", "arm", "decrement", "count"}
       => ~s_hasLastSentState \/ lost
  /\ pc \in {"filter", "compare", "send", "store", "record"} => s_arrivalSettleCount <= 0

ShownInv == Copied /\ (TakenUp => Sent /\ Looked /\ Held)

LEMMA ShownStarts == Init => ShownInv
  BY GamepadAssumption DEF Init, Blank, ShownInv, TakenUp, Copied, Sent, Looked, Held

\* Only the input thread reads and sends; what the main thread stores ends TakenUp
\* until FirstSeen forgets that anything was sent.
LEMMA ShownStep == ASSUME TypeOK, ShownInv, [Next]_vars PROVE ShownInv'
<1> USE GamepadAssumption
    DEF TypeOK, ShownInv, TakenUp, Copied, Sent, Looked, Held, Clear, Step, EndOfSlot, fields,
        pad, copy, host, switches
<1>1. CASE PadReports  BY <1>1 DEF PadReports
<1>2. CASE PadPlugs  BY <1>2 DEF PadPlugs
<1>3. CASE ResetField
  <2>1. ~TakenUp'  BY <1>3, ResetEnds
  <2>2. Copied'  BY <1>3 DEF ResetField
  <2>3. QED  BY <2>1, <2>2
<1>4. CASE SetGamepadInputEnabledState  BY <1>4 DEF SetGamepadInputEnabledState
<1>5. CASE StreamStops  BY <1>5 DEF StreamStops
<1>6. CASE StreamStarts  BY <1>6 DEF StreamStarts
<1>7. CASE Sample  BY <1>7 DEF Sample
<1>8. CASE InputThreadReturns  BY <1>8 DEF InputThreadReturns
<1>9. CASE EmptySlot  BY <1>9 DEF EmptySlot
<1>10. CASE FirstSeen  BY <1>10 DEF FirstSeen
<1>11. CASE SeenBefore  BY <1>11 DEF SeenBefore
<1>12. CASE TestStamp  BY <1>12 DEF TestStamp
<1>13. CASE StoreStamp  BY <1>13 DEF StoreStamp
<1>14. CASE TestInputEnabled  BY <1>14 DEF TestInputEnabled
<1>15. CASE SendArrival  BY <1>15 DEF SendArrival
<1>16. CASE ArrivalRefused  BY <1>16 DEF ArrivalRefused
<1>17. CASE NoArrivalDue  BY <1>17 DEF NoArrivalDue
<1>18. CASE StoreArrivalSent  BY <1>18 DEF StoreArrivalSent
<1>19. CASE ArmSettle  BY <1>19 DEF ArmSettle
<1>20. CASE Settling  BY <1>20 DEF Settling
<1>21. CASE LoadSettle  BY <1>21 DEF LoadSettle
<1>22. CASE StoreSettle  BY <1>22 DEF StoreSettle
<1>23. CASE Settled  BY <1>23 DEF Settled
<1>24. CASE Filter  BY <1>24 DEF Filter
<1>25. CASE Compare  BY <1>25 DEF Compare
<1>26. CASE SendState  BY <1>26 DEF SendState
<1>27. CASE StoreState  BY <1>27 DEF StoreState
<1>28. CASE RecordState  BY <1>28 DEF RecordState
<1>29. CASE UNCHANGED vars  BY <1>29 DEF vars
<1>30. QED
  BY <1>1, <1>2, <1>3, <1>4, <1>5, <1>6, <1>7, <1>8, <1>9, <1>10, <1>11, <1>12, <1>13,
     <1>14, <1>15, <1>16, <1>17, <1>18, <1>19, <1>20, <1>21, <1>22, <1>23, <1>24, <1>25, <1>26,
     <1>27, <1>28, <1>29
  DEF Next, InputThread

\* Once a pad has been taken up after a reset and a state of it has been sent, the
\* host shows what the pad last reported, wherever the stores of the main thread
\* fell and for every length of the hold-off (PollGamepads, lines 805 and 1014).
THEOREM ShownIsReported == Spec => []HostShowsPad
<1>1. TypeOK /\ ShownInv /\ [Next]_vars => ShownInv'  BY ShownStep
<1>2. ShownInv => HostShowsPad
  BY DEF ShownInv, Sent, Looked, HostShowsPad
<1>3. QED  BY TypeCorrect, ShownStarts, <1>1, <1>2, PTL DEF Spec
===============================================================================
