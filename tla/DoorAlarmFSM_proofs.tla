------------------------ MODULE DoorAlarmFSM_proofs ------------------------
(* Proofs about the FSM of the door alarm, for every set of windows.       *)
EXTENDS DoorAlarmFSM, TLAPS

(* Clocks only run down: the time left stays a time left.                  *)
LEMMA OneUnitLessType ==
    ASSUME NEW d \in Windows \cup {NoDeadline}
    PROVE  /\ OneUnitLess(d) \in Windows \cup {NoDeadline}
           /\ (OneUnitLess(d) = NoDeadline) <=> (d = NoDeadline)
BY MaxWindowAssumption, SMT DEF Windows, NoDeadline, OneUnitLess

(* The three state invariants together are inductive: a handler that left  *)
(* PendingVerification with a deadline, or AlarmActive with the flag set,  *)
(* would break one of them.                                                *)
FSMInv == TypeOK /\ DeadlineIffPending /\ AlarmOwned

LEMMA FSMInitInv == FSMStart => FSMInv
BY MaxWindowAssumption
   DEF FSMStart, FSMInit, FSMInv, TypeOK, DeadlineIffPending, AlarmOwned,
       State, Windows, NoDeadline

LEMMA FSMStepInv == FSMInv /\ [FSMNext]_fsmVars => FSMInv'
<1> SUFFICES ASSUME FSMInv, [FSMNext]_fsmVars
             PROVE  FSMInv'
    OBVIOUS
<1> USE MaxWindowAssumption
    DEF FSMInv, TypeOK, DeadlineIffPending, AlarmOwned, State, Windows,
        NoDeadline, clearAlarm, triggerAlarm, clearAuthorizationWindow
<1>1. CASE \E type \in EventType : handleEvent(type)
  <2>0. CASE UNCHANGED fsmVars
        BY <2>0 DEF fsmVars
  <2>1. CASE handleArm
    <3>1. CASE Arms
          BY <2>1, <3>1 DEF handleArm, Arms
    <3>2. CASE ~Arms
          BY <2>0, <2>1, <3>2 DEF handleArm
    <3> QED
        BY <3>1, <3>2
  <2>2. CASE handleDisarm
        BY <2>2 DEF handleDisarm
  <2>3. CASE handleDoorOpened
        BY <2>3 DEF handleDoorOpened, Challenges
  <2>4. CASE handleDoorClosed
    <3>1. CASE Resecures
          BY <2>4, <3>1 DEF handleDoorClosed, Resecures
    <3>2. CASE ~Resecures
      <4>1. /\ doorOpen' = FALSE
            /\ UNCHANGED <<state, deadline, window, alarmActive>>
            BY <2>4, <3>2 DEF handleDoorClosed
      <4> QED
          BY <4>1
    <3> QED
        BY <3>1, <3>2
  <2>5. CASE handleAuthorization
    <3>1. CASE Admits
          BY <2>5, <3>1 DEF handleAuthorization, Admits
    <3>2. CASE ~Admits
          BY <2>0, <2>5, <3>2 DEF handleAuthorization
    <3> QED
        BY <3>1, <3>2
  <2>6. CASE handleVerificationTimeout
    <3>1. CASE Expires
          BY <2>6, <3>1 DEF handleVerificationTimeout, Expires
    <3>2. CASE ~Expires
          BY <2>0, <2>6, <3>2 DEF handleVerificationTimeout
    <3> QED
        BY <3>1, <3>2
  <2> QED
      BY <1>1, <2>0, <2>1, <2>2, <2>3, <2>4, <2>5, <2>6 DEF handleEvent
<1>2. CASE \E isOpen \in BOOLEAN : setDoorState(isOpen)
      BY <1>2 DEF setDoorState
<1>3. CASE \E w \in Windows : setAuthorizationWindow(w)
      BY <1>3 DEF setAuthorizationWindow
<1>4. CASE Silence
      BY <1>4 DEF Silence
<1>5. CASE Elapse
      BY <1>5, OneUnitLessType DEF Elapse
<1>6. CASE UNCHANGED fsmVars
      BY <1>6 DEF fsmVars
<1> QED
    BY <1>1, <1>2, <1>3, <1>4, <1>5, <1>6 DEF FSMNext

(* Type correctness of the FSM and its alarm flag.                         *)
THEOREM FSMTyping == FSMSpec => []TypeOK
<1>1. FSMInv => TypeOK
      BY DEF FSMInv
<1> QED
    BY FSMInitInv, FSMStepInv, <1>1, PTL DEF FSMSpec

(* verificationDeadline_ has a value exactly in PendingVerification, for   *)
(* every sequence of events, windows and elapsed times.                    *)
THEOREM FSMDeadline == FSMSpec => []DeadlineIffPending
<1>1. FSMInv => DeadlineIffPending
      BY DEF FSMInv
<1> QED
    BY FSMInitInv, FSMStepInv, <1>1, PTL DEF FSMSpec

(* alarmActive_ is set only in AlarmActive.                                *)
THEOREM FSMAlarmOwned == FSMSpec => []AlarmOwned
<1>1. FSMInv => AlarmOwned
      BY DEF FSMInv
<1> QED
    BY FSMInitInv, FSMStepInv, <1>1, PTL DEF FSMSpec

(* The flag rises only in the step from PendingVerification to AlarmActive.*)
THEOREM FSMRingsOnce == FSMSpec => RingsOncePerBreach
<1>1. ASSUME TypeOK, [FSMNext]_fsmVars
      PROVE  [ (~alarmActive /\ alarmActive')
                 => (state = "PendingVerification" /\ state' = "AlarmActive")
             ]_fsmVars
  <2> SUFFICES ASSUME FSMNext, ~alarmActive, alarmActive'
               PROVE  state = "PendingVerification" /\ state' = "AlarmActive"
      BY <1>1
  <2> USE DEF clearAlarm, triggerAlarm, clearAuthorizationWindow, fsmVars
  <2>1. ~handleArm /\ ~handleDisarm /\ ~handleDoorOpened /\ ~handleDoorClosed
        BY DEF handleArm, handleDisarm, handleDoorOpened, handleDoorClosed
  <2>2. ~handleAuthorization /\ ~Silence /\ ~Elapse
        BY DEF handleAuthorization, Silence, Elapse
  <2>3. /\ ~ \E isOpen \in BOOLEAN : setDoorState(isOpen)
        /\ ~ \E w \in Windows : setAuthorizationWindow(w)
        BY DEF setDoorState, setAuthorizationWindow
  <2>4. handleVerificationTimeout
        BY <2>1, <2>2, <2>3 DEF FSMNext, handleEvent
  <2> QED
      BY <2>4 DEF handleVerificationTimeout, Expires
<1> QED
    BY FSMTyping, <1>1, PTL DEF FSMSpec, RingsOncePerBreach
=============================================================================
