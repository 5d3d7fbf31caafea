--------------------------- MODULE AlarmApi_proofs ---------------------------
(* Proofs about the alarm server, for every window and any set of threads.  *)
EXTENDS AlarmApi, TLAPS

(* The types every argument needs.                                          *)
Flags ==
    /\ systemArmed \in BOOLEAN
    /\ alarmActive \in BOOLEAN
    /\ doorOpen \in BOOLEAN
    /\ pendingVerification \in BOOLEAN
    /\ intrusionDetected \in BOOLEAN
    /\ buzzerOn \in BOOLEAN

Sleeps == left \in [Threads -> 0 .. Window \cup {None}]

(* The routes without the threads: flags and indicators.                    *)
ApiInv == Flags /\ IndicatorsAgree

LEMMA ApiInvariant == ApiSpec => []ApiInv
<1>1. ApiInit => ApiInv
      BY DEF ApiInit, ApiInv, Flags, IndicatorsAgree
<1>2. ApiInv /\ [ApiNext]_apiVars => ApiInv'
  <2> SUFFICES ASSUME ApiInv, [ApiNext]_apiVars
               PROVE  ApiInv'
      OBVIOUS
  <2> USE DEF ApiInv, Flags, IndicatorsAgree, updateLedStatus, alarmVars
  <2>1. CASE Arm
        BY <2>1 DEF Arm
  <2>2. CASE Disarm
        BY <2>2 DEF Disarm, clearAlarm
  <2>3. CASE \E s \in {"locked", "unlocked"} : SetLock(s)
        BY <2>3 DEF SetLock
  <2>4. CASE \E m \in Methods : Authorize(m)
        BY <2>4 DEF Authorize
  <2>5. CASE DoorOpen
    <3>1. CASE systemArmed
          BY <2>5, <3>1 DEF DoorOpen
    <3>2. CASE ~systemArmed
          BY <2>5, <3>2 DEF DoorOpen
    <3> QED
        BY <3>1, <3>2
  <2>6. CASE DoorClose
        BY <2>6 DEF DoorClose
  <2>7. CASE AlarmTrigger
        BY <2>7 DEF AlarmTrigger, triggerAlarm
  <2>8. CASE AlarmClear
        BY <2>8 DEF AlarmClear, clearAlarm
  <2>9. CASE \E value \in [Devices -> BOOLEAN] : DevicesUpdate(value)
        BY <2>9 DEF DevicesUpdate
  <2>10. ASSUME NEW t \in Threads, Verify(t)
         PROVE  ApiInv'
    <3>1. CASE doorOpen /\ systemArmed /\ pendingVerification
          BY <2>10, <3>1 DEF Verify, triggerAlarm
    <3>2. CASE ~(doorOpen /\ systemArmed /\ pendingVerification)
          BY <2>10, <3>2 DEF Verify
    <3> QED
        BY <3>1, <3>2
  <2>11. CASE Tick
         BY <2>11 DEF Tick
  <2>12. CASE UNCHANGED apiVars
         BY <2>12 DEF apiVars
  <2> QED
      BY <2>1, <2>2, <2>3, <2>4, <2>5, <2>6, <2>7, <2>8, <2>9, <2>10, <2>11,
         <2>12 DEF ApiNext
<1> QED
    BY <1>1, <1>2, PTL DEF ApiSpec

(* LED and buzzer agree with the state after every route and every thread,  *)
(* and no intrusion is shown without the alarm.                             *)
THEOREM ApiIndicatorsAgree == ApiSpec => []IndicatorsAgree
<1>1. ApiInv => IndicatorsAgree
      BY DEF ApiInv
<1> QED
    BY ApiInvariant, <1>1, PTL

-----------------------------------------------------------------------------
(* The verification threads.  That a thread is left to watch is inductive   *)
(* only together with the first half of PendingIsWatched: a thread that     *)
(* wakes up while verification is pending finds the door open and the       *)
(* system armed, so it does not leave without ending the verification.      *)
Waits == waited \in 0 .. Window

WatchInv == Sleeps /\ Waits /\ PendingIsWatched

LEMMA WatchInvariant == ApiSpec => []WatchInv
<1>1. ApiInit => WatchInv
      BY ApiAssumption DEF ApiInit, WatchInv, Sleeps, Waits, PendingIsWatched
<1>2. WatchInv /\ [ApiNext]_apiVars => WatchInv'
  <2> SUFFICES ASSUME WatchInv, [ApiNext]_apiVars
               PROVE  WatchInv'
      OBVIOUS
  <2> USE ApiAssumption DEF WatchInv, Sleeps, Waits, PendingIsWatched, None
  <2>1. CASE UNCHANGED <<left, waited, doorOpen, systemArmed,
                       pendingVerification>>
        BY <2>1
  <2>2. CASE UNCHANGED <<left, waited>> /\ pendingVerification' = FALSE
        BY <2>2
  <2>3. CASE Arm
        BY <2>3 DEF Arm
  <2>4. CASE DoorOpen
    <3>1. PICK t \in Threads : left' = [left EXCEPT ![t] = Window]
          BY <2>4 DEF DoorOpen
    <3>2. Sleeps' /\ left'[t] # None /\ left'[t] = Window
          BY <3>1
    <3>3. CASE systemArmed
          BY <2>4, <3>2, <3>3 DEF DoorOpen
    <3>4. CASE ~systemArmed
      <4>1. UNCHANGED <<pendingVerification, waited>>
            BY <2>4, <3>4 DEF DoorOpen
      <4> QED
          BY <3>2, <3>4, <4>1
    <3> QED
        BY <3>3, <3>4
  <2>5. ASSUME NEW t \in Threads, Verify(t)
        PROVE  WatchInv'
    <3>1. Sleeps' /\ Waits'
          BY <2>5 DEF Verify
    <3>2. ~pendingVerification'
      <4>1. CASE doorOpen /\ systemArmed /\ pendingVerification
            BY <2>5, <4>1 DEF Verify, triggerAlarm
      <4>2. CASE ~(doorOpen /\ systemArmed /\ pendingVerification)
            BY <2>5, <4>2 DEF Verify
      <4> QED
          BY <4>1, <4>2
    <3> QED
        BY <3>1, <3>2
  <2>6. CASE Tick
    <3>1. Sleeps' /\ Waits'
          BY <2>6 DEF Tick
    <3>2. ASSUME NEW t \in Threads, left[t] # None, left[t] = Window - waited
          PROVE  left'[t] # None /\ left'[t] = Window - waited'
          BY <2>6, <3>2 DEF Tick
    <3> QED
        BY <2>6, <3>1, <3>2 DEF Tick
  <2> QED
    <3>1. CASE Disarm \/ DoorClose \/ AlarmTrigger
               \/ \E m \in Methods : Authorize(m)
          BY <2>2, <3>1
          DEF Disarm, DoorClose, AlarmTrigger, triggerAlarm, Authorize
    <3>2. CASE AlarmClear \/ UNCHANGED apiVars
               \/ (\E s \in {"locked", "unlocked"} : SetLock(s))
               \/ \E value \in [Devices -> BOOLEAN] : DevicesUpdate(value)
          BY <2>1, <3>2 DEF AlarmClear, SetLock, DevicesUpdate, apiVars
    <3> QED
        BY <2>3, <2>4, <2>5, <2>6, <3>1, <3>2 DEF ApiNext
<1> QED
    BY <1>1, <1>2, PTL DEF ApiSpec

(* A pending verification always has an open door, an armed system and a   *)
(* thread that comes back to it when its window is over (main_api.cpp:509).*)
THEOREM ApiPendingIsWatched == ApiSpec => []PendingIsWatched
<1>1. WatchInv => PendingIsWatched
      BY DEF WatchInv
<1> QED
    BY WatchInvariant, <1>1, PTL
-----------------------------------------------------------------------------
(* The other fields of the state.                                          *)
FieldsInv ==
    /\ lockState \in {"locked", "unlocked"}
    /\ lastAuthorizedMethod \in Methods \cup {"null"}
    /\ online \in [Devices -> BOOLEAN]
    /\ waited \in 0 .. Window

LEMMA FieldsInvariant == ApiSpec => []FieldsInv
<1> USE ApiAssumption DEF FieldsInv
<1>1. ApiInit => FieldsInv
  BY DEF ApiInit
<1>2. FieldsInv /\ [ApiNext]_apiVars => FieldsInv'
  <2> SUFFICES ASSUME FieldsInv, [ApiNext]_apiVars
               PROVE  FieldsInv'
    OBVIOUS
  <2>1. CASE UNCHANGED <<infoVars, waited>>
    BY <2>1 DEF infoVars
  <2>2. CASE \E s \in {"locked", "unlocked"} : SetLock(s)
    BY <2>2 DEF SetLock
  <2>3. CASE \E m \in Methods : Authorize(m)
    BY <2>3 DEF Authorize
  <2>4. CASE DoorOpen
    <3>1. UNCHANGED infoVars /\ (waited' = 0 \/ waited' = waited)
      BY <2>4 DEF DoorOpen
    <3> QED
      BY <3>1 DEF infoVars
  <2>5. CASE \E value \in [Devices -> BOOLEAN] : DevicesUpdate(value)
    BY <2>5 DEF DevicesUpdate
  <2>6. CASE Tick
    BY <2>6 DEF Tick, infoVars
  <2> QED
    BY <2>1, <2>2, <2>3, <2>4, <2>5, <2>6
    DEF ApiNext, Arm, Disarm, DoorClose, AlarmTrigger, AlarmClear, Verify,
        apiVars
<1> QED
  BY <1>1, <1>2, PTL DEF ApiSpec

(* The state the server shows keeps its types, and no thread sleeps for    *)
(* longer than the window (main_api.cpp:505).                              *)
THEOREM ApiTyping == ApiSpec => []ApiTypeOK
<1>1. ApiInv /\ WatchInv /\ FieldsInv => ApiTypeOK
  <2> SUFFICES ASSUME ApiInv, WatchInv, FieldsInv PROVE ApiTypeOK
    OBVIOUS
  <2>1. Flags /\ Sleeps
    BY DEF ApiInv, WatchInv
  <2>2. ledStatus \in {"red", "yellow", "green"}
    BY DEF ApiInv, IndicatorsAgree
  <2>3. {systemArmed, alarmActive, doorOpen, pendingVerification,
         intrusionDetected, buzzerOn} \subseteq BOOLEAN
    BY <2>1, Zenon DEF Flags
  <2> QED
    BY <2>1, <2>2, <2>3 DEF ApiTypeOK, Sleeps, FieldsInv
<1> QED
  BY <1>1, ApiInvariant, WatchInvariant, FieldsInvariant, PTL
=============================================================================
