---------------------------- MODULE DoorAlarmFSM ----------------------------
(***************************************************************************)
(* The finite state machine of the door alarm (DoorAlarmFSM.cpp) with the  *)
(* alarm flag of the AlarmManager it drives.                               *)
(*                                                                         *)
(* Every public method of DoorAlarmFSM runs under its mutex_ from its      *)
(* first to its last statement, and AlarmManager's two writers run under   *)
(* a mutex of their own, so each is one atomic action here.  Log lines     *)
(* and event sources have no influence on control and are left out; the    *)
(* GPIO lines AlarmManager drives are in the module OutputPins.            *)
(*                                                                         *)
(* verificationDeadline_ is a point of the steady clock.  The model keeps  *)
(* the time still to run until it, which Elapse counts down to 0; 0 means  *)
(* that the deadline has been reached.                                     *)
(***************************************************************************)
EXTENDS Integers

CONSTANT MaxWindow   \* bound: the longest authorization window that is set

ASSUME MaxWindowAssumption == MaxWindow \in Nat

VARIABLES
    state,        \* state_
    doorOpen,     \* doorOpen_, the cached level of the door sensor
    deadline,     \* verificationDeadline_, as time left, or NoDeadline
    window,       \* authorizationWindow_
    alarmActive   \* AlarmManager::alarmActive_

fsmVars == <<state, doorOpen, deadline, window, alarmActive>>

-----------------------------------------------------------------------------
(* enum class State; Fault is declared and never assigned.                 *)
State == {"Disarmed", "ArmedIdle", "PendingVerification", "AuthorizedEntry",
          "AlarmActive", "Fault"}

(* enum class EventType.                                                   *)
EventType == {"ArmSystem", "DisarmSystem", "DoorOpened", "DoorClosed",
              "AuthorizedByNfc", "AuthorizedByApp", "VerificationTimeout",
              "PrintStatus", "Shutdown"}

Windows == 0 .. MaxWindow

(* verificationDeadline_ without a value.                                  *)
NoDeadline == -1

(* The constructor; start() leaves the window at the same value.           *)
FSMInit(initialWindow) ==
    /\ state = "ArmedIdle"
    /\ doorOpen = FALSE
    /\ deadline = NoDeadline
    /\ window = initialWindow
    /\ alarmActive = FALSE

-----------------------------------------------------------------------------
(* AlarmManager.                                                           *)
triggerAlarm == alarmActive' = TRUE

clearAlarm == alarmActive' = FALSE

clearAuthorizationWindow == deadline' = NoDeadline

(* The states each handler reacts to: the conditions of its if statement.  *)
Arms       == state \in {"Disarmed", "AuthorizedEntry"}
Challenges == state = "ArmedIdle"
Resecures  == state \in {"AuthorizedEntry", "PendingVerification",
                         "AlarmActive"}
Admits     == /\ ~doorOpen
              /\ state \in {"ArmedIdle", "PendingVerification", "AlarmActive"}
Expires    == state = "PendingVerification"

-----------------------------------------------------------------------------
(* Forms of the handlers with a plausible slip in them, to show that the   *)
(* properties below notice it.                                             *)

\* handleDoorClosed that re-arms without resetting the deadline.
handleDoorClosedKeepsDeadline ==
    /\ doorOpen' = FALSE
    /\ \/ /\ Resecures
          /\ state' = "ArmedIdle"
          /\ clearAlarm
          /\ UNCHANGED deadline
       \/ /\ ~Resecures
          /\ UNCHANGED <<state, deadline, alarmActive>>
    /\ UNCHANGED window

\* handleAuthorization that admits without clearing the alarm.
handleAuthorizationKeepsAlarm ==
    \/ /\ Admits
       /\ state' = "AuthorizedEntry"
       /\ clearAuthorizationWindow
       /\ UNCHANGED <<doorOpen, window, alarmActive>>
    \/ /\ ~Admits
       /\ UNCHANGED fsmVars

\* handleVerificationTimeout without its test of the state.
handleVerificationTimeoutAnyState ==
    /\ state' = "AlarmActive"
    /\ clearAuthorizationWindow
    /\ triggerAlarm
    /\ UNCHANGED <<doorOpen, window>>

\* handleDoorOpened that grants one unit too much.
handleDoorOpenedLate ==
    /\ doorOpen' = TRUE
    /\ \/ /\ Challenges
          /\ state' = "PendingVerification"
          /\ deadline' = window + 1
       \/ /\ ~Challenges
          /\ UNCHANGED <<state, deadline>>
    /\ UNCHANGED <<window, alarmActive>>

\* handleDoorClosed that leaves the cache to setDoorState.
handleDoorClosedKeepsCache ==
    /\ \/ /\ Resecures
          /\ state' = "ArmedIdle"
          /\ clearAuthorizationWindow
          /\ clearAlarm
       \/ /\ ~Resecures
          /\ UNCHANGED <<state, deadline, alarmActive>>
    /\ UNCHANGED <<doorOpen, window>>

\* handleVerificationTimeout that grants another grace period.
handleVerificationTimeoutExtends ==
    /\ deadline' = IF Expires THEN window ELSE deadline
    /\ UNCHANGED <<state, doorOpen, window, alarmActive>>

-----------------------------------------------------------------------------
(* The handlers, each with the early return or the skipped if as its       *)
(* second disjunct.                                                        *)
handleArm ==
    \/ /\ Arms
       /\ state' = "ArmedIdle"
       /\ clearAuthorizationWindow
       /\ clearAlarm
       /\ UNCHANGED <<doorOpen, window>>
    \/ /\ ~Arms
       /\ UNCHANGED fsmVars

handleDisarm ==
    /\ state' = "Disarmed"
    /\ clearAuthorizationWindow
    /\ clearAlarm
    /\ UNCHANGED <<doorOpen, window>>

handleDoorOpened ==
    /\ doorOpen' = TRUE
    /\ \/ /\ Challenges
          /\ state' = "PendingVerification"
          /\ deadline' = window
       \/ /\ ~Challenges
          /\ UNCHANGED <<state, deadline>>
    /\ UNCHANGED <<window, alarmActive>>

handleDoorClosed ==
    /\ doorOpen' = FALSE
    /\ \/ /\ Resecures
          /\ state' = "ArmedIdle"
          /\ clearAuthorizationWindow
          /\ clearAlarm
       \/ /\ ~Resecures
          /\ UNCHANGED <<state, deadline, alarmActive>>
    /\ UNCHANGED window

handleAuthorization ==
    \/ /\ Admits
       /\ state' = "AuthorizedEntry"
       /\ clearAuthorizationWindow
       /\ clearAlarm
       /\ UNCHANGED <<doorOpen, window>>
    \/ /\ ~Admits
       /\ UNCHANGED fsmVars

handleVerificationTimeout ==
    \/ /\ Expires
       /\ state' = "AlarmActive"
       /\ clearAuthorizationWindow
       /\ triggerAlarm
       /\ UNCHANGED <<doorOpen, window>>
    \/ /\ ~Expires
       /\ UNCHANGED fsmVars

(* The dispatch on the event's type; printing the status and Shutdown      *)
(* change nothing.                                                         *)
handleEvent(type) ==
    \/ type = "ArmSystem"           /\ handleArm
    \/ type = "DisarmSystem"        /\ handleDisarm
    \/ type = "DoorOpened"          /\ handleDoorOpened
    \/ type = "DoorClosed"          /\ handleDoorClosed
    \/ /\ type \in {"AuthorizedByNfc", "AuthorizedByApp"}
       /\ handleAuthorization
    \/ type = "VerificationTimeout" /\ handleVerificationTimeout
    \/ type \in {"PrintStatus", "Shutdown"} /\ UNCHANGED fsmVars

setDoorState(isOpen) ==
    /\ doorOpen' = isOpen
    /\ UNCHANGED <<state, deadline, window, alarmActive>>

setAuthorizationWindow(w) ==
    /\ window' = w
    /\ UNCHANGED <<state, doorOpen, deadline, alarmActive>>

(* A caller outside the FSM (the timer thread, AlarmManager::stop) clears  *)
(* the alarm without telling the FSM.                                      *)
Silence ==
    /\ clearAlarm
    /\ UNCHANGED <<state, doorOpen, deadline, window>>

(* What one unit of time does to a deadline.                               *)
OneUnitLess(d) == IF d > 0 THEN d - 1 ELSE d

Elapse ==
    /\ deadline > 0
    /\ deadline' = OneUnitLess(deadline)
    /\ UNCHANGED <<state, doorOpen, window, alarmActive>>

-----------------------------------------------------------------------------
FSMNext ==
    \/ \E type \in EventType : handleEvent(type)
    \/ \E isOpen \in BOOLEAN : setDoorState(isOpen)
    \/ \E w \in Windows : setAuthorizationWindow(w)
    \/ Silence
    \/ Elapse

FSMStart == \E w \in Windows : FSMInit(w)

(* The abstract specification: the FSM is only ever changed by one whole   *)
(* handler at a time, by setDoorState, by setAuthorizationWindow or by a   *)
(* caller that silences the alarm, and its deadline only runs down.  The   *)
(* threads of DoorAlarmSystem are shown to keep to it.                     *)
FSMSpec == FSMStart /\ [][FSMNext]_fsmVars

-----------------------------------------------------------------------------
(* The values the variables take.                                          *)
TypeOK ==
    /\ state \in State \ {"Fault"}
    /\ doorOpen \in BOOLEAN
    /\ deadline \in Windows \cup {NoDeadline}
    /\ window \in Windows
    /\ alarmActive \in BOOLEAN

(* A grace period is running exactly while the FSM waits for verification: *)
(* no path out of PendingVerification (closing, authorization, expiry, arm,*)
(* disarm) leaves a deadline behind for the timer thread to find, and none *)
(* of them enters it without one.                                          *)
DeadlineIffPending ==
    (deadline # NoDeadline) <=> (state = "PendingVerification")

(* The AlarmManager never rings on its own account: alarmActive_ is set    *)
(* only while the FSM is in AlarmActive, whichever of the seven handlers   *)
(* or the timer thread touched either of them last.  (The converse fails   *)
(* by design: the timer silences an alarm without leaving the state.)      *)
AlarmOwned == alarmActive => state = "AlarmActive"

(* The alarm flag is raised only by the expiry of a grace period, in the   *)
(* step that enters AlarmActive, and never again while the FSM stays there:*)
(* an alarm the timer has silenced stays silent until the FSM leaves       *)
(* AlarmActive and a new grace period has been granted.                    *)
RingsOncePerBreach ==
    [][ (~alarmActive /\ alarmActive')
          => state = "PendingVerification" /\ state' = "AlarmActive" ]_fsmVars
=============================================================================
