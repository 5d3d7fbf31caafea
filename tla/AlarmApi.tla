------------------------------ MODULE AlarmApi ------------------------------
(***************************************************************************)
(* The stand-alone alarm server (main_api.cpp): the record g_state, one    *)
(* action per POST route, and the detached thread each /api/door/open      *)
(* starts to look at the state again when the verification window is over. *)
(*                                                                         *)
(* Every route and the critical section of every thread holds g_mutex, so  *)
(* each is one atomic action.  GET routes change nothing; the log, the     *)
(* texts of the responses and the mail an alarm sends are left out.        *)
(***************************************************************************)
EXTENDS Integers

CONSTANTS
    Window,      \* VERIFICATION_WINDOW_SECONDS
    Threads      \* bound: verification threads alive at the same time

ASSUME ApiAssumption == Window \in Nat

VARIABLES
    systemArmed, alarmActive, doorOpen, lockState, lastAuthorizedMethod,
    pendingVerification, intrusionDetected, buzzerOn, ledStatus,
    online,      \* gpioOnline, nfcOnline and cameraOnline
    left,        \* per verification thread: its sleep still to come, or None
    waited       \* history: time since the verification window was started

alarmVars == <<alarmActive, intrusionDetected, buzzerOn>>
infoVars  == <<lockState, lastAuthorizedMethod, online>>
apiVars   == <<systemArmed, doorOpen, pendingVerification, ledStatus,
               alarmVars, infoVars, left, waited>>

None == -1
Methods == {"nfc", "face", "api"}
Devices == {"gpio", "nfc", "camera"}

ApiInit ==
    /\ systemArmed = TRUE
    /\ alarmActive = FALSE
    /\ doorOpen = FALSE
    /\ lockState = "locked"
    /\ lastAuthorizedMethod = "null"
    /\ pendingVerification = FALSE
    /\ intrusionDetected = FALSE
    /\ buzzerOn = FALSE
    /\ ledStatus = "green"
    /\ online = [d \in Devices |-> TRUE]
    /\ left = [t \in Threads |-> None]
    /\ waited = 0

-----------------------------------------------------------------------------
(* The helpers the routes share.  updateLedStatus is called when the       *)
(* fields it reads have been written.                                      *)
updateLedStatus ==
    ledStatus' = IF alarmActive' THEN "red"
                 ELSE IF pendingVerification' THEN "yellow" ELSE "green"

triggerAlarm ==
    /\ alarmActive' = TRUE
    /\ intrusionDetected' = TRUE
    /\ buzzerOn' = TRUE
    /\ pendingVerification' = FALSE
    /\ updateLedStatus

clearAlarm ==
    /\ alarmActive' = FALSE
    /\ intrusionDetected' = FALSE
    /\ buzzerOn' = FALSE
    /\ updateLedStatus

-----------------------------------------------------------------------------
(* Forms with a plausible slip in them, to show that the properties below  *)
(* notice it.                                                              *)

\* /api/door/close that forgets the LED.
DoorCloseKeepsLed ==
    /\ doorOpen' = FALSE
    /\ pendingVerification' = FALSE
    /\ UNCHANGED <<systemArmed, ledStatus, alarmVars, infoVars, left, waited>>

\* /api/system/disarm that leaves a verification pending.
DisarmKeepsPending ==
    /\ systemArmed' = FALSE
    /\ UNCHANGED <<doorOpen, pendingVerification, infoVars, left, waited>>
    /\ clearAlarm

\* A verification thread that gives up when the alarm is already on.
VerifyGivesUp(t) ==
    /\ left[t] = 0
    /\ left' = [left EXCEPT ![t] = None]
    /\ \/ /\ doorOpen /\ systemArmed /\ pendingVerification /\ ~alarmActive
          /\ triggerAlarm
       \/ /\ ~(doorOpen /\ systemArmed /\ pendingVerification /\ ~alarmActive)
          /\ UNCHANGED <<pendingVerification, ledStatus, alarmVars>>
    /\ UNCHANGED <<systemArmed, doorOpen, infoVars, waited>>

\* A verification thread that sleeps one unit past the window.
DoorOpenLate ==
    /\ doorOpen' = TRUE
    /\ \E t \in Threads : /\ left[t] = None
                          /\ left' = [left EXCEPT ![t] = Window + 1]
    /\ UNCHANGED <<systemArmed, alarmVars, infoVars>>
    /\ pendingVerification' = (systemArmed \/ pendingVerification)
    /\ waited' = IF systemArmed THEN 0 ELSE waited
    /\ updateLedStatus

-----------------------------------------------------------------------------
(* The routes.                                                             *)
Arm ==
    /\ systemArmed' = TRUE
    /\ UNCHANGED <<doorOpen, pendingVerification, alarmVars, infoVars, left,
                   waited>>
    /\ updateLedStatus

Disarm ==
    /\ systemArmed' = FALSE
    /\ pendingVerification' = FALSE
    /\ clearAlarm
    /\ UNCHANGED <<doorOpen, infoVars, left, waited>>

SetLock(s) ==
    /\ lockState' = s
    /\ UNCHANGED <<systemArmed, doorOpen, pendingVerification, ledStatus,
                   alarmVars, lastAuthorizedMethod, online, left, waited>>

(* authorizeAccess; a method that is not one of the three is refused.  The *)
(* alarm, once on, stays on.                                               *)
Authorize(method) ==
    /\ lastAuthorizedMethod' = method
    /\ pendingVerification' = FALSE
    /\ intrusionDetected' = FALSE
    /\ UNCHANGED <<systemArmed, doorOpen, alarmActive, buzzerOn, lockState,
                   online, left, waited>>
    /\ updateLedStatus

(* Every report of an open door starts a thread, when the lock is given    *)
(* back; only in an armed system does it start a verification window.  A   *)
(* thread that starts late is one that is woken late.                      *)
DoorOpen ==
    /\ doorOpen' = TRUE
    /\ \E t \in Threads : /\ left[t] = None
                          /\ left' = [left EXCEPT ![t] = Window]
    /\ UNCHANGED <<systemArmed, alarmVars, infoVars>>
    /\ \/ /\ systemArmed
          /\ pendingVerification' = TRUE
          /\ waited' = 0
          /\ updateLedStatus
       \/ /\ ~systemArmed
          /\ UNCHANGED <<pendingVerification, ledStatus, waited>>

DoorClose ==
    /\ doorOpen' = FALSE
    /\ pendingVerification' = FALSE
    /\ UNCHANGED <<systemArmed, alarmVars, infoVars, left, waited>>
    /\ updateLedStatus

AlarmTrigger ==
    /\ triggerAlarm
    /\ UNCHANGED <<systemArmed, doorOpen, infoVars, left, waited>>

AlarmClear ==
    /\ UNCHANGED <<systemArmed, doorOpen, pendingVerification, infoVars, left,
                   waited>>
    /\ clearAlarm

(* A request names any of the devices; the others keep their value.        *)
DevicesUpdate(value) ==
    /\ online' = value
    /\ UNCHANGED <<systemArmed, doorOpen, pendingVerification, ledStatus,
                   alarmVars, lockState, lastAuthorizedMethod, left, waited>>

(* A verification thread wakes up and looks at the state it finds.         *)
Verify(t) ==
    /\ left[t] = 0
    /\ left' = [left EXCEPT ![t] = None]
    /\ \/ /\ doorOpen /\ systemArmed /\ pendingVerification
          /\ triggerAlarm
       \/ /\ ~(doorOpen /\ systemArmed /\ pendingVerification)
          /\ UNCHANGED <<pendingVerification, ledStatus, alarmVars>>
    /\ UNCHANGED <<systemArmed, doorOpen, infoVars, waited>>

(* One unit of time passes.                                                *)
Tick ==
    /\ left' = [t \in Threads |-> IF left[t] > 0 THEN left[t] - 1 ELSE left[t]]
    /\ waited' = IF waited < Window THEN waited + 1 ELSE waited
    /\ UNCHANGED <<systemArmed, doorOpen, pendingVerification, ledStatus,
                   alarmVars, infoVars>>

-----------------------------------------------------------------------------
ApiNext ==
    \/ Arm \/ Disarm
    \/ \E s \in {"locked", "unlocked"} : SetLock(s)
    \/ \E m \in Methods : Authorize(m)
    \/ DoorOpen \/ DoorClose
    \/ AlarmTrigger \/ AlarmClear
    \/ \E value \in [Devices -> BOOLEAN] : DevicesUpdate(value)
    \/ \E t \in Threads : Verify(t)
    \/ Tick

ApiSpec == ApiInit /\ [][ApiNext]_apiVars

(* Sleeping threads wake up; nothing is assumed of the clients.            *)
ApiFairSpec ==
    /\ ApiSpec
    /\ WF_apiVars(Tick)
    /\ \A t \in Threads : WF_apiVars(Verify(t))

-----------------------------------------------------------------------------
(* The values of the state.                                                *)
ApiTypeOK ==
    /\ {systemArmed, alarmActive, doorOpen, pendingVerification,
        intrusionDetected, buzzerOn} \subseteq BOOLEAN
    /\ lockState \in {"locked", "unlocked"}
    /\ lastAuthorizedMethod \in Methods \cup {"null"}
    /\ ledStatus \in {"red", "yellow", "green"}
    /\ online \in [Devices -> BOOLEAN]
    /\ left \in [Threads -> 0 .. Window \cup {None}]
    /\ waited \in 0 .. Window

(* The indicators a client is shown always agree with the alarm and the    *)
(* verification: every route that changes one of the fields refreshes the  *)
(* LED, although updateLedStatus is called by hand in each of them.  An    *)
(* intrusion is shown only together with the alarm.                        *)
IndicatorsAgree ==
    /\ buzzerOn = alarmActive
    /\ ledStatus = IF alarmActive THEN "red"
                   ELSE IF pendingVerification THEN "yellow" ELSE "green"
    /\ intrusionDetected => alarmActive

(* A pending verification is never forgotten: the door is open, the system *)
(* armed, and the thread of the window that was started last is still to   *)
(* come, exactly when that window ends, whatever opens, closes,            *)
(* authorizations and disarms came between.  (Threads of earlier openings  *)
(* may come sooner: they cannot tell the windows apart.)                   *)
PendingIsWatched ==
    pendingVerification
        => /\ doorOpen /\ systemArmed
           /\ \E t \in Threads : left[t] # None /\ left[t] = Window - waited

(* Verification always comes to an end.                                    *)
VerificationEnds == pendingVerification ~> ~pendingVerification
=============================================================================
