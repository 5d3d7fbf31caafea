----------------------------- MODULE OutputPins -----------------------------
(***************************************************************************)
(* The two LEDs and the buzzer (OutputController.cpp) and the threads that *)
(* write them without coordination: the control, reed-switch and camera    *)
(* threads through updateGreenLedLogic, AlarmManager under the FSM's lock, *)
(* and the detached threads of denied() and of a refused NFC tag.          *)
(*                                                                         *)
(* The module adds the outputs to DoorAlarmSystem.  Each of its steps is a *)
(* step of DoorAlarmSystem, taken by a thread that has finished with its   *)
(* outputs, or a step on the outputs that leaves DoorAlarmSystem's state   *)
(* alone.  What a thread still has to do to the outputs is a sequence of   *)
(* operations; each is one critical section of the code (OutputController  *)
(* takes its mutex per pin, DoorAlarmFSM per getter).                      *)
(***************************************************************************)
EXTENDS DoorAlarmSystem

CONSTANTS
    PulseIds,     \* bound: detached threads alive at the same time
    MaxSignals    \* bound: changes of the camera's signal

VARIABLES
    pins,          \* the levels of the three output lines
    todo,          \* per thread, the output operations still ahead of it
    reg,           \* per thread, the locals of updateGreenLedLogic
    pulses,        \* per detached thread, the pin writes still ahead of it
    cameraActive,  \* cameraActive_
    signals        \* how many changes of the camera's signal there have been

outVars == <<pins, todo, reg, pulses, cameraActive, signals>>
pinVars == <<vars, outVars>>

Writers == {"control", "reed", "camera"}

-----------------------------------------------------------------------------
(* Forms with a plausible slip in them, to show that the properties below  *)
(* notice it: a refresh that forgets the door, a refused tag's thread that *)
(* forgets the buzzer, a denied() that leaves the red LED on.              *)
updateGreenLedLogicDoorless == <<"state", "camera", "green">>

refusedKeepsBuzzer ==
    << <<"buzzer", TRUE>>, <<"red", TRUE>>, <<"red", FALSE>> >>

deniedKeepsRed == << <<"red", TRUE>>, <<"green", FALSE>>, <<"buzzer", TRUE>>,
                     <<"buzzer", FALSE>> >>

-----------------------------------------------------------------------------
(* updateGreenLedLogic: getState, isDoorOpen, the camera flag, and only    *)
(* then the pin.                                                           *)
updateGreenLedLogic == <<"state", "door", "camera", "green">>

(* OutputController::denied() and nfcLoop's thread for a refused tag; the  *)
(* sleep of one or two seconds is the step to buzzer off.                  *)
denied == << <<"red", TRUE>>, <<"green", FALSE>>, <<"buzzer", TRUE>>,
             <<"buzzer", FALSE>>, <<"red", FALSE>> >>

refused == << <<"buzzer", TRUE>>, <<"red", TRUE>>,
              <<"buzzer", FALSE>>, <<"red", FALSE>> >>

(* What handling an event of this type makes of the AlarmManager.          *)
Triggers(type) == type = "VerificationTimeout" /\ Expires

Clears(type) ==
    \/ type = "DisarmSystem"
    \/ type = "ArmSystem" /\ Arms
    \/ type = "DoorClosed" /\ Resecures
    \/ type \in {"AuthorizedByNfc", "AuthorizedByApp"} /\ Admits

(* The FSM's and the AlarmManager's mutex are held by the control thread   *)
(* until triggerAlarm has written its second pin.                          *)
FsmFree == todo.control # <<>> => Head(todo.control) # "alarmRed"

Free(t) == todo[t] = <<>>

setPin(pin, level) == pins' = [pins EXCEPT ![pin] = level]

Detach(program) ==
    \E i \in PulseIds : /\ pulses[i] = <<>>
                        /\ pulses' = [pulses EXCEPT ![i] = program]

PinsInit ==
    /\ Init
    /\ pins = [red |-> FALSE, green |-> FALSE, buzzer |-> FALSE]
    /\ todo = [t \in Writers |-> <<>>]
    /\ reg = [t \in Writers |-> FALSE]
    /\ pulses = [i \in PulseIds |-> <<>>]
    /\ cameraActive = FALSE
    /\ signals = 0

-----------------------------------------------------------------------------
(* Steps of DoorAlarmSystem and what they do to the outputs.               *)

(* controlLoop: handleEvent writes the buzzer inside the FSM's lock.       *)
HandleEvent ==
    /\ Free("control")
    /\ Control
    /\ \/ Triggers(Head(queue)) /\ setPin("buzzer", TRUE)
       \/ Clears(Head(queue)) /\ setPin("buzzer", FALSE)
       \/ ~Triggers(Head(queue)) /\ ~Clears(Head(queue)) /\ UNCHANGED pins
    /\ todo' = [todo EXCEPT !["control"] =
                   (IF Triggers(Head(queue)) THEN <<"alarmRed">> ELSE <<>>)
                       \o updateGreenLedLogic \o <<"check">>]
    /\ UNCHANGED <<reg, pulses, cameraActive, signals>>

(* onReedSwitchChange up to the posting of the event, and the posting.     *)
Sense ==
    /\ FsmFree
    /\ ReedSense
    /\ todo' = [todo EXCEPT !["reed"] =
                   updateGreenLedLogic
                       \o (IF Head(edges) THEN <<"redOn">> ELSE <<"redOff">>)]
    /\ UNCHANGED <<pins, reg, pulses, cameraActive, signals>>

Report == Free("reed") /\ ReedPost /\ UNCHANGED outVars

(* A tag on the list, a tag dropped, and a tag refused.                    *)
ReadTag(uid) ==
    /\ FsmFree
    /\ NfcRead(uid)
    /\ \/ (doorOpen \/ uid \in Allowed) /\ UNCHANGED pulses
       \/ ~doorOpen /\ uid \notin Allowed /\ Detach(refused)
    /\ UNCHANGED <<pins, todo, reg, cameraActive, signals>>

(* AlarmManager::clearAlarm called by the timer thread.                    *)
SilenceBuzzer ==
    /\ FsmFree
    /\ TimerSilence
    /\ setPin("buzzer", FALSE)
    /\ UNCHANGED <<todo, reg, pulses, cameraActive, signals>>

(* Steps that only read the FSM, and steps that do not touch it.  The exit *)
(* button is left out: it writes no output, and its event is handled as an *)
(* NFC tag's is; the program itself injects no events.                     *)
TimerReads == FsmFree /\ (TimerSample \/ TimerDeadline) /\ UNCHANGED outVars

Others ==
    /\ DoorMoves \/ Tick \/ NfcPost \/ TimerReset \/ TimerTimeout
    /\ UNCHANGED outVars

-----------------------------------------------------------------------------
(* Steps on the outputs alone.                                             *)

(* The camera trigger's callback: a changed level sets the flag, then the  *)
(* LED is recalculated.                                                    *)
CameraSignal ==
    /\ signals < MaxSignals
    /\ Free("camera")
    /\ cameraActive' = ~cameraActive
    /\ signals' = signals + 1
    /\ todo' = [todo EXCEPT !["camera"] = updateGreenLedLogic]
    /\ UNCHANGED <<vars, pins, reg, pulses>>

(* The next output operation of thread t.                                  *)
Output(t) ==
    /\ todo[t] # <<>>
    /\ todo' = [todo EXCEPT ![t] = Tail(@)]
    /\ LET op == Head(todo[t]) IN
       \/ /\ op = "state" /\ FsmFree
          /\ reg' = [reg EXCEPT ![t] = state = "AuthorizedEntry"]
          /\ UNCHANGED <<pins, pulses>>
       \/ /\ op = "door" /\ FsmFree
          /\ reg' = [reg EXCEPT ![t] = @ /\ ~doorOpen]
          /\ UNCHANGED <<pins, pulses>>
       \/ /\ op = "camera"
          /\ reg' = [reg EXCEPT ![t] = @ \/ cameraActive]
          /\ UNCHANGED <<pins, pulses>>
       \/ /\ op = "green"
          /\ setPin("green", reg[t])
          /\ reg' = [reg EXCEPT ![t] = FALSE]
          /\ UNCHANGED pulses
       \/ /\ op \in {"redOn", "redOff", "alarmRed"}
          /\ setPin("red", op # "redOff")
          /\ UNCHANGED <<reg, pulses>>
       \/ /\ op = "check"
          /\ \/ state = "AlarmActive" /\ Detach(denied)
             \/ state # "AlarmActive" /\ UNCHANGED pulses
          /\ UNCHANGED <<pins, reg>>
    /\ UNCHANGED <<vars, cameraActive, signals>>

(* The next pin write of a detached thread.                                *)
Pulse(i) ==
    /\ pulses[i] # <<>>
    /\ setPin(Head(pulses[i])[1], Head(pulses[i])[2])
    /\ pulses' = [pulses EXCEPT ![i] = Tail(@)]
    /\ UNCHANGED <<vars, todo, reg, cameraActive, signals>>

-----------------------------------------------------------------------------
PinsNext ==
    \/ HandleEvent
    \/ Sense \/ Report
    \/ \E uid \in Tags : ReadTag(uid)
    \/ SilenceBuzzer
    \/ TimerReads
    \/ Others
    \/ CameraSignal
    \/ \E t \in Writers : Output(t)
    \/ \E i \in PulseIds : Pulse(i)

PinsSpec == PinsInit /\ [][PinsNext]_pinVars

-----------------------------------------------------------------------------
(* A thread that will still switch the buzzer off.                         *)
WillSilence(i) ==
    \E k \in 1 .. Len(pulses[i]) : pulses[i][k] = <<"buzzer", FALSE>>

(* The buzzer never sounds for nobody: while it is on, the alarm is active *)
(* or a detached thread is alive that switches it off, however the writes  *)
(* of AlarmManager, timer and detached threads interleave.                 *)
BuzzerHasOwner ==
    pins.buzzer => (alarmActive \/ \E i \in PulseIds : WillSilence(i))

(* Every door report has been handled and no thread has output left to do. *)
Settled ==
    /\ Reported
    /\ \A t \in Writers : todo[t] = <<>>
    /\ \A i \in PulseIds : pulses[i] = <<>>

(* When everything has settled a red LED means an open door: the red that  *)
(* triggerAlarm switches on and clearAlarm leaves on is switched off by    *)
(* the denied() of the same pass of controlLoop, in every interleaving.    *)
RedMeansOpen == (Settled /\ pins.red) => door

(* "(FSM is Authorized AND Door is Closed) OR (Camera signal is HIGH)"     *)
(* (DoorAlarmSystem.cpp:113): when everything has settled a green LED has  *)
(* its reason, although the sensor's and the control thread's refreshes    *)
(* read the FSM and write the LED in steps of their own: a stale write is  *)
(* always followed by the refresh of the event behind it.  It is stated    *)
(* for a camera that has never signalled: the camera's thread has no such  *)
(* event behind it.                                                        *)
GreenHasReason ==
    (Settled /\ pins.green /\ signals = 0)
        => (state = "AuthorizedEntry" /\ ~doorOpen)

(* "alarm is sounding" (DoorAlarmFSM.h:37), "Continuous Buzzer"            *)
(* (tests/readme.txt:10): when everything has settled an active alarm is   *)
(* heard.                                                                  *)
AlarmSounds == (Settled /\ alarmActive) => pins.buzzer
=============================================================================
