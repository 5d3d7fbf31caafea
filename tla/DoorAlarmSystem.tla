-------------------------- MODULE DoorAlarmSystem --------------------------
(***************************************************************************)
(* The running door alarm (DoorAlarmSystem.cpp): the sensor, button, NFC,  *)
(* timer and control threads around the FSM, the event queue between them  *)
(* and the physical door.                                                  *)
(*                                                                         *)
(* A thread's step is what it does between two points where another thread *)
(* can see or change what it uses: reading the FSM (under its mutex),      *)
(* posting an event (under the queue's) and handling one are steps of      *)
(* their own, so every decision a thread takes may be stale when it acts.  *)
(* The control thread's waitAndPop and handleEvent are one step: until the *)
(* event is handled nobody can tell whether it is still in the queue.      *)
(* A thread reads the clock in the step that reads the FSM, a few          *)
(* instructions apart; what it then does with the two may be late.         *)
(* Outputs (LEDs, buzzer) are written and never read: see OutputPins.      *)
(*                                                                         *)
(* Time is counted in ticks, one per period of the timer thread.  A Tick   *)
(* may come between any two steps, so threads may be delayed for as long   *)
(* as the operating system likes; with Synchronous, the world outside      *)
(* (time, the door, the users) waits until every thread has nothing to do. *)
(***************************************************************************)
EXTENDS DoorAlarmFSM, Sequences, FiniteSets

CONSTANTS
    Tags,          \* the NFC tags that can be held to the reader
    Allowed,       \* AccessController::allowed
    Debounce,      \* 500 ms: presses closer together are ignored
    ResetAfter,    \* 1 s: after that AuthorizedEntry is reset
    SilenceAfter,  \* 5 s: after that a ringing alarm is silenced
    StartOpen,     \* the levels the door sensor may have at start()
    Synchronous,   \* the threads keep up with the world (see above)
    SensorMayFail, \* libgpiod may throw in the reed switch's worker
    QueueBound,    \* bound: events in the queue
    MaxMoves,      \* bound: movements of the door
    MaxTags,       \* bound: tags read
    MaxPresses,    \* bound: edges of the exit button
    MaxCommands    \* bound: events injected through the public postEvent

ASSUME SystemAssumption ==
    /\ Allowed \subseteq Tags
    /\ {Debounce, ResetAfter, SilenceAfter, QueueBound, MaxMoves, MaxTags,
        MaxPresses, MaxCommands} \subseteq Nat
    /\ StartOpen \subseteq BOOLEAN
    /\ {Synchronous, SensorMayFail} \subseteq BOOLEAN

VARIABLES
    door,        \* the physical door: TRUE when open
    edges,       \* levels in the kernel's edge-event buffer of the reed switch
    reedPc,      \* the reed switch's worker: "wait", "post" or "dead"
    reedValue,   \* isOpen of the callback in progress
    pressAge,    \* now - lastPressTime, or Never before the first callback
    buttonPc,    \* the exit button's worker: "wait" or "post"
    nfcPc,       \* nfcLoop: "wait" or "post"
    timerPc,     \* timerLoop: where it is in its loop body
    lastState,   \* timerLoop's lastState
    age,         \* now - stateStartTime
    queue,       \* eventQueue_: the types of the events in it
    held,        \* history: for how long the FSM has been in its state
    used         \* how much of each bound has been used

sensorVars == <<door, edges, reedPc, reedValue>>
inputVars  == <<pressAge, buttonPc, nfcPc>>
timerVars  == <<timerPc, lastState, age>>
vars == <<fsmVars, sensorVars, inputVars, timerVars, queue, held, used>>

-----------------------------------------------------------------------------
Never == -1

(* Ages are compared with the durations only, so they stop counting one    *)
(* past the longest of them.                                               *)
AgeCap == 1 + IF ResetAfter > SilenceAfter THEN ResetAfter ELSE SilenceAfter

HeldCap == AgeCap + 1

Older(a, cap) == IF a = Never \/ a >= cap THEN a ELSE a + 1

(* The events a user of the public postEvent injects.                      *)
Commands == {"ArmSystem", "DisarmSystem", "AuthorizedByApp", "PrintStatus"}

SensorIdle == edges = <<>> /\ reedPc \in {"wait", "dead"}

(* Every thread is blocked on its input.                                   *)
Idle ==
    /\ queue = <<>>
    /\ SensorIdle
    /\ buttonPc = "wait"
    /\ nfcPc = "wait"
    /\ timerPc = "asleep"

WorldMayAct == Synchronous => Idle

Use(resource, bound) ==
    /\ used[resource] < bound
    /\ used' = [used EXCEPT ![resource] = @ + 1]

(* EventQueue::push; the queue is never shut down in this module.          *)
postEvent(type) ==
    /\ Len(queue) < QueueBound
    /\ queue' = Append(queue, type)

Init ==
    /\ FSMInit(MaxWindow)
    /\ door \in StartOpen
    /\ edges = <<>>
    /\ reedPc = "wait"
    /\ reedValue = FALSE
    /\ pressAge = Never
    /\ buttonPc = "wait"
    /\ nfcPc = "wait"
    /\ timerPc = "asleep"
    /\ lastState = "ArmedIdle"
    /\ age = 0
    /\ queue = <<>>
    /\ held = 0
    /\ used = [moves |-> 0, tags |-> 0, presses |-> 0, commands |-> 0]

-----------------------------------------------------------------------------
(* The world outside.                                                      *)

(* The door is opened or closed; the kernel queues the edge.               *)
DoorMoves ==
    /\ WorldMayAct
    /\ Use("moves", MaxMoves)
    /\ door' = ~door
    /\ edges' = Append(edges, ~door)
    /\ UNCHANGED <<fsmVars, reedPc, reedValue, inputVars, timerVars, queue,
                   held>>

(* One tick of the steady clock; the timer thread's sleep is over.         *)
Tick ==
    /\ WorldMayAct
    /\ deadline' = OneUnitLess(deadline)
    /\ pressAge' = Older(pressAge, Debounce + 1)
    /\ age' = Older(age, AgeCap)
    /\ held' = Older(held, HeldCap)
    /\ timerPc' = IF timerPc = "asleep" THEN "awake" ELSE timerPc
    /\ UNCHANGED <<state, doorOpen, window, alarmActive, sensorVars,
                   buttonPc, nfcPc, lastState, queue, used>>

(* A caller of the public postEvent.                                       *)
Inject(type) ==
    /\ WorldMayAct
    /\ Use("commands", MaxCommands)
    /\ postEvent(type)
    /\ UNCHANGED <<fsmVars, sensorVars, inputVars, timerVars, held>>

-----------------------------------------------------------------------------
(* The reed switch's worker and its callback onReedSwitchChange: the FSM   *)
(* is told twice, by setDoorState at once and by an event later.           *)
ReedSense ==
    /\ reedPc = "wait"
    /\ edges # <<>>
    /\ setDoorState(Head(edges))
    /\ reedValue' = Head(edges)
    /\ edges' = Tail(edges)
    /\ reedPc' = "post"
    /\ UNCHANGED <<door, inputVars, timerVars, queue, held, used>>

ReedPost ==
    /\ reedPc = "post"
    /\ postEvent(IF reedValue THEN "DoorOpened" ELSE "DoorClosed")
    /\ reedPc' = "wait"
    /\ reedValue' = FALSE
    /\ UNCHANGED <<fsmVars, door, edges, inputVars, timerVars, held, used>>

(* An exception of libgpiod ends the worker for good.                      *)
ReedFault ==
    /\ SensorMayFail
    /\ reedPc = "wait"
    /\ reedPc' = "dead"
    /\ UNCHANGED <<fsmVars, door, edges, reedValue, inputVars, timerVars,
                   queue, held, used>>

(* onButtonPress.  The first callback of all initialises the static        *)
(* lastPressTime to its own time, so it can never be late enough.          *)
ButtonEdge(value) ==
    /\ WorldMayAct
    /\ buttonPc = "wait"
    /\ Use("presses", MaxPresses)
    /\ \/ /\ pressAge = Never
          /\ pressAge' = 0
          /\ UNCHANGED buttonPc
       \/ /\ pressAge # Never
          /\ value /\ pressAge > Debounce /\ ~doorOpen
          /\ pressAge' = 0
          /\ buttonPc' = "post"
       \/ /\ pressAge # Never
          /\ ~(value /\ pressAge > Debounce /\ ~doorOpen)
          /\ UNCHANGED <<pressAge, buttonPc>>
    /\ UNCHANGED <<fsmVars, sensorVars, nfcPc, timerVars, queue, held>>

ButtonPost ==
    /\ buttonPc = "post"
    /\ postEvent("AuthorizedByApp")
    /\ buttonPc' = "wait"
    /\ UNCHANGED <<fsmVars, sensorVars, pressAge, nfcPc, timerVars, held,
                   used>>

(* nfcLoop: a tag is dropped while the FSM believes the door open, or when *)
(* AccessController::check does not know it.                               *)
NfcRead(uid) ==
    /\ WorldMayAct
    /\ nfcPc = "wait"
    /\ Use("tags", MaxTags)
    /\ nfcPc' = IF ~doorOpen /\ uid \in Allowed THEN "post" ELSE "wait"
    /\ UNCHANGED <<fsmVars, sensorVars, pressAge, buttonPc, timerVars, queue,
                   held>>

NfcPost ==
    /\ nfcPc = "post"
    /\ postEvent("AuthorizedByNfc")
    /\ nfcPc' = "wait"
    /\ UNCHANGED <<fsmVars, sensorVars, pressAge, buttonPc, timerVars, held,
                   used>>

-----------------------------------------------------------------------------
(* controlLoop.                                                            *)
Control ==
    /\ queue # <<>>
    /\ handleEvent(Head(queue))
    /\ queue' = Tail(queue)
    /\ held' = IF state' # state THEN 0 ELSE held
    /\ UNCHANGED <<sensorVars, inputVars, timerVars, used>>

(* Forms of the timer thread's steps with a plausible slip in them, to     *)
(* show that the properties below notice it.                               *)

\* The reset is not confined to AuthorizedEntry.
TimerSampleAnyState ==
    /\ timerPc = "awake"
    /\ lastState' = state
    /\ age' = IF state # lastState THEN 0 ELSE age
    /\ timerPc' = CASE age' > ResetAfter -> "reset"
                    [] state = "PendingVerification" -> "deadline"
                    [] OTHER -> "asleep"
    /\ UNCHANGED <<fsmVars, sensorVars, inputVars, queue, held, used>>

\* The stopwatch restarts at every sample.
TimerSampleRestarts ==
    /\ timerPc = "awake"
    /\ lastState' = state
    /\ age' = 0
    /\ timerPc' = IF state = "PendingVerification" THEN "deadline"
                                                  ELSE "asleep"
    /\ UNCHANGED <<fsmVars, sensorVars, inputVars, queue, held, used>>

\* A new state does not restart the stopwatch.
TimerSampleRunsOn ==
    /\ timerPc = "awake"
    /\ lastState' = state
    /\ age' = age
    /\ timerPc' =
         CASE state = "AlarmActive" /\ age > SilenceAfter -> "silence"
           [] state = "AuthorizedEntry" /\ age > ResetAfter -> "reset"
           [] state = "PendingVerification" -> "deadline"
           [] OTHER -> "asleep"
    /\ UNCHANGED <<fsmVars, sensorVars, inputVars, queue, held, used>>

-----------------------------------------------------------------------------
(* timerLoop: sample the state, restart the stopwatch if it differs from   *)
(* the previous sample, then act on the sample.                            *)
TimerSample ==
    /\ timerPc = "awake"
    /\ lastState' = state
    /\ age' = IF state # lastState THEN 0 ELSE age
    /\ timerPc' =
         CASE state = "AlarmActive" /\ age' > SilenceAfter -> "silence"
           [] state = "AuthorizedEntry" /\ age' > ResetAfter -> "reset"
           [] state = "PendingVerification" -> "deadline"
           [] OTHER -> "asleep"
    /\ UNCHANGED <<fsmVars, sensorVars, inputVars, queue, held, used>>

TimerSilence ==
    /\ timerPc = "silence"
    /\ Silence
    /\ timerPc' = "asleep"
    /\ UNCHANGED <<sensorVars, inputVars, lastState, age, queue, held, used>>

(* "AutoReset" is a DoorClosed like any other.                             *)
TimerReset ==
    /\ timerPc = "reset"
    /\ postEvent("DoorClosed")
    /\ timerPc' = "asleep"
    /\ UNCHANGED <<fsmVars, sensorVars, inputVars, lastState, age, held,
                   used>>

TimerDeadline ==
    /\ timerPc = "deadline"
    /\ timerPc' = IF deadline = 0 THEN "timeout" ELSE "asleep"
    /\ UNCHANGED <<fsmVars, sensorVars, inputVars, lastState, age, queue,
                   held, used>>

TimerTimeout ==
    /\ timerPc = "timeout"
    /\ postEvent("VerificationTimeout")
    /\ timerPc' = "asleep"
    /\ UNCHANGED <<fsmVars, sensorVars, inputVars, lastState, age, held,
                   used>>

-----------------------------------------------------------------------------
World ==
    \/ DoorMoves
    \/ Tick
    \/ \E type \in Commands : Inject(type)
    \/ \E value \in BOOLEAN : ButtonEdge(value)
    \/ \E uid \in Tags : NfcRead(uid)

Reed  == ReedSense \/ ReedPost
Timer == \/ TimerSample \/ TimerSilence \/ TimerReset
         \/ TimerDeadline \/ TimerTimeout

Next ==
    \/ World
    \/ Reed \/ ReedFault
    \/ ButtonPost \/ NfcPost
    \/ Control
    \/ Timer

Spec == Init /\ [][Next]_vars

(* Every thread the operating system can run is run, and time goes on;     *)
(* nothing is assumed of the door, the users or libgpiod's exceptions.     *)
FairSpec ==
    /\ Spec
    /\ WF_vars(Tick)
    /\ WF_vars(Reed)
    /\ WF_vars(ButtonPost)
    /\ WF_vars(NfcPost)
    /\ WF_vars(Control)
    /\ WF_vars(Timer)

-----------------------------------------------------------------------------
(* What the variables of the threads hold.                                 *)
ThreadsTypeOK ==
    /\ door \in BOOLEAN
    /\ edges \in Seq(BOOLEAN)
    /\ reedPc \in {"wait", "post", "dead"}
    /\ reedValue \in BOOLEAN
    /\ pressAge \in 0 .. Debounce + 1 \cup {Never}
    /\ buttonPc \in {"wait", "post"}
    /\ nfcPc \in {"wait", "post"}
    /\ timerPc \in {"asleep", "awake", "silence", "reset", "deadline",
                    "timeout"}
    /\ lastState \in State \ {"Fault"}
    /\ age \in 0 .. AgeCap
    /\ held \in 0 .. HeldCap
    /\ queue \in Seq(EventType)
    /\ Len(queue) <= QueueBound
    /\ used \in [{"moves", "tags", "presses", "commands"} -> Nat]

(* The values the variables take.                                          *)
SystemTypeOK == TypeOK /\ ThreadsTypeOK

(* No door report is on its way to the FSM.                                *)
Reported == SensorIdle /\ reedPc = "wait" /\ queue = <<>>

(* When every report has been handled, a cache that says "open" is right.  *)
(* The FSM is told of each movement twice, by setDoorState at once and by  *)
(* a queued event later, so a late DoorOpened may overwrite a newer        *)
(* "closed"; the DoorClosed queued behind it always repairs that.          *)
OpenCacheIsTrue == Reported => (doorOpen => door)

(* Nobody has presented a credential or sent a command.                    *)
NobodyAuthorized == used.tags + used.presses + used.commands = 0

(* A door that stands open without any credential presented is noticed:    *)
(* once its reports are handled the FSM is counting down or in alarm, for  *)
(* every interleaving of sensor, timer and control threads and any number  *)
(* of openings and closings in flight.                                     *)
IntrusionNoticed ==
    (Reported /\ door /\ NobodyAuthorized)
        => state \in {"PendingVerification", "AlarmActive"}

(* The timer thread's duties are done by the tick after they fall due: a   *)
(* grace period that has run out is an alarm, and neither a ringing alarm  *)
(* nor an authorized entry outlasts its time by more than the one period   *)
(* the timer thread needs to notice the state.                             *)
DutiesAreDone ==
    Idle =>
      /\ state = "PendingVerification" => deadline > 0
      /\ alarmActive => held <= SilenceAfter + 1
      /\ state = "AuthorizedEntry" => held <= ResetAfter + 1

(* "Auto-silence Alarm (5s)" (DoorAlarmSystem.cpp:243): the timer thread    *)
(* silences no alarm before its time.  Its stopwatch only notices a state  *)
(* that differs from the one it sampled before, so an alarm that follows a *)
(* silenced one must not inherit its age: the grace period between the two *)
(* is what the thread has to notice.                                       *)
RingsFullTime ==
    [][ (timerPc = "silence" /\ alarmActive /\ ~alarmActive')
            => held > SilenceAfter ]_vars

(* PendingVerification is always resolved: the timer thread cannot miss an *)
(* expired deadline for ever, whatever the other threads do meanwhile and  *)
(* even when the door sensor has died.                                     *)
PendingResolves ==
    (state = "PendingVerification") ~> (state # "PendingVerification")

(* AuthorizedEntry is always left again.                                   *)
AuthorizationEnds == (state = "AuthorizedEntry") ~> (state # "AuthorizedEntry")

(* A ringing alarm always falls silent, by an event or by the timer.       *)
AlarmFallsSilent == alarmActive ~> ~alarmActive

(* tests/readme.txt TC-03: the grace period of a door that was opened      *)
(* without authorization is never just forgotten: it ends in an alarm, in  *)
(* an authorization or disarming, or with the door closed again.           *)
ForcedOpenAlarms ==
    (state = "PendingVerification" /\ door)
        ~> (state \in {"AlarmActive", "AuthorizedEntry", "Disarmed"} \/ ~door)

-----------------------------------------------------------------------------
(* What documents and comments say and the code does not do.               *)

(* "System is armed, door opens, user taps NFC within 5 seconds.  Expected:*)
(* Alarm remains OFF, state transitions to AuthorizedEntry" (tests.cpp:    *)
(* 14); "PendingVerification --> AuthorizedEntry : NFC/App OK" (README.md: *)
(* 119): an authorization that reaches the FSM in the grace period is      *)
(* accepted.                                                               *)
GraceAdmits ==
    (/\ state = "PendingVerification"
     /\ \E i \in 1 .. Len(queue) :
            queue[i] \in {"AuthorizedByNfc", "AuthorizedByApp"})
        ~> (state = "AuthorizedEntry")

(* "Unauthorized Open.  5s grace period started" (DoorAlarmFSM.cpp:77):    *)
(* the alarm goes off only when the grace period of this opening has run   *)
(* out.                                                                    *)
NoEarlyAlarm ==
    [][ (state' = "AlarmActive" /\ state # "AlarmActive")
            => deadline = 0 ]_vars

(* "Rejects authorization if the door is already physically open"          *)
(* (DoorAlarmFSM.cpp:102): nobody is admitted through a door that is open. *)
AdmitsOnlyWhenShut ==
    [][ (state' = "AuthorizedEntry" /\ state # "AuthorizedEntry")
            => ~door ]_vars
=============================================================================
