------------------------------ MODULE DoorLock ------------------------------
(***************************************************************************)
(* The lock of the camera program (DoorLock.cpp, class DoorController):    *)
(* the relay and LEDs, the thread that publishes access events, the timer  *)
(* thread that locks the door again, and the destructor.                   *)
(*                                                                         *)
(* EventBus::publish holds its mutex while it calls onAccessEvent, so one  *)
(* publisher at a time is inside it; the program counter pubPc says where. *)
(* Every write of a GPIO line or of an atomic is a step of its own.  The   *)
(* timer thread holds timerMutex_ across steps only between the test of    *)
(* its predicate and the wait ("block"), so that is where the publisher    *)
(* waits for the mutex and where the destructor, which takes none, may     *)
(* come in between.                                                        *)
(*                                                                         *)
(* Time is counted in ticks.  While a thread could run, at most Late ticks *)
(* pass before all of them have nothing to do again.                       *)
(***************************************************************************)
EXTENDS Integers

CONSTANTS
    kUnlockDuration,   \* kUnlockDurationMs
    kCooldown,         \* kCooldownMs
    Late,              \* bound: how far the threads lag behind the clock
    MaxReds            \* bound: detached red-LED threads alive

ASSUME LockAssumption ==
    {kUnlockDuration, kCooldown, Late, MaxReds} \subseteq Nat

VARIABLES
    running,      \* running_
    state,        \* state_
    pins,         \* the levels of the relay and the two LEDs
    age,          \* now - lastUnlock_, or Never while firstUnlock_
    timerArmed,   \* timerArmed_
    pubPc,        \* where the publisher is in onAccessEvent, or "idle"
    timerPc,      \* where the timer thread is in timerLoop
    nap,          \* what is left of the timer thread's sleep
    reds,         \* the detached threads that will switch the red LED off
    dtorPc,       \* where the destructor is, or "alive" before it
    lag           \* ticks passed while some thread could run

lockVars == <<running, state, pins, age, timerArmed, pubPc, timerPc, nap,
              reds, dtorPc, lag>>

Never == -1

(* enum class AuthResult.                                                  *)
AuthResult == {"GRANTED", "DENIED", "OVERRIDE"}

LockInit ==
    /\ running = TRUE
    /\ state = "LOCKED"
    /\ pins = [pin \in {"relay", "green", "red"} |-> FALSE]
    /\ age = Never
    /\ timerArmed = FALSE
    /\ pubPc = "idle"
    /\ timerPc = "top"
    /\ nap = 0
    /\ reds = 0
    /\ dtorPc = "alive"
    /\ lag = 0

-----------------------------------------------------------------------------
(* GpioPin::high and low.                                                  *)
setPin(pin, level) == pins' = [pins EXCEPT ![pin] = level]

(* A step of the publisher, and one of the timer thread, that writes a pin.*)
PubPin(at, pin, level, next) ==
    /\ pubPc = at
    /\ setPin(pin, level)
    /\ pubPc' = next
    /\ UNCHANGED <<running, state, age, timerArmed, timerPc, nap, reds,
                   dtorPc, lag>>

TimerPin(at, pin, level, next) ==
    /\ timerPc = at
    /\ setPin(pin, level)
    /\ timerPc' = next
    /\ UNCHANGED <<running, state, age, timerArmed, pubPc, nap, reds, dtorPc,
                   lag>>

(* timerCv_.notify: the timer thread, if it is waiting, is on its way to   *)
(* the mutex and to its predicate.                                         *)
notify == timerPc' = IF timerPc = "waiting" THEN "acquire" ELSE timerPc

-----------------------------------------------------------------------------
(* Forms with a plausible slip in them, to show that the properties below  *)
(* notice it.                                                              *)

\* tryUnlock that forgets the cooldown.
tryUnlockHasty ==
    /\ pubPc = "try"
    /\ age' = 0
    /\ pubPc' = "unlocked"
    /\ UNCHANGED <<running, state, pins, timerArmed, timerPc, nap, reds,
                   dtorPc, lag>>

\* timerArmed_ is set without timerMutex_.
ArmUnlocked ==
    /\ pubPc = "arm"
    /\ timerArmed' = TRUE
    /\ pubPc' = "notify"
    /\ UNCHANGED <<running, state, pins, age, timerPc, nap, reds, dtorPc, lag>>

\* The timer thread is armed and never told.
NotifyNobody ==
    /\ pubPc = "notify"
    /\ pubPc' = "greenHigh"
    /\ UNCHANGED <<running, state, pins, age, timerArmed, timerPc, nap, reds,
                   dtorPc, lag>>

\* The sleep is one tick too long.
TimerTestOversleeps ==
    /\ timerPc = "acquire"
    /\ \/ /\ timerArmed /\ running
          /\ timerArmed' = FALSE
          /\ nap' = kUnlockDuration + 1
          /\ timerPc' = "asleep"
       \/ /\ ~timerArmed /\ running
          /\ timerPc' = "block"
          /\ UNCHANGED <<timerArmed, nap>>
       \/ /\ ~running
          /\ timerPc' = "exited"
          /\ UNCHANGED <<timerArmed, nap>>
    /\ UNCHANGED <<running, state, pins, age, pubPc, reds, dtorPc, lag>>

\* The destructor leaves the relay to the timer thread.
DestructorKeepsRelay ==
    /\ dtorPc = "low"
    /\ dtorPc' = "gone"
    /\ UNCHANGED <<running, state, pins, age, timerArmed, pubPc, timerPc, nap,
                   reds, lag>>

\* The destructor does not notify the timer thread.
DestructorForgetsNotify ==
    /\ dtorPc = "notify"
    /\ dtorPc' = "join"
    /\ UNCHANGED <<running, state, pins, age, timerArmed, pubPc, timerPc, nap,
                   reds, lag>>

\* The relocking timer leaves the state as it is.
TimerLockedForgets ==
    /\ timerPc = "locked"
    /\ timerPc' = "greenLow"
    /\ UNCHANGED <<running, state, pins, age, timerArmed, pubPc, nap, reds,
                   dtorPc, lag>>

-----------------------------------------------------------------------------
(* EventBus::publish calls onAccessEvent, whether the lock is alive or not.*)
(* Here it is: that its users keep to that is shown where they are.        *)
deliver(result) ==
    /\ pubPc = "idle"
    /\ \/ result = "DENIED" /\ reds < MaxReds /\ pubPc' = "redHigh"
       \/ result # "DENIED" /\ pubPc' = "redLow"
    /\ UNCHANGED <<running, state, pins, age, timerArmed, timerPc, nap, reds,
                   dtorPc, lag>>

publish(result) == dtorPc = "alive" /\ deliver(result)

(* The thread a refusal detaches, and its end two seconds later.           *)
DetachRed ==
    /\ pubPc = "spawn"
    /\ reds' = reds + 1
    /\ pubPc' = "idle"
    /\ UNCHANGED <<running, state, pins, age, timerArmed, timerPc, nap,
                   dtorPc, lag>>

RedOff ==
    /\ reds > 0
    /\ dtorPc # "gone"
    /\ setPin("red", FALSE)
    /\ reds' = reds - 1
    /\ UNCHANGED <<running, state, age, timerArmed, pubPc, timerPc, nap,
                   dtorPc, lag>>

(* tryUnlock up to lastUnlock_: refused while the cooldown runs.           *)
tryUnlock ==
    /\ pubPc = "try"
    /\ \/ /\ age = Never \/ age >= kCooldown
          /\ age' = 0
          /\ pubPc' = "unlocked"
       \/ /\ age # Never /\ age < kCooldown
          /\ pubPc' = "idle"
          /\ UNCHANGED age
    /\ UNCHANGED <<running, state, pins, timerArmed, timerPc, nap, reds,
                   dtorPc, lag>>

StoreUnlocked ==
    /\ pubPc = "unlocked"
    /\ state' = "UNLOCKED"
    /\ pubPc' = "relayHigh"
    /\ UNCHANGED <<running, pins, age, timerArmed, timerPc, nap, reds, dtorPc,
                   lag>>

(* timerArmed_ is set under timerMutex_.                                   *)
ArmTimer ==
    /\ pubPc = "arm"
    /\ timerPc # "block"
    /\ timerArmed' = TRUE
    /\ pubPc' = "notify"
    /\ UNCHANGED <<running, state, pins, age, timerPc, nap, reds, dtorPc, lag>>

NotifyTimer ==
    /\ pubPc = "notify"
    /\ notify
    /\ pubPc' = "greenHigh"
    /\ UNCHANGED <<running, state, pins, age, timerArmed, nap, reds, dtorPc,
                   lag>>

onAccessEvent ==
    \/ PubPin("redHigh", "red", TRUE, "greenLow")
    \/ PubPin("greenLow", "green", FALSE, "spawn")
    \/ DetachRed
    \/ PubPin("redLow", "red", FALSE, "try")
    \/ tryUnlock
    \/ StoreUnlocked
    \/ PubPin("relayHigh", "relay", TRUE, "arm")
    \/ ArmTimer
    \/ NotifyTimer
    \/ PubPin("greenHigh", "green", TRUE, "idle")

-----------------------------------------------------------------------------
(* The timer thread.                                                       *)
TimerTop ==
    /\ timerPc = "top"
    /\ timerPc' = IF running THEN "acquire" ELSE "exited"
    /\ UNCHANGED <<running, state, pins, age, timerArmed, pubPc, nap, reds,
                   dtorPc, lag>>

(* The mutex is taken and the predicate tested.                            *)
TimerTest ==
    /\ timerPc = "acquire"
    /\ \/ /\ timerArmed /\ running
          /\ timerArmed' = FALSE
          /\ nap' = kUnlockDuration
          /\ timerPc' = "asleep"
       \/ /\ ~timerArmed /\ running
          /\ timerPc' = "block"
          /\ UNCHANGED <<timerArmed, nap>>
       \/ /\ ~running
          /\ timerPc' = "exited"
          /\ UNCHANGED <<timerArmed, nap>>
    /\ UNCHANGED <<running, state, pins, age, pubPc, reds, dtorPc, lag>>

(* The mutex is given back in the step that begins to wait.                *)
TimerWait ==
    /\ timerPc = "block"
    /\ timerPc' = "waiting"
    /\ UNCHANGED <<running, state, pins, age, timerArmed, pubPc, nap, reds,
                   dtorPc, lag>>

(* A condition variable may wake up without being notified.                *)
TimerSpurious ==
    /\ timerPc = "waiting"
    /\ timerPc' = "acquire"
    /\ UNCHANGED <<running, state, pins, age, timerArmed, pubPc, nap, reds,
                   dtorPc, lag>>

TimerWakes ==
    /\ timerPc = "asleep"
    /\ nap = 0
    /\ timerPc' = "relayLow"
    /\ UNCHANGED <<running, state, pins, age, timerArmed, pubPc, nap, reds,
                   dtorPc, lag>>

TimerLocked ==
    /\ timerPc = "locked"
    /\ state' = "LOCKED"
    /\ timerPc' = "greenLow"
    /\ UNCHANGED <<running, pins, age, timerArmed, pubPc, nap, reds, dtorPc,
                   lag>>

timerLoop ==
    \/ TimerTop \/ TimerTest \/ TimerWait
    \/ TimerWakes
    \/ TimerPin("relayLow", "relay", FALSE, "locked")
    \/ TimerLocked
    \/ TimerPin("greenLow", "green", FALSE, "redLow")
    \/ TimerPin("redLow", "red", FALSE, "top")

-----------------------------------------------------------------------------
(* The destructor, at the end of main: the threads that publish have been  *)
(* stopped before.  It holds no mutex.                                     *)
StoreStopped ==
    /\ dtorPc = "alive"
    /\ running' = FALSE
    /\ dtorPc' = "notify"
    /\ UNCHANGED <<state, pins, age, timerArmed, pubPc, timerPc, nap, reds,
                   lag>>

DestructorStops == pubPc = "idle" /\ StoreStopped

DestructorNotifies ==
    /\ dtorPc = "notify"
    /\ notify
    /\ dtorPc' = "join"
    /\ UNCHANGED <<running, state, pins, age, timerArmed, pubPc, nap, reds,
                   lag>>

DestructorJoins ==
    /\ dtorPc = "join"
    /\ timerPc = "exited"
    /\ dtorPc' = "low"
    /\ UNCHANGED <<running, state, pins, age, timerArmed, pubPc, timerPc, nap,
                   reds, lag>>

DestructorLocks ==
    /\ dtorPc = "low"
    /\ setPin("relay", FALSE)
    /\ dtorPc' = "gone"
    /\ UNCHANGED <<running, state, age, timerArmed, pubPc, timerPc, nap, reds,
                   lag>>

Destructor == \/ DestructorNotifies \/ DestructorJoins \/ DestructorLocks

-----------------------------------------------------------------------------
(* Some thread of the lock could run.                                      *)
Busy ==
    \/ pubPc # "idle"
    \/ timerPc \notin {"waiting", "asleep", "exited"}
    \/ timerPc = "asleep" /\ nap = 0

(* One tick of the clock.                                                  *)
Tick ==
    /\ Busy => lag < Late
    /\ lag' = IF Busy THEN lag + 1 ELSE 0
    /\ age' = IF age = Never \/ age >= kCooldown THEN age ELSE age + 1
    /\ nap' = IF nap > 0 THEN nap - 1 ELSE 0
    /\ UNCHANGED <<running, state, pins, timerArmed, pubPc, timerPc, reds,
                   dtorPc>>

LockNext ==
    \/ \E result \in AuthResult : publish(result)
    \/ onAccessEvent
    \/ RedOff
    \/ timerLoop
    \/ TimerSpurious
    \/ DestructorStops \/ Destructor
    \/ Tick

LockSpec == LockInit /\ [][LockNext]_lockVars

(* Runnable threads run, and the publisher gets timerMutex_ if it is free  *)
(* again and again.  Time, which the model stops while the threads are     *)
(* Late, goes on when they are not.  Nothing is assumed of who publishes,  *)
(* of the end of the program, or of spurious wakeups, but that they do not *)
(* keep the mutex from the publisher for ever.                             *)
LockFairSpec ==
    /\ LockSpec
    /\ SF_lockVars(onAccessEvent)
    /\ WF_lockVars(timerLoop)
    /\ WF_lockVars(Destructor)
    /\ WF_lockVars(RedOff)
    /\ SF_lockVars(Tick)

-----------------------------------------------------------------------------
PubPcs == {"idle", "redHigh", "greenLow", "spawn", "redLow", "try",
           "unlocked", "relayHigh", "arm", "notify", "greenHigh"}

TimerPcs == {"top", "acquire", "block", "waiting", "asleep", "relayLow",
             "locked", "greenLow", "redLow", "exited"}

(* The values of the variables.                                            *)
LockTypeOK ==
    /\ running \in BOOLEAN
    /\ state \in {"LOCKED", "UNLOCKED"}
    /\ pins \in [{"relay", "green", "red"} -> BOOLEAN]
    /\ age \in 0 .. kCooldown \cup {Never}
    /\ timerArmed \in BOOLEAN
    /\ pubPc \in PubPcs
    /\ timerPc \in TimerPcs
    /\ nap \in 0 .. kUnlockDuration
    /\ reds \in 0 .. MaxReds
    /\ dtorPc \in {"alive", "notify", "join", "low", "gone"}
    /\ lag \in 0 .. Late

(* An unlocked relay always has somebody who will lock it: the publisher   *)
(* that is about to arm the timer, an armed timer that is awake or is about*)
(* to be notified, a timer thread on its way to lower the relay, or the    *)
(* destructor.  An arming is never lost between the timer thread's test    *)
(* of timerArmed_ and its wait, whatever unlocks and relocks overlap.      *)
WillRelock ==
    pins.relay =>
        \/ pubPc = "arm"
        \/ timerArmed /\ (timerPc \in {"block", "waiting"} => pubPc = "notify")
        \/ timerPc \in {"asleep", "relayLow"}
        \/ dtorPc \notin {"alive", "gone"}

(* The destructor leaves the door locked behind it, also when it stops the *)
(* timer thread with an unlock still pending (DoorLock.cpp:27).            *)
DestroyedLocked == dtorPc = "gone" => (~pins.relay /\ timerPc = "exited")

(* "The door unlocks for 3 seconds" (README.md:261): the timer thread never*)
(* lowers the relay earlier than that after the latest unlock, because the *)
(* cooldown keeps the next unlock away from the relocking of the last one. *)
UnlockLasts ==
    [][ (timerPc = "relayLow" /\ pins.relay /\ ~pins.relay')
            => age >= kUnlockDuration ]_lockVars

Quiet == pubPc = "idle" /\ timerPc \in {"waiting", "asleep"}

(* When the threads have nothing to do isLocked() tells what the relay     *)
(* does, and the LEDs have their reasons: green an unlocked door, red a    *)
(* refusal whose thread is still to switch it off.  Unlocking and relocking*)
(* write state, relay and LEDs in different orders and without a lock.     *)
StateMatchesPins ==
    (Quiet /\ dtorPc = "alive") =>
        /\ pins.relay <=> state = "UNLOCKED"
        /\ pins.green => pins.relay
        /\ pins.red => reds > 0

(* An unlocked door is always locked again.                                *)
Relocks == pins.relay ~> ~pins.relay

(* "wake timer thread so it can exit" (DoorLock.cpp:24): the destructor    *)
(* comes to its end, unless it notifies while the timer thread is between  *)
(* its test and its wait, which the missing mutex allows.                  *)
DestructorReturns ==
    (dtorPc = "notify" /\ timerPc # "block") ~> (dtorPc = "gone")
=============================================================================
