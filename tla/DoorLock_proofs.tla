-------------------------- MODULE DoorLock_proofs --------------------------
(***************************************************************************)
(* The door lock keeps its types, never leaves an unlocked relay without   *)
(* somebody who will lock it, and is locked when it has been destroyed,    *)
(* for all durations, delays and numbers of refusals.  With punctual       *)
(* threads an unlock lasts its time, and state and pins agree at rest.     *)
(***************************************************************************)
EXTENDS DoorLock, TLAPS

(* Who may be where: the destructor comes when nobody publishes any more,  *)
(* the timer thread leaves only for the destructor, and the destructor     *)
(* passes its join only behind the timer thread.                           *)
Order ==
    /\ running <=> dtorPc = "alive"
    /\ dtorPc # "alive" => pubPc = "idle"
    /\ timerPc = "exited" => dtorPc # "alive"
    /\ dtorPc \in {"low", "gone"} => timerPc = "exited"

(* timerMutex_ keeps the arming out of the time between the timer thread's *)
(* test and its wait; an arming that finds it waiting will be notified.    *)
NotMissed ==
    /\ timerPc = "block" => ~timerArmed
    /\ timerPc = "waiting" /\ timerArmed => pubPc = "notify"

(* A refusal in progress has room for its thread.                          *)
RoomForRed == pubPc \in {"redHigh", "greenLow", "spawn"} => reds < MaxReds

LockInv ==
    /\ LockTypeOK
    /\ Order
    /\ NotMissed
    /\ RoomForRed
    /\ WillRelock
    /\ DestroyedLocked

USE DEF Never

(* The constants are numbers.                                              *)
LEMMA Durations ==
    /\ kUnlockDuration \in Nat
    /\ kCooldown \in Nat
    /\ Late \in Nat
    /\ MaxReds \in Nat
  BY LockAssumption DEF LockAssumption

-----------------------------------------------------------------------------
(* The constructor's state satisfies the invariant.                        *)
LEMMA LockInitInv == LockInit => LockInv
<1> SUFFICES ASSUME LockInit PROVE LockInv
  OBVIOUS
<1>1. /\ pins \in [{"relay", "green", "red"} -> BOOLEAN]
      /\ pins.relay = FALSE
  BY DEF LockInit
<1>2. LockTypeOK
  <2>1. running \in BOOLEAN /\ timerArmed \in BOOLEAN
    BY DEF LockInit
  <2>2. /\ nap \in 0 .. kUnlockDuration
        /\ reds \in 0 .. MaxReds
        /\ lag \in 0 .. Late
        /\ age \in 0 .. kCooldown \cup {Never}
    BY Durations DEF LockInit
  <2> QED
    BY <1>1, <2>1, <2>2 DEF LockInit, LockTypeOK, PubPcs, TimerPcs
<1>3. Order /\ NotMissed /\ RoomForRed
  BY DEF LockInit, Order, NotMissed, RoomForRed
<1>4. WillRelock /\ DestroyedLocked
  BY <1>1 DEF LockInit, WillRelock, DestroyedLocked
<1> QED
  BY <1>2, <1>3, <1>4 DEF LockInv

(* Every step of the publisher keeps it.                                   *)
LEMMA PublisherInv ==
    ASSUME LockInv,
           onAccessEvent \/ \E result \in AuthResult : publish(result)
    PROVE  LockInv'
<1> USE DEF LockInv, LockTypeOK, Order, NotMissed, RoomForRed, WillRelock,
            DestroyedLocked, PubPcs, TimerPcs
<1> USE Durations
<1>1. CASE PubPin("redHigh", "red", TRUE, "greenLow")
  BY <1>1 DEF PubPin, setPin
<1>2. CASE PubPin("greenLow", "green", FALSE, "spawn")
  BY <1>2 DEF PubPin, setPin
<1>3. CASE DetachRed
  BY <1>3 DEF DetachRed
<1>4. CASE PubPin("redLow", "red", FALSE, "try")
  BY <1>4 DEF PubPin, setPin
<1>5. CASE tryUnlock
  BY <1>5 DEF tryUnlock
<1>6. CASE StoreUnlocked
  BY <1>6 DEF StoreUnlocked
<1>7. CASE PubPin("relayHigh", "relay", TRUE, "arm")
  BY <1>7 DEF PubPin, setPin
<1>8. CASE ArmTimer
  BY <1>8 DEF ArmTimer
<1>9. CASE NotifyTimer
  BY <1>9 DEF NotifyTimer, notify
<1>10. CASE PubPin("greenHigh", "green", TRUE, "idle")
  BY <1>10 DEF PubPin, setPin
<1>11. CASE \E result \in AuthResult : publish(result)
  BY <1>11 DEF publish, deliver
<1> QED
  BY <1>1, <1>2, <1>3, <1>4, <1>5, <1>6, <1>7, <1>8, <1>9, <1>10, <1>11
  DEF onAccessEvent

(* So does every step of the timer thread.                                 *)
LEMMA TimerInv ==
    ASSUME LockInv, timerLoop \/ TimerSpurious
    PROVE  LockInv'
<1> USE DEF LockInv, LockTypeOK, Order, NotMissed, RoomForRed, WillRelock,
            DestroyedLocked, PubPcs, TimerPcs
<1> USE Durations
<1>1. CASE TimerTop
  BY <1>1 DEF TimerTop
<1>2. CASE TimerTest
  <2>1. CASE timerArmed /\ running
    <3>1. nap' \in 0 .. kUnlockDuration
      BY <1>2, <2>1 DEF TimerTest
    <3>2. LockTypeOK'
      BY <3>1, <1>2, <2>1 DEF TimerTest
    <3>3. (Order /\ NotMissed /\ RoomForRed /\ WillRelock)'
      BY <1>2, <2>1 DEF TimerTest
    <3> QED
      BY <1>2, <2>1, <3>2, <3>3 DEF TimerTest
  <2>2. CASE ~timerArmed /\ running
    BY <1>2, <2>2 DEF TimerTest
  <2>3. CASE ~running
    BY <1>2, <2>3 DEF TimerTest
  <2> QED
    BY <2>1, <2>2, <2>3
<1>3. CASE TimerWait
  BY <1>3 DEF TimerWait
<1>4. CASE TimerWakes
  BY <1>4 DEF TimerWakes
<1>5. CASE TimerPin("relayLow", "relay", FALSE, "locked")
  BY <1>5 DEF TimerPin, setPin
<1>6. CASE TimerLocked
  BY <1>6 DEF TimerLocked
<1>7. CASE TimerPin("greenLow", "green", FALSE, "redLow")
  BY <1>7 DEF TimerPin, setPin
<1>8. CASE TimerPin("redLow", "red", FALSE, "top")
  BY <1>8 DEF TimerPin, setPin
<1>9. CASE TimerSpurious
  BY <1>9 DEF TimerSpurious
<1> QED
  BY <1>1, <1>2, <1>3, <1>4, <1>5, <1>6, <1>7, <1>8, <1>9 DEF timerLoop

(* And everything else: the detached threads, the destructor and time.     *)
LEMMA OthersInv ==
    ASSUME LockInv,
           \/ RedOff \/ DestructorStops \/ Destructor \/ Tick
           \/ UNCHANGED lockVars
    PROVE  LockInv'
<1> USE DEF LockInv, LockTypeOK, Order, NotMissed, RoomForRed, WillRelock,
            DestroyedLocked, PubPcs, TimerPcs
<1> USE Durations
<1>1. CASE RedOff
  BY <1>1 DEF RedOff, setPin
<1>2. CASE DestructorStops
  BY <1>2 DEF DestructorStops, StoreStopped
<1>3. CASE DestructorNotifies
  BY <1>3 DEF DestructorNotifies, notify
<1>4. CASE DestructorJoins
  BY <1>4 DEF DestructorJoins
<1>5. CASE DestructorLocks
  BY <1>5 DEF DestructorLocks, setPin
<1>6. CASE Tick
  <2>1. /\ age' \in 0 .. kCooldown \cup {Never}
        /\ nap' \in 0 .. kUnlockDuration
        /\ lag' \in 0 .. Late
    BY <1>6 DEF Tick
  <2> QED
    BY <2>1, <1>6 DEF Tick
<1>7. CASE UNCHANGED lockVars
  BY <1>7 DEF lockVars
<1> QED
  BY <1>1, <1>2, <1>3, <1>4, <1>5, <1>6, <1>7 DEF Destructor

LEMMA LockInvariant == LockSpec => []LockInv
<1>1. ASSUME LockInv, [LockNext]_lockVars PROVE LockInv'
  BY <1>1, PublisherInv, TimerInv, OthersInv DEF LockNext
<1> QED
  BY <1>1, LockInitInv, PTL DEF LockSpec

-----------------------------------------------------------------------------
(* The variables of the lock keep their types.                             *)
THEOREM LockTyping == LockSpec => []LockTypeOK
  BY LockInvariant, PTL DEF LockInv

(* The door is never left unlocked with nobody to lock it: no arming of    *)
(* the timer is lost, however unlocks, relocks and the destructor overlap. *)
THEOREM LockWillRelock == LockSpec => []WillRelock
  BY LockInvariant, PTL DEF LockInv

(* A destroyed lock is locked.                                             *)
THEOREM LockDestroyedLocked == LockSpec => []DestroyedLocked
  BY LockInvariant, PTL DEF LockInv
-----------------------------------------------------------------------------
(* How far the threads may lag behind the clock: less than the door stays  *)
(* unlocked, and so little that a relocking is over before the cooldown    *)
(* is.  The code's 3000 and 5000 ms leave a second.                        *)
Punctual ==
    /\ Late < kUnlockDuration
    /\ kUnlockDuration + 2 * Late < kCooldown

(* The publisher from the granting of an unlock on, and the timer thread   *)
(* from the arming it has taken to the end of the relocking.               *)
Unlocking == {"unlocked", "relayHigh", "arm", "notify", "greenHigh"}
Relocking == {"asleep", "relayLow", "locked", "greenLow", "redLow"}

(* An unlock that is being published, or that the timer thread has not     *)
(* taken yet, is as young as the threads' lag.                             *)
Fresh == age # Never /\ age <= lag

FreshInv ==
    /\ pubPc \in Unlocking => Fresh
    /\ timerArmed /\ timerPc # "exited" => Fresh

(* The timer thread's sleep and the unlock's age add up to the duration of *)
(* the unlock and to not much more.                                        *)
SleepInv ==
    timerPc \in Relocking =>
        /\ age # Never
        /\ nap > 0 => timerPc = "asleep"
        /\ age + nap >= kUnlockDuration
        /\ age + nap <= kUnlockDuration + Late + IF nap = 0 THEN lag ELSE 0

(* So one unlock is over before the next begins.                           *)
OneUnlock ==
    /\ pubPc \in {"unlocked", "relayHigh", "arm"} =>
           ~timerArmed /\ timerPc \notin Relocking
    /\ timerArmed => timerPc \notin Relocking
    /\ pubPc \in {"notify", "greenHigh"} => timerArmed \/ timerPc = "asleep"

(* Which leaves each of the writes one meaning.                            *)
PinsInv ==
    dtorPc = "alive" =>
      /\ pins.relay <=> \/ pubPc = "arm" \/ timerArmed
                        \/ timerPc \in {"asleep", "relayLow"}
      /\ state = "UNLOCKED" <=> \/ pubPc \in {"relayHigh", "arm"}
                                \/ timerArmed
                                \/ timerPc \in {"asleep", "relayLow", "locked"}
      /\ pins.green => \/ timerArmed
                       \/ timerPc \in {"asleep", "relayLow", "locked",
                                       "greenLow"}
      /\ pins.red => reds > 0 \/ pubPc \in {"greenLow", "spawn"}

TimedInv == LockInv /\ FreshInv /\ SleepInv /\ OneUnlock /\ PinsInv

LEMMA TimedInit == LockInit => TimedInv
<1> SUFFICES ASSUME LockInit PROVE TimedInv
  OBVIOUS
<1>1. ~pins.relay /\ ~pins.green /\ ~pins.red
  BY DEF LockInit
<1>2. FreshInv /\ SleepInv /\ OneUnlock
  BY DEF LockInit, FreshInv, SleepInv, OneUnlock, Unlocking, Relocking
<1>3. PinsInv
  BY <1>1 DEF LockInit, PinsInv
<1> QED
  BY <1>2, <1>3, LockInitInv DEF TimedInv

(* The publisher's steps.  A new unlock is granted only when the cooldown  *)
(* is over, and then so is the last relocking.                             *)
LEMMA PublisherTimed ==
    ASSUME Punctual, TimedInv,
           onAccessEvent \/ \E result \in AuthResult : publish(result)
    PROVE  FreshInv' /\ SleepInv' /\ OneUnlock' /\ PinsInv'
<1> USE Durations DEF TimedInv, Fresh, Unlocking, Relocking
<1>t. LockTypeOK /\ Order /\ NotMissed
  BY DEF LockInv
<1>1. CASE \/ PubPin("redHigh", "red", TRUE, "greenLow")
           \/ PubPin("greenLow", "green", FALSE, "spawn")
           \/ PubPin("redLow", "red", FALSE, "try")
  <2>1. /\ UNCHANGED <<state, age, timerArmed, timerPc, nap, reds, dtorPc,
                       lag>>
        /\ pubPc' \in {"greenLow", "spawn", "try"}
        /\ pubPc \in {"redHigh", "greenLow", "redLow"}
    BY <1>1 DEF PubPin
  <2>2. FreshInv' /\ SleepInv' /\ OneUnlock'
    BY <2>1 DEF FreshInv, SleepInv, OneUnlock
  <2>3. /\ pins'.relay = pins.relay
        /\ pins'.green => pins.green
        /\ pins'.red => \/ pubPc' = "greenLow"
                        \/ pubPc' = "spawn"
    BY <1>1, <1>t DEF PubPin, setPin, LockTypeOK
  <2>4. PinsInv'
    BY <2>1, <2>3 DEF PinsInv
  <2> QED
    BY <2>2, <2>4
<1>2. CASE DetachRed \/ \E result \in AuthResult : publish(result)
  <2>1. /\ UNCHANGED <<state, pins, age, timerArmed, timerPc, nap, dtorPc,
                       lag>>
        /\ pubPc \in {"spawn", "idle"}
        /\ pubPc' \in {"idle", "redHigh", "redLow"}
        /\ pubPc = "spawn" => reds' = reds + 1
        /\ pubPc = "idle" => reds' = reds
    BY <1>2 DEF DetachRed, publish, deliver
  <2>2. FreshInv' /\ SleepInv' /\ OneUnlock'
    BY <2>1 DEF FreshInv, SleepInv, OneUnlock
  <2>3. reds \in Nat
    BY <1>t DEF LockTypeOK
  <2>4. PinsInv'
    BY <2>1, <2>3 DEF PinsInv
  <2> QED
    BY <2>2, <2>4
<1>3. CASE tryUnlock
  <2>1. /\ UNCHANGED <<state, pins, timerArmed, timerPc, nap, reds, dtorPc,
                       lag>>
        /\ pubPc = "try" /\ pubPc' \in {"unlocked", "idle"}
    BY <1>3 DEF tryUnlock
  <2>2. PinsInv'
    BY <2>1 DEF PinsInv
  <2>3. CASE age # Never /\ age < kCooldown
    <3>1. pubPc' = "idle" /\ age' = age
      <4>1. age \in Int /\ ~(age >= kCooldown)
        BY <1>t, <2>3 DEF LockTypeOK
      <4> QED
        BY <1>3, <2>3, <4>1 DEF tryUnlock
    <3> QED
      BY <2>1, <2>2, <3>1 DEF FreshInv, SleepInv, OneUnlock
  <2>4. CASE ~(age # Never /\ age < kCooldown)
    <3>1. age' = 0 /\ pubPc' = "unlocked"
      BY <1>3, <2>4 DEF tryUnlock
    <3>2. age \in Int /\ lag \in 0 .. Late /\ nap \in Nat
      BY <1>t DEF LockTypeOK
    <3>3. timerPc # "exited"
      BY <1>t, <2>1 DEF Order
    <3>4. ~timerArmed
      BY <2>4, <3>2, <3>3 DEF FreshInv, Punctual
    <3>5. timerPc \notin Relocking
      <4> SUFFICES ASSUME timerPc \in Relocking PROVE FALSE
        OBVIOUS
      <4>1. age # Never /\ age + nap <= kUnlockDuration + Late + Late
        BY <3>2 DEF SleepInv
      <4> QED
        BY <2>4, <3>2, <4>1 DEF Punctual
    <3> QED
      BY <2>1, <2>2, <3>1, <3>2, <3>4, <3>5
      DEF FreshInv, SleepInv, OneUnlock
  <2> QED
    BY <2>3, <2>4
<1>4. CASE StoreUnlocked
  BY <1>4 DEF StoreUnlocked, FreshInv, SleepInv, OneUnlock, PinsInv
<1>5. CASE PubPin("relayHigh", "relay", TRUE, "arm")
  <2>1. /\ UNCHANGED <<state, age, timerArmed, timerPc, nap, reds, dtorPc,
                       lag>>
        /\ pubPc = "relayHigh" /\ pubPc' = "arm"
    BY <1>5 DEF PubPin
  <2>2. pins'.relay /\ pins'.green = pins.green /\ pins'.red = pins.red
    BY <1>5, <1>t DEF PubPin, setPin, LockTypeOK
  <2> QED
    BY <2>1, <2>2 DEF FreshInv, SleepInv, OneUnlock, PinsInv
<1>6. CASE ArmTimer
  <2>1. /\ UNCHANGED <<state, pins, age, timerPc, nap, reds, dtorPc, lag>>
        /\ pubPc = "arm" /\ pubPc' = "notify" /\ timerArmed'
    BY <1>6 DEF ArmTimer
  <2> QED
    BY <2>1 DEF FreshInv, SleepInv, OneUnlock, PinsInv
<1>7. CASE NotifyTimer
  <2>1. /\ UNCHANGED <<state, pins, age, timerArmed, nap, reds, dtorPc, lag>>
        /\ pubPc = "notify" /\ pubPc' = "greenHigh"
        /\ timerPc' = timerPc \/ (timerPc = "waiting" /\ timerPc' = "acquire")
    BY <1>7 DEF NotifyTimer, notify
  <2> QED
    BY <2>1 DEF FreshInv, SleepInv, OneUnlock, PinsInv
<1>8. CASE PubPin("greenHigh", "green", TRUE, "idle")
  <2>1. /\ UNCHANGED <<state, age, timerArmed, timerPc, nap, reds, dtorPc,
                       lag>>
        /\ pubPc = "greenHigh" /\ pubPc' = "idle"
    BY <1>8 DEF PubPin
  <2>2. pins'.relay = pins.relay /\ pins'.red = pins.red
    BY <1>8, <1>t DEF PubPin, setPin, LockTypeOK
  <2> QED
    BY <2>1, <2>2 DEF FreshInv, SleepInv, OneUnlock, PinsInv
<1> QED
  BY <1>1, <1>2, <1>3, <1>4, <1>5, <1>6, <1>7, <1>8 DEF onAccessEvent

(* The timer thread's steps.  It wakes up when the publisher has long      *)
(* returned.                                                               *)
LEMMA TimerTimed ==
    ASSUME Punctual, TimedInv, timerLoop \/ TimerSpurious
    PROVE  FreshInv' /\ SleepInv' /\ OneUnlock' /\ PinsInv'
<1> USE Durations DEF TimedInv, Fresh, Unlocking, Relocking
<1>t. LockTypeOK /\ Order /\ NotMissed
  BY DEF LockInv
<1>n. age \in Int /\ lag \in 0 .. Late /\ nap \in Nat
  BY <1>t DEF LockTypeOK
<1>1. CASE TimerTop \/ TimerWait \/ TimerSpurious
  <2>1. /\ UNCHANGED <<state, pins, age, timerArmed, pubPc, nap, reds, dtorPc,
                       lag>>
        /\ timerPc \notin Relocking /\ timerPc' \notin Relocking
        /\ timerPc # "exited"
    BY <1>1 DEF TimerTop, TimerWait, TimerSpurious
  <2>2. FreshInv' /\ SleepInv' /\ OneUnlock'
    BY <2>1 DEF FreshInv, SleepInv, OneUnlock
  <2>3. PinsInv'
    BY <2>1 DEF PinsInv
  <2> QED
    BY <2>2, <2>3
<1>2. CASE TimerTest
  <2>1. /\ UNCHANGED <<state, pins, age, pubPc, reds, dtorPc, lag>>
        /\ timerPc = "acquire"
    BY <1>2 DEF TimerTest
  <2>2. CASE timerArmed /\ running
    <3>1. ~timerArmed' /\ nap' = kUnlockDuration /\ timerPc' = "asleep"
      BY <1>2, <2>2 DEF TimerTest
    <3>2. age # Never /\ age <= lag /\ age \in Nat
      BY <1>t, <2>1, <2>2 DEF FreshInv, LockTypeOK
    <3>3. FreshInv' /\ OneUnlock'
      BY <2>1, <2>2, <3>1 DEF FreshInv, OneUnlock
    <3>4. SleepInv'
      BY <1>n, <2>1, <3>1, <3>2 DEF SleepInv, Punctual
    <3>5. PinsInv'
      BY <2>1, <2>2, <3>1 DEF PinsInv, OneUnlock
    <3> QED
      BY <3>3, <3>4, <3>5
  <2>3. CASE ~(timerArmed /\ running)
    <3>1. /\ UNCHANGED <<timerArmed, nap>>
          /\ timerPc' \in {"block", "exited"}
      BY <1>2, <2>3 DEF TimerTest
    <3>2. FreshInv' /\ SleepInv' /\ OneUnlock'
      BY <2>1, <3>1 DEF FreshInv, SleepInv, OneUnlock
    <3>3. PinsInv'
      BY <2>1, <3>1 DEF PinsInv
    <3> QED
      BY <3>2, <3>3
  <2> QED
    BY <2>2, <2>3
<1>3. CASE TimerWakes
  <2>1. /\ UNCHANGED <<state, pins, age, timerArmed, pubPc, nap, reds, dtorPc,
                       lag>>
        /\ timerPc = "asleep" /\ timerPc' = "relayLow" /\ nap = 0
    BY <1>3 DEF TimerWakes
  <2>2. age >= kUnlockDuration
    BY <1>n, <2>1 DEF SleepInv
  <2>3. pubPc \notin Unlocking
    BY <1>n, <2>2 DEF FreshInv, Punctual
  <2>4. FreshInv' /\ SleepInv' /\ OneUnlock'
    BY <2>1, <2>3 DEF FreshInv, SleepInv, OneUnlock
  <2>5. PinsInv'
    BY <2>1 DEF PinsInv
  <2> QED
    BY <2>4, <2>5
<1>4. ASSUME /\ timerPc \in {"relayLow", "locked", "greenLow", "redLow"}
             /\ timerPc' \in {"locked", "greenLow", "redLow", "top"}
             /\ UNCHANGED <<age, timerArmed, pubPc, nap, lag>>
      PROVE  FreshInv' /\ SleepInv' /\ OneUnlock'
  <2>1. pubPc \notin Unlocking /\ ~timerArmed /\ ~(nap > 0)
    BY <1>4 DEF OneUnlock, SleepInv
  <2> QED
    BY <1>4, <2>1 DEF FreshInv, SleepInv, OneUnlock
<1>5. CASE TimerPin("relayLow", "relay", FALSE, "locked")
  <2>1. /\ UNCHANGED <<state, age, timerArmed, pubPc, nap, reds, dtorPc, lag>>
        /\ timerPc = "relayLow" /\ timerPc' = "locked"
    BY <1>5 DEF TimerPin
  <2>2. /\ ~pins'.relay /\ pins'.green = pins.green /\ pins'.red = pins.red
    BY <1>5, <1>t DEF TimerPin, setPin, LockTypeOK
  <2>3. pubPc # "arm" /\ ~timerArmed
    BY <2>1 DEF OneUnlock
  <2>4. PinsInv'
    BY <2>1, <2>2, <2>3 DEF PinsInv
  <2> QED
    BY <1>4, <2>1, <2>4
<1>6. CASE TimerLocked
  <2>1. /\ UNCHANGED <<pins, age, timerArmed, pubPc, nap, reds, dtorPc, lag>>
        /\ timerPc = "locked" /\ timerPc' = "greenLow" /\ state' = "LOCKED"
    BY <1>6 DEF TimerLocked
  <2>2. pubPc \notin {"relayHigh", "arm"} /\ ~timerArmed
    BY <2>1 DEF OneUnlock
  <2>3. PinsInv'
    BY <2>1, <2>2 DEF PinsInv
  <2> QED
    BY <1>4, <2>1, <2>3
<1>7. CASE TimerPin("greenLow", "green", FALSE, "redLow")
  <2>1. /\ UNCHANGED <<state, age, timerArmed, pubPc, nap, reds, dtorPc, lag>>
        /\ timerPc = "greenLow" /\ timerPc' = "redLow"
    BY <1>7 DEF TimerPin
  <2>2. /\ pins'.relay = pins.relay /\ ~pins'.green /\ pins'.red = pins.red
    BY <1>7, <1>t DEF TimerPin, setPin, LockTypeOK
  <2>3. PinsInv'
    BY <2>1, <2>2 DEF PinsInv
  <2> QED
    BY <1>4, <2>1, <2>3
<1>8. CASE TimerPin("redLow", "red", FALSE, "top")
  <2>1. /\ UNCHANGED <<state, age, timerArmed, pubPc, nap, reds, dtorPc, lag>>
        /\ timerPc = "redLow" /\ timerPc' = "top"
    BY <1>8 DEF TimerPin
  <2>2. /\ pins'.relay = pins.relay /\ pins'.green = pins.green
        /\ ~pins'.red
    BY <1>8, <1>t DEF TimerPin, setPin, LockTypeOK
  <2>3. PinsInv'
    BY <2>1, <2>2 DEF PinsInv
  <2> QED
    BY <1>4, <2>1, <2>3
<1> QED
  BY <1>1, <1>2, <1>3, <1>5, <1>6, <1>7, <1>8 DEF timerLoop

(* Time and the rest.  While an unlock is fresh or a relocking awake some  *)
(* thread could run, so that the lag grows with the age.                   *)
LEMMA OthersTimed ==
    ASSUME Punctual, TimedInv,
           \/ RedOff \/ DestructorStops \/ Destructor \/ Tick
           \/ UNCHANGED lockVars
    PROVE  FreshInv' /\ SleepInv' /\ OneUnlock' /\ PinsInv'
<1> USE Durations DEF TimedInv, Fresh, Unlocking, Relocking
<1>t. LockTypeOK /\ Order /\ NotMissed
  BY DEF LockInv
<1>n. age \in Int /\ lag \in 0 .. Late /\ nap \in Nat
  BY <1>t DEF LockTypeOK
<1>1. CASE RedOff
  <2>1. /\ UNCHANGED <<state, age, timerArmed, pubPc, timerPc, nap, dtorPc,
                       lag>>
    BY <1>1 DEF RedOff
  <2>2. /\ pins'.relay = pins.relay /\ pins'.green = pins.green
        /\ ~pins'.red
    BY <1>1, <1>t DEF RedOff, setPin, LockTypeOK
  <2>3. FreshInv' /\ SleepInv' /\ OneUnlock'
    BY <2>1 DEF FreshInv, SleepInv, OneUnlock
  <2>4. PinsInv'
    BY <2>1, <2>2 DEF PinsInv
  <2> QED
    BY <2>3, <2>4
<1>2. CASE DestructorStops \/ Destructor
  <2>1. /\ UNCHANGED <<age, timerArmed, pubPc, nap, lag>>
        /\ dtorPc' # "alive"
        /\ timerPc' = timerPc \/ (timerPc = "waiting" /\ timerPc' = "acquire")
    BY <1>2 DEF DestructorStops, StoreStopped, Destructor,
                DestructorNotifies, DestructorJoins, DestructorLocks, notify
  <2>2. FreshInv' /\ SleepInv' /\ OneUnlock'
    BY <2>1 DEF FreshInv, SleepInv, OneUnlock
  <2>3. PinsInv'
    BY <2>1 DEF PinsInv
  <2> QED
    BY <2>2, <2>3
<1>3. CASE Tick
  <2>1. /\ UNCHANGED <<state, pins, timerArmed, pubPc, timerPc, reds, dtorPc>>
        /\ lag' = IF Busy THEN lag + 1 ELSE 0
        /\ age' = IF age = Never \/ age >= kCooldown THEN age ELSE age + 1
        /\ nap' = IF nap > 0 THEN nap - 1 ELSE 0
    BY <1>3 DEF Tick
  <2>2. OneUnlock' /\ PinsInv'
    BY <2>1 DEF OneUnlock, PinsInv
  <2>3. Fresh /\ Busy => Fresh'
    <3> SUFFICES ASSUME Fresh, Busy PROVE Fresh'
      OBVIOUS
    <3>1. age \in Nat /\ age <= lag
      BY <1>t DEF LockTypeOK
    <3>2. lag' = lag + 1 /\ (age' = age \/ age' = age + 1)
      BY <2>1
    <3> QED
      BY <1>n, <3>1, <3>2
  <2>4. pubPc \in Unlocking => Busy
    BY DEF Busy
  <2>5. timerArmed /\ timerPc # "exited" => Busy
    <3> SUFFICES ASSUME timerArmed, timerPc # "exited" PROVE Busy
      OBVIOUS
    <3>1. timerPc # "asleep"
      BY DEF OneUnlock
    <3>2. CASE timerPc = "waiting"
      BY <1>t, <3>2 DEF NotMissed, Busy
    <3>3. CASE timerPc # "waiting"
      BY <3>1, <3>3 DEF Busy
    <3> QED
      BY <3>2, <3>3
  <2>6. FreshInv'
    BY <2>1, <2>3, <2>4, <2>5 DEF FreshInv
  <2>7. SleepInv'
    <3> SUFFICES ASSUME timerPc \in Relocking PROVE SleepInv'
      BY <2>1 DEF SleepInv
    <3>1. /\ age # Never /\ age \in Nat /\ age < kCooldown
          /\ age + nap >= kUnlockDuration
      BY <1>n, <1>t DEF SleepInv, LockTypeOK, Punctual
    <3>2. age' = age + 1
      BY <2>1, <3>1
    <3>3. CASE nap > 0
      BY <1>n, <2>1, <3>1, <3>2, <3>3 DEF SleepInv
    <3>4. CASE nap = 0
      <4>1. Busy
        BY <3>4 DEF Busy
      <4> QED
        BY <1>n, <2>1, <3>1, <3>2, <3>4, <4>1 DEF SleepInv
    <3> QED
      BY <1>n, <3>3, <3>4
  <2> QED
    BY <2>2, <2>6, <2>7
<1>4. CASE UNCHANGED lockVars
  BY <1>4 DEF lockVars, FreshInv, SleepInv, OneUnlock, PinsInv
<1> QED
  BY <1>1, <1>2, <1>3, <1>4

LEMMA TimedInvariant == ASSUME Punctual PROVE LockSpec => []TimedInv
<1>1. TimedInv /\ [LockNext]_lockVars => TimedInv'
  <2> SUFFICES ASSUME TimedInv, [LockNext]_lockVars PROVE TimedInv'
    OBVIOUS
  <2>1. LockInv'
    BY PublisherInv, TimerInv, OthersInv DEF LockNext, TimedInv
  <2>2. FreshInv' /\ SleepInv' /\ OneUnlock' /\ PinsInv'
    BY PublisherTimed, TimerTimed, OthersTimed DEF LockNext
  <2> QED
    BY <2>1, <2>2 DEF TimedInv
<1> QED
  BY <1>1, TimedInit, PTL DEF LockSpec

(* When the threads have nothing to do isLocked() tells what the relay     *)
(* does and the LEDs have their reasons, for all durations and any number  *)
(* of refusals, as long as the threads are punctual (DoorLock.cpp:77).     *)
THEOREM LockStateMatchesPins ==
    ASSUME Punctual PROVE LockSpec => []StateMatchesPins
<1>1. TimedInv => StateMatchesPins
  <2> SUFFICES ASSUME TimedInv, Quiet, dtorPc = "alive"
               PROVE  /\ pins.relay <=> state = "UNLOCKED"
                      /\ pins.green => pins.relay
                      /\ pins.red => reds > 0
    BY DEF StateMatchesPins
  <2>1. timerPc = "waiting" => ~timerArmed
    BY DEF TimedInv, LockInv, NotMissed, Quiet
  <2> QED
    BY <2>1 DEF TimedInv, PinsInv, Quiet
<1> QED
  BY <1>1, TimedInvariant, PTL

(* The timer thread never lowers the relay before the latest unlock has    *)
(* lasted its time, as long as the threads are punctual (DoorLock.cpp:77). *)
THEOREM LockUnlockLasts ==
    ASSUME Punctual PROVE LockSpec => UnlockLasts
<1>1. TimedInv /\ [LockNext]_lockVars =>
          [(timerPc = "relayLow" /\ pins.relay /\ ~pins.relay')
               => age >= kUnlockDuration]_lockVars
  <2> SUFFICES ASSUME TimedInv, timerPc = "relayLow"
               PROVE  age >= kUnlockDuration
    OBVIOUS
  <2>1. /\ ~(nap > 0) /\ age + nap >= kUnlockDuration
        /\ nap \in Nat /\ age \in Int
    BY Durations
    DEF TimedInv, SleepInv, Relocking, LockInv, LockTypeOK
  <2> QED
    BY <2>1, Durations
<1> QED
  BY <1>1, TimedInvariant, PTL DEF LockSpec, UnlockLasts
=============================================================================
