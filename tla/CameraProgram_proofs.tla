------------------------ MODULE CameraProgram_proofs ------------------------
(***************************************************************************)
(* The camera program uses its lock the way DoorLock assumes, for every    *)
(* database, every sequence of frames and all bounds, so that what is      *)
(* proved of the lock alone holds in the program; its queues keep to their *)
(* bounds, and faces are recognised as whom they are most similar to.      *)
(***************************************************************************)
EXTENDS CameraProgram, DoorLock_proofs, WellFoundedInduction,
        FiniteSetTheorems

(* Who is inside the lock holds the bus; main passes a join only behind    *)
(* the thread it joins, and destroys the lock after the last of them.      *)
UsersInv ==
    /\ step \in 0 .. 11
    /\ pubPc # "idle" => ~BusFree
    /\ step > 3 => recAt = "exited"
    /\ step > 9 => guiAt = "exited"
    /\ step < 11 => dtorPc = "alive"

(* Where the steps of the tear-down that matter here are in it.            *)
LEMMA TeardownSteps ==
    /\ DOMAIN Teardown = 1 .. 10
    /\ Teardown[3] = [do |-> "join", to |-> "recognition"]
    /\ Teardown[9] = [do |-> "join", to |-> "gui"]
    /\ \A i \in 1 .. 10 : Teardown[i].do = "destroy" => i = 10
    /\ Teardown[10].do = "destroy"
  BY DEF Teardown

(* The program starts with nobody in the lock.                             *)
LEMMA UsersInit == Init => UsersInv
  BY DEF Init, LockInit, UsersInv, BusFree

(* main keeps the invariant, and destroys a lock nobody is in.             *)
LEMMA MainKeeps ==
    ASSUME UsersInv, Main
    PROVE  UsersInv' /\ [LockNext]_lockVars
<1> USE TeardownSteps DEF UsersInv, BusFree, recVars
<1>1. CASE MainPolls
  BY <1>1 DEF MainPolls, lockVars, guiVars
<1>2. CASE MainFlags
  <2>1. step # 3 /\ step # 9 /\ step # 10
    BY <1>2 DEF MainFlags, MainDoes
  <2> QED
    BY <1>2, <2>1 DEF MainFlags, MainDoes, lockVars
<1>3. CASE MainShuts
  <2>1. step # 3 /\ step # 9 /\ step # 10
    BY <1>3 DEF MainShuts, MainDoes
  <2> QED
    BY <1>3, <2>1 DEF MainShuts, MainDoes, lockVars
<1>4. CASE MainCloses
  <2>1. step # 3 /\ step # 9 /\ step # 10
    BY <1>4 DEF MainCloses, MainDoes
  <2> QED
    BY <1>4, <2>1 DEF MainCloses, MainDoes, lockVars
<1>5. CASE MainJoins
  <2>1. step # 10
    BY <1>5 DEF MainJoins, MainDoes
  <2>2. /\ step = 3 => recAt = "exited"
        /\ step = 9 => guiAt = "exited"
    BY <1>5 DEF MainJoins, MainDoes, To
  <2> QED
    BY <1>5, <2>1, <2>2 DEF MainJoins, MainDoes, lockVars
<1>6. CASE MainDestroys
  <2>1. step = 10 /\ step' = 11
    BY <1>6 DEF MainDestroys, MainDoes
  <2>2. pubPc = "idle"
    BY <2>1
  <2>3. DestructorStops
    BY <1>6, <2>2 DEF MainDestroys, DestructorStops
  <2> QED
    BY <1>6, <2>1, <2>3
    DEF MainDestroys, MainDoes, StoreStopped, LockNext
<1> QED
  BY <1>1, <1>2, <1>3, <1>4, <1>5, <1>6 DEF Main

(* So does the recognition thread, which publishes to a living lock.       *)
LEMMA RecKeeps ==
    ASSUME UsersInv, Rec \/ RecEsc
    PROVE  UsersInv' /\ [LockNext]_lockVars
<1> USE DEF UsersInv, BusFree, RecGoes, mainVars, guiVars
<1>1. CASE RecTests
  BY <1>1 DEF RecTests, lockVars
<1>2. CASE RecEsc
  BY <1>2 DEF RecEsc, lockVars
<1>3. CASE RecPops
  BY <1>3 DEF RecPops, lockVars
<1>4. CASE RecEnds
  BY <1>4 DEF RecEnds, lockVars
<1>5. CASE RecFace
  BY <1>5 DEF RecFace, lockVars
<1>6. CASE RecPublishes
  <2>1. deliver(Head(evs).result) /\ recAt = "publish" /\ recAt' = "inside"
    BY <1>6 DEF RecPublishes, publishOn
  <2>2. dtorPc = "alive"
    BY <2>1
  <2>3. \E result \in AuthResult : publish(result)
    <3>1. CASE Head(evs).result = "DENIED"
      BY <2>1, <2>2, <3>1 DEF publish, AuthResult
    <3>2. CASE Head(evs).result # "DENIED"
      <4>1. deliver("GRANTED")
        BY <2>1, <3>2 DEF deliver
      <4> QED
        BY <4>1, <2>2 DEF publish, AuthResult
    <3> QED
      BY <3>1, <3>2
  <2>4. UsersInv'
    BY <1>6, <2>1 DEF RecPublishes, deliver
  <2> QED
    BY <2>3, <2>4 DEF LockNext
<1>7. CASE RecReturns
  BY <1>7 DEF RecReturns, lockVars
<1> QED
  BY <1>1, <1>2, <1>3, <1>4, <1>5, <1>6, <1>7 DEF Rec

(* So does the thread of the GUI.                                          *)
LEMMA GuiKeeps ==
    ASSUME UsersInv, Gui \/ GuiOverride \/ GuiNotes \/ GuiOther \/ GuiFails
    PROVE  UsersInv' /\ [LockNext]_lockVars
<1> USE DEF UsersInv, BusFree, GuiGoes, mainVars, recVars
<1>1. CASE GuiOpens
  BY <1>1 DEF GuiOpens, lockVars
<1>2. CASE GuiTests
  BY <1>2 DEF GuiTests, lockVars
<1>3. CASE GuiOverride
  BY <1>3 DEF GuiOverride, lockVars
<1>4. CASE GuiNotes \/ GuiOther \/ GuiFails
  BY <1>4 DEF GuiNotes, GuiOther, GuiFails, lockVars
<1>5. CASE GuiPublishes
  <2>1. deliver(reply) /\ guiAt = "publish" /\ guiAt' = "inside"
    BY <1>5 DEF GuiPublishes, publishOn
  <2>2. dtorPc = "alive"
    BY <2>1
  <2>3. \E result \in AuthResult : publish(result)
    <3>1. CASE reply = "DENIED"
      BY <2>1, <2>2, <3>1 DEF publish, AuthResult
    <3>2. CASE reply # "DENIED"
      <4>1. deliver("GRANTED")
        BY <2>1, <3>2 DEF deliver
      <4> QED
        BY <4>1, <2>2 DEF publish, AuthResult
    <3> QED
      BY <3>1, <3>2
  <2>4. UsersInv'
    BY <1>5, <2>1 DEF GuiPublishes, deliver
  <2> QED
    BY <2>3, <2>4 DEF LockNext
<1>6. CASE GuiReturns
  BY <1>6 DEF GuiReturns, lockVars
<1> QED
  BY <1>1, <1>2, <1>3, <1>4, <1>5, <1>6 DEF Gui

(* The lock's own steps do not take anybody in.                            *)
LEMMA LockKeeps ==
    ASSUME UsersInv,
           \/ InLock
           \/ Alone(RedOff) \/ Alone(timerLoop) \/ Alone(TimerSpurious)
           \/ Alone(Destructor) \/ Alone(Tick)
    PROVE  UsersInv' /\ [LockNext]_lockVars
<1> USE DEF UsersInv, BusFree, Alone, othersVars, mainVars, recVars, guiVars
<1>1. CASE InLock
  <2>1. pubPc # "idle" /\ UNCHANGED dtorPc
    BY <1>1 DEF InLock, onAccessEvent, PubPin, DetachRed, tryUnlock,
                StoreUnlocked, ArmTimer, NotifyTimer
  <2> QED
    BY <1>1, <2>1 DEF InLock, LockNext
<1>2. CASE Alone(RedOff)
  BY <1>2 DEF RedOff, LockNext
<1>3. CASE Alone(timerLoop)
  <2>1. UNCHANGED <<pubPc, dtorPc>>
    BY <1>3 DEF timerLoop, TimerTop, TimerTest, TimerWait, TimerWakes,
                TimerPin, TimerLocked
  <2> QED
    BY <1>3, <2>1 DEF LockNext
<1>4. CASE Alone(TimerSpurious)
  BY <1>4 DEF TimerSpurious, LockNext
<1>5. CASE Alone(Destructor)
  <2>1. dtorPc # "alive" /\ UNCHANGED pubPc
    BY <1>5 DEF Destructor, DestructorNotifies, DestructorJoins,
                DestructorLocks
  <2> QED
    BY <1>5, <2>1 DEF LockNext
<1>6. CASE Alone(Tick)
  BY <1>6 DEF Tick, LockNext
<1> QED
  BY <1>1, <1>2, <1>3, <1>4, <1>5, <1>6

(* Nobody else touches the lock.                                           *)
LEMMA OthersKeep ==
    ASSUME UsersInv,
           \/ Signal \/ CamOpens \/ CamFails \/ CamReads \/ CamExits
           \/ LogWrites \/ LogExits \/ UNCHANGED camVars
    PROVE  UsersInv' /\ [LockNext]_lockVars
  BY DEF UsersInv, BusFree, Signal, CamOpens, CamFails, CamReads, CamExits,
         CamGoes, LogWrites, LogExits, camVars, lockVars, mainVars, recVars,
         guiVars

(* Every step keeps the invariant and is a step of the lock or none of it. *)
LEMMA CamStep ==
    ASSUME UsersInv, [Next]_camVars
    PROVE  UsersInv' /\ [LockNext]_lockVars
  BY MainKeeps, RecKeeps, GuiKeeps, LockKeeps, OthersKeep
  DEF Next, Threads, World

-----------------------------------------------------------------------------
(* The program around the lock implements the lock's specification: events *)
(* reach it one at a time, and none does once main has begun to destroy    *)
(* it, though EventBus keeps its callback for ever.                        *)
THEOREM CamImplementsLock == CamSpec => LockSpec
<1>1. Init => LockInit
  BY DEF Init
<1> QED
  BY <1>1, UsersInit, CamStep, PTL DEF CamSpec, LockSpec

(* So the door is never left unlocked in it with nobody to lock it.        *)
THEOREM CamWillRelock == CamSpec => []WillRelock
  BY CamImplementsLock, LockWillRelock, PTL

(* And the program leaves a locked door behind when it has ended.          *)
THEOREM CamDestroyedLocked == CamSpec => []DestroyedLocked
  BY CamImplementsLock, LockDestroyedLocked, PTL

(* With punctual threads a door that a face, the override or the GUI has   *)
(* unlocked stays so for its time, whoever else publishes meanwhile.       *)
THEOREM CamUnlockLasts ==
    ASSUME Punctual PROVE CamSpec => UnlockLasts
  BY CamImplementsLock, LockUnlockLasts, PTL

(* And isLocked() agrees with the relay whenever its threads are at rest.  *)
THEOREM CamStateMatchesPins ==
    ASSUME Punctual PROVE CamSpec => []StateMatchesPins
  BY CamImplementsLock, LockStateMatchesPins, PTL

-----------------------------------------------------------------------------
(* Induction over the naturals, with a set in the place of a predicate.    *)
LEMMA NatSetInduction ==
    ASSUME NEW T, 0 \in T, \A n \in Nat : n \in T => n + 1 \in T
    PROVE  Nat \subseteq T
<1> DEFINE less == {ss \in Nat \X Nat : ss[1] < ss[2]}
           rest == Nat \ T
<1>1. IsWellFoundedOn(less, Nat)
  BY NatLessThanWellFounded, Zenon DEF OpToRel
<1> HIDE DEF less
<1> SUFFICES ASSUME rest # {} PROVE FALSE
  OBVIOUS
<1>2. rest \subseteq Nat
  OBVIOUS
<1>3. PICK x \in rest : \A y \in rest : <<y, x>> \notin less
  BY <1>1, <1>2, WFMin
<1>4. x \in Nat \ {0} /\ x - 1 \in Nat /\ (x - 1) + 1 = x
  BY <1>3
<1>5. <<x - 1, x>> \in less
  BY <1>4 DEF less
<1>6. x - 1 \in T
  BY <1>3, <1>4, <1>5
<1> QED
  BY <1>3, <1>4, <1>6

(* The loop over the database: where it begins, and one round of it.       *)
NoMatch == [name |-> "Unknown", score |-> 0]

Better(b, s, name) ==
    IF s > b.score
    THEN [name |-> IF s >= kMatchThreshold THEN name ELSE b.name,
          score |-> s]
    ELSE b

Loop(f, n, score) ==
    f = [i \in 0 .. n |-> IF i = 0 THEN NoMatch
                          ELSE Better(f[i - 1], score[i], Names[i])]

(* What the loop is meant to have found after entry i.                     *)
IsBest(b, i, score) ==
    /\ b.score \in Nat
    /\ \A k \in 1 .. i : score[k] <= b.score
    /\ \/ b.name = "Unknown" /\ b.score < kMatchThreshold
       \/ \E j \in 1 .. i : /\ Names[j] = b.name
                            /\ score[j] = b.score
                            /\ b.score >= kMatchThreshold

LEMMA Database == Len(Names) \in Nat /\ kMatchThreshold \in Nat \ {0}
<1>1. Names \in Seq({Names[i] : i \in Entries})
  BY CameraAssumption DEF CameraAssumption
<1>2. kMatchThreshold \in Nat \ {0}
  BY CameraAssumption DEF CameraAssumption
<1> QED
  BY <1>1, <1>2

(* The loop has a result for every length of the database.                 *)
LEMMA LoopExists ==
    ASSUME NEW score
    PROVE  \A n \in Nat : \E f : Loop(f, n, score)
<1> DEFINE T == {n \in Nat : \E f : Loop(f, n, score)}
<1>1. 0 \in T
  <2> DEFINE f == [i \in 0 .. 0 |-> NoMatch]
  <2>1. Loop(f, 0, score)
    BY DEF Loop
  <2> QED
    BY <2>1
<1>2. ASSUME NEW n \in Nat, n \in T PROVE n + 1 \in T
  <2>1. PICK f : Loop(f, n, score)
    BY <1>2
  <2> DEFINE g == [i \in 0 .. n + 1 |->
                      IF i = n + 1
                      THEN Better(f[n], score[n + 1], Names[n + 1])
                      ELSE f[i]]
             h == [i \in 0 .. n + 1 |->
                      IF i = 0 THEN NoMatch
                      ELSE Better(g[i - 1], score[i], Names[i])]
  <2>2. \A i \in 0 .. n : f[i] = IF i = 0 THEN NoMatch
                                 ELSE Better(f[i - 1], score[i], Names[i])
    BY <2>1 DEF Loop
  <2>3. \A i \in 0 .. n + 1 : g[i] = h[i]
    <3> SUFFICES ASSUME NEW i \in 0 .. n + 1 PROVE g[i] = h[i]
      OBVIOUS
    <3>1. CASE i = 0
      BY <2>2, <3>1
    <3>2. CASE i = n + 1
      <4>1. g[i - 1] = f[n]
        BY <3>2
      <4> QED
        BY <3>2, <4>1
    <3>3. CASE i \in 1 .. n
      <4>1. g[i - 1] = f[i - 1] /\ g[i] = f[i]
        BY <3>3
      <4> QED
        BY <2>2, <3>3, <4>1
    <3> QED
      BY <3>1, <3>2, <3>3
  <2>4. g = h
    BY <2>3
  <2>5. Loop(g, n + 1, score)
    BY <2>4 DEF Loop
  <2> QED
    BY <2>5
<1>3. Nat \subseteq T
  BY <1>1, <1>2, NatSetInduction
<1> QED
  BY <1>3

(* Every round keeps the best of the entries seen.                         *)
LEMMA LoopFinds ==
    ASSUME NEW n \in Nat, NEW score \in [1 .. n -> Int],
           NEW f, Loop(f, n, score)
    PROVE  \A i \in 0 .. n : IsBest(f[i], i, score)
<1> USE Database
<1> DEFINE T == {i \in Nat : i <= n => IsBest(f[i], i, score)}
<1>1. \A i \in 0 .. n : f[i] = IF i = 0 THEN NoMatch
                               ELSE Better(f[i - 1], score[i], Names[i])
  BY DEF Loop
<1>2. 0 \in T
  <2>1. f[0] = NoMatch
    BY <1>1
  <2>2. NoMatch.score = 0 /\ NoMatch.name = "Unknown"
    BY DEF NoMatch
  <2> QED
    BY <2>1, <2>2 DEF IsBest
<1>3. ASSUME NEW m \in Nat, m \in T PROVE m + 1 \in T
  <2> SUFFICES ASSUME m + 1 <= n PROVE IsBest(f[m + 1], m + 1, score)
    OBVIOUS
  <2> DEFINE b == f[m]
             s == score[m + 1]
             name == Names[m + 1]
  <2>1. IsBest(b, m, score)
    BY <1>3
  <2>2. f[m + 1] = Better(b, s, name)
    BY <1>1
  <2>3. s \in Int /\ m + 1 \in 1 .. n
    OBVIOUS
  <2>4. CASE s > b.score /\ s >= kMatchThreshold
    <3>1. f[m + 1].name = name /\ f[m + 1].score = s
      BY <2>2, <2>4 DEF Better
    <3>2. s \in Nat /\ \A k \in 1 .. m + 1 : score[k] <= s
      <4>1. s \in Nat
        BY <2>1, <2>3, <2>4 DEF IsBest
      <4>2. ASSUME NEW k \in 1 .. m + 1 PROVE score[k] <= s
        <5>1. CASE k = m + 1
          BY <4>1, <5>1
        <5>2. CASE k \in 1 .. m
          <6>1. k \in 1 .. n
            BY <2>3, <5>2
          <6>2. score[k] \in Int /\ score[k] <= b.score /\ b.score \in Nat
            BY <2>1, <5>2, <6>1 DEF IsBest
          <6> HIDE DEF b, s
          <6> QED
            BY <2>3, <2>4, <6>2
        <5> QED
          BY <5>1, <5>2
      <4> QED
        BY <4>1, <4>2
    <3> QED
      BY <2>4, <3>1, <3>2 DEF IsBest
  <2>5. CASE s > b.score /\ ~(s >= kMatchThreshold)
    <3>1. f[m + 1].name = b.name /\ f[m + 1].score = s
      BY <2>2, <2>5 DEF Better
    <3>2. s \in Nat /\ \A k \in 1 .. m + 1 : score[k] <= s
      <4>1. s \in Nat
        BY <2>1, <2>3, <2>5 DEF IsBest
      <4>2. ASSUME NEW k \in 1 .. m + 1 PROVE score[k] <= s
        <5>1. CASE k = m + 1
          BY <4>1, <5>1
        <5>2. CASE k \in 1 .. m
          <6>1. k \in 1 .. n
            BY <2>3, <5>2
          <6>2. score[k] \in Int /\ score[k] <= b.score /\ b.score \in Nat
            BY <2>1, <5>2, <6>1 DEF IsBest
          <6> HIDE DEF b, s
          <6> QED
            BY <2>3, <2>5, <6>2
        <5> QED
          BY <5>1, <5>2
      <4> QED
        BY <4>1, <4>2
    <3>3. b.name = "Unknown"
      BY <2>1, <2>3, <2>5 DEF IsBest
    <3> QED
      BY <2>3, <2>5, <3>1, <3>2, <3>3 DEF IsBest
  <2>6. CASE ~(s > b.score)
    <3>1. f[m + 1] = b
      BY <2>2, <2>6 DEF Better
    <3>2. \A k \in 1 .. m + 1 : score[k] <= b.score
      BY <2>1, <2>3, <2>6 DEF IsBest
    <3> QED
      BY <2>1, <3>1, <3>2 DEF IsBest
  <2> QED
    BY <2>4, <2>5, <2>6
<1>4. Nat \subseteq T
  BY <1>2, <1>3, NatSetInduction
<1> QED
  BY <1>4

(* FaceRecognizer's loop finds the entry a face is most similar to, if it  *)
(* is similar enough to any, whatever the database and the scores          *)
(* (FaceRecognizer.cpp:67).                                                *)
LEMMA BestMatchFinds ==
    ASSUME NEW score \in [Entries -> Int]
    PROVE  IsBest(bestMatch(score), Len(Names), score)
<1> DEFINE n == Len(Names)
<1>1. n \in Nat
  BY Database
<1>2. \E f : Loop(f, n, score)
  BY <1>1, LoopExists
<1>3. PICK f : Loop(f, n, score) /\ bestMatch(score) = f[n]
  BY <1>2 DEF Loop, Better, NoMatch, bestMatch
<1>4. IsBest(f[n], n, score)
  BY <1>1, <1>3, LoopFinds DEF Entries
<1> QED
  BY <1>3, <1>4

-----------------------------------------------------------------------------
(* What the threads outside the recognition hold.                          *)
ProgramInv ==
    /\ gShutdown \in BOOLEAN
    /\ stopped \subseteq {"recognition", "camera", "gui"}
    /\ framesShut \in BOOLEAN
    /\ camAt \in {"start", "loop", "exited"}
    /\ guiAt \in {"start", "loop", "accept", "publish", "inside", "exited"}
    /\ reply \in {"none", "OVERRIDE", "GRANTED"}
    /\ serverFd \in {"none", "open", "closed"}
    /\ active \in BOOLEAN
    /\ logAt \in {"pop", "exited"}

(* frameQueue never holds more than pushBounded allows.                    *)
FramesInv == frames \in Seq(Frames) /\ Len(frames) <= maxSize

(* An unlock in progress has room for its log entry.                       *)
EntriesInv ==
    /\ entries \in 0 .. MaxEntries
    /\ pubPc \in {"redLow", "try"} \cup Unlocking => entries < MaxEntries

(* An event of the recognition thread, and that it fits the frame.         *)
Identities == {Names[i] : i \in Entries} \cup {"Unknown", "Override"}

Events == [result : AuthResult, faceRect : Places, identity : Identities]

Fits(ev, score) ==
    /\ ev.result = "GRANTED" =>
           \E j \in Entries : /\ Names[j] = ev.identity
                              /\ score[j] >= kMatchThreshold
                              /\ \A k \in Entries : score[k] <= score[j]
    /\ ev.result = "DENIED" =>
           \A k \in Entries : score[k] < kMatchThreshold

(* The recognition thread has events only while it has the frame they are  *)
(* about.                                                                  *)
RecInv ==
    /\ recAt \in {"loop", "pop", "faces", "publish", "inside", "exited"}
    /\ maybeFrame \in {<<>>} \cup {<<f>> : f \in Frames}
    /\ frameCount \in 0 .. kDetectEvery - 1
    /\ todo \subseteq lastFaces /\ lastFaces \subseteq Places
    /\ evs \in Seq(Events)
    /\ recAt \in {"loop", "pop", "exited"} => evs = <<>>
    /\ recAt \in {"faces", "publish", "inside"} => maybeFrame # <<>>
    /\ recAt \in {"publish", "inside"} => evs # <<>>
    /\ \A i \in 1 .. Len(evs) :
           Fits(evs[i], maybeFrame[1][evs[i].faceRect].score)

CamInv == ProgramInv /\ FramesInv /\ EntriesInv /\ RecInv

LEMMA CamConstants ==
    /\ maxSize \in Nat \ {0} /\ MaxEntries \in Nat \ {0}
    /\ kDetectEvery \in Nat \ {0}
    /\ Frames \subseteq [Places -> [face : BOOLEAN,
                                    score : [Entries -> Int]]]
    /\ \A i \in Entries : Names[i] # "Unknown"
  BY CameraAssumption DEF CameraAssumption

LEMMA CamInvInit == Init => CamInv
<1> SUFFICES ASSUME Init PROVE CamInv
  OBVIOUS
<1>1. ProgramInv
  BY DEF Init, ProgramInv
<1>2. FramesInv
  BY CamConstants DEF Init, FramesInv
<1>3. EntriesInv
  BY CamConstants DEF Init, EntriesInv, LockInit, Unlocking
<1>4. RecInv
  BY CamConstants DEF Init, RecInv
<1> QED
  BY <1>1, <1>2, <1>3, <1>4 DEF CamInv

(* Which steps change what: the recognition thread's state is its own, and *)
(* frameQueue has one thread that pushes and one that pops.                *)
LEMMA RecOwnsState ==
    ASSUME [Next]_camVars, ~Rec, ~RecEsc
    PROVE  UNCHANGED recVars
<1>1. CASE Main
  BY <1>1 DEF Main, MainPolls, MainFlags, MainShuts, MainCloses, MainJoins,
              MainDestroys, MainDoes
<1>2. CASE CamOpens \/ CamReads \/ CamExits \/ CamFails
  BY <1>2 DEF CamOpens, CamReads, CamExits, CamFails, CamGoes
<1>3. CASE Gui \/ GuiOverride \/ GuiNotes \/ GuiOther \/ GuiFails
  BY <1>3 DEF Gui, GuiOpens, GuiTests, GuiPublishes, GuiReturns, GuiOverride,
              GuiNotes, GuiOther, GuiFails, GuiGoes
<1>4. CASE \/ InLock \/ Alone(RedOff) \/ Alone(timerLoop)
           \/ Alone(Destructor) \/ Alone(TimerSpurious) \/ Alone(Tick)
  BY <1>4 DEF InLock, Alone, othersVars
<1>5. CASE LogWrites \/ LogExits \/ Signal \/ UNCHANGED camVars
  BY <1>5 DEF LogWrites, LogExits, Signal, camVars
<1> QED
  BY <1>1, <1>2, <1>3, <1>4, <1>5 DEF Next, Threads, World

LEMMA FramesAreBounded ==
    ASSUME FramesInv, [Next]_camVars
    PROVE  FramesInv'
<1>1. CASE UNCHANGED frames
  BY <1>1 DEF FramesInv
<1>2. CASE RecPops
  <2>1. frames # <<>> /\ frames' = Tail(frames)
    BY <1>2 DEF RecPops
  <2> QED
    BY <2>1, CamConstants DEF FramesInv
<1>3. CASE CamReads
  <2>1. PICK f \in Frames : pushBounded(f)
    BY <1>3 DEF CamReads
  <2> DEFINE n == Len(frames)
             rest == SubSeq(frames, n - maxSize + 2, n)
  <2>2. n \in Nat /\ maxSize \in Nat \ {0} /\ n <= maxSize
    BY CamConstants DEF FramesInv
  <2>3. CASE framesShut
    BY <1>1, <2>1, <2>3 DEF pushBounded
  <2>4. CASE ~framesShut /\ n < maxSize
    <3>1. frames' = Append(frames, f)
      BY <2>1, <2>4 DEF pushBounded
    <3> QED
      BY <2>2, <2>4, <3>1 DEF FramesInv
  <2>5. CASE ~framesShut /\ ~(n < maxSize)
    <3>1. frames' = Append(rest, f)
      BY <2>1, <2>5 DEF pushBounded
    <3>2. n = maxSize /\ n - maxSize + 2 = 2
      BY <2>2, <2>5
    <3>3. rest = SubSeq(frames, 2, n)
      BY <3>2
    <3>4. rest \in Seq(Frames) /\ Len(rest) = n - 1
      BY <2>2, <3>2, <3>3 DEF FramesInv
    <3> HIDE DEF rest
    <3> QED
      BY <2>2, <3>1, <3>2, <3>4 DEF FramesInv
  <2> QED
    BY <2>3, <2>4, <2>5
<1>4. CASE Main
  BY <1>1, <1>4 DEF Main, MainPolls, MainFlags, MainShuts, MainCloses,
                    MainJoins, MainDestroys, MainDoes, queueVars
<1>5. CASE CamOpens \/ CamExits \/ CamFails
  BY <1>1, <1>5 DEF CamOpens, CamExits, CamFails
<1>6. CASE RecTests \/ RecEnds \/ RecFace \/ RecPublishes \/ RecReturns
           \/ RecEsc
  BY <1>1, <1>6 DEF RecTests, RecEnds, RecFace, RecPublishes, RecReturns,
                    RecEsc, queueVars
<1>7. CASE Gui \/ GuiOverride \/ GuiNotes \/ GuiOther \/ GuiFails
  BY <1>1, <1>7 DEF Gui, GuiOpens, GuiTests, GuiPublishes, GuiReturns,
                    GuiOverride, GuiNotes, GuiOther, GuiFails, GuiGoes,
                    queueVars
<1>8. CASE \/ InLock \/ Alone(RedOff) \/ Alone(timerLoop)
           \/ Alone(Destructor) \/ Alone(TimerSpurious) \/ Alone(Tick)
  BY <1>1, <1>8 DEF InLock, Alone, othersVars, queueVars
<1>9. CASE LogWrites \/ LogExits \/ Signal \/ UNCHANGED camVars
  BY <1>1, <1>9 DEF LogWrites, LogExits, Signal, camVars, queueVars
<1> QED
  BY <1>2, <1>3, <1>4, <1>5, <1>6, <1>7, <1>8, <1>9
  DEF Next, Threads, World, Rec

(* Every unlock finds room for its log entry: the bus lets one publisher   *)
(* at a time into the lock, and a note leaves room for it.                 *)
LEMMA EntriesFit ==
    ASSUME EntriesInv, [Next]_camVars
    PROVE  EntriesInv'
<1> USE CamConstants
<1>1. CASE UNCHANGED <<entries, pubPc>>
  BY <1>1 DEF EntriesInv
<1>2. ASSUME NEW result, publishOn(result), UNCHANGED entries
      PROVE  EntriesInv'
  <2>1. /\ pubPc' \in {"redHigh", "redLow"}
        /\ pubPc' = "redLow" => entries < MaxEntries
    BY <1>2 DEF publishOn, deliver
  <2> QED
    BY <1>2, <2>1 DEF EntriesInv, Unlocking
<1>3. CASE InLock
  <2>1. CASE pubPc = "greenHigh"
    <3>1. pubPc' = "idle" /\ entries' = entries + 1
      BY <1>3, <2>1 DEF InLock, onAccessEvent, PubPin, DetachRed, tryUnlock,
                        StoreUnlocked, ArmTimer, NotifyTimer
    <3> QED
      BY <2>1, <3>1 DEF EntriesInv, Unlocking
  <2>2. CASE pubPc # "greenHigh"
    <3>1. entries' = entries
      BY <1>3, <2>2 DEF InLock
    <3>2. pubPc' \in {"redLow", "try"} \cup Unlocking =>
              pubPc \in {"redLow", "try"} \cup Unlocking
      BY <1>3 DEF InLock, onAccessEvent, PubPin, DetachRed, tryUnlock,
                  StoreUnlocked, ArmTimer, NotifyTimer, Unlocking
    <3> QED
      BY <3>1, <3>2 DEF EntriesInv
  <2> QED
    BY <2>1, <2>2
<1>4. CASE LogWrites
  <2>1. entries > 0 /\ entries' = entries - 1 /\ UNCHANGED pubPc
    BY <1>4 DEF LogWrites, lockVars
  <2> QED
    BY <2>1 DEF EntriesInv
<1>5. CASE RecPublishes \/ GuiPublishes
  BY <1>2, <1>5 DEF RecPublishes, GuiPublishes, RecGoes, GuiGoes, logVars
<1>6. CASE Main
  BY <1>1, <1>6 DEF Main, MainPolls, MainFlags, MainShuts, MainCloses,
                    MainJoins, MainDestroys, MainDoes, StoreStopped,
                    lockVars, logVars
<1>7. CASE CamOpens \/ CamReads \/ CamExits \/ CamFails
  BY <1>1, <1>7 DEF CamOpens, CamReads, CamExits, CamFails, CamGoes,
                    lockVars, logVars
<1>8. CASE RecTests \/ RecPops \/ RecEnds \/ RecFace \/ RecReturns \/ RecEsc
  BY <1>1, <1>8 DEF RecTests, RecPops, RecEnds, RecFace, RecReturns, RecEsc,
                    RecGoes, lockVars, logVars
<1>9. CASE GuiOpens \/ GuiTests \/ GuiReturns \/ GuiOverride \/ GuiOther
           \/ GuiFails
  BY <1>1, <1>9 DEF GuiOpens, GuiTests, GuiReturns, GuiOverride, GuiOther,
                    GuiFails, GuiGoes, lockVars, logVars
<1>10. CASE \/ Alone(RedOff) \/ Alone(timerLoop) \/ Alone(Destructor)
            \/ Alone(TimerSpurious) \/ Alone(Tick)
  <2>1. UNCHANGED <<entries, pubPc>>
    BY <1>10 DEF Alone, RedOff, timerLoop, TimerTop, TimerTest, TimerWait,
         TimerWakes, TimerPin, TimerLocked, Destructor, DestructorNotifies,
         DestructorJoins, DestructorLocks, TimerSpurious, Tick
  <2> QED
    BY <1>1, <2>1
<1>11. CASE LogExits \/ Signal \/ UNCHANGED camVars
  BY <1>1, <1>11 DEF LogExits, Signal, camVars, lockVars, logVars
<1>12. CASE GuiNotes
  <2>1. /\ entries + (IF pubPc = "idle" THEN 0 ELSE 1) < MaxEntries
        /\ entries' = entries + 1 /\ UNCHANGED pubPc
    BY <1>12 DEF GuiNotes, lockVars
  <2>2. pubPc = "idle" => pubPc \notin {"redLow", "try"} \cup Unlocking
    BY DEF Unlocking
  <2> QED
    BY <2>1, <2>2 DEF EntriesInv
<1> QED
  BY <1>3, <1>4, <1>5, <1>6, <1>7, <1>8, <1>9, <1>10, <1>11, <1>12
  DEF Next, Threads, World, Rec, Gui

LEMMA ProgramKeeps ==
    ASSUME UsersInv, ProgramInv, [Next]_camVars
    PROVE  ProgramInv'
<1> USE DEF ProgramInv
<1>1. CASE MainPolls \/ MainJoins \/ MainDestroys
  <2>1. UNCHANGED <<gShutdown, stopped, framesShut, camAt, guiAt, reply,
                    serverFd, active, logAt>>
    BY <1>1 DEF MainPolls, MainJoins, MainDestroys, MainDoes, queueVars,
                guiVars, logVars
  <2> QED
    BY <2>1
<1>2. CASE MainFlags
  <2>1. \A i \in DOMAIN Teardown : Teardown[i].do = "flag" =>
            Teardown[i].to \in {"recognition", "camera", "gui"}
    BY DEF Teardown
  <2>2. To \in {"recognition", "camera", "gui"}
    BY <1>2, <2>1 DEF MainFlags, MainDoes, To
  <2> QED
    BY <1>2, <2>2 DEF MainFlags, MainDoes, queueVars, logVars
<1>3. CASE MainShuts \/ MainCloses
  <2>1. UNCHANGED <<gShutdown, stopped, camAt, guiAt, reply, active, logAt>>
    BY <1>3 DEF MainShuts, MainCloses, MainDoes, logVars
  <2>2. /\ framesShut' \in {framesShut, TRUE}
        /\ serverFd' \in {serverFd, "closed"}
    BY <1>3 DEF MainShuts, MainCloses, queueVars
  <2>3. framesShut' \in BOOLEAN
    BY <2>2
  <2> QED
    BY <2>1, <2>2, <2>3
<1>4. CASE CamOpens \/ CamReads \/ CamExits \/ CamFails
  <2>1. UNCHANGED <<mainVars, framesShut, guiVars, logVars>>
    BY <1>4 DEF CamOpens, CamReads, CamExits, CamFails, CamGoes
  <2>2. camAt' \in {"loop", "exited"}
    BY <1>4 DEF CamOpens, CamReads, CamExits, CamFails, CamGoes
  <2>3. UNCHANGED <<gShutdown, stopped, guiAt, reply, serverFd, active, logAt>>
    BY <2>1 DEF mainVars, guiVars, logVars
  <2> QED
    BY <2>1, <2>2, <2>3
<1>5. CASE Rec \/ RecEsc
  <2>1. UNCHANGED <<mainVars, camAt, guiVars, logVars>>
    BY <1>5 DEF Rec, RecTests, RecPops, RecEnds, RecFace, RecPublishes,
                RecReturns, RecEsc, RecGoes
  <2>2. framesShut' = framesShut \/ framesShut' = TRUE
    BY <1>5 DEF Rec, RecTests, RecPops, RecEnds, RecFace, RecPublishes,
                RecReturns, RecEsc, queueVars
  <2>3. UNCHANGED <<gShutdown, stopped, camAt, guiAt, reply, serverFd, active,
                    logAt>>
    BY <2>1 DEF mainVars, guiVars, logVars
  <2> QED
    BY <2>2, <2>3
<1>6. CASE Gui \/ GuiOverride \/ GuiNotes \/ GuiOther \/ GuiFails
  <2>1. UNCHANGED <<mainVars, queueVars, camAt, logAt>>
    BY <1>6 DEF Gui, GuiOpens, GuiTests, GuiPublishes, GuiReturns,
                GuiOverride, GuiNotes, GuiOther, GuiFails, GuiGoes, logVars
  <2>2. UNCHANGED <<gShutdown, stopped, framesShut, camAt, logAt>>
    BY <2>1 DEF mainVars, queueVars
  <2>3. guiAt' \in {"loop", "accept", "publish", "inside", "exited"}
    BY <1>6 DEF Gui, GuiOpens, GuiTests, GuiPublishes, GuiReturns,
                GuiOverride, GuiNotes, GuiOther, GuiFails, GuiGoes
  <2>4. /\ reply' \in {reply, "none", "OVERRIDE", "GRANTED"}
        /\ serverFd' \in {serverFd, "open"}
        /\ active' \in {active, TRUE, FALSE}
    BY <1>6 DEF Gui, GuiOpens, GuiTests, GuiPublishes, GuiReturns,
                GuiOverride, GuiNotes, GuiOther, GuiFails
  <2>5. active' \in BOOLEAN /\ reply' \in {"none", "OVERRIDE", "GRANTED"}
    BY <2>4
  <2> QED
    BY <2>2, <2>3, <2>4, <2>5
<1>7. CASE \/ InLock \/ Alone(RedOff) \/ Alone(timerLoop)
           \/ Alone(Destructor) \/ Alone(TimerSpurious) \/ Alone(Tick)
  <2>1. UNCHANGED othersVars
    BY <1>7 DEF InLock, Alone
  <2> QED
    BY <2>1 DEF othersVars, mainVars, queueVars, guiVars
<1>8. CASE LogWrites \/ LogExits
  <2>1. UNCHANGED <<gShutdown, stopped, framesShut, camAt, guiAt, reply,
                    serverFd, active>>
    BY <1>8 DEF LogWrites, LogExits, mainVars, queueVars, guiVars
  <2>2. logAt' \in {logAt, "exited"}
    BY <1>8 DEF LogWrites, LogExits
  <2> QED
    BY <2>1, <2>2
<1>9. CASE Signal
  BY <1>9 DEF Signal, queueVars, guiVars, logVars
<1>10. CASE UNCHANGED camVars
  BY <1>10 DEF camVars, mainVars, queueVars, guiVars, logVars
<1> QED
  BY <1>1, <1>2, <1>3, <1>4, <1>5, <1>6, <1>7, <1>8, <1>9, <1>10
  DEF Next, Threads, World, Main

(* A face yields an event that fits the frame it was found in.             *)
LEMMA RecogniseFits ==
    ASSUME NEW place \in Places, NEW f \in Frames, maybeFrame = <<f>>,
           active \in BOOLEAN
    PROVE  /\ recognise(place) \in Events
           /\ Fits(recognise(place), f[place].score)
           /\ recognise(place).faceRect = place
<1> DEFINE score == f[place].score
           best == bestMatch(score)
<1>1. score \in [Entries -> Int] /\ maybeFrame[1] = f
  <2>1. f \in [Places -> [face : BOOLEAN, score : [Entries -> Int]]]
    BY CamConstants
  <2> QED
    BY <2>1
<1>2. IsBest(best, Len(Names), score)
  BY <1>1, BestMatchFinds
<1> DEFINE result == IF active THEN "OVERRIDE"
                     ELSE IF best.name # "Unknown" THEN "GRANTED"
                     ELSE "DENIED"
           identity == IF active THEN "Override" ELSE best.name
<1>3. recognise(place) = [result |-> result, faceRect |-> place,
                          identity |-> identity]
  BY <1>1, Zenon DEF recognise
<1> HIDE DEF best, score
<1>4. identity \in Identities
  BY <1>2 DEF IsBest, Identities, Entries
<1>5. result \in AuthResult
  BY DEF AuthResult
<1>6. ASSUME result = "GRANTED"
      PROVE  \E j \in Entries : /\ Names[j] = identity
                                /\ score[j] >= kMatchThreshold
                                /\ \A k \in Entries : score[k] <= score[j]
  <2>1. ~active /\ best.name # "Unknown"
    BY <1>6
  <2>2. identity = best.name
    BY <2>1
  <2> QED
    BY <1>2, <2>1, <2>2 DEF IsBest, Entries
<1>7. ASSUME result = "DENIED"
      PROVE  \A k \in Entries : score[k] < kMatchThreshold
  <2>1. best.name = "Unknown"
    BY <1>7
  <2>2. best.score < kMatchThreshold
    BY <1>2, <2>1, CamConstants DEF IsBest, Entries
  <2> QED
    BY <1>1, <1>2, <2>2, Database DEF IsBest, Entries
<1> HIDE DEF result, identity
<1>8. recognise(place) \in Events
  BY <1>3, <1>4, <1>5 DEF Events
<1>9. Fits(recognise(place), score)
  BY <1>3, <1>6, <1>7 DEF Fits
<1> QED
  BY <1>3, <1>8, <1>9 DEF score

(* The recognition thread keeps its events about the frame it holds.       *)
LEMMA RecStep ==
    ASSUME ProgramInv, FramesInv, RecInv, [Next]_camVars
    PROVE  RecInv'
<1>1. CASE UNCHANGED recVars
  BY <1>1 DEF RecInv, recVars
<1>2. CASE RecTests \/ RecEsc
  <2>1. /\ recAt = "loop" /\ recAt' \in {"pop", "exited"}
        /\ maybeFrame' = <<>>
        /\ UNCHANGED <<frameCount, lastFaces, todo, evs>>
    BY <1>2 DEF RecTests, RecEsc, RecGoes
  <2>2. evs = <<>> /\ evs' = <<>>
    BY <2>1 DEF RecInv
  <2> QED
    BY <2>1, <2>2 DEF RecInv
<1>3. CASE RecEnds
  <2>1. recAt = "pop" /\ recAt' = "exited" /\ evs = <<>> /\ evs' = <<>>
    BY <1>3 DEF RecEnds, RecGoes, RecInv
  <2> QED
    BY <1>3, <2>1 DEF RecEnds, RecInv
<1>4. CASE RecPops
  <2> DEFINE f == Head(frames)
  <2>1. f \in Frames
    BY <1>4 DEF RecPops, FramesInv
  <2>2. located(f) \subseteq Places
    BY DEF located, RecInv
  <2>3. /\ recAt = "pop" /\ recAt' \in {"loop", "faces"}
        /\ maybeFrame' = <<f>>
        /\ frameCount' = (frameCount + 1) % kDetectEvery
        /\ lastFaces' = located(f) /\ todo' = located(f)
        /\ evs' = evs
    BY <1>4 DEF RecPops, RecGoes
  <2>4. evs' = <<>>
    BY <2>3 DEF RecInv
  <2>5. frameCount' \in 0 .. kDetectEvery - 1
    BY <2>3, CamConstants DEF RecInv
  <2> HIDE DEF f
  <2> QED
    BY <2>1, <2>2, <2>3, <2>4, <2>5 DEF RecInv
<1>5. CASE RecFace
  <2>1. PICK place \in todo :
            /\ RecGoes("faces", IF todo = {place} THEN "publish" ELSE "faces")
            /\ todo' = todo \ {place}
            /\ evs' = Append(evs, recognise(place))
    BY <1>5 DEF RecFace
  <2>2. place \in Places
    BY <2>1 DEF RecInv
  <2>3. PICK f \in Frames : maybeFrame = <<f>>
    BY <2>1 DEF RecGoes, RecInv
  <2> DEFINE ev == recognise(place)
  <2>4. ev \in Events /\ Fits(ev, f[place].score) /\ ev.faceRect = place
    BY <2>2, <2>3, RecogniseFits DEF ProgramInv
  <2>5. /\ UNCHANGED <<maybeFrame, frameCount, lastFaces>>
        /\ recAt' \in {"faces", "publish"}
    BY <1>5, <2>1 DEF RecFace, RecGoes
  <2> HIDE DEF ev
  <2>6. /\ evs \in Seq(Events) /\ evs' \in Seq(Events)
        /\ Len(evs') = Len(evs) + 1 /\ evs'[Len(evs) + 1] = ev
        /\ \A i \in 1 .. Len(evs) : evs'[i] = evs[i]
    BY <2>1, <2>4 DEF RecInv, ev
  <2>7. \A i \in 1 .. Len(evs') :
            Fits(evs'[i], maybeFrame'[1][evs'[i].faceRect].score)
    <3>1. TAKE i \in 1 .. Len(evs')
    <3>2. CASE i \in 1 .. Len(evs)
      BY <2>5, <2>6, <3>2 DEF RecInv
    <3>3. CASE i = Len(evs) + 1
      <4>1. evs'[i] = ev /\ maybeFrame'[1] = f
        BY <2>3, <2>5, <2>6, <3>3
      <4> QED
        BY <2>4, <4>1
    <3> QED
      BY <2>6, <3>2, <3>3
  <2>8. evs' # <<>>
    BY <2>6
  <2>9. todo' \subseteq lastFaces' /\ lastFaces' \subseteq Places
    BY <2>1, <2>5 DEF RecInv
  <2> QED
    BY <2>3, <2>5, <2>6, <2>7, <2>8, <2>9 DEF RecInv
<1>6. CASE RecPublishes
  <2>1. /\ recAt = "publish" /\ recAt' = "inside"
        /\ UNCHANGED <<maybeFrame, frameCount, lastFaces, todo, evs>>
    BY <1>6 DEF RecPublishes, RecGoes
  <2> QED
    BY <2>1 DEF RecInv
<1>7. CASE RecReturns
  <2>1. /\ recAt = "inside"
        /\ recAt' = IF Len(evs) = 1 THEN "loop" ELSE "publish"
        /\ evs' = Tail(evs)
        /\ UNCHANGED <<maybeFrame, frameCount, lastFaces, todo>>
    BY <1>7 DEF RecReturns, RecGoes
  <2>2. evs \in Seq(Events) /\ evs # <<>> /\ maybeFrame # <<>>
    BY <2>1 DEF RecInv
  <2>3. /\ evs' \in Seq(Events) /\ Len(evs') = Len(evs) - 1
        /\ \A i \in 1 .. Len(evs') : evs'[i] = evs[i + 1]
    BY <2>1, <2>2
  <2>4. IF Len(evs) = 1 THEN evs' = <<>> ELSE evs' # <<>>
    BY <2>2, <2>3
  <2>5. \A i \in 1 .. Len(evs') :
            Fits(evs'[i], maybeFrame'[1][evs'[i].faceRect].score)
    <3>1. TAKE i \in 1 .. Len(evs')
    <3>2. i + 1 \in 1 .. Len(evs) /\ evs'[i] = evs[i + 1]
      BY <2>2, <2>3
    <3> QED
      BY <2>1, <3>2 DEF RecInv
  <2> QED
    BY <2>1, <2>2, <2>3, <2>4, <2>5 DEF RecInv
<1> QED
  BY <1>1, <1>2, <1>3, <1>4, <1>5, <1>6, <1>7, RecOwnsState DEF Rec

LEMMA CamInvariant == CamSpec => [](UsersInv /\ CamInv)
<1>1. UsersInv /\ CamInv /\ [Next]_camVars => (UsersInv /\ CamInv)'
  BY CamStep, ProgramKeeps, FramesAreBounded, EntriesFit, RecStep DEF CamInv
<1> QED
  BY UsersInit, CamInvInit, <1>1, PTL DEF CamSpec

-----------------------------------------------------------------------------
(* The camera program's variables keep to their types: frameQueue to the   *)
(* bound of pushBounded (ThreadSafeQueue.h), the logger's queue to the     *)
(* room every unlock was given before it began, main to its tear-down.     *)
THEOREM CamTyping == CamSpec => []CamTypeOK
<1>1. UsersInv /\ CamInv => CamTypeOK
  <2> SUFFICES ASSUME UsersInv, CamInv PROVE CamTypeOK
    OBVIOUS
  <2>1. step \in 0 .. Len(Teardown) + 1
    BY DEF UsersInv, Teardown
  <2>2. \A i \in 1 .. Len(evs) : evs[i].result \in AuthResult
    <3>1. evs \in Seq(Events)
      BY DEF CamInv, RecInv
    <3>2. \A i \in 1 .. Len(evs) : evs[i] \in Events
      BY <3>1
    <3>3. \A ev \in Events : ev.result \in AuthResult
      BY DEF Events
    <3> QED
      BY <3>2, <3>3
  <2> QED
    BY <2>1, <2>2
    DEF CamInv, ProgramInv, FramesInv, EntriesInv, RecInv, CamTypeOK
<1> QED
  BY CamInvariant, <1>1, PTL

(* Whatever the database, its order and the frames, a face is admitted     *)
(* under the name it is most similar to and refused only when it is like   *)
(* nobody in the database (FaceRecognizer.cpp:67), and the events being    *)
(* published are about the frame the thread still holds.                   *)
THEOREM CamEventsFit == CamSpec => []EventsFit
<1>1. CamInv => EventsFit
  BY DEF CamInv, RecInv, EventsFit, Fits
<1> QED
  BY CamInvariant, <1>1, PTL

-----------------------------------------------------------------------------
(* What main has done by which step of its tear-down, and that a thread at *)
(* the faces of a frame has one left.                                      *)
StopInv ==
    /\ step > 2 => framesShut
    /\ step > 4 => "camera" \in stopped
    /\ step > 6 => camAt = "exited"
    /\ step = 11 => dtorPc # "alive"
    /\ recAt = "faces" => todo # {}

LEMMA TeardownDoes ==
    /\ DOMAIN Teardown = 1 .. 10
    /\ Teardown[1] = [do |-> "flag", to |-> "recognition"]
    /\ Teardown[2] = [do |-> "shut", to |-> "frames"]
    /\ Teardown[3] = [do |-> "join", to |-> "recognition"]
    /\ Teardown[4] = [do |-> "flag", to |-> "camera"]
    /\ Teardown[5] = [do |-> "shut", to |-> "frames"]
    /\ Teardown[6] = [do |-> "join", to |-> "camera"]
    /\ Teardown[7] = [do |-> "flag", to |-> "gui"]
    /\ Teardown[8] = [do |-> "close", to |-> "serverFd"]
    /\ Teardown[9] = [do |-> "join", to |-> "gui"]
    /\ Teardown[10] = [do |-> "destroy", to |-> "door"]
  BY DEF Teardown

LEMMA StopInit == Init => StopInv
  BY DEF Init, StopInv

LEMMA StopKeeps ==
    ASSUME UsersInv, ProgramInv, StopInv, [Next]_camVars
    PROVE  StopInv'
<1>0. step \in 0 .. 11 /\ (step < 11 => dtorPc = "alive")
  BY DEF UsersInv
<1>1. CASE MainPolls
  <2>1. step' = 1 /\ UNCHANGED <<recAt, todo>>
    BY <1>1 DEF MainPolls, recVars
  <2> QED
    BY <2>1 DEF StopInv
<1>2. CASE MainFlags
  <2>1. /\ step \in 1 .. 10 /\ step' = step + 1
        /\ step \in {1, 4, 7} /\ stopped' = stopped \cup {Teardown[step].to}
        /\ UNCHANGED <<recAt, todo, framesShut, camAt, dtorPc>>
    BY <1>2, TeardownDoes
    DEF MainFlags, MainDoes, To, recVars, queueVars, lockVars
  <2>2. step = 4 => "camera" \in stopped'
    BY <2>1, TeardownDoes
  <2> QED
    BY <2>1, <2>2 DEF StopInv
<1>3. CASE MainShuts
  <2>1. /\ step' = step + 1 /\ step \in {2, 5} /\ framesShut'
        /\ UNCHANGED <<recAt, todo, stopped, camAt, dtorPc>>
    BY <1>3, TeardownDoes DEF MainShuts, MainDoes, recVars, lockVars
  <2> QED
    BY <2>1 DEF StopInv
<1>4. CASE MainCloses
  <2>1. /\ step' = step + 1 /\ step = 8
        /\ UNCHANGED <<recAt, todo, stopped, framesShut, camAt, dtorPc>>
    BY <1>4, TeardownDoes
    DEF MainCloses, MainDoes, recVars, queueVars, lockVars
  <2> QED
    BY <2>1 DEF StopInv
<1>5. CASE MainJoins
  <2>1. /\ step' = step + 1 /\ step \in {3, 6, 9}
        /\ UNCHANGED <<recAt, todo, stopped, framesShut, camAt, dtorPc>>
    BY <1>5, TeardownDoes
    DEF MainJoins, MainDoes, recVars, queueVars, lockVars
  <2>2. step = 6 => camAt = "exited"
    BY <1>5, TeardownDoes DEF MainJoins, To
  <2> QED
    BY <2>1, <2>2 DEF StopInv
<1>6. CASE MainDestroys
  <2>1. /\ step' = step + 1 /\ step = 10 /\ dtorPc' = "notify"
        /\ UNCHANGED <<recAt, todo, stopped, framesShut, camAt>>
    BY <1>6, TeardownDoes
    DEF MainDestroys, MainDoes, StoreStopped, recVars, queueVars
  <2> QED
    BY <2>1 DEF StopInv
<1>7. CASE CamOpens \/ CamReads \/ CamExits \/ CamFails
  <2>1. /\ UNCHANGED <<step, recAt, todo, stopped, framesShut, dtorPc>>
        /\ camAt # "exited"
    BY <1>7 DEF CamOpens, CamReads, CamExits, CamFails, CamGoes, mainVars,
                recVars, lockVars
  <2> QED
    BY <2>1 DEF StopInv
<1>8. CASE Rec \/ RecEsc
  <2>1. /\ UNCHANGED <<step, stopped, camAt>>
        /\ framesShut => framesShut'
    BY <1>8 DEF Rec, RecTests, RecPops, RecEnds, RecFace, RecPublishes,
                RecReturns, RecEsc, RecGoes, mainVars, queueVars
  <2>2. UNCHANGED dtorPc
    BY <1>8 DEF Rec, RecTests, RecPops, RecEnds, RecFace, RecPublishes,
                RecReturns, RecEsc, lockVars, publishOn, deliver
  <2>3. recAt' = "faces" => todo' # {}
    <3>1. CASE RecPops
      BY <3>1 DEF RecPops, RecGoes
    <3>2. CASE RecFace
      BY <3>2 DEF RecFace, RecGoes
    <3>3. CASE RecTests \/ RecEnds \/ RecPublishes \/ RecReturns \/ RecEsc
      BY <3>3 DEF RecTests, RecEnds, RecPublishes, RecReturns, RecEsc,
                  RecGoes
    <3> QED
      BY <1>8, <3>1, <3>2, <3>3 DEF Rec
  <2> QED
    BY <2>1, <2>2, <2>3 DEF StopInv
<1>9. CASE Gui \/ GuiOverride \/ GuiNotes \/ GuiOther \/ GuiFails
  <2>1. UNCHANGED <<step, stopped, framesShut, camAt, recAt, todo>>
    BY <1>9 DEF Gui, GuiOpens, GuiTests, GuiPublishes, GuiReturns,
                GuiOverride, GuiNotes, GuiOther, GuiFails, GuiGoes,
                mainVars, queueVars, recVars
  <2>2. UNCHANGED dtorPc
    BY <1>9 DEF Gui, GuiOpens, GuiTests, GuiPublishes, GuiReturns,
                GuiOverride, GuiNotes, GuiOther, GuiFails, lockVars,
                publishOn, deliver
  <2> QED
    BY <2>1, <2>2 DEF StopInv
<1>10. CASE \/ InLock \/ Alone(RedOff) \/ Alone(timerLoop)
            \/ Alone(Destructor) \/ Alone(TimerSpurious) \/ Alone(Tick)
  <2>1. UNCHANGED <<step, stopped, framesShut, camAt, recAt, todo>>
    BY <1>10 DEF InLock, Alone, othersVars, mainVars, queueVars, recVars
  <2>2. dtorPc' = dtorPc \/ dtorPc' \in {"join", "low", "gone"}
    <3>1. CASE InLock
      BY <3>1 DEF InLock, onAccessEvent, PubPin, DetachRed, tryUnlock,
                  StoreUnlocked, ArmTimer, NotifyTimer
    <3>2. CASE Alone(timerLoop)
      BY <3>2 DEF Alone, timerLoop, TimerTop, TimerTest, TimerWait,
                  TimerWakes, TimerPin, TimerLocked
    <3>3. CASE Alone(Destructor)
      BY <3>3 DEF Alone, Destructor, DestructorNotifies, DestructorJoins,
                  DestructorLocks
    <3>4. CASE Alone(RedOff) \/ Alone(TimerSpurious) \/ Alone(Tick)
      BY <3>4 DEF Alone, RedOff, TimerSpurious, Tick
    <3> QED
      BY <1>10, <3>1, <3>2, <3>3, <3>4
  <2> QED
    BY <2>1, <2>2 DEF StopInv
<1>11. CASE LogWrites \/ LogExits \/ Signal \/ UNCHANGED camVars
  <2>1. UNCHANGED <<step, stopped, framesShut, camAt, recAt, todo, dtorPc>>
    BY <1>11 DEF LogWrites, LogExits, Signal, camVars, mainVars, queueVars,
                 recVars, lockVars
  <2> QED
    BY <2>1 DEF StopInv
<1> QED
  BY <1>1, <1>2, <1>3, <1>4, <1>5, <1>6, <1>7, <1>8, <1>9, <1>10, <1>11
  DEF Next, Threads, World, Main

(* Whoever is inside the lock can go on, or the timer thread, which holds  *)
(* the mutex he waits for.                                                 *)
LEMMA InsideCanRun ==
    ASSUME LockTypeOK, ~BusFree
    PROVE  CanRun
<1>1. pubPc = "arm" => LockCanRun
  BY DEF LockCanRun
<1>2. pubPc \notin {"idle", "arm"} => LockCanRun
  BY DEF LockCanRun
<1>3. pubPc = "idle" => RecCanRun \/ GuiCanRun
  BY DEF BusFree, RecCanRun, GuiCanRun
<1> QED
  BY <1>1, <1>2, <1>3 DEF CanRun

(* Whoever is about to publish can, or somebody else makes room for him.   *)
LEMMA PublisherCanRun ==
    ASSUME MaxReds > 0, LockTypeOK, UsersInv, EntriesInv, ProgramInv,
           step < 11, logAt # "exited", NEW result, ~CanRun
    PROVE  CanPublish(result)
<1>1. BusFree
  BY InsideCanRun
<1>2. pubPc = "idle"
  BY <1>1 DEF UsersInv
<1>3. entries < MaxEntries
  <2>1. entries = 0
    BY DEF CanRun, LogCanRun, EntriesInv, ProgramInv
  <2> QED
    BY <2>1, CamConstants
<1>4. reds < MaxReds
  <2>1. reds = 0
    BY DEF CanRun, LockCanRun, LockTypeOK, UsersInv
  <2> QED
    BY <2>1
<1> QED
  BY <1>1, <1>2, <1>3, <1>4 DEF CanPublish

(* Step by step of the tear-down: main goes on by itself, or whom it joins *)
(* does.                                                                   *)
LEMMA SomebodyCanRun ==
    ASSUME MaxReds > 0, LockTypeOK, UsersInv, CamInv, StopInv,
           gShutdown, ~CanRun, ~Excused
    PROVE  FALSE
<1> USE DEF CamInv
<1>1. logAt = "pop"
  BY DEF Excused, ProgramInv
<1>2. step \in 0 .. 11
  BY DEF UsersInv
<1>3. step \notin {0, 1, 2, 4, 5, 7, 8}
  BY TeardownDoes DEF CanRun, MainCanRun
<1>4. CASE step = 3
  <2>1. recAt # "exited"
    BY <1>4, TeardownDoes DEF CanRun, MainCanRun, To
  <2>2. recAt \notin {"loop", "pop", "faces"}
    BY <1>4 DEF CanRun, RecCanRun, StopInv
  <2>3. recAt # "inside"
    BY InsideCanRun DEF BusFree
  <2>4. recAt = "publish"
    BY <2>1, <2>2, <2>3 DEF RecInv
  <2>5. CanPublish(Head(evs).result)
    BY <1>1, <1>4, PublisherCanRun
  <2> QED
    BY <2>4, <2>5 DEF CanRun, RecCanRun
<1>5. CASE step = 6
  <2>1. camAt # "exited"
    BY <1>5, TeardownDoes DEF CanRun, MainCanRun, To
  <2>2. "camera" \in stopped
    BY <1>5 DEF StopInv
  <2> QED
    BY <2>1, <2>2 DEF ProgramInv, CanRun, CamCanRun
<1>6. CASE step = 9
  <2>1. guiAt # "exited"
    BY <1>6, TeardownDoes DEF CanRun, MainCanRun, To
  <2>2. guiAt \notin {"start", "loop"}
    BY DEF CanRun, GuiCanRun
  <2>3. guiAt # "inside"
    BY InsideCanRun DEF BusFree
  <2>4. guiAt # "accept"
    BY <1>6, TeardownDoes DEF Excused, GuiBlocked
  <2>5. guiAt = "publish"
    BY <2>1, <2>2, <2>3, <2>4 DEF ProgramInv
  <2>6. CanPublish(reply)
    BY <1>1, <1>6, PublisherCanRun
  <2> QED
    BY <2>5, <2>6 DEF CanRun, GuiCanRun
<1>7. CASE step = 10
  BY <1>7, TeardownDoes DEF UsersInv, CanRun, MainCanRun
<1>8. CASE step = 11
  <2>1. dtorPc \in {"join", "gone"}
    BY <1>8 DEF StopInv, LockTypeOK, CanRun, LockCanRun
  <2>2. CASE dtorPc = "gone"
    BY <1>1, <2>2 DEF CanRun, LogCanRun
  <2>3. CASE dtorPc = "join"
    <3>1. timerPc \in {"waiting", "asleep"}
      BY <2>3 DEF CanRun, LockCanRun
    <3>2. timerPc = "asleep" /\ ~(nap > 0)
      BY <2>3, <3>1 DEF Excused, TimerMissed, TimerSleeps
    <3>3. nap = 0
      BY <3>2, Durations DEF LockTypeOK
    <3> QED
      BY <3>2, <3>3 DEF CanRun, LockCanRun
  <2> QED
    BY <2>1, <2>2, <2>3
<1> QED
  BY <1>2, <1>3, <1>4, <1>5, <1>6, <1>7, <1>8

(* For every database, every frame and all bounds: once a signal has       *)
(* arrived somebody can run, unless the program has ended or one of the    *)
(* named waits holds it up.  Whoever main joins is never stuck at an empty *)
(* queue, at the bus or inside the lock (main_cam.cpp:48).                 *)
THEOREM CamNobodyStuck ==
    ASSUME MaxReds > 0
    PROVE  CamSpec => []((gShutdown /\ ~CanRun) => Excused)
<1>1. UsersInv /\ CamInv /\ StopInv /\ [Next]_camVars => StopInv'
  BY StopKeeps DEF CamInv
<1>2. LockTypeOK /\ UsersInv /\ CamInv /\ StopInv
          => ((gShutdown /\ ~CanRun) => Excused)
  BY SomebodyCanRun
<1> QED
  BY CamInvariant, CamImplementsLock, LockTyping, StopInit, <1>1, <1>2, PTL
  DEF CamSpec

(* So NoStandstill holds of every instance in which CanRun tells right who *)
(* is enabled, which is no more than that the guards are copied right.     *)
THEOREM CamNoStandstill ==
    ASSUME MaxReds > 0
    PROVE  CamSpec => []((CanRun => Runnable) => NoStandstill)
<1>1. ((gShutdown /\ ~CanRun) => Excused)
          => ((CanRun => Runnable) => NoStandstill)
  BY DEF NoStandstill
<1> QED
  BY <1>1, CamNobodyStuck, PTL

-----------------------------------------------------------------------------
(* What the threads still have to do when the world leaves them alone, as  *)
(* a number of steps.  An event is worth the lock's steps it causes; an    *)
(* armed timer the relocking it causes, and a notification the test of the *)
(* predicate.                                                              *)
MainWork == 11 - step

CamWork == IF camAt = "start" THEN 2 ELSE IF camAt = "loop" THEN 1 ELSE 0

RecWork == IF recAt \in {"faces", "publish"} THEN 18
           ELSE IF recAt = "loop" THEN 2
           ELSE IF recAt = "pop" THEN 1 ELSE 0

FrameWork == 21 * Cardinality(Places) + 18

EventWork == Len(frames) * FrameWork + 21 * Cardinality(todo) + 20 * Len(evs)

GuiWork == IF guiAt = "publish" THEN 20
           ELSE IF guiAt \in {"start", "inside"} THEN 2
           ELSE IF guiAt = "loop" THEN 1 ELSE 0

PubWork ==
    CASE pubPc = "idle" -> 0
      [] pubPc = "redHigh" -> 4
      [] pubPc = "greenLow" -> 3
      [] pubPc = "spawn" -> 2
      [] pubPc = "redLow" -> 17
      [] pubPc = "try" -> 16
      [] pubPc = "unlocked" -> 15
      [] pubPc = "relayHigh" -> 14
      [] pubPc = "arm" -> 13
      [] pubPc = "notify" -> 5
      [] pubPc = "greenHigh" -> 2

TimerWork ==
    (CASE timerPc \in {"waiting", "exited"} -> 0
       [] timerPc = "block" -> 1
       [] timerPc = "acquire" -> 2
       [] timerPc = "top" -> 3
       [] timerPc = "redLow" -> 4
       [] timerPc = "greenLow" -> 5
       [] timerPc = "locked" -> 6
       [] timerPc = "relayLow" -> 7
       [] timerPc = "asleep" -> 8)
    + (IF timerArmed THEN 7 ELSE 0)

DtorWork == IF dtorPc \in {"alive", "notify"} THEN 5
            ELSE IF dtorPc = "join" THEN 2
            ELSE IF dtorPc = "low" THEN 1 ELSE 0

LogWork == entries + (IF logAt = "pop" THEN 1 ELSE 0)

UsersWork == MainWork + CamWork + RecWork + EventWork + GuiWork
LockWork == PubWork + TimerWork + DtorWork + reds + LogWork
Work == UsersWork + LockWork

(* The parts of Work are numbers.                                          *)
WorkParts ==
    /\ MainWork \in Nat /\ CamWork \in Nat /\ RecWork \in Nat
    /\ EventWork \in Nat /\ GuiWork \in Nat /\ PubWork \in Nat
    /\ TimerWork \in Nat /\ DtorWork \in Nat /\ reds \in Nat
    /\ LogWork \in Nat

(* Every place a step of the lock is at has its worth.                     *)
LEMMA LockParts ==
    ASSUME LockTypeOK
    PROVE  PubWork \in Nat /\ TimerWork \in Nat /\ DtorWork \in Nat
           /\ reds \in Nat
<1>1. PubWork \in Nat
  BY DEF LockTypeOK, PubPcs, PubWork
<1>2. TimerWork \in Nat
  BY DEF LockTypeOK, TimerPcs, TimerWork
<1>3. DtorWork \in Nat
  BY DEF DtorWork
<1>4. reds \in Nat
  BY Durations DEF LockTypeOK
<1> QED
  BY <1>1, <1>2, <1>3, <1>4

(* A frame, a face and an event are worth something.                       *)
LEMMA EventParts ==
    ASSUME IsFiniteSet(Places), CamInv
    PROVE  /\ FrameWork \in Nat /\ EventWork \in Nat
           /\ IsFiniteSet(todo) /\ Cardinality(todo) \in Nat
           /\ Len(frames) \in Nat /\ Len(evs) \in Nat
<1>1. IsFiniteSet(todo)
  <2>1. todo \subseteq Places
    BY DEF CamInv, RecInv
  <2> QED
    BY <2>1, FS_Subset
<1>2. Cardinality(todo) \in Nat /\ Cardinality(Places) \in Nat
  BY <1>1, FS_CardinalityType
<1>3. FrameWork \in Nat
  BY <1>2 DEF FrameWork
<1>4. Len(frames) \in Nat /\ Len(evs) \in Nat
  BY DEF CamInv, FramesInv, RecInv
<1>5. Len(frames) * FrameWork \in Nat
  BY <1>3, <1>4
<1> QED
  BY <1>1, <1>2, <1>3, <1>4, <1>5 DEF EventWork

LEMMA PartsAreNumbers ==
    ASSUME IsFiniteSet(Places), LockTypeOK, UsersInv, CamInv
    PROVE  WorkParts
<1>1. MainWork \in Nat
  BY DEF UsersInv, MainWork
<1>2. CamWork \in Nat /\ RecWork \in Nat /\ GuiWork \in Nat
  BY DEF CamWork, RecWork, GuiWork
<1>3. LogWork \in Nat
  BY CamConstants DEF LogWork, CamInv, EntriesInv
<1> QED
  BY <1>1, <1>2, <1>3, LockParts, EventParts DEF WorkParts

LEMMA SumsAreNumbers ==
    ASSUME WorkParts
    PROVE  UsersWork \in Nat /\ LockWork \in Nat /\ Work \in Nat
<1>1. UsersWork \in Nat
  BY DEF WorkParts, UsersWork
<1>2. LockWork \in Nat
  BY DEF WorkParts, LockWork
<1> QED
  BY <1>1, <1>2 DEF Work

(* main and the camera thread have one step less to do after each.         *)
LEMMA MainRunsDown ==
    ASSUME Main \/ CamOpens \/ CamExits, UsersInv, WorkParts
    PROVE  Work' < Work
<1>1. CASE Main
  <2>1. step' = step + 1 \/ (step = 0 /\ step' = 1)
    BY <1>1 DEF Main, MainPolls, MainFlags, MainShuts, MainCloses,
                MainJoins, MainDestroys, MainDoes
  <2>2. MainWork' = MainWork - 1
    BY <2>1 DEF MainWork, UsersInv
  <2>3. UNCHANGED <<camAt, recVars, guiAt, logVars, frames>>
    BY <1>1 DEF Main, MainPolls, MainFlags, MainShuts, MainCloses,
                MainJoins, MainDestroys, MainDoes, queueVars, guiVars
  <2>4. UNCHANGED <<CamWork, RecWork, EventWork, GuiWork, LogWork>>
    BY <2>3 DEF CamWork, RecWork, EventWork, GuiWork, LogWork, recVars,
                logVars
  <2>5. /\ UNCHANGED <<pubPc, timerPc, timerArmed, reds>>
        /\ dtorPc' = dtorPc \/ (dtorPc = "alive" /\ dtorPc' = "notify")
    BY <1>1 DEF Main, MainPolls, MainFlags, MainShuts, MainCloses,
                MainJoins, MainDestroys, StoreStopped, lockVars
  <2>6. UNCHANGED <<PubWork, TimerWork, DtorWork, reds>>
    BY <2>5 DEF PubWork, TimerWork, DtorWork
  <2>7. UsersWork' = UsersWork - 1
    BY <2>2, <2>4 DEF UsersWork, WorkParts
  <2>8. LockWork' = LockWork
    BY <2>4, <2>6 DEF LockWork
  <2> QED
    BY <2>7, <2>8, SumsAreNumbers DEF Work
<1>2. CASE CamOpens \/ CamExits
  <2>1. /\ CamWork' = CamWork - 1
        /\ UNCHANGED <<lockVars, mainVars, frames, recVars, guiVars, logVars>>
    BY <1>2 DEF CamOpens, CamExits, CamGoes, CamWork
  <2>2. UNCHANGED <<MainWork, RecWork, EventWork, GuiWork, LogWork>>
    BY <2>1 DEF MainWork, RecWork, EventWork, GuiWork, LogWork, mainVars,
                recVars, guiVars, logVars
  <2>3. UNCHANGED <<PubWork, TimerWork, DtorWork, reds>>
    BY <2>1 DEF PubWork, TimerWork, DtorWork, lockVars
  <2>4. UsersWork' = UsersWork - 1
    BY <2>1, <2>2 DEF UsersWork, WorkParts
  <2>5. LockWork' = LockWork
    BY <2>2, <2>3 DEF LockWork
  <2> QED
    BY <2>4, <2>5, SumsAreNumbers DEF Work
<1> QED
  BY <1>1, <1>2

(* Delivering an event costs less than what it was worth where it waited.  *)
LEMMA DeliverCosts ==
    ASSUME NEW result, deliver(result), WorkParts, UNCHANGED LogWork
    PROVE  \E k \in {4, 17} : LockWork' = LockWork + k
<1>1. /\ pubPc = "idle" /\ pubPc' \in {"redHigh", "redLow"}
      /\ UNCHANGED <<timerPc, timerArmed, dtorPc, reds>>
  BY DEF deliver
<1>2. PICK k \in {4, 17} : PubWork' = PubWork + k
  <2>1. PubWork = 0 /\ PubWork' \in {4, 17}
    BY <1>1 DEF PubWork
  <2>2. CASE PubWork' = 4
    <3>1. PubWork' = PubWork + 4
      BY <2>1, <2>2
    <3> QED
      BY <3>1
  <2>3. CASE PubWork' = 17
    <3>1. PubWork' = PubWork + 17
      BY <2>1, <2>3
    <3> QED
      BY <3>1
  <2> QED
    BY <2>1, <2>2, <2>3
<1>3. UNCHANGED <<TimerWork, DtorWork, reds>>
  BY <1>1 DEF TimerWork, DtorWork
<1>4. LockWork' = LockWork + k
  BY <1>2, <1>3 DEF LockWork, WorkParts
<1> QED
  BY <1>4

(* A frame that is taken from the queue pays for its faces.                *)
LEMMA FramePays ==
    ASSUME NEW a \in Nat, NEW n \in Nat, NEW c \in Nat, NEW d \in 0 .. n,
           NEW e \in Nat
    PROVE  (a - (21 * n + 18)) + 21 * d + 20 * e
               <= (a + 21 * c + 20 * e) - 18
  OBVIOUS

LEMMA RecRunsDown ==
    ASSUME IsFiniteSet(Places), Rec, CamInv, CamInv', WorkParts, WorkParts'
    PROVE  Work' < Work
<1>1. UNCHANGED <<MainWork, CamWork, GuiWork, LogWork>>
  <2>1. UNCHANGED <<mainVars, camAt, guiVars, logVars>>
    BY DEF Rec, RecTests, RecPops, RecEnds, RecFace, RecPublishes,
           RecReturns, RecGoes
  <2> QED
    BY <2>1 DEF MainWork, CamWork, GuiWork, LogWork, mainVars, guiVars,
                logVars
<1>2. UNCHANGED lockVars => LockWork' = LockWork
  <2>1. UNCHANGED lockVars => UNCHANGED <<PubWork, TimerWork, DtorWork, reds>>
    BY DEF PubWork, TimerWork, DtorWork, lockVars
  <2> QED
    BY <1>1, <2>1 DEF LockWork
<1>3. CASE RecTests \/ RecEnds
  <2>1. /\ UNCHANGED <<lockVars, frames, todo, evs>>
        /\ \/ recAt = "loop" /\ recAt' \in {"pop", "exited"}
           \/ recAt = "pop" /\ recAt' = "exited"
    BY <1>3 DEF RecTests, RecEnds, RecGoes, queueVars
  <2>2. PICK k \in {1, 2} : RecWork' = RecWork - k
    BY <2>1 DEF RecWork
  <2>3. EventWork' = EventWork
    BY <2>1 DEF EventWork
  <2>4. UsersWork' = UsersWork - k
    BY <1>1, <2>2, <2>3 DEF UsersWork, WorkParts
  <2> QED
    BY <1>2, <2>1, <2>4, SumsAreNumbers DEF Work
<1>4. CASE RecPops
  <2>1. /\ UNCHANGED <<lockVars, evs>> /\ frames # <<>>
        /\ recAt = "pop" /\ recAt' \in {"loop", "faces"}
        /\ frames' = Tail(frames)
    BY <1>4 DEF RecPops, RecGoes
  <2>2. PICK k \in {1, 17} : RecWork' = RecWork + k
    BY <2>1 DEF RecWork
  <2>3. Len(frames') = Len(frames) - 1 /\ Len(frames) \in Nat \ {0}
    BY <2>1 DEF CamInv, FramesInv
  <2>4. Cardinality(todo') \in 0 .. Cardinality(Places)
    <3>1. todo' \subseteq Places
      BY DEF CamInv, RecInv
    <3> QED
      BY <3>1, FS_Subset, FS_CardinalityType
  <2>5. Cardinality(todo) \in Nat /\ Cardinality(Places) \in Nat
        /\ Len(evs) \in Nat
    BY EventParts, FS_CardinalityType
  <2>6. Len(frames') * FrameWork = Len(frames) * FrameWork - FrameWork
    BY <2>3, EventParts
  <2>7. Len(frames') * FrameWork \in Nat /\ Len(frames) * FrameWork \in Nat
    BY <2>3, EventParts
  <2>8. EventWork' = Len(frames') * FrameWork + 21 * Cardinality(todo')
                         + 20 * Len(evs)
    BY <2>1 DEF EventWork, FrameWork
  <2>9. EventWork' <= EventWork - 18
    <3> DEFINE a == Len(frames) * FrameWork
               n == Cardinality(Places)
               c == Cardinality(todo)
               d == Cardinality(todo')
               e == Len(evs)
    <3>1. EventWork = a + 21 * c + 20 * e
      BY DEF EventWork
    <3>2. EventWork' = (a - (21 * n + 18)) + 21 * d + 20 * e
      BY <2>6, <2>8 DEF FrameWork
    <3>3. a \in Nat /\ n \in Nat /\ c \in Nat /\ d \in 0 .. n /\ e \in Nat
      BY <2>4, <2>5, <2>7
    <3> HIDE DEF a, n, c, d, e
    <3>4. (a - (21 * n + 18)) + 21 * d + 20 * e
              <= (a + 21 * c + 20 * e) - 18
      BY <3>3, FramePays
    <3> QED
      BY <3>1, <3>2, <3>4, Zenon
  <2>10. PICK m \in Int : m >= 18 /\ EventWork' = EventWork - m
    BY <2>9 DEF WorkParts
  <2>11. UsersWork' = UsersWork + k - m
    BY <1>1, <2>2, <2>10 DEF UsersWork, WorkParts
  <2> QED
    BY <1>2, <2>1, <2>2, <2>10, <2>11, SumsAreNumbers DEF Work
<1>5. CASE RecFace
  <2>1. PICK place \in todo :
            /\ RecGoes("faces", IF todo = {place} THEN "publish" ELSE "faces")
            /\ todo' = todo \ {place}
            /\ evs' = Append(evs, recognise(place))
    BY <1>5 DEF RecFace
  <2>2. UNCHANGED <<lockVars, frames>> /\ RecWork = 18 /\ RecWork' = 18
    BY <1>5, <2>1 DEF RecFace, RecGoes, RecWork, queueVars
  <2>3. Cardinality(todo') = Cardinality(todo) - 1
    BY <2>1, EventParts, FS_RemoveElement
  <2>4. Len(evs') = Len(evs) + 1
    BY <2>1 DEF CamInv, RecInv
  <2>5. /\ Len(frames) * FrameWork \in Nat /\ Cardinality(todo) \in Nat
        /\ Len(evs) \in Nat
    BY EventParts
  <2>6. EventWork' = Len(frames) * FrameWork + 21 * Cardinality(todo')
                         + 20 * Len(evs')
    BY <2>2 DEF EventWork, FrameWork
  <2>7. EventWork' = EventWork - 1
    BY <2>3, <2>4, <2>5, <2>6 DEF EventWork
  <2>8. UsersWork' = UsersWork - 1
    BY <1>1, <2>2, <2>7 DEF UsersWork, WorkParts
  <2> QED
    BY <1>2, <2>2, <2>8, SumsAreNumbers DEF Work
<1>6. CASE RecPublishes
  <2>1. /\ recAt = "publish" /\ recAt' = "inside"
        /\ UNCHANGED <<frames, todo, evs>> /\ deliver(Head(evs).result)
    BY <1>6 DEF RecPublishes, RecGoes, publishOn, queueVars
  <2>2. RecWork = 18 /\ RecWork' = 0 /\ EventWork' = EventWork
    BY <2>1 DEF RecWork, EventWork
  <2>3. UsersWork' = UsersWork - 18
    BY <1>1, <2>2 DEF UsersWork, WorkParts
  <2>4. PICK k \in {4, 17} : LockWork' = LockWork + k
    BY <1>1, <2>1, DeliverCosts
  <2> QED
    BY <2>3, <2>4, SumsAreNumbers DEF Work
<1>7. CASE RecReturns
  <2>1. /\ recAt = "inside" /\ recAt' \in {"loop", "publish"}
        /\ UNCHANGED <<lockVars, frames, todo>> /\ evs' = Tail(evs)
    BY <1>7 DEF RecReturns, RecGoes, queueVars
  <2>2. Len(evs') = Len(evs) - 1
    BY <2>1 DEF CamInv, RecInv
  <2>3. /\ Len(frames) * FrameWork \in Nat /\ Cardinality(todo) \in Nat
        /\ Len(evs) \in Nat
    BY EventParts
  <2>4. EventWork' = Len(frames) * FrameWork + 21 * Cardinality(todo)
                         + 20 * Len(evs')
    BY <2>1 DEF EventWork, FrameWork
  <2>5. EventWork' = EventWork - 20
    BY <2>2, <2>3, <2>4 DEF EventWork
  <2>6. PICK k \in {2, 18} : RecWork' = RecWork + k
    BY <2>1 DEF RecWork
  <2>7. UsersWork' = UsersWork + k - 20
    BY <1>1, <2>5, <2>6 DEF UsersWork, WorkParts
  <2> QED
    BY <1>2, <2>1, <2>7, SumsAreNumbers DEF Work
<1> QED
  BY <1>3, <1>4, <1>5, <1>6, <1>7 DEF Rec

LEMMA GuiRunsDown ==
    ASSUME Gui \/ LogWrites \/ LogExits, CamInv, WorkParts
    PROVE  Work' < Work
<1>1. UNCHANGED lockVars => UNCHANGED <<PubWork, TimerWork, DtorWork, reds>>
  BY DEF PubWork, TimerWork, DtorWork, lockVars
<1>2. UNCHANGED <<MainWork, CamWork, RecWork, EventWork>>
  <2>1. UNCHANGED <<mainVars, queueVars, camAt, recVars>>
    BY DEF Gui, GuiOpens, GuiTests, GuiPublishes, GuiReturns, GuiGoes,
           LogWrites, LogExits
  <2> QED
    BY <2>1 DEF MainWork, CamWork, RecWork, EventWork, FrameWork, mainVars,
                queueVars, recVars
<1>3. CASE GuiOpens \/ GuiTests \/ GuiReturns
  <2>1. /\ UNCHANGED <<lockVars, logVars>>
        /\ \/ guiAt \in {"start", "inside"} /\ guiAt' = "loop"
           \/ guiAt = "loop" /\ guiAt' \in {"accept", "exited"}
    BY <1>3 DEF GuiOpens, GuiTests, GuiReturns, GuiGoes
  <2>2. GuiWork' = GuiWork - 1 /\ LogWork' = LogWork
    BY <2>1 DEF GuiWork, LogWork, logVars
  <2>3. UsersWork' = UsersWork - 1
    BY <1>2, <2>2 DEF UsersWork, WorkParts
  <2>4. LockWork' = LockWork
    BY <1>1, <2>1, <2>2 DEF LockWork
  <2> QED
    BY <2>3, <2>4, SumsAreNumbers DEF Work
<1>4. CASE GuiPublishes
  <2>1. /\ guiAt = "publish" /\ guiAt' = "inside" /\ UNCHANGED logVars
        /\ deliver(reply)
    BY <1>4 DEF GuiPublishes, GuiGoes, publishOn
  <2>2. GuiWork = 20 /\ GuiWork' = 2 /\ LogWork' = LogWork
    BY <2>1 DEF GuiWork, LogWork, logVars
  <2>3. UsersWork' = UsersWork - 18
    BY <1>2, <2>2 DEF UsersWork, WorkParts
  <2>4. PICK k \in {4, 17} : LockWork' = LockWork + k
    BY <2>1, <2>2, DeliverCosts
  <2> QED
    BY <2>3, <2>4, SumsAreNumbers DEF Work
<1>5. CASE LogWrites \/ LogExits
  <2>1. /\ UNCHANGED <<lockVars, guiVars>>
        /\ \/ logAt' = logAt /\ entries' = entries - 1
           \/ logAt = "pop" /\ logAt' = "exited" /\ entries' = entries
    BY <1>5 DEF LogWrites, LogExits
  <2>2. GuiWork' = GuiWork
    BY <2>1 DEF GuiWork, guiVars
  <2>3. LogWork' = LogWork - 1
    BY <2>1, CamConstants DEF LogWork, CamInv, EntriesInv
  <2>4. UsersWork' = UsersWork
    BY <1>2, <2>2 DEF UsersWork
  <2>5. LockWork' = LockWork - 1
    BY <1>1, <2>1, <2>3 DEF LockWork, WorkParts
  <2> QED
    BY <2>4, <2>5, SumsAreNumbers DEF Work
<1> QED
  BY <1>3, <1>4, <1>5 DEF Gui

LEMMA LockRunsDown ==
    ASSUME \/ InLock \/ Alone(RedOff) \/ Alone(timerLoop)
           \/ Alone(Destructor),
           LockTypeOK, CamInv, WorkParts
    PROVE  Work' < Work
<1>1. SUFFICES \E k \in Nat \ {0} : LockWork' = LockWork - k
  <2>1. UNCHANGED othersVars
    BY DEF InLock, Alone
  <2>2. UNCHANGED <<MainWork, CamWork, RecWork, EventWork, GuiWork>>
    BY <2>1 DEF othersVars, MainWork, CamWork, RecWork, EventWork, FrameWork,
                GuiWork, mainVars, queueVars, recVars, guiVars
  <2>3. UsersWork' = UsersWork
    BY <2>2 DEF UsersWork
  <2> QED
    BY <2>3, SumsAreNumbers DEF Work
<1>2. UNCHANGED <<entries, logAt>> => UNCHANGED LogWork
  BY DEF LogWork
<1>3. CASE InLock
  <2>1. UNCHANGED <<logAt, dtorPc>> /\ onAccessEvent
    BY <1>3 DEF InLock, othersVars, onAccessEvent, PubPin, DetachRed,
                tryUnlock, StoreUnlocked, ArmTimer, NotifyTimer
  <2>2. DtorWork' = DtorWork
    BY <2>1 DEF DtorWork
  <2>3. pubPc # "greenHigh" => LogWork' = LogWork
    BY <1>3, <1>2, <2>1 DEF InLock
  <2>4. CASE \/ PubPin("redHigh", "red", TRUE, "greenLow")
             \/ PubPin("greenLow", "green", FALSE, "spawn")
             \/ PubPin("redLow", "red", FALSE, "try")
             \/ PubPin("relayHigh", "relay", TRUE, "arm")
             \/ tryUnlock \/ StoreUnlocked
    <3>1. /\ UNCHANGED <<timerPc, timerArmed, reds>>
          /\ <<pubPc, pubPc'>> \in
                 {<<"redHigh", "greenLow">>, <<"greenLow", "spawn">>,
                  <<"redLow", "try">>, <<"relayHigh", "arm">>,
                  <<"try", "unlocked">>, <<"try", "idle">>,
                  <<"unlocked", "relayHigh">>}
      BY <2>4 DEF PubPin, tryUnlock, StoreUnlocked
    <3>2. PICK k \in 1 .. 16 : PubWork' = PubWork - k
      BY <3>1 DEF PubWork
    <3>3. TimerWork' = TimerWork /\ LogWork' = LogWork
      BY <2>3, <3>1 DEF TimerWork
    <3>4. LockWork' = LockWork - k
      BY <2>2, <3>1, <3>2, <3>3 DEF LockWork, WorkParts
    <3> QED
      BY <3>4
  <2>5. CASE DetachRed
    <3>1. /\ UNCHANGED <<timerPc, timerArmed>> /\ reds' = reds + 1
          /\ pubPc = "spawn" /\ pubPc' = "idle"
      BY <2>5 DEF DetachRed
    <3>2. PubWork' = PubWork - 2 /\ TimerWork' = TimerWork
      BY <3>1 DEF PubWork, TimerWork
    <3>3. LockWork' = LockWork - 1
      BY <2>2, <2>3, <3>1, <3>2 DEF LockWork, WorkParts
    <3> QED
      BY <3>3
  <2>6. CASE ArmTimer
    <3>1. /\ UNCHANGED <<timerPc, reds>> /\ timerArmed' = TRUE
          /\ pubPc = "arm" /\ pubPc' = "notify"
      BY <2>6 DEF ArmTimer
    <3>2. PubWork' = PubWork - 8
      BY <3>1 DEF PubWork
    <3>3. PICK k \in {0, 7} : TimerWork' = TimerWork + k
      BY <3>1 DEF TimerWork, LockTypeOK, TimerPcs
    <3>4. LockWork' = LockWork + k - 8
      BY <2>2, <2>3, <3>1, <3>2, <3>3 DEF LockWork, WorkParts
    <3>5. LockWork' = LockWork - (8 - k)
      BY <3>4, SumsAreNumbers
    <3> QED
      BY <3>5
  <2>7. CASE NotifyTimer
    <3>1. /\ UNCHANGED <<timerArmed, reds>> /\ notify
          /\ pubPc = "notify" /\ pubPc' = "greenHigh"
      BY <2>7 DEF NotifyTimer
    <3>2. PubWork' = PubWork - 3
      BY <3>1 DEF PubWork
    <3>3. PICK k \in {0, 2} : TimerWork' = TimerWork + k
      BY <3>1 DEF TimerWork, LockTypeOK, TimerPcs, notify
    <3>4. LockWork' = LockWork + k - 3
      BY <2>2, <2>3, <3>1, <3>2, <3>3 DEF LockWork, WorkParts
    <3>5. LockWork' = LockWork - (3 - k)
      BY <3>4, SumsAreNumbers
    <3> QED
      BY <3>5
  <2>8. CASE PubPin("greenHigh", "green", TRUE, "idle")
    <3>1. /\ UNCHANGED <<timerPc, timerArmed, reds>>
          /\ pubPc = "greenHigh" /\ pubPc' = "idle"
      BY <2>8 DEF PubPin
    <3>2. PubWork' = PubWork - 2 /\ TimerWork' = TimerWork
      BY <3>1 DEF PubWork, TimerWork
    <3>3. LogWork' = LogWork + 1
      BY <1>3, <2>1, <3>1, CamConstants
      DEF InLock, LogWork, CamInv, EntriesInv
    <3>4. LockWork' = LockWork - 1
      BY <2>2, <3>1, <3>2, <3>3 DEF LockWork, WorkParts
    <3> QED
      BY <3>4
  <2> QED
    BY <2>1, <2>4, <2>5, <2>6, <2>7, <2>8 DEF onAccessEvent
<1>4. CASE Alone(RedOff)
  <2>1. /\ reds' = reds - 1
        /\ UNCHANGED <<pubPc, timerPc, timerArmed, dtorPc, entries, logAt>>
    BY <1>4 DEF Alone, RedOff, othersVars
  <2>2. UNCHANGED <<PubWork, TimerWork, DtorWork>>
    BY <2>1 DEF PubWork, TimerWork, DtorWork
  <2>3. LockWork' = LockWork - 1
    BY <1>2, <2>1, <2>2 DEF LockWork, WorkParts
  <2> QED
    BY <2>3
<1>5. CASE Alone(timerLoop)
  <2>1. UNCHANGED <<pubPc, dtorPc, reds, entries, logAt>> /\ timerLoop
    BY <1>5 DEF Alone, othersVars, timerLoop, TimerTop, TimerTest, TimerWait,
                TimerWakes, TimerPin, TimerLocked
  <2>2. UNCHANGED <<PubWork, DtorWork>>
    BY <2>1 DEF PubWork, DtorWork
  <2>3. PICK k \in {1, 2, 3} : TimerWork' = TimerWork - k
    <3>1. CASE TimerTest
      <4>1. timerPc = "acquire" /\ timerArmed \in BOOLEAN
        BY <3>1 DEF TimerTest, LockTypeOK
      <4>2. \/ timerArmed /\ ~timerArmed' /\ timerPc' = "asleep"
            \/ timerArmed' = timerArmed /\ timerPc' \in {"block", "exited"}
        BY <3>1 DEF TimerTest
      <4> QED
        BY <4>1, <4>2 DEF TimerWork
    <3>2. CASE \/ TimerTop \/ TimerWait \/ TimerWakes \/ TimerLocked
               \/ TimerPin("relayLow", "relay", FALSE, "locked")
               \/ TimerPin("greenLow", "green", FALSE, "redLow")
               \/ TimerPin("redLow", "red", FALSE, "top")
      <4>1. /\ UNCHANGED timerArmed
            /\ <<timerPc, timerPc'>> \in
                   {<<"top", "acquire">>, <<"top", "exited">>,
                    <<"block", "waiting">>, <<"asleep", "relayLow">>,
                    <<"relayLow", "locked">>, <<"locked", "greenLow">>,
                    <<"greenLow", "redLow">>, <<"redLow", "top">>}
        BY <3>2 DEF TimerTop, TimerWait, TimerWakes, TimerLocked, TimerPin
      <4> QED
        BY <4>1 DEF TimerWork
    <3> QED
      BY <2>1, <3>1, <3>2 DEF timerLoop
  <2>4. LockWork' = LockWork - k
    BY <1>2, <2>1, <2>2, <2>3 DEF LockWork, WorkParts
  <2> QED
    BY <2>4
<1>6. CASE Alone(Destructor)
  <2>1. UNCHANGED <<pubPc, timerArmed, reds, entries, logAt>>
    BY <1>6 DEF Alone, othersVars, Destructor, DestructorNotifies,
                DestructorJoins, DestructorLocks
  <2>2. UNCHANGED PubWork
    BY <2>1 DEF PubWork
  <2>3. \/ dtorPc = "notify" /\ dtorPc' = "join" /\ notify
        \/ dtorPc = "join" /\ dtorPc' = "low" /\ timerPc' = timerPc
        \/ dtorPc = "low" /\ dtorPc' = "gone" /\ timerPc' = timerPc
    BY <1>6 DEF Alone, Destructor, DestructorNotifies, DestructorJoins,
                DestructorLocks
  <2>4. CASE dtorPc = "notify"
    <3>1. DtorWork' = DtorWork - 3
      BY <2>3, <2>4 DEF DtorWork
    <3>2. PICK k \in {0, 2} : TimerWork' = TimerWork + k
      BY <2>1, <2>3, <2>4 DEF TimerWork, LockTypeOK, TimerPcs, notify
    <3>3. LockWork' = LockWork + k - 3
      BY <1>2, <2>1, <2>2, <3>1, <3>2 DEF LockWork, WorkParts
    <3>4. LockWork' = LockWork - (3 - k)
      BY <3>3, SumsAreNumbers
    <3> QED
      BY <3>4
  <2>5. CASE dtorPc # "notify"
    <3>1. DtorWork' = DtorWork - 1
      BY <2>3, <2>5 DEF DtorWork
    <3>2. TimerWork' = TimerWork
      BY <2>1, <2>3, <2>5 DEF TimerWork
    <3>3. LockWork' = LockWork - 1
      BY <1>2, <2>1, <2>2, <3>1, <3>2 DEF LockWork, WorkParts
    <3> QED
      BY <3>3
  <2> QED
    BY <2>4, <2>5
<1> QED
  BY <1>3, <1>4, <1>5, <1>6

(* The threads do not keep each other busy for ever: each step they take   *)
(* by themselves leaves less to do, a relocking timer, a notification and  *)
(* a log entry included.  So after a signal, left alone by the camera, the *)
(* GUI's clients and the clock, the program comes to where nobody can run, *)
(* and by CamNobodyStuck that is its end or one of the named waits.        *)
THEOREM CamRunsDown ==
    ASSUME IsFiniteSet(Places)
    PROVE  CamSpec => [][Threads => /\ Work \in Nat /\ Work' \in Nat
                                    /\ Work' < Work]_camVars
<1> DEFINE Inv == /\ LockTypeOK /\ UsersInv /\ CamInv
                  /\ WorkParts /\ Work \in Nat
<1>1. LockTypeOK /\ UsersInv /\ CamInv => Inv
  BY PartsAreNumbers, SumsAreNumbers
<1>2. CamSpec => []Inv
  BY <1>1, CamInvariant, CamImplementsLock, LockTyping, PTL
<1>3. ASSUME Inv, Inv', Threads
      PROVE  Work \in Nat /\ Work' \in Nat /\ Work' < Work
  <2>1. Work' < Work
    BY <1>3, MainRunsDown, RecRunsDown, GuiRunsDown, LockRunsDown DEF Threads
  <2> QED
    BY <1>3, <2>1
<1>4. Inv /\ Inv' => [Threads => /\ Work \in Nat /\ Work' \in Nat
                                /\ Work' < Work]_camVars
  BY <1>3
<1> QED
  BY <1>2, <1>4, PTL
=============================================================================
