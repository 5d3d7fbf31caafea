----------------------- MODULE DoorAlarmSystem_proofs -----------------------
(* Proofs about the threads of the door alarm, for all durations, bounds    *)
(* and sets of tags, with and without the synchronous assumption.           *)
EXTENDS DoorAlarmSystem, DoorAlarmFSM_proofs, SequenceTheorems

(* A saturating age stays in its range.                                     *)
LEMMA OlderType ==
    ASSUME NEW cap \in Nat, NEW a \in 0 .. cap \cup {Never}
    PROVE  /\ Older(a, cap) \in 0 .. cap \cup {Never}
           /\ a \in 0 .. cap => Older(a, cap) \in 0 .. cap
BY SMT DEF Older, Never

LEMMA CapsType == AgeCap \in Nat /\ HeldCap \in Nat /\ Debounce + 1 \in Nat
BY SystemAssumption, SMT DEF AgeCap, HeldCap

LEMMA InitType == Init => FSMStart /\ ThreadsTypeOK
<1> SUFFICES ASSUME Init
             PROVE  FSMStart /\ ThreadsTypeOK
    OBVIOUS
<1>1. FSMStart
      BY MaxWindowAssumption DEF Init, FSMStart, Windows
<1>2. edges \in Seq(BOOLEAN) /\ queue \in Seq(EventType) /\ Len(queue) = 0
      BY DEF Init
<1>3. 0 \in 0 .. AgeCap /\ 0 \in 0 .. HeldCap /\ QueueBound \in Nat
      BY CapsType, SystemAssumption
<1>4. used \in [{"moves", "tags", "presses", "commands"} -> Nat]
      BY DEF Init
<1>5. door \in BOOLEAN /\ reedValue \in BOOLEAN
      BY SystemAssumption DEF Init
<1> QED
    BY <1>1, <1>2, <1>3, <1>4, <1>5 DEF Init, ThreadsTypeOK, State

(* Posting keeps the queue a bounded queue of events.                       *)
LEMMA PostType ==
    ASSUME ThreadsTypeOK, NEW type \in EventType, postEvent(type)
    PROVE  queue' \in Seq(EventType) /\ Len(queue') <= QueueBound
BY SystemAssumption DEF ThreadsTypeOK, postEvent

(* Spending a bound keeps the counters natural numbers.                     *)
LEMMA UseType ==
    ASSUME ThreadsTypeOK, NEW bound \in Nat,
           NEW r \in {"moves", "tags", "presses", "commands"}, Use(r, bound)
    PROVE  used' \in [{"moves", "tags", "presses", "commands"} -> Nat]
BY DEF ThreadsTypeOK, Use

LEMMA ThreadsStep ==
    ASSUME TypeOK, TypeOK', ThreadsTypeOK, [Next]_vars
    PROVE  ThreadsTypeOK'
<1> USE SystemAssumption, CapsType
    DEF ThreadsTypeOK, sensorVars, inputVars, timerVars
<1>1. CASE DoorMoves
  <2>1. edges' \in Seq(BOOLEAN) /\ door' \in BOOLEAN
        BY <1>1 DEF DoorMoves
  <2>2. used' \in [{"moves", "tags", "presses", "commands"} -> Nat]
        BY <1>1, UseType DEF DoorMoves
  <2> QED
      BY <1>1, <2>1, <2>2 DEF DoorMoves
<1>2. CASE Tick
  <2>1. /\ pressAge' \in 0 .. Debounce + 1 \cup {Never}
        /\ age' \in 0 .. AgeCap
        /\ held' \in 0 .. HeldCap
        BY <1>2, OlderType DEF Tick
  <2>2. timerPc' \in {"asleep", "awake", "silence", "reset", "deadline",
                      "timeout"}
        BY <1>2 DEF Tick
  <2> QED
      BY <1>2, <2>1, <2>2 DEF Tick
<1>3. ASSUME NEW type \in Commands, Inject(type)
      PROVE  ThreadsTypeOK'
  <2>1. type \in EventType
        BY DEF Commands, EventType
  <2>2. queue' \in Seq(EventType) /\ Len(queue') <= QueueBound
        BY <1>3, <2>1, PostType DEF Inject
  <2>3. used' \in [{"moves", "tags", "presses", "commands"} -> Nat]
        BY <1>3, UseType DEF Inject
  <2> QED
      BY <1>3, <2>2, <2>3 DEF Inject
<1>4. ASSUME NEW value \in BOOLEAN, ButtonEdge(value)
      PROVE  ThreadsTypeOK'
  <2>1. used' \in [{"moves", "tags", "presses", "commands"} -> Nat]
        BY <1>4, UseType DEF ButtonEdge
  <2>2. pressAge' \in 0 .. Debounce + 1 \cup {Never}
        BY <1>4 DEF ButtonEdge
  <2>3. buttonPc' \in {"wait", "post"}
        BY <1>4 DEF ButtonEdge
  <2> QED
      BY <1>4, <2>1, <2>2, <2>3 DEF ButtonEdge
<1>5. ASSUME NEW uid \in Tags, NfcRead(uid)
      PROVE  ThreadsTypeOK'
  <2>1. used' \in [{"moves", "tags", "presses", "commands"} -> Nat]
        BY <1>5, UseType DEF NfcRead
  <2> QED
      BY <1>5, <2>1 DEF NfcRead
<1>6. CASE ReedSense
      BY <1>6 DEF ReedSense, setDoorState
<1>7. CASE ReedPost
  <2>1. queue' \in Seq(EventType) /\ Len(queue') <= QueueBound
        BY <1>7, PostType DEF ReedPost, EventType
  <2> QED
      BY <1>7, <2>1 DEF ReedPost
<1>8. CASE ReedFault
      BY <1>8 DEF ReedFault
<1>9. CASE ButtonPost
  <2>1. queue' \in Seq(EventType) /\ Len(queue') <= QueueBound
        BY <1>9, PostType DEF ButtonPost, EventType
  <2> QED
      BY <1>9, <2>1 DEF ButtonPost
<1>10. CASE NfcPost
  <2>1. queue' \in Seq(EventType) /\ Len(queue') <= QueueBound
        BY <1>10, PostType DEF NfcPost, EventType
  <2> QED
      BY <1>10, <2>1 DEF NfcPost
<1>11. CASE Control
  <2>1. queue' \in Seq(EventType) /\ Len(queue') <= QueueBound
        BY <1>11 DEF Control
  <2>2. held' \in 0 .. HeldCap
        BY <1>11 DEF Control
  <2> QED
      BY <1>11, <2>1, <2>2 DEF Control
<1>12. CASE TimerSample
  <2>1. age' \in 0 .. AgeCap /\ lastState' \in State \ {"Fault"}
        BY <1>12 DEF TimerSample, TypeOK
  <2>2. timerPc' \in {"asleep", "silence", "reset", "deadline"}
        BY <1>12 DEF TimerSample
  <2> QED
      BY <1>12, <2>1, <2>2 DEF TimerSample
<1>13. CASE TimerSilence
       BY <1>13 DEF TimerSilence
<1>14. CASE TimerReset
  <2>1. queue' \in Seq(EventType) /\ Len(queue') <= QueueBound
        BY <1>14, PostType DEF TimerReset, EventType
  <2> QED
      BY <1>14, <2>1 DEF TimerReset
<1>15. CASE TimerDeadline
       BY <1>15 DEF TimerDeadline
<1>16. CASE TimerTimeout
  <2>1. queue' \in Seq(EventType) /\ Len(queue') <= QueueBound
        BY <1>16, PostType DEF TimerTimeout, EventType
  <2> QED
      BY <1>16, <2>1 DEF TimerTimeout
<1>17. CASE UNCHANGED vars
       BY <1>17 DEF vars
<1> QED
    BY <1>1, <1>2, <1>3, <1>4, <1>5, <1>6, <1>7, <1>8, <1>9, <1>10, <1>11,
       <1>12, <1>13, <1>14, <1>15, <1>16, <1>17
    DEF Next, World, Reed, Timer

(* Every step of a thread or of the world is a step of the FSM, or leaves   *)
(* it alone: no thread reaches into it except through its methods.          *)
LEMMA FSMSimulation ==
    ASSUME TypeOK, ThreadsTypeOK, [Next]_vars
    PROVE  [FSMNext]_fsmVars
<1>1. CASE DoorMoves \/ ReedPost \/ ReedFault \/ ButtonPost \/ NfcPost
      BY <1>1 DEF DoorMoves, ReedPost, ReedFault, ButtonPost, NfcPost
<1>2. CASE TimerSample \/ TimerReset \/ TimerDeadline \/ TimerTimeout
      BY <1>2 DEF TimerSample, TimerReset, TimerDeadline, TimerTimeout
<1>3. CASE \/ \E type \in Commands : Inject(type)
           \/ \E value \in BOOLEAN : ButtonEdge(value)
           \/ \E uid \in Tags : NfcRead(uid)
      BY <1>3 DEF Inject, ButtonEdge, NfcRead
<1>4. CASE Tick
  <2>1. CASE deadline > 0
        BY <1>4, <2>1 DEF Tick, FSMNext, Elapse
  <2>2. CASE ~(deadline > 0)
    <3>1. deadline' = deadline
          BY <1>4, <2>2 DEF Tick, OneUnitLess
    <3> QED
        BY <1>4, <3>1 DEF Tick, fsmVars
  <2> QED
      BY <2>1, <2>2
<1>5. CASE ReedSense
  <2>1. Head(edges) \in BOOLEAN
        BY <1>5 DEF ReedSense, ThreadsTypeOK
  <2> QED
      BY <1>5, <2>1 DEF ReedSense, FSMNext
<1>6. CASE Control
  <2>1. PICK type : handleEvent(type)
        BY <1>6 DEF Control
  <2>2. type \in EventType
        BY <2>1 DEF handleEvent, EventType
  <2> QED
      BY <2>1, <2>2 DEF FSMNext
<1>7. CASE TimerSilence
      BY <1>7 DEF TimerSilence, FSMNext
<1>8. CASE UNCHANGED vars
      BY <1>8 DEF vars
<1> QED
    BY <1>1, <1>2, <1>3, <1>4, <1>5, <1>6, <1>7, <1>8
    DEF Next, World, Reed, Timer

(* What holds in every reachable state: the FSM's invariant and the types   *)
(* of the threads' variables, which the simulation needs for the values     *)
(* the threads pass to the FSM.                                             *)
SystemInv == FSMInv /\ ThreadsTypeOK

LEMMA SystemInvariant == Spec => []SystemInv
<1>1. Init => SystemInv
      BY InitType, FSMInitInv DEF SystemInv
<1>2. SystemInv /\ [Next]_vars => SystemInv'
  <2> SUFFICES ASSUME SystemInv, [Next]_vars
               PROVE  SystemInv'
      OBVIOUS
  <2>1. TypeOK /\ ThreadsTypeOK
        BY DEF SystemInv, FSMInv
  <2>2. FSMInv'
        BY <2>1, FSMSimulation, FSMStepInv DEF SystemInv
  <2>3. ThreadsTypeOK'
        BY <2>1, <2>2, ThreadsStep DEF FSMInv
  <2> QED
      BY <2>2, <2>3 DEF SystemInv
<1> QED
    BY <1>1, <1>2, PTL DEF Spec

(* Type correctness of the whole system, the bound of its queue included.   *)
THEOREM SystemTyping == Spec => []SystemTypeOK
<1>1. SystemInv => SystemTypeOK
      BY DEF SystemInv, FSMInv, SystemTypeOK
<1> QED
    BY SystemInvariant, <1>1, PTL

(* The threads, in any interleaving and at any speed, use the FSM as its    *)
(* specification says, so that everything proved of FSMSpec holds of the    *)
(* running system.                                                          *)
LEMMA SystemImplementsFSM == Spec => FSMSpec
<1>1. Init => FSMStart
      BY InitType
<1>2. SystemInv /\ [Next]_vars => [FSMNext]_fsmVars
      BY FSMSimulation DEF SystemInv, FSMInv
<1> QED
    BY <1>1, <1>2, SystemInvariant, PTL DEF Spec, FSMSpec

(* In the running system too a deadline is set exactly while verification   *)
(* is pending, and the alarm flag only in AlarmActive.                      *)
THEOREM SystemAlarmOwned == Spec => [](DeadlineIffPending /\ AlarmOwned)
BY SystemImplementsFSM, FSMDeadline, FSMAlarmOwned, PTL

(* And the threads raise the alarm only by the expiry of a grace period,    *)
(* once per breach (DoorAlarmFSM.cpp:132).                                  *)
THEOREM SystemRingsOnce == Spec => RingsOncePerBreach
BY SystemImplementsFSM, FSMRingsOnce, PTL

-----------------------------------------------------------------------------
(* What the queue says about the door.  An event of type a is in q, and    *)
(* every a in q has a b behind it.                                         *)
In(q, a) == \E i \in 1 .. Len(q) : q[i] = a

Followed(q, a, b) ==
    \A i \in 1 .. Len(q) :
        q[i] = a => \E j \in i + 1 .. Len(q) : q[j] = b

LEMMA AppendKeeps ==
    ASSUME NEW q \in Seq(EventType), NEW e \in EventType,
           NEW a, NEW b
    PROVE  /\ In(q, a) => In(Append(q, e), a)
           /\ In(Append(q, e), e)
           /\ Followed(q, a, b) /\ e # a => Followed(Append(q, e), a, b)
           /\ a # b => Followed(Append(q, b), a, b)
           /\ ~In(q, a) /\ e # a => ~In(Append(q, e), a)
<1> DEFINE n == Len(q)
<1>1. /\ n \in Nat
      /\ \A x : /\ Len(Append(q, x)) = n + 1
               /\ Append(q, x)[n + 1] = x
               /\ \A i \in 1 .. n : Append(q, x)[i] = q[i]
  OBVIOUS
<1> HIDE DEF n
<1>2. In(q, a) => In(Append(q, e), a)
  BY <1>1 DEF In, n
<1>3. In(Append(q, e), e)
  BY <1>1 DEF In
<1>4. Followed(q, a, b) /\ e # a => Followed(Append(q, e), a, b)
  <2> SUFFICES ASSUME Followed(q, a, b), e # a,
                      NEW i \in 1 .. n + 1, Append(q, e)[i] = a
               PROVE  \E j \in i + 1 .. n + 1 : Append(q, e)[j] = b
    BY <1>1 DEF Followed
  <2>1. i \in 1 .. n /\ q[i] = a
    BY <1>1
  <2>2. PICK j \in i + 1 .. n : q[j] = b
    BY <2>1 DEF Followed, n
  <2> QED
    BY <1>1, <2>1, <2>2
<1>5. a # b => Followed(Append(q, b), a, b)
  <2> SUFFICES ASSUME a # b, NEW i \in 1 .. n + 1, Append(q, b)[i] = a
               PROVE  \E j \in i + 1 .. n + 1 : Append(q, b)[j] = b
    BY <1>1 DEF Followed
  <2>1. i # n + 1 /\ n + 1 \in i + 1 .. n + 1
    BY <1>1
  <2> QED
    BY <1>1, <2>1
<1>6. ~In(q, a) /\ e # a => ~In(Append(q, e), a)
  BY <1>1 DEF In, n
<1> QED
  BY <1>2, <1>3, <1>4, <1>5, <1>6

LEMMA TailKeeps ==
    ASSUME NEW q \in Seq(EventType), q # <<>>, NEW a, NEW b
    PROVE  /\ In(q, a) /\ Head(q) # a => In(Tail(q), a)
           /\ Followed(q, a, b) => Followed(Tail(q), a, b)
           /\ Followed(q, a, b) /\ Head(q) = a => In(Tail(q), b)
           /\ In(Tail(q), a) => In(q, a)
           /\ In(q, Head(q))
<1> DEFINE n == Len(q)
           t == Tail(q)
<1>1. /\ n \in Nat \ {0} /\ Len(t) = n - 1 /\ Head(q) = q[1]
      /\ \A i \in 1 .. n - 1 : t[i] = q[i + 1]
  OBVIOUS
<1> HIDE DEF n, t
<1>2. In(q, a) /\ Head(q) # a => In(t, a)
  <2> SUFFICES ASSUME NEW i \in 1 .. n, q[i] = a, q[1] # a
               PROVE  In(t, a)
    BY <1>1 DEF In, n
  <2>1. i - 1 \in 1 .. n - 1 /\ t[i - 1] = a
    BY <1>1
  <2> QED
    BY <1>1, <2>1 DEF In
<1>3. Followed(q, a, b) => Followed(t, a, b)
  <2> SUFFICES ASSUME Followed(q, a, b), NEW i \in 1 .. n - 1, t[i] = a
               PROVE  \E j \in i + 1 .. n - 1 : t[j] = b
    BY <1>1 DEF Followed
  <2>1. i + 1 \in 1 .. n /\ q[i + 1] = a
    BY <1>1
  <2>2. PICK j \in (i + 1) + 1 .. n : q[j] = b
    BY <2>1 DEF Followed, n
  <2>3. j - 1 \in i + 1 .. n - 1 /\ t[j - 1] = q[j]
    BY <1>1, <2>2
  <2> QED
    BY <2>2, <2>3
<1>4. Followed(q, a, b) /\ Head(q) = a => In(t, b)
  <2> SUFFICES ASSUME Followed(q, a, b), q[1] = a PROVE In(t, b)
    BY <1>1
  <2>1. PICK j \in 1 + 1 .. n : q[j] = b
    BY <1>1 DEF Followed, n
  <2>2. j - 1 \in 1 .. n - 1 /\ t[j - 1] = q[j]
    BY <1>1, <2>1
  <2> QED
    BY <1>1, <2>1, <2>2 DEF In
<1>5. In(t, a) => In(q, a)
  BY <1>1 DEF In, n
<1>6. In(q, Head(q))
  BY <1>1 DEF In, n
<1> QED
  BY <1>2, <1>3, <1>4, <1>5, <1>6 DEF t

-----------------------------------------------------------------------------
(* The reports of the reed switch on their way to the queue: the newest of *)
(* them says how the door stands.                                          *)
ReportsInv ==
    reedPc # "dead" =>
        /\ edges # <<>> => edges[Len(edges)] = door
        /\ edges = <<>> /\ reedPc = "post" => reedValue = door

AllPosted == edges = <<>> /\ reedPc = "wait"

(* When all reports of a closed door have been posted, whatever makes the  *)
(* cache say "open" has a DoorClosed behind it.                            *)
CacheInv ==
    (AllPosted /\ ~door) =>
        /\ Followed(queue, "DoorOpened", "DoorClosed")
        /\ doorOpen => In(queue, "DoorClosed")

LEMMA ReportsInvInit == Init => ReportsInv /\ CacheInv
  BY DEF Init, FSMInit, ReportsInv, CacheInv, Followed

(* The sensor's reports stay in order.                                     *)
LEMMA ReportsStep ==
    ASSUME ThreadsTypeOK, ReportsInv, [Next]_vars
    PROVE  ReportsInv'
<1> USE DEF ThreadsTypeOK, ReportsInv
<1>1. CASE UNCHANGED sensorVars
  BY <1>1 DEF sensorVars
<1>2. CASE DoorMoves
  <2>1. /\ edges' = Append(edges, ~door) /\ door' = ~door
        /\ UNCHANGED reedPc
    BY <1>2 DEF DoorMoves
  <2>2. edges' # <<>> /\ edges'[Len(edges')] = ~door
    BY <2>1
  <2> QED
    BY <2>1, <2>2
<1>3. CASE ReedSense
  <2>1. /\ edges # <<>> /\ edges' = Tail(edges) /\ reedValue' = Head(edges)
        /\ reedPc = "wait" /\ reedPc' = "post" /\ door' = door
    BY <1>3 DEF ReedSense
  <2>2. CASE Tail(edges) = <<>>
    <3>1. Len(Tail(edges)) = Len(edges) - 1 /\ Len(edges) \in Nat
      BY <2>1
    <3>2. Len(Tail(edges)) = 0
      BY <2>2, EmptySeq, Zenon
    <3>3. Head(edges) = edges[Len(edges)]
      <4>1. Len(edges) = 1
        BY <3>1, <3>2
      <4> QED
        BY <4>1
    <3> QED
      BY <2>1, <2>2, <3>3
  <2>3. CASE Tail(edges) # <<>>
    <3>1. Tail(edges)[Len(Tail(edges))] = edges[Len(edges)]
      BY <2>1, <2>3
    <3> QED
      BY <2>1, <2>3, <3>1
  <2> QED
    BY <2>2, <2>3
<1>4. CASE ReedPost
  BY <1>4 DEF ReedPost
<1>5. CASE ReedFault
  BY <1>5 DEF ReedFault
<1> QED
  BY <1>1, <1>2, <1>3, <1>4, <1>5
  DEF Next, World, Reed, Timer, vars, Tick, Inject, ButtonEdge, NfcRead,
      ButtonPost, NfcPost, Control, TimerSample, TimerSilence, TimerReset,
      TimerDeadline, TimerTimeout

(* An event other than DoorOpened leaves the promise of the cache alone.   *)
LEMMA OtherPostCache ==
    ASSUME ThreadsTypeOK, CacheInv, UNCHANGED <<doorOpen, sensorVars>>,
           NEW type \in EventType \ {"DoorOpened"}, postEvent(type)
    PROVE  CacheInv'
  BY AppendKeeps DEF ThreadsTypeOK, CacheInv, AllPosted, sensorVars, postEvent

(* So does every step.                                                     *)
LEMMA CacheStep ==
    ASSUME TypeOK, ThreadsTypeOK, ReportsInv, CacheInv, [Next]_vars
    PROVE  CacheInv'
<1>1. CASE UNCHANGED <<doorOpen, sensorVars, queue>>
  BY <1>1 DEF CacheInv, AllPosted, sensorVars
<1>2. CASE DoorMoves
  <2>1. edges' # <<>>
    BY <1>2 DEF DoorMoves, ThreadsTypeOK
  <2> QED
    BY <2>1 DEF CacheInv, AllPosted
<1>3. CASE ReedSense \/ ReedFault
  BY <1>3 DEF ReedSense, ReedFault, CacheInv, AllPosted
<1>4. CASE ReedPost
  <2> SUFFICES ASSUME edges = <<>>, ~door, reedPc = "post"
               PROVE  /\ Followed(queue', "DoorOpened", "DoorClosed")
                      /\ In(queue', "DoorClosed")
    BY <1>4 DEF ReedPost, CacheInv, AllPosted
  <2>1. ~reedValue
    BY DEF ReportsInv, ThreadsTypeOK
  <2>2. queue' = Append(queue, "DoorClosed")
    BY <1>4, <2>1 DEF ReedPost, postEvent
  <2>3. queue \in Seq(EventType) /\ "DoorClosed" \in EventType
    BY DEF ThreadsTypeOK, EventType
  <2> QED
    BY <2>2, <2>3, AppendKeeps
<1>5. CASE Control
  <2> SUFFICES ASSUME AllPosted, ~door
               PROVE  /\ Followed(queue', "DoorOpened", "DoorClosed")
                      /\ doorOpen' => In(queue', "DoorClosed")
    BY <1>5 DEF Control, CacheInv, AllPosted, sensorVars
  <2>1. /\ queue \in Seq(EventType) /\ queue # <<>>
        /\ queue' = Tail(queue) /\ handleEvent(Head(queue))
    BY <1>5 DEF Control, ThreadsTypeOK
  <2>2. /\ Followed(queue, "DoorOpened", "DoorClosed")
        /\ doorOpen => In(queue, "DoorClosed")
    BY DEF CacheInv
  <2>3. Followed(queue', "DoorOpened", "DoorClosed")
    BY <2>1, <2>2, TailKeeps
  <2>4. CASE Head(queue) = "DoorOpened"
    BY <2>1, <2>2, <2>3, <2>4, TailKeeps
  <2>5. CASE Head(queue) = "DoorClosed"
    <3>1. ~doorOpen'
      BY <2>1, <2>5 DEF handleEvent, handleDoorClosed
    <3> QED
      BY <2>3, <3>1
  <2>6. CASE Head(queue) \notin {"DoorOpened", "DoorClosed"}
    <3>1. doorOpen' = doorOpen
      BY <2>1, <2>6 DEF handleEvent, handleArm, handleDisarm,
           handleAuthorization, handleVerificationTimeout, fsmVars
    <3> QED
      BY <2>1, <2>2, <2>3, <2>6, <3>1, TailKeeps
  <2> QED
    BY <2>4, <2>5, <2>6
<1>6. CASE ButtonPost \/ NfcPost \/ TimerReset \/ TimerTimeout
  <2>1. {"AuthorizedByApp", "AuthorizedByNfc", "DoorClosed",
         "VerificationTimeout"} \subseteq EventType \ {"DoorOpened"}
    BY DEF EventType
  <2> QED
    BY <1>6, <2>1, OtherPostCache
    DEF ButtonPost, NfcPost, TimerReset, TimerTimeout, fsmVars
<1>7. CASE \E type \in Commands : Inject(type)
  <2>1. Commands \subseteq EventType \ {"DoorOpened"}
    BY DEF EventType, Commands
  <2> QED
    BY <1>7, <2>1, OtherPostCache DEF Inject, fsmVars
<1> QED
  BY <1>1, <1>2, <1>3, <1>4, <1>5, <1>6, <1>7
  DEF Next, World, Reed, Timer, vars, fsmVars, Tick, ButtonEdge, NfcRead,
      TimerSample, TimerSilence, Silence, TimerDeadline

(* When every report has been handled a cache that says "open" is right,   *)
(* however the two ways of telling the FSM interleave                      *)
(* (DoorAlarmSystem.cpp:135).                                              *)
THEOREM CacheIsTrue == Spec => []OpenCacheIsTrue
<1>1. SystemInv /\ ReportsInv /\ CacheInv /\ [Next]_vars
          => ReportsInv' /\ CacheInv'
  BY ReportsStep, CacheStep DEF SystemInv, FSMInv
<1>2. CacheInv => OpenCacheIsTrue
  BY DEF CacheInv, OpenCacheIsTrue, Reported, AllPosted, SensorIdle, In
<1> QED
  BY <1>1, <1>2, SystemInvariant, ReportsInvInit, PTL DEF Spec

-----------------------------------------------------------------------------
(* As long as nobody authorizes anything, the events are the sensor's and  *)
(* the timer's, and every DoorClosed is the sensor's.                      *)
SensorEvents == {"DoorOpened", "DoorClosed", "VerificationTimeout"}

Quiet ==
    /\ buttonPc = "wait" /\ nfcPc = "wait" /\ timerPc # "reset"
    /\ state \in {"ArmedIdle", "PendingVerification", "AlarmActive"}
    /\ queue \in Seq(SensorEvents)

QuietInv == NobodyAuthorized => Quiet

(* When all reports of an open door have been posted, whatever makes the   *)
(* FSM take it for closed has a DoorOpened behind it.                      *)
IntruderInv ==
    (NobodyAuthorized /\ AllPosted /\ door) =>
        /\ Followed(queue, "DoorClosed", "DoorOpened")
        /\ state = "ArmedIdle" => In(queue, "DoorOpened")

(* Authorization is not forgotten.                                         *)
LEMMA AuthorizedStays ==
    ASSUME ThreadsTypeOK, [Next]_vars, NobodyAuthorized'
    PROVE  /\ NobodyAuthorized
           /\ ~ \E type \in Commands : Inject(type)
           /\ ~ \E value \in BOOLEAN : ButtonEdge(value)
           /\ ~ \E uid \in Tags : NfcRead(uid)
<1> USE DEF ThreadsTypeOK, NobodyAuthorized, Use
<1>1. CASE UNCHANGED used
  <2>1. NobodyAuthorized
    BY <1>1
  <2>2. /\ ~ \E type \in Commands : Inject(type)
        /\ ~ \E value \in BOOLEAN : ButtonEdge(value)
        /\ ~ \E uid \in Tags : NfcRead(uid)
    BY <1>1 DEF Inject, ButtonEdge, NfcRead
  <2> QED
    BY <2>1, <2>2
<1>2. CASE DoorMoves
  <2>1. used' = [used EXCEPT !["moves"] = @ + 1]
    BY <1>2 DEF DoorMoves
  <2>2. NobodyAuthorized
    BY <2>1
  <2>3. door' # door
    BY <1>2 DEF DoorMoves
  <2> QED
    BY <2>2, <2>3 DEF Inject, ButtonEdge, NfcRead, sensorVars
<1>3. ~ \E type \in Commands : Inject(type)
  <2> SUFFICES ASSUME used' = [used EXCEPT !["commands"] = @ + 1] PROVE FALSE
    BY DEF Inject
  <2> QED
    OBVIOUS
<1>4. ~ \E value \in BOOLEAN : ButtonEdge(value)
  <2> SUFFICES ASSUME used' = [used EXCEPT !["presses"] = @ + 1] PROVE FALSE
    BY DEF ButtonEdge
  <2> QED
    OBVIOUS
<1>5. ~ \E uid \in Tags : NfcRead(uid)
  <2> SUFFICES ASSUME used' = [used EXCEPT !["tags"] = @ + 1] PROVE FALSE
    BY DEF NfcRead
  <2> QED
    OBVIOUS
<1> QED
  BY <1>1, <1>2, <1>3, <1>4, <1>5
  DEF Next, World, Reed, Timer, vars, Tick, ReedSense, ReedPost, ReedFault,
      ButtonPost, NfcPost, Control, TimerSample, TimerSilence, TimerReset,
      TimerDeadline, TimerTimeout

(* Which events there are, while nobody authorizes anything.               *)
LEMMA QuietStep ==
    ASSUME ThreadsTypeOK, QuietInv, [Next]_vars
    PROVE  QuietInv'
<1> SUFFICES ASSUME NobodyAuthorized' PROVE Quiet'
  BY DEF QuietInv
<1>1. Quiet
  BY AuthorizedStays DEF QuietInv
<1> USE <1>1 DEF Quiet
<1>2. CASE DoorMoves \/ Tick
  BY <1>2 DEF DoorMoves, Tick, inputVars, timerVars, fsmVars
<1>3. CASE ReedSense \/ ReedPost \/ ReedFault
  <2>1. queue' \in Seq(SensorEvents)
    BY <1>3 DEF ReedSense, ReedPost, ReedFault, postEvent, SensorEvents
  <2> QED
    BY <1>3, <2>1 DEF ReedSense, setDoorState, ReedPost, ReedFault, inputVars,
                      timerVars, fsmVars
<1>4. CASE Control
  <2>1. /\ queue' \in Seq(SensorEvents) /\ handleEvent(Head(queue))
        /\ Head(queue) \in SensorEvents
        /\ UNCHANGED <<inputVars, timerVars>>
    BY <1>4 DEF Control
  <2>2. state' \in {"ArmedIdle", "PendingVerification", "AlarmActive"}
    BY <2>1 DEF handleEvent, SensorEvents, handleDoorOpened, handleDoorClosed,
                handleVerificationTimeout, fsmVars
  <2> QED
    BY <2>1, <2>2 DEF inputVars, timerVars
<1>5. CASE TimerSample
  <2>1. timerPc' # "reset"
    BY <1>5 DEF TimerSample
  <2> QED
    BY <1>5, <2>1 DEF TimerSample, inputVars, fsmVars
<1>6. CASE TimerSilence \/ TimerDeadline
  BY <1>6 DEF TimerSilence, Silence, TimerDeadline, inputVars, fsmVars
<1>7. CASE TimerTimeout
  <2>1. queue' \in Seq(SensorEvents)
    BY <1>7 DEF TimerTimeout, postEvent, SensorEvents
  <2> QED
    BY <1>7, <2>1 DEF TimerTimeout, inputVars, fsmVars
<1>8. CASE UNCHANGED vars
  BY <1>8 DEF vars, inputVars, timerVars, fsmVars
<1>9. ~ButtonPost /\ ~NfcPost /\ ~TimerReset
  BY DEF ButtonPost, NfcPost, TimerReset
<1> QED
  BY AuthorizedStays, <1>2, <1>3, <1>4, <1>5, <1>6, <1>7, <1>8, <1>9
  DEF Next, World, Reed, Timer

(* Every step keeps the promise to the owner of the door.                  *)
LEMMA IntruderStep ==
    ASSUME TypeOK, ThreadsTypeOK, ReportsInv, QuietInv, IntruderInv,
           [Next]_vars
    PROVE  IntruderInv'
<1> SUFFICES ASSUME NobodyAuthorized', AllPosted', door'
             PROVE  /\ Followed(queue', "DoorClosed", "DoorOpened")
                    /\ state' = "ArmedIdle" => In(queue', "DoorOpened")
  BY DEF IntruderInv
<1>1. NobodyAuthorized /\ Quiet
  BY AuthorizedStays DEF QuietInv
<1>2. ASSUME UNCHANGED <<state, sensorVars, queue>>
      PROVE  /\ Followed(queue', "DoorClosed", "DoorOpened")
             /\ state' = "ArmedIdle" => In(queue', "DoorOpened")
  BY <1>1, <1>2 DEF IntruderInv, AllPosted, sensorVars
<1>3. ~DoorMoves
  <2>1. DoorMoves => edges' # <<>>
    BY DEF DoorMoves, ThreadsTypeOK
  <2> QED
    BY <2>1 DEF AllPosted
<1>4. ~ReedSense /\ ~ReedFault
  BY DEF ReedSense, ReedFault, AllPosted
<1>5. CASE ReedPost
  <2>1. edges = <<>> /\ door /\ reedPc = "post"
    BY <1>5 DEF ReedPost, AllPosted
  <2>2. reedValue
    BY <2>1 DEF ReportsInv, ThreadsTypeOK
  <2>3. queue' = Append(queue, "DoorOpened")
    BY <1>5, <2>2 DEF ReedPost, postEvent
  <2>4. queue \in Seq(EventType) /\ "DoorOpened" \in EventType
    BY DEF ThreadsTypeOK, EventType
  <2> QED
    BY <2>3, <2>4, AppendKeeps
<1>6. CASE TimerTimeout
  <2>1. /\ queue' = Append(queue, "VerificationTimeout") /\ state' = state
        /\ AllPosted /\ door
    BY <1>6 DEF TimerTimeout, postEvent, fsmVars, sensorVars, AllPosted
  <2>2. queue \in Seq(EventType) /\ "VerificationTimeout" \in EventType
    BY DEF ThreadsTypeOK, EventType
  <2> QED
    BY <1>1, <2>1, <2>2, AppendKeeps DEF IntruderInv
<1>7. CASE Control
  <2>1. /\ queue \in Seq(EventType) /\ queue # <<>>
        /\ queue' = Tail(queue) /\ handleEvent(Head(queue))
        /\ AllPosted /\ door
    BY <1>7 DEF Control, ThreadsTypeOK, AllPosted, sensorVars
  <2>2. Head(queue) \in SensorEvents
    BY <1>1, <2>1 DEF Quiet
  <2>3. /\ Followed(queue, "DoorClosed", "DoorOpened")
        /\ state = "ArmedIdle" => In(queue, "DoorOpened")
    BY <1>1, <2>1 DEF IntruderInv
  <2>4. Followed(queue', "DoorClosed", "DoorOpened")
    BY <2>1, <2>3, TailKeeps
  <2>5. CASE Head(queue) = "DoorOpened"
    <3>1. state' # "ArmedIdle"
      BY <2>1, <2>5 DEF handleEvent, handleDoorOpened, Challenges
    <3> QED
      BY <2>4, <3>1
  <2>6. CASE Head(queue) = "DoorClosed"
    BY <2>1, <2>3, <2>4, <2>6, TailKeeps
  <2>7. CASE Head(queue) = "VerificationTimeout"
    <3>1. state' = "ArmedIdle" => state = "ArmedIdle"
      BY <2>1, <2>7 DEF handleEvent, handleVerificationTimeout, fsmVars
    <3> QED
      BY <2>1, <2>3, <2>4, <2>7, <3>1, TailKeeps
  <2> QED
    BY <2>2, <2>5, <2>6, <2>7 DEF SensorEvents
<1>8. ~ButtonPost /\ ~NfcPost /\ ~TimerReset
  BY <1>1 DEF Quiet, ButtonPost, NfcPost, TimerReset
<1> QED
  BY AuthorizedStays, <1>2, <1>3, <1>4, <1>5, <1>6, <1>7, <1>8
  DEF Next, World, Reed, Timer, vars, fsmVars, Tick, TimerSample,
      TimerSilence, Silence, TimerDeadline

(* A door that is opened without any credential is noticed once its        *)
(* reports are handled, if it was closed when the program started: the     *)
(* sensor reports edges only, never the level it finds (GPIOPin.cpp:67).   *)
THEOREM IntrudersAreNoticed ==
    ASSUME StartOpen = {FALSE}
    PROVE  Spec => []IntrusionNoticed
<1>1. Init => ReportsInv /\ QuietInv /\ IntruderInv
  BY ReportsInvInit
  DEF Init, FSMInit, QuietInv, Quiet, IntruderInv, SensorEvents
<1>2. SystemInv /\ ReportsInv /\ QuietInv /\ IntruderInv /\ [Next]_vars
          => ReportsInv' /\ QuietInv' /\ IntruderInv'
  BY ReportsStep, QuietStep, IntruderStep DEF SystemInv, FSMInv
<1>3. QuietInv /\ IntruderInv => IntrusionNoticed
  BY DEF QuietInv, Quiet, IntruderInv, IntrusionNoticed, Reported, AllPosted,
         SensorIdle, In
<1> QED
  BY <1>1, <1>2, <1>3, SystemInvariant, PTL DEF Spec

-----------------------------------------------------------------------------
(* The threads that keep up with the world.  The inputs are at rest.       *)
InputsRest == SensorIdle /\ buttonPc = "wait" /\ nfcPc = "wait"

(* What the timer thread has promised when it goes to sleep: no grace      *)
(* period is over, and its stopwatch is at most one tick behind the state, *)
(* or has not seen it yet.                                                 *)
Stopwatch ==
    /\ lastState = state => held <= age + 1
    /\ lastState # state => held = 0

Promises ==
    /\ Stopwatch
    /\ state = "PendingVerification" => deadline > 0
    /\ (alarmActive /\ lastState = "AlarmActive") => age <= SilenceAfter
    /\ (state = "AuthorizedEntry" /\ lastState = state)
           => (age <= ResetAfter \/ held = 0)

(* One input is under way, and the timer thread is asleep.                 *)
OneInput ==
    /\ timerPc = "asleep"
    /\ Promises
    /\ \/ InputsRest /\ queue = <<>>
       \/ /\ queue = <<>> /\ buttonPc = "wait" /\ nfcPc = "wait"
          /\ \E level \in BOOLEAN : edges = <<level>>
          /\ reedPc \in {"wait", "dead"}
       \/ /\ queue = <<>> /\ buttonPc = "wait" /\ nfcPc = "wait"
          /\ edges = <<>> /\ reedPc = "post"
       \/ queue = <<>> /\ SensorIdle /\ buttonPc = "post" /\ nfcPc = "wait"
       \/ queue = <<>> /\ SensorIdle /\ buttonPc = "wait" /\ nfcPc = "post"
       \/ /\ InputsRest
          /\ \E type \in EventType \ {"VerificationTimeout"} :
                 queue = <<type>>

(* The timer thread is up, and nothing else is going on.                   *)
OneTimer ==
    /\ InputsRest
    /\ queue = <<>>
    /\ \/ /\ timerPc = "awake"
          /\ lastState = state => held <= age + 1
          /\ lastState # state => held <= 1
       \/ timerPc = "silence" /\ state = "AlarmActive" /\ Stopwatch
       \/ timerPc = "reset" /\ state = "AuthorizedEntry" /\ Stopwatch
       \/ /\ timerPc = "deadline" /\ state = "PendingVerification"
          /\ lastState = state /\ Stopwatch
       \/ /\ timerPc = "timeout" /\ state = "PendingVerification"
          /\ lastState = state /\ deadline = 0 /\ Stopwatch

(* What the timer thread has posted is in the queue, alone.                *)
OneTimeout ==
    /\ InputsRest
    /\ timerPc = "asleep"
    /\ queue = <<"VerificationTimeout">>
    /\ state = "PendingVerification" /\ lastState = state /\ deadline = 0
    /\ Stopwatch

OneReset ==
    /\ InputsRest
    /\ timerPc = "asleep"
    /\ queue = <<"DoorClosed">>
    /\ state = "AuthorizedEntry"
    /\ Stopwatch

SyncInv ==
    /\ window = MaxWindow
    /\ OneInput \/ OneTimer \/ OneTimeout \/ OneReset

(* What the promises are about.                                            *)
dutyVars == <<state, deadline, alarmActive, window, lastState, age, held>>

LEMMA PromisesKept ==
    ASSUME Promises, UNCHANGED dutyVars PROVE Promises'
  BY DEF Promises, Stopwatch, dutyVars

(* Between two inputs the promises hold.                                   *)
LEMMA IdlePromises ==
    ASSUME SyncInv, Idle PROVE Promises
<1>1. queue = <<>> /\ timerPc = "asleep"
  BY DEF Idle
<1>2. ~OneTimer /\ ~OneTimeout /\ ~OneReset
  BY <1>1 DEF OneTimer, OneTimeout, OneReset
<1> QED
  BY <1>2 DEF SyncInv, OneInput

(* The world acts only on threads at rest, and starts one of them.         *)
LEMMA SyncWorld ==
    ASSUME Synchronous, SystemInv, SyncInv, World
    PROVE  SyncInv'
<1>1. Idle /\ Promises /\ queue \in Seq(EventType)
  <2>1. WorldMayAct
    BY DEF World, DoorMoves, Tick, Inject, ButtonEdge, NfcRead
  <2> QED
    BY <2>1, IdlePromises DEF WorldMayAct, SystemInv, ThreadsTypeOK
<1> USE DEF sensorVars, inputVars, timerVars, fsmVars
<1>2. CASE DoorMoves
  <2>1. \E level \in BOOLEAN : edges' = <<level>>
    <3>1. PICK level : level = ~door
      OBVIOUS
    <3>2. level \in BOOLEAN
      BY <3>1
    <3>3. edges' = Append(<<>>, level)
      BY <1>1, <1>2, <3>1 DEF DoorMoves, Idle, SensorIdle
    <3>4. Append(<<>>, level) = <<level>>
      OBVIOUS
    <3> QED
      BY <3>2, <3>3, <3>4
  <2>2. Promises'
    BY <1>1, <1>2, PromisesKept DEF DoorMoves, dutyVars
  <2>3. OneInput'
    BY <1>1, <1>2, <2>1, <2>2 DEF DoorMoves, Idle, SensorIdle, OneInput
  <2> QED
    BY <1>2, <2>3 DEF DoorMoves, SyncInv
<1>3. CASE Tick
  <2>1. /\ age \in 0 .. AgeCap /\ held \in 0 .. HeldCap
        /\ AgeCap \in Nat /\ HeldCap = AgeCap + 1
    BY CapsType DEF SystemInv, ThreadsTypeOK, HeldCap
  <2>2. /\ age' = (IF age >= AgeCap THEN age ELSE age + 1)
        /\ held' = (IF held >= HeldCap THEN held ELSE held + 1)
        /\ UNCHANGED <<state, lastState>>
    BY <1>3, <2>1 DEF Tick, Older, Never
  <2>3. /\ lastState' = state' => held' <= age' + 1
        /\ lastState' # state' => held' <= 1
    BY <1>1, <2>1, <2>2 DEF Promises, Stopwatch
  <2>4. OneTimer'
    BY <1>1, <1>3, <2>3 DEF Tick, Idle, SensorIdle, InputsRest, OneTimer
  <2> QED
    BY <1>3, <2>4 DEF Tick, SyncInv
<1>4. CASE \E type \in Commands : Inject(type)
  <2>1. PICK type \in Commands : Inject(type)
    BY <1>4
  <2>2. type \in EventType \ {"VerificationTimeout"} /\ queue' = <<type>>
    BY <1>1, <2>1 DEF Commands, EventType, Inject, postEvent, Idle
  <2>3. Promises'
    BY <1>1, <2>1, PromisesKept DEF Inject, dutyVars
  <2>4. OneInput'
    BY <1>1, <2>1, <2>2, <2>3
    DEF Inject, Idle, SensorIdle, InputsRest, OneInput
  <2> QED
    BY <2>1, <2>4 DEF Inject, SyncInv
<1>5. CASE \E value \in BOOLEAN : ButtonEdge(value)
  <2>1. PICK value \in BOOLEAN : ButtonEdge(value)
    BY <1>5
  <2>2. Promises'
    BY <1>1, <2>1, PromisesKept DEF ButtonEdge, dutyVars
  <2>3. buttonPc' \in {"wait", "post"}
    BY <1>1, <2>1 DEF ButtonEdge, Idle
  <2>4. OneInput'
    BY <1>1, <2>1, <2>2, <2>3
    DEF ButtonEdge, Idle, SensorIdle, InputsRest, OneInput
  <2> QED
    BY <2>1, <2>4 DEF ButtonEdge, SyncInv
<1>6. CASE \E uid \in Tags : NfcRead(uid)
  <2>1. PICK uid \in Tags : NfcRead(uid)
    BY <1>6
  <2>2. Promises'
    BY <1>1, <2>1, PromisesKept DEF NfcRead, dutyVars
  <2>3. nfcPc' \in {"wait", "post"}
    BY <2>1 DEF NfcRead
  <2>4. OneInput'
    BY <1>1, <2>1, <2>2, <2>3
    DEF NfcRead, Idle, SensorIdle, InputsRest, OneInput
  <2> QED
    BY <2>1, <2>4 DEF NfcRead, SyncInv
<1> QED
  BY <1>2, <1>3, <1>4, <1>5, <1>6 DEF World

(* The input threads hand their input on.                                  *)
LEMMA SyncInputs ==
    ASSUME SystemInv, SyncInv, Reed \/ ReedFault \/ ButtonPost \/ NfcPost
    PROVE  SyncInv'
<1> USE DEF sensorVars, inputVars, timerVars, fsmVars
<1>1. CASE ReedSense
  <2>1. /\ OneInput /\ queue = <<>> /\ buttonPc = "wait" /\ nfcPc = "wait"
        /\ \E level \in BOOLEAN : edges = <<level>>
    BY <1>1 DEF ReedSense, SyncInv, OneInput, OneTimer, OneTimeout, OneReset,
                InputsRest, SensorIdle
  <2>2. edges' = <<>>
    BY <1>1, <2>1 DEF ReedSense
  <2>3. Promises'
    BY <1>1, <2>1, PromisesKept
    DEF ReedSense, setDoorState, dutyVars, OneInput
  <2>4. OneInput'
    BY <1>1, <2>1, <2>2, <2>3 DEF ReedSense, OneInput
  <2> QED
    BY <1>1, <2>4 DEF ReedSense, setDoorState, SyncInv
<1>2. CASE ReedPost
  <2>1. /\ OneInput /\ queue = <<>> /\ buttonPc = "wait" /\ nfcPc = "wait"
        /\ edges = <<>>
    BY <1>2 DEF ReedPost, SyncInv, OneInput, OneTimer, OneTimeout, OneReset,
                InputsRest, SensorIdle
  <2>2. PICK type \in {"DoorOpened", "DoorClosed"} : queue' = <<type>>
    BY <1>2, <2>1 DEF ReedPost, postEvent
  <2>3. Promises'
    BY <1>2, <2>1, PromisesKept DEF ReedPost, dutyVars, OneInput
  <2>4. type \in EventType \ {"VerificationTimeout"}
    BY DEF EventType
  <2>5. OneInput'
    BY <1>2, <2>1, <2>2, <2>3, <2>4
    DEF ReedPost, InputsRest, SensorIdle, OneInput
  <2> QED
    BY <1>2, <2>5 DEF ReedPost, SyncInv
<1>3. CASE ReedFault
  <2>1. /\ reedPc = "wait" /\ reedPc' = "dead"
        /\ UNCHANGED <<edges, inputVars, timerVars, fsmVars, queue, held>>
    BY <1>3 DEF ReedFault
  <2>2. InputsRest => InputsRest'
    BY <2>1 DEF InputsRest, SensorIdle
  <2>3. /\ Promises => Promises'
        /\ Stopwatch => Stopwatch'
    BY <2>1 DEF Promises, Stopwatch
  <2>4. OneInput => OneInput'
    BY <2>1, <2>2, <2>3 DEF OneInput, SensorIdle
  <2>5. /\ OneTimer => OneTimer'
        /\ OneTimeout => OneTimeout'
        /\ OneReset => OneReset'
    BY <2>1, <2>2, <2>3 DEF OneTimer, OneTimeout, OneReset
  <2> QED
    BY <2>1, <2>4, <2>5 DEF SyncInv
<1>4. CASE ButtonPost
  <2>1. OneInput /\ queue = <<>> /\ SensorIdle /\ nfcPc = "wait"
    BY <1>4 DEF ButtonPost, SyncInv, OneInput, OneTimer, OneTimeout, OneReset,
                InputsRest
  <2>2. queue' = <<"AuthorizedByApp">>
    BY <1>4, <2>1 DEF ButtonPost, postEvent
  <2>3. Promises'
    BY <1>4, <2>1, PromisesKept DEF ButtonPost, dutyVars, OneInput
  <2>4. "AuthorizedByApp" \in EventType \ {"VerificationTimeout"}
    BY DEF EventType
  <2>5. OneInput'
    BY <1>4, <2>1, <2>2, <2>3, <2>4
    DEF ButtonPost, InputsRest, SensorIdle, OneInput
  <2> QED
    BY <1>4, <2>5 DEF ButtonPost, SyncInv
<1>5. CASE NfcPost
  <2>1. OneInput /\ queue = <<>> /\ SensorIdle /\ buttonPc = "wait"
    BY <1>5 DEF NfcPost, SyncInv, OneInput, OneTimer, OneTimeout, OneReset,
                InputsRest
  <2>2. queue' = <<"AuthorizedByNfc">>
    BY <1>5, <2>1 DEF NfcPost, postEvent
  <2>3. Promises'
    BY <1>5, <2>1, PromisesKept DEF NfcPost, dutyVars, OneInput
  <2>4. "AuthorizedByNfc" \in EventType \ {"VerificationTimeout"}
    BY DEF EventType
  <2>5. OneInput'
    BY <1>5, <2>1, <2>2, <2>3, <2>4
    DEF NfcPost, InputsRest, SensorIdle, OneInput
  <2> QED
    BY <1>5, <2>5 DEF NfcPost, SyncInv
<1> QED
  BY <1>1, <1>2, <1>3, <1>4, <1>5 DEF Reed

(* The control thread handles the one event there is.                      *)
LEMMA SyncControl ==
    ASSUME MaxWindow > 0, SystemInv, SyncInv, Control
    PROVE  SyncInv'
<1>1. PICK type : queue = <<type>>
  BY DEF Control, SyncInv, OneInput, OneTimer, OneTimeout, OneReset
<1>2. /\ queue' = <<>> /\ handleEvent(type)
      /\ held' = (IF state' # state THEN 0 ELSE held)
      /\ UNCHANGED <<sensorVars, inputVars, timerVars>>
  BY <1>1 DEF Control
<1>3. InputsRest /\ timerPc = "asleep"
  BY <1>1 DEF SyncInv, OneInput, OneTimer, OneTimeout, OneReset
<1>4. InputsRest' /\ timerPc' = "asleep" /\ UNCHANGED <<lastState, age>>
  BY <1>2, <1>3 DEF InputsRest, SensorIdle, sensorVars, inputVars, timerVars
<1>5. /\ age \in Nat /\ held \in Nat /\ DeadlineIffPending /\ AlarmOwned
      /\ window = MaxWindow /\ window' = window
  <2>1. window' = window
    BY <1>2 DEF handleEvent, handleArm, handleDisarm, handleDoorOpened,
                handleDoorClosed, handleAuthorization,
                handleVerificationTimeout, fsmVars
  <2> QED
    BY <2>1, CapsType DEF SystemInv, FSMInv, ThreadsTypeOK, SyncInv
<1>6. Stopwatch'
  <2>1. Stopwatch
    BY <1>1 DEF SyncInv, OneInput, Promises, OneTimer, OneTimeout, OneReset
  <2> QED
    BY <1>2, <1>4, <1>5, <2>1 DEF Stopwatch
<1>7. state' = "PendingVerification" => deadline' > 0
  <2> SUFFICES ASSUME state' = "PendingVerification" PROVE deadline' > 0
    OBVIOUS
  <2>1. CASE Challenges /\ type = "DoorOpened"
    BY <1>2, <1>5, <2>1, MaxWindowAssumption DEF handleEvent, handleDoorOpened
  <2>2. CASE ~(Challenges /\ type = "DoorOpened")
    <3>1. state = "PendingVerification" /\ UNCHANGED deadline
      BY <1>2, <2>2 DEF handleEvent, handleArm, handleDisarm,
           handleDoorOpened, handleDoorClosed, handleAuthorization,
           handleVerificationTimeout, fsmVars
    <3>2. type \notin {"VerificationTimeout"}
      BY <1>2, <2>2, <3>1
      DEF handleEvent, handleVerificationTimeout, Expires
    <3>3. OneInput
      BY <1>1, <3>1, <3>2 DEF SyncInv, OneTimer, OneTimeout, OneReset
    <3> QED
      BY <3>1, <3>3 DEF OneInput, Promises
  <2> QED
    BY <2>1, <2>2
<1>8. (alarmActive' /\ lastState' = "AlarmActive") => age' <= SilenceAfter
  <2> SUFFICES ASSUME alarmActive', lastState' = "AlarmActive"
               PROVE  age' <= SilenceAfter
    OBVIOUS
  <2>1. OneInput \/ OneReset
    BY <1>1, <1>4 DEF SyncInv, OneTimer, OneTimeout
  <2>2. type # "VerificationTimeout"
    BY <1>1, <2>1 DEF OneInput, OneReset
  <2>3. alarmActive
    BY <1>2, <2>2 DEF handleEvent, handleArm, handleDisarm, handleDoorOpened,
         handleDoorClosed, handleAuthorization, clearAlarm, fsmVars
  <2>4. OneInput
    BY <1>5, <2>1, <2>3 DEF OneReset, AlarmOwned
  <2> QED
    BY <1>4, <2>3, <2>4 DEF OneInput, Promises
<1>9. (state' = "AuthorizedEntry" /\ lastState' = state')
          => (age' <= ResetAfter \/ held' = 0)
  <2> SUFFICES ASSUME state' = "AuthorizedEntry", lastState' = state',
                      state' = state
               PROVE  age' <= ResetAfter \/ held' = 0
    BY <1>2
  <2>1. ~OneTimer /\ ~OneTimeout
    BY <1>1 DEF OneTimer, OneTimeout
  <2>2. ~OneReset
    <3> SUFFICES ASSUME OneReset PROVE FALSE
      OBVIOUS
    <3>1. type = "DoorClosed" /\ state = "AuthorizedEntry"
      BY <1>1 DEF OneReset
    <3> QED
      BY <1>2, <3>1 DEF handleEvent, handleDoorClosed, Resecures
  <2> QED
    BY <1>2, <1>4, <2>1, <2>2 DEF SyncInv, OneInput, Promises
<1>10. OneInput'
  BY <1>2, <1>4, <1>6, <1>7, <1>8, <1>9 DEF Promises, OneInput
<1> QED
  BY <1>5, <1>10 DEF SyncInv

(* The timer thread takes its sample and does its duty.                    *)
LEMMA SyncTimer ==
    ASSUME SystemInv, SyncInv, Timer
    PROVE  SyncInv'
<1>1. /\ OneTimer /\ InputsRest /\ queue = <<>> /\ window = MaxWindow
      /\ age \in Nat /\ held \in Nat
      /\ {ResetAfter, SilenceAfter} \subseteq Nat
      /\ AlarmOwned /\ DeadlineIffPending /\ TypeOK
  <2>1. timerPc # "asleep"
    BY DEF Timer, TimerSample, TimerSilence, TimerReset, TimerDeadline,
           TimerTimeout
  <2> QED
    BY <2>1, CapsType, SystemAssumption
    DEF SyncInv, OneInput, OneTimer, OneTimeout, OneReset, SystemInv, FSMInv,
        ThreadsTypeOK
<1>2. InputsRest' /\ window' = window
  BY <1>1 DEF InputsRest, SensorIdle, Timer, TimerSample, TimerSilence,
       Silence, TimerReset, TimerDeadline, TimerTimeout, sensorVars,
       inputVars, fsmVars
<1>3. CASE TimerSample
  <2>1. /\ timerPc = "awake" /\ lastState' = state
        /\ age' = (IF state # lastState THEN 0 ELSE age)
        /\ UNCHANGED <<state, deadline, alarmActive, held, queue>>
    BY <1>3 DEF TimerSample, fsmVars
  <2>2. /\ lastState = state => held <= age + 1
        /\ lastState # state => held <= 1
    BY <1>1, <2>1 DEF OneTimer
  <2>3. Stopwatch'
    BY <1>1, <2>1, <2>2 DEF Stopwatch
  <2>4. CASE state = "AlarmActive" /\ age' > SilenceAfter
    <3>1. timerPc' = "silence"
      BY <1>3, <2>4 DEF TimerSample
    <3>2. OneTimer'
      BY <1>1, <1>2, <2>1, <2>3, <2>4, <3>1 DEF OneTimer
    <3> QED
      BY <1>1, <1>2, <3>2 DEF SyncInv
  <2>5. CASE state = "AuthorizedEntry" /\ age' > ResetAfter
    <3>1. timerPc' = "reset"
      BY <1>3, <2>5 DEF TimerSample
    <3>2. OneTimer'
      BY <1>1, <1>2, <2>1, <2>3, <2>5, <3>1 DEF OneTimer
    <3> QED
      BY <1>1, <1>2, <3>2 DEF SyncInv
  <2>6. CASE state = "PendingVerification"
    <3>1. timerPc' = "deadline"
      BY <1>3, <2>6 DEF TimerSample
    <3>2. OneTimer'
      BY <1>1, <1>2, <2>1, <2>3, <2>6, <3>1 DEF OneTimer
    <3> QED
      BY <1>1, <1>2, <3>2 DEF SyncInv
  <2>7. CASE /\ ~(state = "AlarmActive" /\ age' > SilenceAfter)
             /\ ~(state = "AuthorizedEntry" /\ age' > ResetAfter)
             /\ state # "PendingVerification"
    <3>1. timerPc' = "asleep"
      BY <1>3, <2>7 DEF TimerSample
    <3>2. Promises'
      BY <1>1, <2>1, <2>3, <2>7 DEF Promises
    <3>3. OneInput'
      BY <1>1, <1>2, <2>1, <3>1, <3>2 DEF OneInput
    <3> QED
      BY <1>1, <1>2, <3>3 DEF SyncInv
  <2> QED
    BY <2>4, <2>5, <2>6, <2>7
<1>4. CASE TimerSilence
  <2>1. state = "AlarmActive" /\ Stopwatch
    BY <1>1, <1>4 DEF TimerSilence, OneTimer
  <2>2. Promises' /\ timerPc' = "asleep" /\ queue' = <<>>
    BY <1>1, <1>4, <2>1
    DEF TimerSilence, Silence, clearAlarm, Promises, Stopwatch
  <2>3. OneInput'
    BY <1>2, <2>2 DEF OneInput
  <2> QED
    BY <1>1, <1>2, <2>3 DEF SyncInv
<1>5. CASE TimerReset
  <2>1. state = "AuthorizedEntry" /\ Stopwatch
    BY <1>1, <1>5 DEF TimerReset, OneTimer
  <2>2. queue' = <<"DoorClosed">> /\ timerPc' = "asleep"
    BY <1>1, <1>5 DEF TimerReset, postEvent
  <2>3. OneReset'
    BY <1>2, <1>5, <2>1, <2>2 DEF TimerReset, OneReset, Stopwatch, fsmVars
  <2> QED
    BY <1>1, <1>2, <2>3 DEF SyncInv
<1>6. CASE TimerDeadline
  <2>1. state = "PendingVerification" /\ lastState = state /\ Stopwatch
    BY <1>1, <1>6 DEF TimerDeadline, OneTimer
  <2>2. /\ UNCHANGED <<state, lastState, age, held, deadline, alarmActive>>
        /\ queue' = <<>>
        /\ timerPc' = (IF deadline = 0 THEN "timeout" ELSE "asleep")
    BY <1>1, <1>6 DEF TimerDeadline, fsmVars
  <2>3. Stopwatch'
    BY <2>1, <2>2 DEF Stopwatch
  <2>4. CASE deadline = 0
    <3>1. OneTimer'
      BY <1>2, <2>1, <2>2, <2>3, <2>4 DEF OneTimer
    <3> QED
      BY <1>1, <1>2, <3>1 DEF SyncInv
  <2>5. CASE deadline # 0
    <3>1. deadline > 0
      BY <1>1, <2>1, <2>5, MaxWindowAssumption
      DEF DeadlineIffPending, TypeOK, Windows, NoDeadline
    <3>2. Promises'
      BY <1>1, <2>1, <2>2, <2>3, <3>1 DEF Promises, AlarmOwned
    <3>3. OneInput'
      BY <1>2, <2>2, <2>5, <3>2 DEF OneInput
    <3> QED
      BY <1>1, <1>2, <3>3 DEF SyncInv
  <2> QED
    BY <2>4, <2>5
<1>7. CASE TimerTimeout
  <2>1. /\ state = "PendingVerification" /\ lastState = state
        /\ deadline = 0 /\ Stopwatch
    BY <1>1, <1>7 DEF TimerTimeout, OneTimer
  <2>2. queue' = <<"VerificationTimeout">> /\ timerPc' = "asleep"
    BY <1>1, <1>7 DEF TimerTimeout, postEvent
  <2>3. OneTimeout'
    BY <1>2, <1>7, <2>1, <2>2 DEF TimerTimeout, OneTimeout, Stopwatch, fsmVars
  <2> QED
    BY <1>1, <1>2, <2>3 DEF SyncInv
<1> QED
  BY <1>3, <1>4, <1>5, <1>6, <1>7 DEF Timer

(* Threads that keep up with the world handle one thing at a time.         *)
LEMMA SyncAlways ==
    ASSUME Synchronous, MaxWindow > 0
    PROVE  Spec => []SyncInv
<1>1. Init => SyncInv
  BY DEF Init, FSMInit, SyncInv, OneInput, Promises, Stopwatch, InputsRest,
         SensorIdle
<1>2. SystemInv /\ SyncInv /\ [Next]_vars => SyncInv'
  <2> SUFFICES ASSUME SystemInv, SyncInv, [Next]_vars PROVE SyncInv'
    OBVIOUS
  <2>1. CASE UNCHANGED vars
    BY <2>1 DEF vars, fsmVars, sensorVars, inputVars, timerVars, SyncInv,
         OneInput, OneTimer, OneTimeout, OneReset, Promises, Stopwatch,
         InputsRest, SensorIdle
  <2>2. CASE Next
    BY <2>2, SyncWorld, SyncInputs, SyncControl, SyncTimer DEF Next
  <2> QED
    BY <2>1, <2>2
<1> QED
  BY <1>1, <1>2, SystemInvariant, PTL DEF Spec

(* Threads that keep up do their duties in time: a grace period that has   *)
(* run out is an alarm, and neither a ringing alarm nor an authorized      *)
(* entry outlasts its time by more than one period of timerLoop            *)
(* (DoorAlarmSystem.cpp:226), for every grace period of at least one tick. *)
THEOREM DutiesInTime ==
    ASSUME Synchronous, MaxWindow > 0
    PROVE  Spec => []DutiesAreDone
<1>1. SystemInv /\ SyncInv => DutiesAreDone
  <2> SUFFICES ASSUME SystemInv, SyncInv, Idle
               PROVE  /\ state = "PendingVerification" => deadline > 0
                      /\ alarmActive => held <= SilenceAfter + 1
                      /\ state = "AuthorizedEntry" => held <= ResetAfter + 1
    BY DEF DutiesAreDone
  <2>1. Promises /\ Stopwatch
    BY IdlePromises DEF Promises
  <2>2. /\ age \in Nat /\ held \in Nat /\ SilenceAfter \in Nat
        /\ ResetAfter \in Nat /\ AlarmOwned
    BY CapsType, SystemAssumption DEF SystemInv, FSMInv, ThreadsTypeOK
  <2>3. alarmActive => held <= SilenceAfter + 1
    BY <2>1, <2>2 DEF Promises, Stopwatch, AlarmOwned
  <2>4. state = "AuthorizedEntry" => held <= ResetAfter + 1
    BY <2>1, <2>2 DEF Promises, Stopwatch
  <2> QED
    BY <2>1, <2>3, <2>4 DEF Promises
<1> QED
  BY <1>1, SyncAlways, SystemInvariant, PTL

(* The stopwatch never runs ahead of the alarm it times, and the timer      *)
(* thread silences only what it has timed.                                 *)
RingInv ==
    /\ (state = "AlarmActive" /\ lastState = state) => age <= held
    /\ timerPc = "silence" => (lastState = state /\ age > SilenceAfter)

(* An alarm begins in the control thread, when the timer thread has seen   *)
(* the grace period that ends with it.                                     *)
LEMMA RingControl ==
    ASSUME SyncInv, RingInv, Control
    PROVE  RingInv'
<1>1. PICK type : queue = <<type>>
  BY DEF Control, SyncInv, OneInput, OneTimer, OneTimeout, OneReset
<1>2. /\ handleEvent(type) /\ UNCHANGED <<timerPc, lastState, age>>
      /\ held' = (IF state' # state THEN 0 ELSE held)
  BY <1>1 DEF Control, timerVars
<1>3. timerPc' # "silence"
  BY <1>1, <1>2 DEF SyncInv, OneInput, OneTimer, OneTimeout, OneReset
<1>4. CASE state' = state
  BY <1>2, <1>3, <1>4 DEF RingInv
<1>5. CASE state' # state /\ state' = "AlarmActive"
  <2>1. type = "VerificationTimeout"
    BY <1>2, <1>5 DEF handleEvent, handleArm, handleDisarm,
         handleDoorOpened, handleDoorClosed, handleAuthorization, fsmVars
  <2>2. lastState = "PendingVerification"
    BY <1>1, <2>1 DEF SyncInv, OneInput, OneTimer, OneTimeout, OneReset
  <2> QED
    BY <1>2, <1>3, <1>5, <2>2 DEF RingInv
<1>6. CASE state' # "AlarmActive"
  BY <1>3, <1>6 DEF RingInv
<1> QED
  BY <1>4, <1>5, <1>6

LEMMA RingStep ==
    ASSUME Synchronous, SystemInv, SyncInv, RingInv, [Next]_vars
    PROVE  RingInv'
<1>1. /\ age \in 0 .. AgeCap /\ held \in 0 .. HeldCap
      /\ AgeCap \in Nat /\ HeldCap = AgeCap + 1 /\ SilenceAfter \in Nat
  BY CapsType, SystemAssumption DEF SystemInv, ThreadsTypeOK, HeldCap
<1>2. CASE Tick
  <2>1. timerPc = "asleep" /\ timerPc' = "awake"
    BY <1>2 DEF Tick, WorldMayAct, Idle
  <2>2. /\ age' = (IF age >= AgeCap THEN age ELSE age + 1)
        /\ held' = (IF held >= HeldCap THEN held ELSE held + 1)
        /\ UNCHANGED <<state, lastState>>
    BY <1>1, <1>2 DEF Tick, Older, Never
  <2>3. age <= held => age' <= held'
    BY <1>1, <2>2
  <2> QED
    BY <2>1, <2>2, <2>3 DEF RingInv
<1>3. CASE Control
  BY <1>3, RingControl
<1>4. CASE TimerSample
  <2>1. /\ lastState' = state /\ UNCHANGED <<state, held>>
        /\ age' = (IF state # lastState THEN 0 ELSE age)
    BY <1>4 DEF TimerSample, fsmVars
  <2>2. timerPc' = "silence" => age' > SilenceAfter
    BY <1>4 DEF TimerSample
  <2> QED
    BY <1>1, <2>1, <2>2 DEF RingInv
<1>5. CASE TimerSilence \/ TimerReset \/ TimerDeadline \/ TimerTimeout
  <2>1. /\ timerPc' # "silence"
        /\ UNCHANGED <<state, lastState, age, held>>
    BY <1>5 DEF TimerSilence, Silence, TimerReset, TimerDeadline,
         TimerTimeout, fsmVars
  <2> QED
    BY <2>1 DEF RingInv
<1>6. CASE \/ DoorMoves \/ (\E type \in Commands : Inject(type))
           \/ (\E value \in BOOLEAN : ButtonEdge(value))
           \/ (\E uid \in Tags : NfcRead(uid))
           \/ Reed \/ ReedFault \/ ButtonPost \/ NfcPost \/ UNCHANGED vars
  <2>1. UNCHANGED <<state, lastState, age, held, timerPc>>
    BY <1>6 DEF DoorMoves, Inject, ButtonEdge, NfcRead, Reed, ReedSense,
         setDoorState, ReedPost, ReedFault, ButtonPost, NfcPost, vars,
         fsmVars, timerVars
  <2> QED
    BY <2>1 DEF RingInv
<1> QED
  BY <1>2, <1>3, <1>4, <1>5, <1>6 DEF Next, World, Timer

(* Threads that keep up never silence an alarm before its time             *)
(* (DoorAlarmSystem.cpp:243): no alarm takes over the age of the one       *)
(* before, for every grace period of at least one tick.                    *)
THEOREM AlarmRingsFullTime ==
    ASSUME Synchronous, MaxWindow > 0
    PROVE  Spec => RingsFullTime
<1>1. Init => RingInv
  BY DEF Init, FSMInit, RingInv
<1>2. SystemInv /\ SyncInv /\ RingInv /\ [Next]_vars => RingInv'
  BY RingStep
<1>3. SystemInv /\ RingInv
          => [ (timerPc = "silence" /\ alarmActive /\ ~alarmActive')
                   => held > SilenceAfter ]_vars
  <2> SUFFICES ASSUME SystemInv, RingInv, timerPc = "silence", alarmActive
               PROVE  held > SilenceAfter
    OBVIOUS
  <2>1. state = "AlarmActive" /\ lastState = state
    BY DEF SystemInv, FSMInv, AlarmOwned, RingInv
  <2>2. age \in Nat /\ held \in Nat /\ SilenceAfter \in Nat
    BY CapsType, SystemAssumption DEF SystemInv, ThreadsTypeOK
  <2> QED
    BY <2>1, <2>2 DEF RingInv
<1> QED
  BY <1>1, <1>2, <1>3, SyncAlways, SystemInvariant, PTL
  DEF Spec, RingsFullTime
=============================================================================
