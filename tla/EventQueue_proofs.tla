-------------------------- MODULE EventQueue_proofs --------------------------
(***************************************************************************)
(* The queue for any number of producers and consumers and every bound: no *)
(* wakeup is lost, and the monitor implements the queue its callers rely   *)
(* on.                                                                     *)
(***************************************************************************)
EXTENDS EventQueue, FiniteSetTheorems, TLAPS

(* What a place inside a call says of the call.                            *)
CallsInv ==
    \A t \in Threads :
        /\ at[t] # "done" => ret[t] = None
        /\ at[t] \in {"block", "wait", "late"} => call[t].op \in Waits
        /\ at[t] = "late" => call[t].op = "waitForAndPop"
        /\ at[t] = "notify" => call[t].op \in Pushes \cup {"shutdown"}
        /\ call[t].op \in Pushes => call[t].item \in Items

(* At most one thread keeps the mutex over a step, and while it does there *)
(* is nothing to take and no shutdown.                                     *)
MutexInv ==
    \A t \in Threads :
        at[t] = "block" =>
            /\ ~ready
            /\ \A u \in Threads : at[u] = "block" => u = t

QueueInv == QueueTypeOK /\ CallsInv /\ MutexInv

-----------------------------------------------------------------------------
(* Making room for an item keeps items only, and no more of them.          *)
LEMMA NewestItems ==
    ASSUME NEW q \in Seq(Items)
    PROVE  /\ Newest(q) \in Seq(Items)
           /\ Len(Newest(q)) <= Len(q)
<1>1. CASE Len(q) < maxSize
  BY <1>1 DEF Newest
<1>2. CASE ~(Len(q) < maxSize)
  <2> DEFINE m == Len(q) - maxSize + 2
  <2>1. m \in 2 .. Len(q) + 1 /\ Len(q) \in Nat
    BY <1>2, QueueAssumption
  <2>2. Newest(q) = SubSeq(q, m, Len(q))
    BY <1>2 DEF Newest
  <2>3. SubSeq(q, m, Len(q)) \in Seq(Items)
    BY <2>1
  <2>4. Len(SubSeq(q, m, Len(q))) <= Len(q)
    BY <2>1
  <2> QED
    BY <2>2, <2>3, <2>4
<1> QED
  BY <1>1, <1>2

(* The ends of the three pops keep the values of the variables.            *)
LEMMA PopFrontTypes ==
    ASSUME QueueTypeOK, NEW t \in Threads, popFront(t)
    PROVE  /\ queue' \in Seq(Items)
           /\ ret' \in [Threads -> Items \cup {None}]
           /\ at' = [at EXCEPT ![t] = "done"]
           /\ \A u \in Threads \ {t} : ret'[u] = ret[u]
           /\ queue = <<>> => queue' = <<>>
<1>1. CASE queue # <<>>
  <2>1. /\ queue' = Tail(queue)
        /\ ret' = [ret EXCEPT ![t] = Head(queue)]
        /\ at' = [at EXCEPT ![t] = "done"]
    BY <1>1 DEF popFront, goto
  <2>2. Head(queue) \in Items /\ Tail(queue) \in Seq(Items)
    BY <1>1 DEF QueueTypeOK
  <2> QED
    BY <1>1, <2>1, <2>2 DEF QueueTypeOK
<1>2. CASE queue = <<>>
  BY <1>2 DEF popFront, goto, QueueTypeOK
<1> QED
  BY <1>1, <1>2

(* The queue starts empty, with nobody in a call.                          *)
LEMMA QueueInvInit == Init => QueueInv
<1> SUFFICES ASSUME Init PROVE QueueInv
  OBVIOUS
<1>1. NoCall \in [op : Ops \cup {"none"}, item : Items \cup {None}]
  BY DEF NoCall
<1>2. QueueTypeOK
  <2>1. shut \in BOOLEAN
    BY DEF Init
  <2>2. queue \in Seq(Items)
    BY DEF Init
  <2>3. call \in [Threads -> [op : Ops \cup {"none"},
                               item : Items \cup {None}]]
    BY <1>1 DEF Init
  <2> QED
    BY <2>1, <2>2, <2>3 DEF Init, QueueTypeOK
<1>3. CallsInv
  BY DEF Init, CallsInv, NoCall, Pushes
<1>4. MutexInv
  BY DEF Init, MutexInv
<1> QED
  BY <1>2, <1>3, <1>4 DEF QueueInv

(* Every step of every thread keeps the invariant.                         *)
LEMMA QueueInvStep == QueueInv /\ [Next]_queueVars => QueueInv'
<1> SUFFICES ASSUME QueueInv, [Next]_queueVars PROVE QueueInv'
  OBVIOUS
<1> USE DEF QueueInv, QueueTypeOK, CallsInv, MutexInv, ready
<1>1. CASE UNCHANGED queueVars
  BY <1>1 DEF queueVars
<1>2. ASSUME NEW t \in Threads, CallPush(t) PROVE QueueInv'
  BY <1>2 DEF CallPush, goto, Pushes, Waits, Ops, Items
<1>3. ASSUME NEW t \in Threads, CallOther(t) PROVE QueueInv'
  BY <1>3 DEF CallOther, goto, Pushes, Waits, Ops
<1>4. ASSUME NEW t \in Threads, push(t) PROVE QueueInv'
  BY <1>4 DEF push, Calls, goto, Pushes, Waits, Free
<1>5. ASSUME NEW t \in Threads, pushBounded(t) PROVE QueueInv'
  <2>1. Newest(queue) \in Seq(Items)
    BY NewestItems
  <2> QED
    BY <1>5, <2>1, SMTT(30) DEF pushBounded, Calls, goto, Pushes, Waits, Free
<1>6. ASSUME NEW t \in Threads, tryPop(t) PROVE QueueInv'
  BY <1>6, PopFrontTypes DEF tryPop, Free
<1>7. ASSUME NEW t \in Threads, test(t) PROVE QueueInv'
  <2>1. CASE popFront(t)
    BY <1>7, <2>1, PopFrontTypes DEF test, Free
  <2>2. CASE ~popFront(t)
    BY <1>7, <2>2 DEF test, Free, goto, Calls
  <2> QED
    BY <2>1, <2>2
<1>8. ASSUME NEW t \in Threads, wait(t) \/ Spurious(t) \/ Timeout(t)
      PROVE  QueueInv'
  BY <1>8 DEF wait, Spurious, Timeout, Calls, goto, Waits
<1>9. ASSUME NEW t \in Threads, shutdown(t) PROVE QueueInv'
  BY <1>9 DEF shutdown, Calls, goto, Free
<1>10. ASSUME NEW t \in Threads, notifyOne(t) PROVE QueueInv'
  BY <1>10, SMTT(30) DEF notifyOne, Calls, goto, NoCall, Pushes, Waits
<1>11. ASSUME NEW t \in Threads, notifyAll(t) PROVE QueueInv'
  BY <1>11 DEF notifyAll, Calls, NoCall, Pushes, Waits
<1>12. ASSUME NEW t \in Threads, Return(t) PROVE QueueInv'
  BY <1>12 DEF Return, goto, NoCall, Pushes, Waits
<1> QED
  BY <1>1, <1>2, <1>3, <1>4, <1>5, <1>6, <1>7, <1>8, <1>9, <1>10, <1>11,
     <1>12 DEF Next, Step

(* Every reachable state of the queue satisfies the invariant.             *)
LEMMA QueueInvAlways == QueueSpec => []QueueInv
  BY QueueInvInit, QueueInvStep, PTL DEF QueueSpec

(* The values of the variables, for any threads and any bounds.            *)
THEOREM QueueTypes == QueueSpec => []QueueTypeOK
  BY QueueInvAlways, PTL DEF QueueInv

-----------------------------------------------------------------------------
(* Counting threads.                                                       *)
LEMMA Counting ==
    ASSUME NEW S \in SUBSET Threads, NEW T \in SUBSET Threads,
           NEW t \in Threads
    PROVE  /\ Cardinality(S) \in Nat
           /\ S \subseteq T => Cardinality(S) <= Cardinality(T)
           /\ S = T \cup {t} /\ t \notin T =>
                  Cardinality(S) = Cardinality(T) + 1
<1>1. IsFiniteSet(Threads)
  BY QueueAssumption, FS_Union DEF Threads
<1>2. IsFiniteSet(S) /\ IsFiniteSet(T)
  BY <1>1, FS_Subset
<1>3. Cardinality(S) \in Nat
  BY <1>2, FS_CardinalityType
<1>4. S \subseteq T => Cardinality(S) <= Cardinality(T)
  BY <1>2, FS_Subset
<1>5. S = T \cup {t} /\ t \notin T => Cardinality(S) = Cardinality(T) + 1
  BY <1>2, FS_AddElement
<1> QED
  BY <1>3, <1>4, <1>5

(* A thread on its way to the queue leaves it with at most one item less,  *)
(* or empty.                                                               *)
LEMMA PopKeepsCount ==
    ASSUME QueueInv, NoLostWakeup, NEW t \in Awake,
           popFront(t), UNCHANGED <<shut, call>>
    PROVE  NoLostWakeup'
<1> USE DEF QueueInv, QueueTypeOK, popFront, goto
<1>1. t \in Threads
  BY DEF Awake
<1>2. /\ Awake \in SUBSET Threads /\ Awake' \in SUBSET Threads
      /\ Notifying(Pushes) \in SUBSET Threads
  BY DEF Awake, Notifying
<1>3. /\ Awake = Awake' \cup {t} /\ t \notin Awake'
      /\ Waiting' = Waiting
  BY <1>1 DEF Awake, Waiting
<1>4. Notifying(Pushes)' = Notifying(Pushes)
  BY <1>1 DEF Notifying, Calls, Awake
<1>5. Notifying({"shutdown"})' = Notifying({"shutdown"})
  BY <1>1 DEF Notifying, Calls, Awake
<1>6. /\ Cardinality(Awake) = Cardinality(Awake') + 1
      /\ Cardinality(Awake') \in Nat /\ Cardinality(Notifying(Pushes)) \in Nat
  BY <1>1, <1>2, <1>3, Counting
<1>7. CASE queue = <<>>
  BY <1>3, <1>4, <1>5, <1>6, <1>7 DEF NoLostWakeup
<1>8. CASE queue # <<>>
  <2>1. Len(queue') = Len(queue) - 1 /\ Len(queue) \in Nat
    BY <1>8
  <2> QED
    BY <1>3, <1>4, <1>5, <1>6, <2>1 DEF NoLostWakeup
<1> QED
  BY <1>7, <1>8

(* A push adds at most one item, and its thread is then to notify one.     *)
LEMMA PushKeepsCount ==
    ASSUME QueueInv, QueueInv', NoLostWakeup, NEW t \in Threads,
           push(t) \/ pushBounded(t)
    PROVE  NoLostWakeup'
<1> USE DEF QueueInv, QueueTypeOK
<1>1. /\ Awake' \in SUBSET Threads
      /\ Notifying(Pushes) \in SUBSET Threads
      /\ Notifying(Pushes)' \in SUBSET Threads
  BY DEF Awake, Notifying
<1>2. at[t] = "in" /\ call[t].op \in Pushes /\ UNCHANGED <<shut, call>>
  BY DEF push, pushBounded, Calls, Pushes
<1>3. at' = [at EXCEPT ![t] = IF shut THEN "done" ELSE "notify"]
  BY DEF push, pushBounded, goto
<1>4. Waiting' = Waiting
  BY <1>2, <1>3 DEF Waiting
<1>5. Awake' = Awake
  BY <1>2, <1>3 DEF Awake, Pushes, Waits
<1>6. Notifying({"shutdown"})' = Notifying({"shutdown"})
  BY <1>2, <1>3 DEF Notifying, Calls, Pushes
<1>7. CASE shut
  <2>1. Notifying(Pushes)' = Notifying(Pushes) /\ queue' = queue
    BY <1>2, <1>3, <1>7 DEF Notifying, Calls, push, pushBounded
  <2> QED
    BY <1>2, <1>4, <1>5, <1>6, <2>1 DEF NoLostWakeup
<1>8. CASE ~shut
  <2>1. /\ Notifying(Pushes)' = Notifying(Pushes) \cup {t}
        /\ t \notin Notifying(Pushes)
    BY <1>2, <1>3, <1>8 DEF Notifying, Calls
  <2>2. /\ Cardinality(Notifying(Pushes)') =
               Cardinality(Notifying(Pushes)) + 1
        /\ Cardinality(Notifying(Pushes)) \in Nat
        /\ Cardinality(Awake') \in Nat
    BY <1>1, <2>1, Counting
  <2>3. Len(queue') <= Len(queue) + 1 /\ Len(queue) \in Nat
                                    /\ Len(queue') \in Nat
    <3>1. CASE push(t)
      BY <1>8, <3>1 DEF push
    <3>2. CASE pushBounded(t)
      <4>1. Newest(queue) \in Seq(Items) /\ Len(Newest(queue)) <= Len(queue)
        BY NewestItems
      <4>2. call[t].item \in Items
        BY <1>2 DEF CallsInv
      <4>3. Len(Append(Newest(queue), call[t].item)) = Len(Newest(queue)) + 1
        BY <4>1, <4>2
      <4> QED
        BY <1>8, <3>2, <4>1, <4>3 DEF pushBounded
    <3> QED
      BY <3>1, <3>2
  <2> QED
    BY <1>2, <1>4, <1>5, <1>6, <1>8, <2>2, <2>3 DEF NoLostWakeup
<1> QED
  BY <1>7, <1>8

(* A step that takes nobody off its way to the queue, leaves the queue and *)
(* the notifications alone and lets nobody wait keeps the count.           *)
LEMMA SameCount ==
    ASSUME QueueInv, NoLostWakeup, UNCHANGED <<queue, shut>>,
           Waiting' \subseteq Waiting, Awake \subseteq Awake',
           Notifying(Pushes)' = Notifying(Pushes),
           Notifying({"shutdown"})' = Notifying({"shutdown"})
    PROVE  NoLostWakeup'
<1>1. /\ Awake \in SUBSET Threads /\ Awake' \in SUBSET Threads
      /\ Notifying(Pushes) \in SUBSET Threads
  BY DEF Awake, Notifying
<1>2. CASE \E t \in Threads : TRUE
  <2>1. /\ Cardinality(Awake) <= Cardinality(Awake')
        /\ Cardinality(Awake) \in Nat /\ Cardinality(Awake') \in Nat
        /\ Cardinality(Notifying(Pushes)) \in Nat
    BY <1>1, <1>2, Counting
  <2>2. Len(queue) \in Nat
    BY DEF QueueInv, QueueTypeOK
  <2> QED
    BY <2>1, <2>2 DEF NoLostWakeup
<1>3. CASE ~ \E t \in Threads : TRUE
  BY <1>3 DEF NoLostWakeup, Waiting
<1> QED
  BY <1>2, <1>3

(* Every step of every thread keeps the count.                             *)
LEMMA NoLostWakeupStep ==
    QueueInv /\ QueueInv' /\ NoLostWakeup /\ [Next]_queueVars => NoLostWakeup'
<1> SUFFICES ASSUME QueueInv, QueueInv', NoLostWakeup, [Next]_queueVars
             PROVE  NoLostWakeup'
  OBVIOUS
<1> USE DEF QueueInv, QueueTypeOK
<1>1. CASE UNCHANGED queueVars
  BY <1>1 DEF queueVars, NoLostWakeup, Waiting, Awake, Notifying, Calls
<1>2. ASSUME NEW t \in Threads, CallPush(t) PROVE NoLostWakeup'
  <2> USE <1>2 DEF CallPush, goto
  <2>1. Waiting' \subseteq Waiting
    BY DEF Waiting
  <2>2. Awake \subseteq Awake'
    BY DEF Awake
  <2>3. /\ Notifying(Pushes)' = Notifying(Pushes)
        /\ Notifying({"shutdown"})' = Notifying({"shutdown"})
    BY DEF Notifying, Calls
  <2> QED
    BY <2>1, <2>2, <2>3, SameCount
<1>3. ASSUME NEW t \in Threads, CallOther(t) PROVE NoLostWakeup'
  <2> USE <1>3 DEF CallOther, goto
  <2>1. Waiting' \subseteq Waiting
    BY DEF Waiting
  <2>2. Awake \subseteq Awake'
    BY DEF Awake
  <2>3. /\ Notifying(Pushes)' = Notifying(Pushes)
        /\ Notifying({"shutdown"})' = Notifying({"shutdown"})
    BY DEF Notifying, Calls
  <2> QED
    BY <2>1, <2>2, <2>3, SameCount
<1>4. ASSUME NEW t \in Threads, push(t) \/ pushBounded(t)
      PROVE  NoLostWakeup'
  BY <1>4, PushKeepsCount
<1>5. ASSUME NEW t \in Threads, tryPop(t) PROVE NoLostWakeup'
  <2>1. t \in Awake
    BY <1>5 DEF tryPop, Awake, Calls
  <2> QED
    BY <1>5, <2>1, PopKeepsCount DEF tryPop
<1>6. ASSUME NEW t \in Threads, test(t) PROVE NoLostWakeup'
  <2>1. t \in Awake /\ UNCHANGED <<shut, call>>
    BY <1>6 DEF test, Awake, Calls
  <2>2. CASE popFront(t)
    BY <2>1, <2>2, PopKeepsCount
  <2>3. CASE ~popFront(t)
    <3>1. /\ queue' = <<>> /\ ~shut'
          /\ Cardinality(Awake') \in Nat
          /\ Cardinality(Notifying(Pushes)') \in Nat
      <4>1. Awake' \in SUBSET Threads /\ Notifying(Pushes)' \in SUBSET Threads
        BY DEF Awake, Notifying
      <4> QED
        BY <1>6, <2>3, <4>1, Counting DEF test, ready
    <3> QED
      BY <3>1 DEF NoLostWakeup
  <2> QED
    BY <2>2, <2>3
<1>7. ASSUME NEW t \in Threads, wait(t) PROVE NoLostWakeup'
  <2>1. queue' = <<>> /\ ~shut'
    BY <1>7 DEF wait, Calls, MutexInv, ready
  <2>2. Awake' \in SUBSET Threads /\ Notifying(Pushes)' \in SUBSET Threads
    BY DEF Awake, Notifying
  <2>3. /\ Cardinality(Awake') \in Nat
        /\ Cardinality(Notifying(Pushes)') \in Nat
    BY <2>2, Counting
  <2> QED
    BY <2>1, <2>3 DEF NoLostWakeup
<1>8. ASSUME NEW t \in Threads, Spurious(t) \/ Timeout(t)
      PROVE  NoLostWakeup'
  <2> USE <1>8 DEF Spurious, Timeout, goto, Calls
  <2>1. Waiting' \subseteq Waiting
    BY DEF Waiting
  <2>2. Awake \subseteq Awake'
    BY DEF Awake
  <2>3. /\ Notifying(Pushes)' = Notifying(Pushes)
        /\ Notifying({"shutdown"})' = Notifying({"shutdown"})
    BY DEF Notifying
  <2>4. UNCHANGED <<queue, shut>>
    OBVIOUS
  <2> QED
    BY <2>1, <2>2, <2>3, <2>4, SameCount
<1>9. ASSUME NEW t \in Threads, shutdown(t) PROVE NoLostWakeup'
  <2> USE <1>9 DEF shutdown, goto, Calls
  <2>1. Waiting' = Waiting
    BY DEF Waiting
  <2>2. Awake' = Awake
    BY DEF Awake, Waits
  <2>3. Notifying(Pushes)' = Notifying(Pushes)
    BY DEF Notifying, Pushes
  <2>4. t \in Notifying({"shutdown"})'
    BY DEF Notifying
  <2> QED
    BY <2>1, <2>2, <2>3, <2>4 DEF NoLostWakeup
<1>10. ASSUME NEW t \in Threads, notifyOne(t) PROVE NoLostWakeup'
  <2> USE DEF Calls, goto
  <2>1. CASE \A w \in Threads : at[w] # "wait"
    <3>1. Waiting' = {}
      BY <1>10, <2>1 DEF notifyOne, Waiting
    <3> QED
      BY <3>1 DEF NoLostWakeup
  <2>2. CASE ~ \A w \in Threads : at[w] # "wait"
    <3>1. PICK w \in Threads : /\ at[w] = "wait"
                               /\ at' = [at EXCEPT ![t] = "out", ![w] = "in"]
      BY <1>10, <2>2 DEF notifyOne
    <3>2. /\ at[t] = "notify" /\ call[t].op \in Pushes /\ w # t
          /\ call' = [call EXCEPT ![t] = NoCall]
          /\ UNCHANGED <<queue, shut>>
      BY <1>10, <3>1 DEF notifyOne
    <3>3. call[w].op \in Waits
      BY <3>1 DEF CallsInv
    <3>4. Waiting' \subseteq Waiting
      BY <3>1, <3>2 DEF Waiting
    <3>5. Awake' = Awake \cup {w} /\ w \notin Awake
      BY <3>1, <3>2, <3>3 DEF Awake
    <3>6. /\ Notifying(Pushes) = Notifying(Pushes)' \cup {t}
          /\ t \notin Notifying(Pushes)'
      BY <3>1, <3>2 DEF Notifying
    <3>7. Notifying({"shutdown"})' = Notifying({"shutdown"})
      BY <3>1, <3>2 DEF Notifying, Pushes
    <3>8. /\ Awake \in SUBSET Threads /\ Awake' \in SUBSET Threads
          /\ Notifying(Pushes) \in SUBSET Threads
          /\ Notifying(Pushes)' \in SUBSET Threads
      BY DEF Awake, Notifying
    <3>9. /\ Cardinality(Awake') = Cardinality(Awake) + 1
          /\ Cardinality(Awake) \in Nat
      BY <3>5, <3>8, Counting
    <3>10. /\ Cardinality(Notifying(Pushes)) =
                  Cardinality(Notifying(Pushes)') + 1
           /\ Cardinality(Notifying(Pushes)') \in Nat
      BY <3>6, <3>8, Counting
    <3> QED
      BY <3>2, <3>4, <3>7, <3>9, <3>10 DEF NoLostWakeup
  <2> QED
    BY <2>1, <2>2
<1>11. ASSUME NEW t \in Threads, notifyAll(t) PROVE NoLostWakeup'
  <2>1. Waiting' = {}
    BY <1>11 DEF notifyAll, Waiting
  <2> QED
    BY <2>1 DEF NoLostWakeup
<1>12. ASSUME NEW t \in Threads, Return(t) PROVE NoLostWakeup'
  <2> USE <1>12 DEF Return, goto
  <2>1. Waiting' \subseteq Waiting
    BY DEF Waiting
  <2>2. Awake \subseteq Awake'
    BY DEF Awake
  <2>3. /\ Notifying(Pushes)' = Notifying(Pushes)
        /\ Notifying({"shutdown"})' = Notifying({"shutdown"})
    BY DEF Notifying, Calls
  <2> QED
    BY <2>1, <2>2, <2>3, SameCount
<1> QED
  BY <1>1, <1>2, <1>3, <1>4, <1>5, <1>6, <1>7, <1>8, <1>9, <1>10, <1>11,
     <1>12 DEF Next, Step

(* No wakeup is lost, for any number of threads: while one waits, every    *)
(* item has a consumer or a notification of its own under way, and a       *)
(* shutdown has yet to wake all (EventQueue.h:52, 146).                    *)
THEOREM WakeupsAreKept == QueueSpec => []NoLostWakeup
<1>1. Init => NoLostWakeup
  BY DEF Init, NoLostWakeup, Waiting
<1> QED
  BY <1>1, QueueInvAlways, NoLostWakeupStep, PTL DEF QueueSpec

-----------------------------------------------------------------------------
(* The phases of the abstract queue, from the places in the monitor.       *)
phases == [t \in Threads |-> Phase(at[t])]

(* What a caller sees of the place it is in.                               *)
LEMMA PhaseIs ==
    /\ Phase("out") = "out"
    /\ Phase("in") = "called" /\ Phase("block") = "called"
    /\ Phase("wait") = "called" /\ Phase("late") = "called"
    /\ Phase("notify") = "done" /\ Phase("done") = "done"
  BY DEF Phase

(* One thread moves: only its phase may change.                            *)
LEMMA PhasesMove ==
    ASSUME QueueTypeOK, NEW t \in Threads, NEW label,
           at' = [at EXCEPT ![t] = label]
    PROVE  /\ phases' = [phases EXCEPT ![t] = Phase(label)]
           /\ phases[t] = Phase(at[t])
  BY DEF phases, QueueTypeOK

(* A call that was not yet in effect is, once its thread is there.         *)
LEMMA PhasesDone ==
    ASSUME QueueTypeOK, NEW t \in Threads, NEW label \in {"notify", "done"},
           at[t] = "in", at' = [at EXCEPT ![t] = label]
    PROVE  phases[t] = "called" /\ phases' = [phases EXCEPT ![t] = "done"]
<1>1. Phase(label) = "done" /\ Phase(at[t]) = "called"
  BY PhaseIs
<1> QED
  BY <1>1, PhasesMove

(* Every step of the monitor is a step of the abstract queue, or none.     *)
LEMMA FifoStep ==
    QueueInv /\ [Next]_queueVars => [F!FifoNext]_(F!fifoVars)
<1> SUFFICES ASSUME QueueInv, [Next]_queueVars
             PROVE  F!FifoNext \/ UNCHANGED F!fifoVars
  OBVIOUS
<1> USE DEF QueueInv
<1>1. CASE UNCHANGED queueVars
  BY <1>1 DEF queueVars, F!fifoVars
<1>2. ASSUME NEW t \in Threads, CallPush(t) PROVE F!Begin(t)
  <2>1. at[t] = "out" /\ at' = [at EXCEPT ![t] = "in"]
    BY <1>2 DEF CallPush, goto
  <2>2. phases[t] = "out" /\ phases' = [phases EXCEPT ![t] = "called"]
    BY <2>1, PhaseIs, PhasesMove
  <2> QED
    BY <1>2, <2>2 DEF CallPush, F!Begin, phases, Pushes, Items
<1>3. ASSUME NEW t \in Threads, CallOther(t) PROVE F!Begin(t)
  <2>1. at[t] = "out" /\ at' = [at EXCEPT ![t] = "in"]
    BY <1>3 DEF CallOther, goto
  <2>2. phases[t] = "out" /\ phases' = [phases EXCEPT ![t] = "called"]
    BY <2>1, PhaseIs, PhasesMove
  <2> QED
    BY <1>3, <2>2 DEF CallOther, F!Begin, F!Pops, phases
<1>4. ASSUME NEW t \in Threads, push(t) PROVE F!Put(t)
  <2>1. /\ at[t] = "in"
        /\ \E label \in {"notify", "done"} : at' = [at EXCEPT ![t] = label]
    BY <1>4 DEF push, goto, Calls
  <2>2. phases[t] = "called" /\ phases' = [phases EXCEPT ![t] = "done"]
    BY <2>1, PhasesDone
  <2> QED
    BY <1>4, <2>2 DEF push, Calls, F!Put, F!Effect, phases
<1>5. ASSUME NEW t \in Threads, pushBounded(t) PROVE F!PutBounded(t)
  <2>1. /\ at[t] = "in"
        /\ \E label \in {"notify", "done"} : at' = [at EXCEPT ![t] = label]
    BY <1>5 DEF pushBounded, goto, Calls
  <2>2. phases[t] = "called" /\ phases' = [phases EXCEPT ![t] = "done"]
    BY <2>1, PhasesDone
  <2> QED
    BY <1>5, <2>2 DEF pushBounded, Calls, F!PutBounded, F!Effect,
                        phases, Newest, F!Newest
<1>6. ASSUME NEW t \in Threads, tryPop(t) PROVE F!Take(t) \/ F!TakeNothing(t)
  <2>1. at[t] = "in" /\ at' = [at EXCEPT ![t] = "done"]
    BY <1>6 DEF tryPop, popFront, goto, Calls
  <2>2. phases[t] = "called" /\ phases' = [phases EXCEPT ![t] = "done"]
    BY <2>1, PhasesDone
  <2> QED
    BY <1>6, <2>2 DEF tryPop, popFront, Calls, F!Take, F!TakeNothing,
                        F!Effect, F!Pops, phases
<1>7. ASSUME NEW t \in Threads, test(t)
      PROVE  F!Take(t) \/ F!TakeNothing(t) \/ UNCHANGED F!fifoVars
  <2>1. /\ phases[t] = "called" /\ call[t].op \in Waits
        /\ UNCHANGED <<shut, call>>
    BY <1>7, PhaseIs DEF test, Calls, phases, QueueTypeOK
  <2>2. CASE popFront(t) /\ ready
    <3>1. phases' = [phases EXCEPT ![t] = "done"]
      <4>1. at' = [at EXCEPT ![t] = "done"]
        BY <2>2 DEF popFront, goto
      <4>2. phases' = [phases EXCEPT ![t] = Phase("done")]
        BY <4>1, PhasesMove
      <4> QED
        BY <4>2, PhaseIs
    <3> QED
      BY <2>1, <2>2, <3>1, SMTT(30)
      DEF popFront, ready, Waits, F!Take, F!TakeNothing, F!Effect, F!Pops,
          phases
  <2>3. CASE ~ready /\ at[t] = "late"
    <3>1. phases' = [phases EXCEPT ![t] = "done"]
      BY <1>7, <2>3, PhaseIs, PhasesMove DEF test, goto
    <3>2. call[t].op = "waitForAndPop"
      BY <2>3 DEF CallsInv
    <3> QED
      BY <1>7, <2>1, <2>3, <3>1, <3>2 DEF test, ready, F!TakeNothing, F!Effect,
                                          F!Pops, phases
  <2>4. CASE ~ready /\ at[t] # "late"
    <3>1. phases' = [phases EXCEPT ![t] = "called"]
      BY <1>7, <2>4, PhaseIs, PhasesMove DEF test, goto
    <3>2. phases' = phases
      BY <2>1, <3>1 DEF phases
    <3> QED
      BY <1>7, <2>1, <2>4, <3>2 DEF test, F!fifoVars, phases
  <2> QED
    BY <1>7, <2>2, <2>3, <2>4 DEF test
<1>8. ASSUME NEW t \in Threads, wait(t) \/ Spurious(t) \/ Timeout(t)
      PROVE  UNCHANGED F!fifoVars
  <2>1. phases[t] = "called" /\ phases' = [phases EXCEPT ![t] = "called"]
    BY <1>8, PhaseIs, PhasesMove DEF wait, Spurious, Timeout, goto, Calls
  <2>2. phases' = phases
    BY <2>1 DEF phases
  <2> QED
    BY <1>8, <2>2 DEF wait, Spurious, Timeout, F!fifoVars, phases
<1>9. ASSUME NEW t \in Threads, shutdown(t) PROVE F!Close(t)
  <2>1. at[t] = "in" /\ at' = [at EXCEPT ![t] = "notify"]
    BY <1>9 DEF shutdown, goto, Calls
  <2>2. phases[t] = "called" /\ phases' = [phases EXCEPT ![t] = "done"]
    BY <2>1, PhasesDone
  <2> QED
    BY <1>9, <2>2 DEF shutdown, Calls, F!Close, F!Effect, phases
<1>10. ASSUME NEW t \in Threads, notifyOne(t) \/ notifyAll(t)
       PROVE  F!End(t)
  <2>1. phases[t] = "done" /\ phases' = [phases EXCEPT ![t] = "out"]
    <3>1. /\ at[t] = "notify" /\ at'[t] = "out"
          /\ \A w \in Threads \ {t} :
                 at'[w] = at[w] \/ (at[w] = "wait" /\ at'[w] = "in")
      BY <1>10 DEF notifyOne, notifyAll, goto, Calls, QueueTypeOK
    <3>2. \A w \in Threads \ {t} : Phase(at'[w]) = Phase(at[w])
      BY <3>1, PhaseIs
    <3> QED
      BY <3>1, <3>2, PhaseIs DEF phases
  <2>2. ret[t] = None /\ ret' = ret
    BY <1>10 DEF notifyOne, notifyAll, Calls, CallsInv
  <2>3. ret' = [ret EXCEPT ![t] = None]
    BY <2>2 DEF QueueTypeOK
  <2> QED
    BY <1>10, <2>1, <2>3 DEF notifyOne, notifyAll, F!End, phases, NoCall,
                             F!NoCall
<1>11. ASSUME NEW t \in Threads, Return(t) PROVE F!End(t)
  <2>1. phases[t] = "done" /\ phases' = [phases EXCEPT ![t] = "out"]
    BY <1>11, PhaseIs, PhasesMove DEF Return, goto
  <2> QED
    BY <1>11, <2>1 DEF Return, F!End, phases, NoCall, F!NoCall
<1> QED
  BY <1>1, <1>2, <1>3, <1>4, <1>5, <1>6, <1>7, <1>8, <1>9, <1>10, <1>11
  DEF Next, Step, F!FifoNext

(* The monitor implements the queue its callers rely on, for any number of *)
(* threads and every bound: calls take effect once and in order, and       *)
(* waitAndPop goes without an item only from a queue that was shut down    *)
(* (EventQueue.h:76, ThreadSafeQueue.h).                                   *)
THEOREM MonitorIsFifo == QueueSpec => ImplementsFifo
<1>1. Init => F!FifoInit
  BY PhaseIs DEF Init, F!FifoInit, NoCall, F!NoCall
<1> QED
  BY <1>1, QueueInvAlways, FifoStep, PTL
  DEF QueueSpec, ImplementsFifo, F!FifoSpec

=============================================================================
