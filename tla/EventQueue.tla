----------------------------- MODULE EventQueue -----------------------------
(***************************************************************************)
(* The monitor both queues are written as: EventQueue.h of the door alarm  *)
(* (push, waitAndPop, tryPop, waitForAndPop, shutdown) and                 *)
(* ThreadSafeQueue.h of the camera pipeline and the loggers, whose pop is  *)
(* waitAndPop and which adds pushBounded.                                  *)
(*                                                                         *)
(* A critical section is one step, taken when mutex_ is free.  Only a      *)
(* thread whose predicate is false keeps the mutex over a step, from the   *)
(* test to the wait that gives it back ("block").  Notifying is a step of  *)
(* its own, after the mutex has been given back; a waiting thread may also *)
(* wake up by itself.                                                      *)
(***************************************************************************)
EXTENDS Naturals, Sequences, FiniteSets

CONSTANTS
    Producers, Consumers, None, maxSize,
    MaxLen      \* bound: no push is begun when so many items are queued

ASSUME QueueAssumption ==
    /\ maxSize \in Nat \ {0}
    /\ MaxLen \in Nat
    /\ Producers \cap Consumers = {}
    /\ IsFiniteSet(Producers) /\ IsFiniteSet(Consumers)
    /\ None \notin Producers

VARIABLES
    queue,      \* queue_
    shut,       \* shutdown_
    call,       \* each thread's call
    at,         \* where it is in the call
    ret         \* the item it is about to return

queueVars == <<queue, shut, call, at, ret>>

Threads == Producers \cup Consumers

(* An item is told apart by the producer it comes from.                    *)
Items == Producers

NoCall == [op |-> "none", item |-> None]
Pushes == {"push", "pushBounded"}
Waits == {"waitAndPop", "waitForAndPop"}

Init ==
    /\ queue = <<>>
    /\ shut = FALSE
    /\ call = [t \in Threads |-> NoCall]
    /\ at = [t \in Threads |-> "out"]
    /\ ret = [t \in Threads |-> None]

-----------------------------------------------------------------------------
(* mutex_ is free.                                                         *)
Free == \A t \in Threads : at[t] # "block"

(* t's call is op, and t may do the next thing in it.                      *)
Calls(t, ops, label) == call[t].op \in ops /\ at[t] = label

goto(t, label) == at' = [at EXCEPT ![t] = label]

(* The items left when pushBounded has made room for one.                  *)
Newest(q) ==
    IF Len(q) < maxSize THEN q ELSE SubSeq(q, Len(q) - maxSize + 2, Len(q))

(* The end of the three pops, with the mutex: an item, or none.            *)
popFront(t) ==
    /\ goto(t, "done")
    /\ \/ /\ queue # <<>>
          /\ ret' = [ret EXCEPT ![t] = Head(queue)]
          /\ queue' = Tail(queue)
       \/ /\ queue = <<>>
          /\ UNCHANGED <<ret, queue>>

ready == shut \/ queue # <<>>

-----------------------------------------------------------------------------
(* Forms with a plausible slip in them, to show that the properties below  *)
(* notice it.                                                              *)

\* shutdown_ is set without mutex_.
shutdownUnlocked(t) ==
    /\ Calls(t, {"shutdown"}, "in")
    /\ shut' = TRUE
    /\ goto(t, "notify")
    /\ UNCHANGED <<queue, call, ret>>

\* shutdown() that wakes one thread only.
notifyOneForAll(t) ==
    /\ Calls(t, {"shutdown"}, "notify")
    /\ \/ /\ \A w \in Threads : at[w] # "wait"
          /\ goto(t, "out")
       \/ \E w \in Threads :
              /\ at[w] = "wait"
              /\ at' = [at EXCEPT ![t] = "out", ![w] = "in"]
    /\ call' = [call EXCEPT ![t] = NoCall]
    /\ UNCHANGED <<queue, shut, ret>>

\* A push that notifies only when the queue was empty.
pushNotifiesFirst(t) ==
    /\ Calls(t, {"push"}, "in")
    /\ Free
    /\ goto(t, IF shut \/ queue # <<>> THEN "done" ELSE "notify")
    /\ queue' = IF shut THEN queue ELSE Append(queue, call[t].item)
    /\ UNCHANGED <<shut, call, ret>>

\* pushBounded that discards one item too few.
pushBoundedTooMany(t) ==
    /\ Calls(t, {"pushBounded"}, "in")
    /\ Free
    /\ goto(t, IF shut THEN "done" ELSE "notify")
    /\ queue' = IF shut THEN queue
                ELSE IF Len(queue) <= maxSize THEN Append(queue, call[t].item)
                ELSE Append(Tail(queue), call[t].item)
    /\ UNCHANGED <<shut, call, ret>>

\* A push whose item has been moved away before it is queued.
pushMoved(t) ==
    /\ Calls(t, {"push"}, "in")
    /\ Free
    /\ goto(t, IF shut THEN "done" ELSE "notify")
    /\ queue' = IF shut THEN queue ELSE Append(queue, None)
    /\ UNCHANGED <<shut, call, ret>>

-----------------------------------------------------------------------------
(* A thread calls an operation of the queue.                               *)
CallPush(t) ==
    /\ at[t] = "out"
    /\ t \in Producers
    /\ \E op \in Pushes :
           /\ op = "push" => Len(queue) < MaxLen
           /\ call' = [call EXCEPT ![t] = [op |-> op, item |-> t]]
    /\ goto(t, "in")
    /\ UNCHANGED <<queue, shut, ret>>

CallOther(t) ==
    /\ at[t] = "out"
    /\ \E op \in {"shutdown", "waitAndPop", "tryPop", "waitForAndPop"} :
           /\ op # "shutdown" => t \in Consumers
           /\ call' = [call EXCEPT ![t] = [op |-> op, item |-> None]]
    /\ goto(t, "in")
    /\ UNCHANGED <<queue, shut, ret>>

push(t) ==
    /\ Calls(t, {"push"}, "in")
    /\ Free
    /\ goto(t, IF shut THEN "done" ELSE "notify")
    /\ queue' = IF shut THEN queue ELSE Append(queue, call[t].item)
    /\ UNCHANGED <<shut, call, ret>>

pushBounded(t) ==
    /\ Calls(t, {"pushBounded"}, "in")
    /\ Free
    /\ goto(t, IF shut THEN "done" ELSE "notify")
    /\ queue' = IF shut THEN queue ELSE Append(Newest(queue), call[t].item)
    /\ UNCHANGED <<shut, call, ret>>

tryPop(t) ==
    /\ Calls(t, {"tryPop"}, "in")
    /\ Free
    /\ popFront(t)
    /\ UNCHANGED <<shut, call>>

(* waitAndPop and waitForAndPop test their predicate: on entry, each time  *)
(* they have been woken, and a last time when the timeout is over.         *)
test(t) ==
    /\ Calls(t, Waits, "in") \/ Calls(t, Waits, "late")
    /\ Free
    /\ \/ ready /\ popFront(t)
       \/ /\ ~ready
          /\ goto(t, IF at[t] = "late" THEN "done" ELSE "block")
          /\ UNCHANGED <<queue, ret>>
    /\ UNCHANGED <<shut, call>>

(* The mutex is given back in the step that begins to wait.                *)
wait(t) ==
    /\ Calls(t, Waits, "block")
    /\ goto(t, "wait")
    /\ UNCHANGED <<queue, shut, call, ret>>

(* A waiting thread wakes up although nobody notified it.                  *)
Spurious(t) ==
    /\ Calls(t, Waits, "wait")
    /\ goto(t, "in")
    /\ UNCHANGED <<queue, shut, call, ret>>

Timeout(t) ==
    /\ Calls(t, {"waitForAndPop"}, "wait")
    /\ goto(t, "late")
    /\ UNCHANGED <<queue, shut, call, ret>>

shutdown(t) ==
    /\ Calls(t, {"shutdown"}, "in")
    /\ Free
    /\ shut' = TRUE
    /\ goto(t, "notify")
    /\ UNCHANGED <<queue, call, ret>>

notifyOne(t) ==
    /\ Calls(t, Pushes, "notify")
    /\ \/ /\ \A w \in Threads : at[w] # "wait"
          /\ goto(t, "out")
       \/ \E w \in Threads :
              /\ at[w] = "wait"
              /\ at' = [at EXCEPT ![t] = "out", ![w] = "in"]
    /\ call' = [call EXCEPT ![t] = NoCall]
    /\ UNCHANGED <<queue, shut, ret>>

notifyAll(t) ==
    /\ Calls(t, {"shutdown"}, "notify")
    /\ at' = [w \in Threads |-> IF w = t THEN "out"
                                ELSE IF at[w] = "wait" THEN "in" ELSE at[w]]
    /\ call' = [call EXCEPT ![t] = NoCall]
    /\ UNCHANGED <<queue, shut, ret>>

Return(t) ==
    /\ at[t] = "done"
    /\ goto(t, "out")
    /\ call' = [call EXCEPT ![t] = NoCall]
    /\ ret' = [ret EXCEPT ![t] = None]
    /\ UNCHANGED <<queue, shut>>

-----------------------------------------------------------------------------
(* What a thread does inside a call, but for waking up by itself.          *)
Step(t) ==
    \/ push(t) \/ pushBounded(t) \/ tryPop(t) \/ test(t) \/ wait(t)
    \/ shutdown(t) \/ notifyOne(t) \/ notifyAll(t) \/ Return(t)

Next ==
    \E t \in Threads :
        \/ CallPush(t) \/ CallOther(t) \/ Step(t) \/ Spurious(t) \/ Timeout(t)

QueueSpec == Init /\ [][Next]_queueVars

(* A thread inside a call runs, and gets mutex_ if it is free again and    *)
(* again.  No thread has to call anything, and no timeout has to be over.  *)
QueueFairSpec == QueueSpec /\ \A t \in Threads : SF_queueVars(Step(t))

-----------------------------------------------------------------------------
Ops == Pushes \cup Waits \cup {"tryPop", "shutdown"}

(* The values of the variables.                                            *)
QueueTypeOK ==
    /\ queue \in Seq(Items)
    /\ shut \in BOOLEAN
    /\ call \in [Threads -> [op : Ops \cup {"none"}, item : Items \cup {None}]]
    /\ at \in [Threads -> {"out", "in", "block", "wait", "late", "notify",
                           "done"}]
    /\ ret \in [Threads -> Items \cup {None}]

Waiting == {t \in Threads : at[t] = "wait"}
Awake == {t \in Threads : at[t] \in {"in", "late"}
                          /\ call[t].op \in Waits \cup {"tryPop"}}
Notifying(ops) == {t \in Threads : Calls(t, ops, "notify")}

(* No wakeup is lost: while a thread waits, each queued item has a consumer*)
(* of its own on the way to it, or a producer that has yet to notify one,  *)
(* and after a shutdown somebody is still to wake all.  notify_one is sent *)
(* after the mutex was given back, when others may have emptied the queue, *)
(* filled it, begun to wait or timed out (EventQueue.h:52, 146).           *)
NoLostWakeup ==
    Waiting # {} =>
        /\ Len(queue) <= Cardinality(Awake) + Cardinality(Notifying(Pushes))
        /\ shut => Notifying({"shutdown"}) # {}

(* A call as its caller sees it: not yet in effect, or in effect.          *)
Phase(label) ==
    CASE label = "out" -> "out"
      [] label \in {"in", "block", "wait", "late"} -> "called"
      [] label \in {"notify", "done"} -> "done"

F == INSTANCE Fifo WITH phase <- [t \in Threads |-> Phase(at[t])]

(* The monitor implements the queue its callers rely on: each call takes   *)
(* effect once, in order, and waitAndPop returns without an item only from *)
(* a queue that was shut down and emptied (EventQueue.h:76).               *)
ImplementsFifo == F!FifoSpec

(* Shutdown releases every consumer (EventQueue.h:31, "any blocking        *)
(* threads are released"): a call that is under way then, or begun later,  *)
(* returns.                                                                *)
ShutdownReleases ==
    \A c \in Consumers : (shut /\ at[c] # "out") ~> (at[c] = "out")

(* Items do not lie in the queue while threads wait for them: if from some *)
(* time on there is always an item and always a waiting call, items go on  *)
(* being taken.                                                            *)
ItemsAreTaken ==
    \/ []<>(queue = <<>> \/ Waiting = {})
    \/ []<><<\E c \in Consumers : ret'[c] # ret[c]>>_queueVars
=============================================================================
