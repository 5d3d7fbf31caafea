-------------------------------- MODULE Fifo --------------------------------
(***************************************************************************)
(* What the two queues of the repository promise to the threads that call  *)
(* them (EventQueue.h, ThreadSafeQueue.h): every call takes effect at one  *)
(* moment between its beginning and its end, items leave in the order in   *)
(* which they came, and only a bounded push drops any, the oldest first.   *)
(***************************************************************************)
EXTENDS Naturals, Sequences

CONSTANTS
    Threads,    \* the callers
    Items,      \* what is queued
    None,       \* no item: std::nullopt, or false
    maxSize     \* the bound given to pushBounded

VARIABLES
    queue,      \* the items
    shut,       \* shutdown() has taken effect
    call,       \* each thread's call: what it calls and with which item
    phase,      \* "out", "called" (not yet in effect) or "done"
    ret         \* the item a call is about to return

fifoVars == <<queue, shut, call, phase, ret>>

NoCall == [op |-> "none", item |-> None]
Pops == {"waitAndPop", "tryPop", "waitForAndPop"}

(* The newest items of q, at most maxSize - 1 of them.                     *)
Newest(q) ==
    IF Len(q) < maxSize THEN q ELSE SubSeq(q, Len(q) - maxSize + 2, Len(q))

FifoInit ==
    /\ queue = <<>>
    /\ shut = FALSE
    /\ call = [t \in Threads |-> NoCall]
    /\ phase = [t \in Threads |-> "out"]
    /\ ret = [t \in Threads |-> None]

Begin(t) ==
    /\ phase[t] = "out"
    /\ phase' = [phase EXCEPT ![t] = "called"]
    /\ \E op \in Pops \cup {"push", "pushBounded", "shutdown"},
          item \in Items \cup {None} :
           call' = [call EXCEPT ![t] = [op |-> op, item |-> item]]
    /\ UNCHANGED <<queue, shut, ret>>

(* t's call takes effect.                                                  *)
Effect(t, ops) ==
    /\ phase[t] = "called"
    /\ call[t].op \in ops
    /\ phase' = [phase EXCEPT ![t] = "done"]
    /\ UNCHANGED call

Put(t) ==
    /\ Effect(t, {"push"})
    /\ queue' = IF shut THEN queue ELSE Append(queue, call[t].item)
    /\ UNCHANGED <<shut, ret>>

PutBounded(t) ==
    /\ Effect(t, {"pushBounded"})
    /\ queue' = IF shut THEN queue ELSE Append(Newest(queue), call[t].item)
    /\ UNCHANGED <<shut, ret>>

Take(t) ==
    /\ Effect(t, Pops)
    /\ queue # <<>>
    /\ ret' = [ret EXCEPT ![t] = Head(queue)]
    /\ queue' = Tail(queue)
    /\ UNCHANGED shut

(* Only a queue that has been shut down lets waitAndPop go without an item.*)
TakeNothing(t) ==
    /\ Effect(t, Pops)
    /\ queue = <<>>
    /\ call[t].op = "waitAndPop" => shut
    /\ UNCHANGED <<queue, shut, ret>>

Close(t) ==
    /\ Effect(t, {"shutdown"})
    /\ shut' = TRUE
    /\ UNCHANGED <<queue, ret>>

End(t) ==
    /\ phase[t] = "done"
    /\ phase' = [phase EXCEPT ![t] = "out"]
    /\ call' = [call EXCEPT ![t] = NoCall]
    /\ ret' = [ret EXCEPT ![t] = None]
    /\ UNCHANGED <<queue, shut>>

FifoNext ==
    \E t \in Threads :
        \/ Begin(t) \/ Put(t) \/ PutBounded(t)
        \/ Take(t) \/ TakeNothing(t) \/ Close(t) \/ End(t)

FifoSpec == FifoInit /\ [][FifoNext]_fifoVars
=============================================================================
