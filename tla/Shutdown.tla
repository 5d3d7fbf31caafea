------------------------------ MODULE Shutdown ------------------------------
(***************************************************************************)
(* The end of the door alarm program: main.cpp with its signal handler,    *)
(* the stop() of RecognitionThread, CameraThread, DoorAlarmSystem and      *)
(* GPIOPin, and AsyncLogger with its worker thread.                        *)
(*                                                                         *)
(* It begins when start() has created all threads.  Of a thread's loop     *)
(* only what bears on the end is kept: where it blocks, what it posts and  *)
(* logs, and the test that ends it.  What the events mean is the subject   *)
(* of DoorAlarmSystem; here an event is just an event, or Shutdown.  The   *)
(* event queue is the FIFO that EventQueue implements.                     *)
(*                                                                         *)
(* A signal is handled by any thread, which does nothing else meanwhile.   *)
(* main holds shutdown_mtx from line 65 to the end of the block, but while *)
(* it waits.                                                               *)
(***************************************************************************)
EXTENDS Naturals, Sequences

CONSTANTS
    Pins,         \* the GPIO workers that could be started: a part of "reed",
                  \* "button" and "trigger"
    Takers,       \* bound: the threads the kernel runs the handler on
    MaxSignals,   \* bound: signals sent to the program
    MaxEvents,    \* bound: no worker posts when so many events are queued
    MaxLogs       \* bound: no worker logs when so many messages are queued

ASSUME ShutdownAssumption ==
    /\ Pins \subseteq {"reed", "button", "trigger"}
    /\ {MaxSignals, MaxEvents, MaxLogs} \subseteq Nat

VARIABLES
    mainAt,       \* "lock", "test", "waiting", "stop", "destroy" or "done"
    step,         \* in "stop": the step of Teardown that is next
    shouldExit,   \* should_exit
    handler,      \* for each thread, where it is in signalHandler
    signals,      \* signals sent so far
    running,      \* the objects whose running_ is true
    closed,       \* the queues that have been shut down
    at,           \* where each worker is in its loop
    svr,          \* svr_: "idle", "running" or "stopped"
    events,       \* eventQueue_
    alarm,        \* alarmActive_
    logQueue,     \* logQueue_: logged "early", before the logger was stopped,
                  \* or "late"
    logAt         \* where the logger's worker is in processLogs

mainVars == <<mainAt, step, shouldExit>>
signalVars == <<handler, signals>>
logVars == <<logQueue, logAt>>
vars == <<mainVars, signalVars, running, closed, at, svr, events, alarm,
          logVars>>

Workers == Pins \cup {"recognition", "camera", "nfc", "control", "timer",
                      "api"}
Threads == Workers \cup {"main", "logger"}

-----------------------------------------------------------------------------
Do(what, whom) == [do |-> what, to |-> whom]

(* GPIOPin::stop of a pin that was started.                                *)
StopPin(pin) ==
    IF pin \in Pins THEN <<Do("flag", pin), Do("join", pin)>> ELSE <<>>

(* main from line 72 on: recognition.stop(), camera.stop() and             *)
(* DoorAlarmSystem::stop().                                                *)
stopVision ==
    << Do("flag", "recognition"), Do("close", "frames"),
       Do("join", "recognition"),
       Do("flag", "camera"), Do("close", "frames"), Do("join", "camera") >>

\* A stop() that clears the alarm before the thread that raises it has ended.
stopSystemHasty ==
    << Do("flag", "system"), Do("stop", "svr"), Do("post", "events"),
       Do("close", "events"), Do("clear", "alarm") >>
    \o StopPin("reed") \o StopPin("button") \o StopPin("trigger")
    \o << Do("join", "nfc"), Do("join", "control"), Do("join", "timer"),
          Do("join", "api"), Do("log", "logger"),
          Do("flag", "logger"), Do("notify", "logger"),
          Do("join", "logger") >>

stopSystem ==
    << Do("flag", "system"), Do("stop", "svr"), Do("post", "events"),
       Do("close", "events") >>
    \o StopPin("reed") \o StopPin("button") \o StopPin("trigger")
    \o << Do("join", "nfc"), Do("join", "control"), Do("join", "timer"),
          Do("join", "api"), Do("clear", "alarm"), Do("log", "logger"),
          Do("log", "logger"), Do("flag", "logger"),
          Do("notify", "logger"), Do("join", "logger") >>

Teardown == stopVision \o stopSystem

Init ==
    /\ mainAt = "lock"
    /\ step = 1
    /\ shouldExit = FALSE
    /\ handler = [t \in Threads |-> "none"]
    /\ signals = 0
    /\ running = Pins \cup {"recognition", "camera", "system", "logger"}
    /\ closed = {}
    /\ at = [w \in Workers |-> "loop"]
    /\ svr = "idle"
    /\ events = <<>>
    /\ alarm = FALSE
    /\ logQueue = <<>>
    /\ logAt = "top"

-----------------------------------------------------------------------------
Interrupted(t) == handler[t] # "none"

(* shutdown_mtx is main's.                                                 *)
Held == mainAt \in {"test", "stop"}

(* AsyncLogger::log: the message is queued under queueMtx_, which the      *)
(* worker keeps while it is about to wait, and the worker is notified.     *)
log ==
    /\ logAt # "block"
    /\ logQueue' = Append(logQueue, IF "logger" \in running THEN "early"
                                    ELSE "late")
    /\ logAt' = IF logAt = "waiting" THEN "acquire" ELSE logAt

(* EventQueue::push.                                                       *)
post(event) ==
    events' = IF "events" \in closed THEN events ELSE Append(events, event)

(* A step of worker w, from one place in its loop to another.              *)
Moves(w, from, to) ==
    /\ ~Interrupted(w)
    /\ at[w] = from
    /\ at' = [at EXCEPT ![w] = to]
    /\ UNCHANGED <<mainVars, signalVars, running>>

-----------------------------------------------------------------------------
(* Forms with a plausible slip in them, to show that the properties below  *)
(* notice it.                                                              *)

\* GPIOPin's worker that looks at its flag only when there is an edge.
PinExitsOnEdge(w) ==
    /\ Moves(w, "edge", "exited")
    /\ w \notin running
    /\ UNCHANGED <<closed, svr, events, alarm, logVars>>

\* processLogs that ends as soon as the logger has been stopped.
LogTopHasty ==
    /\ ~Interrupted("logger")
    /\ logAt = "top"
    /\ logAt' = IF "logger" \in running THEN "acquire" ELSE "exited"
    /\ UNCHANGED <<mainVars, signalVars, running, closed, at, svr, events,
                   alarm, logQueue>>

-----------------------------------------------------------------------------
(* signalHandler.                                                          *)
Signal(t) ==
    /\ t \in Takers /\ signals < MaxSignals
    /\ mainAt # "done"
    /\ ~Interrupted(t)
    /\ t \in Workers => at[t] # "exited"
    /\ t = "logger" => logAt # "exited"
    /\ signals' = signals + 1
    /\ handler' = [handler EXCEPT ![t] = "lock"]
    /\ UNCHANGED <<mainVars, running, closed, at, svr, events, alarm, logVars>>

HandlerLocks(t) ==
    /\ handler[t] = "lock"
    /\ ~Held
    /\ shouldExit' = TRUE
    /\ handler' = [handler EXCEPT ![t] = "notify"]
    /\ UNCHANGED <<mainAt, step, signals, running, closed, at, svr, events,
                   alarm, logVars>>

HandlerNotifies(t) ==
    /\ handler[t] = "notify"
    /\ handler' = [handler EXCEPT ![t] = "none"]
    /\ mainAt' = IF mainAt = "waiting" THEN "lock" ELSE mainAt
    /\ UNCHANGED <<step, shouldExit, signals, running, closed, at, svr,
                   events, alarm, logVars>>

Handler(t) == HandlerLocks(t) \/ HandlerNotifies(t)

-----------------------------------------------------------------------------
(* main.  Taking the mutex and testing the predicate; waiting gives the    *)
(* mutex back.                                                             *)
MainLocks ==
    /\ ~Interrupted("main")
    /\ mainAt = "lock"
    /\ mainAt' = "test"
    /\ UNCHANGED <<step, shouldExit, signalVars, running, closed, at, svr,
                   events, alarm, logVars>>

MainTests ==
    /\ ~Interrupted("main")
    /\ mainAt = "test"
    /\ mainAt' = IF shouldExit THEN "stop" ELSE "waiting"
    /\ UNCHANGED <<step, shouldExit, signalVars, running, closed, at, svr,
                   events, alarm, logVars>>

MainSpurious ==
    /\ ~Interrupted("main")
    /\ mainAt = "waiting"
    /\ mainAt' = "lock"
    /\ UNCHANGED <<step, shouldExit, signalVars, running, closed, at, svr,
                   events, alarm, logVars>>

(* The next step of Teardown does this to that.                            *)
Next1(what) ==
    /\ ~Interrupted("main")
    /\ mainAt = "stop"
    /\ Teardown[step].do = what
    /\ step' = step + 1
    /\ mainAt' = IF step = Len(Teardown) THEN "destroy" ELSE "stop"
    /\ UNCHANGED <<shouldExit, signalVars>>

To == Teardown[step].to

StopFlag ==
    /\ Next1("flag")
    /\ running' = running \ {To}
    /\ UNCHANGED <<closed, at, svr, events, alarm, logVars>>

StopClose ==
    /\ Next1("close")
    /\ closed' = closed \cup {To}
    /\ UNCHANGED <<running, at, svr, events, alarm, logVars>>

StopJoin ==
    /\ Next1("join")
    /\ IF To = "logger" THEN logAt = "exited" ELSE at[To] = "exited"
    /\ UNCHANGED <<running, closed, at, svr, events, alarm, logVars>>

(* httplib's stop() does nothing to a server that does not listen yet.     *)
StopServer ==
    /\ Next1("stop")
    /\ svr' = IF svr = "running" THEN "stopped" ELSE svr
    /\ UNCHANGED <<running, closed, at, events, alarm, logVars>>

\* postEvent with its two arguments swapped.
StopPostsSwapped ==
    /\ Next1("post")
    /\ post("main")
    /\ UNCHANGED <<running, closed, at, svr, alarm, logVars>>

StopPosts ==
    /\ Next1("post")
    /\ post("Shutdown")
    /\ UNCHANGED <<running, closed, at, svr, alarm, logVars>>

(* AlarmManager::stop, but for its second message.                         *)
StopAlarm ==
    /\ Next1("clear")
    /\ alarm' = FALSE
    /\ log
    /\ UNCHANGED <<running, closed, at, svr, events>>

StopLogs ==
    /\ Next1("log")
    /\ log
    /\ UNCHANGED <<running, closed, at, svr, events, alarm>>

(* AsyncLogger::stop notifies without the mutex.                           *)
StopNotifies ==
    /\ Next1("notify")
    /\ logAt' = IF logAt = "waiting" THEN "acquire" ELSE logAt
    /\ UNCHANGED <<running, closed, at, svr, events, alarm, logQueue>>

(* shutdown_mtx is given back and the objects are destroyed: their stop()  *)
(* is called once more, and AlarmManager's logs what nobody will write.    *)
Destroy ==
    /\ ~Interrupted("main")
    /\ mainAt = "destroy"
    /\ mainAt' = "done"
    /\ alarm' = FALSE
    /\ log
    /\ UNCHANGED <<step, shouldExit, signalVars, running, closed, at, svr,
                   events>>

Main ==
    \/ MainLocks \/ MainTests
    \/ StopFlag \/ StopClose \/ StopJoin \/ StopServer \/ StopPosts
    \/ StopAlarm \/ StopLogs \/ StopNotifies \/ Destroy

-----------------------------------------------------------------------------
(* RecognitionThread::loop: the test of running_, and the blocking pop,    *)
(* which returns a frame or, once the queue is shut down, nothing.  ESC in *)
(* the preview of a frame ends the loop.                                   *)
RecognitionTests ==
    /\ Moves("recognition", "loop",
             IF "recognition" \in running THEN "pop" ELSE "exited")
    /\ UNCHANGED <<closed, svr, events, alarm, logVars>>

RecognitionFrame ==
    /\ Moves("recognition", "pop", "loop")
    /\ UNCHANGED <<closed, svr, events, alarm, logVars>>

RecognitionClosed ==
    /\ Moves("recognition", "pop", "exited")
    /\ "frames" \in closed
    /\ UNCHANGED <<closed, svr, events, alarm, logVars>>

RecognitionEsc ==
    /\ Moves("recognition", "pop", "exited")
    /\ closed' = closed \cup {"frames"}
    /\ UNCHANGED <<svr, events, alarm, logVars>>

(* CameraThread::loop: cap.read blocks until the camera has a frame.  The  *)
(* loop ends when it is told to, and when there is no camera or OpenCV     *)
(* throws.                                                                 *)
CameraTests ==
    /\ Moves("camera", "loop",
             IF "camera" \in running THEN "read" ELSE "exited")
    /\ UNCHANGED <<closed, svr, events, alarm, logVars>>

CameraReads ==
    /\ Moves("camera", "read", "loop")
    /\ UNCHANGED <<closed, svr, events, alarm, logVars>>

CameraFails ==
    /\ \E place \in {"loop", "read"} : Moves("camera", place, "exited")
    /\ UNCHANGED <<closed, svr, events, alarm, logVars>>

(* GPIOPin::worker and the callbacks of reed switch and exit button.  The  *)
(* flag is tested before the wait, so edges may still be reported when it  *)
(* has been cleared.                                                       *)
PinCallback(w) ==
    /\ Moves(w, "loop", "loop")
    /\ Len(events) < MaxEvents /\ Len(logQueue) < MaxLogs
    /\ post("event")
    /\ log
    /\ UNCHANGED <<closed, svr, alarm>>

PinExits(w) ==
    /\ Moves(w, "loop", "exited")
    /\ w \notin running
    /\ UNCHANGED <<closed, svr, events, alarm, logVars>>

(* An exception of libgpiod ends the worker.                               *)
PinFault(w) ==
    /\ ~Interrupted(w)
    /\ at[w] = "loop"
    /\ at' = [at EXCEPT ![w] = "exited"]
    /\ running' = running \ {w}
    /\ UNCHANGED <<mainVars, signalVars, closed, svr, events, alarm, logVars>>

(* nfcLoop: readUID blocks until the reader sends something.               *)
NfcTests ==
    /\ Moves("nfc", "loop", IF "system" \in running THEN "read" ELSE "exited")
    /\ UNCHANGED <<closed, svr, events, alarm, logVars>>

NfcReads ==
    /\ Moves("nfc", "read", "loop")
    /\ \/ /\ Len(events) < MaxEvents /\ Len(logQueue) < MaxLogs
          /\ post("event")
          /\ log
       \/ UNCHANGED <<events, logVars>>
    /\ UNCHANGED <<closed, svr, alarm>>

(* controlLoop: an event may raise or clear the alarm.                     *)
ControlHandles ==
    /\ Moves("control", "loop", "loop")
    /\ events # <<>> /\ Head(events) = "event"
    /\ events' = Tail(events)
    /\ alarm' \in BOOLEAN
    /\ log
    /\ UNCHANGED <<closed, svr>>

ControlExits ==
    /\ Moves("control", "loop", "exited")
    /\ \/ events # <<>> /\ Head(events) = "Shutdown" /\ events' = Tail(events)
       \/ events = <<>> /\ "events" \in closed /\ UNCHANGED events
    /\ UNCHANGED <<closed, svr, alarm, logVars>>

(* timerLoop posts, or silences the alarm; it too may be past the test of  *)
(* its flag.                                                               *)
TimerActs ==
    /\ Moves("timer", "loop", "loop")
    /\ Len(events) < MaxEvents /\ Len(logQueue) < MaxLogs
    /\ \/ post("event") /\ UNCHANGED alarm
       \/ alarm /\ alarm' = FALSE /\ UNCHANGED events
    /\ log
    /\ UNCHANGED <<closed, svr>>

TimerExits ==
    /\ Moves("timer", "loop", "exited")
    /\ "system" \notin running
    /\ UNCHANGED <<closed, svr, events, alarm, logVars>>

(* apiLoop: listen returns when the server is stopped.                     *)
ApiListens ==
    /\ Moves("api", "loop", "listen")
    /\ svr' = "running"
    /\ UNCHANGED <<closed, events, alarm, logVars>>

ApiExits ==
    /\ Moves("api", "listen", "exited")
    /\ svr = "stopped"
    /\ UNCHANGED <<closed, svr, events, alarm, logVars>>

(* What workers do by themselves, and what the world makes them do.        *)
Worker ==
    \/ RecognitionTests \/ RecognitionClosed \/ CameraTests
    \/ \E w \in Pins : PinExits(w)
    \/ NfcTests \/ ControlHandles \/ ControlExits \/ TimerExits
    \/ ApiListens \/ ApiExits

World ==
    \/ RecognitionFrame \/ RecognitionEsc \/ CameraReads \/ CameraFails
    \/ \E w \in Pins : PinCallback(w) \/ PinFault(w)
    \/ NfcReads \/ TimerActs

-----------------------------------------------------------------------------
(* The logger's worker: processLogs tests its loop's condition without the *)
(* mutex.                                                                  *)
LogGoes(from, to) ==
    /\ ~Interrupted("logger")
    /\ logAt = from
    /\ logAt' = to
    /\ UNCHANGED <<mainVars, signalVars, running, closed, at, svr, events,
                   alarm>>

LogTop ==
    /\ LogGoes("top", IF "logger" \in running \/ logQueue # <<>>
                      THEN "acquire" ELSE "exited")
    /\ UNCHANGED logQueue

LogTest ==
    \/ /\ logQueue # <<>>
       /\ LogGoes("acquire", "write")
       /\ logQueue' = Tail(logQueue)
    \/ /\ logQueue = <<>>
       /\ LogGoes("acquire", IF "logger" \in running THEN "block" ELSE "top")
       /\ UNCHANGED logQueue

LogWait == LogGoes("block", "waiting") /\ UNCHANGED logQueue
LogSpurious == LogGoes("waiting", "acquire") /\ UNCHANGED logQueue
processLogs == LogTop \/ LogTest \/ LogWait

(* The message is written and sent; curl_easy_perform has no timeout.      *)
LogWrite == LogGoes("write", "top") /\ UNCHANGED logQueue

Next ==
    \/ \E t \in Threads : Signal(t) \/ Handler(t)
    \/ Main \/ MainSpurious
    \/ Worker \/ World
    \/ processLogs \/ LogWrite \/ LogSpurious

Spec == Init /\ [][Next]_vars

(* Threads that can run do.  Nothing is assumed of signals, frames, edges, *)
(* tags and keys, of the server the log is sent to, nor that a thread      *)
(* wakes up by itself.  A mutex that is free again and again is got in the *)
(* end: shutdown_mtx, which main takes whenever it wakes up in vain, by a  *)
(* handler, and queueMtx_, which the logger's worker takes likewise, by    *)
(* main and the control thread.                                            *)
FairSpec ==
    /\ Spec
    /\ SF_vars(\E t \in Threads : Handler(t))
    /\ SF_vars(Main)
    /\ WF_vars(RecognitionTests \/ RecognitionClosed)
    /\ WF_vars(CameraTests)
    /\ \A w \in Pins : WF_vars(PinExits(w))
    /\ WF_vars(NfcTests)
    /\ SF_vars(ControlHandles \/ ControlExits)
    /\ WF_vars(TimerExits)
    /\ WF_vars(ApiListens \/ ApiExits)
    /\ WF_vars(processLogs)

-----------------------------------------------------------------------------
(* The values of the variables.                                            *)
ShutdownTypeOK ==
    /\ mainAt \in {"lock", "test", "waiting", "stop", "destroy", "done"}
    /\ step \in 1 .. Len(Teardown) + 1
    /\ shouldExit \in BOOLEAN
    /\ handler \in [Threads -> {"none", "lock", "notify"}]
    /\ signals \in 0 .. MaxSignals
    /\ running \subseteq Pins \cup {"recognition", "camera", "system",
                                    "logger"}
    /\ closed \subseteq {"frames", "events"}
    /\ at \in [Workers -> {"loop", "pop", "read", "listen", "exited"}]
    /\ svr \in {"idle", "running", "stopped"}
    /\ events \in Seq({"event", "Shutdown"})
    /\ alarm \in BOOLEAN
    /\ logQueue \in Seq({"early", "late"})
    /\ logAt \in {"top", "acquire", "block", "waiting", "write", "exited"}

Doing(what, whom) == mainAt = "stop" /\ Teardown[step] = Do(what, whom)

(* main is past AlarmManager::stop.                                        *)
AlarmStopped ==
    mainAt = "destroy" \/ Doing("log", "logger") \/ Doing("flag", "logger")
        \/ Doing("notify", "logger") \/ Doing("join", "logger")

(* "Clears any active alarms to turn off buzzers/LEDs" (AlarmManager.cpp:  *)
(* 33): an alarm that the control thread raises while the system is being  *)
(* stopped does not outlive the program.                                   *)
AlarmStaysOff == (AlarmStopped \/ mainAt = "done") => ~alarm

(* What was logged before the logger was stopped has been written when the *)
(* program ends, though the worker looks at running_ and at the queue      *)
(* without the mutex (AsyncLogger.cpp:91).                                 *)
LoggedIsWritten ==
    logAt = "exited" => \A i \in 1 .. Len(logQueue) : logQueue[i] = "late"

(* The waits that may never end: for a camera, an NFC reader or a log      *)
(* server that does not answer; of a handler, on main itself or on a       *)
(* thread main joins, for the mutex main keeps; for a server that began to *)
(* listen after svr_.stop(); for a logger that missed its notification     *)
(* between its test and its wait.                                          *)
CameraBlocked == Doing("join", "camera") /\ at["camera"] = "read"
NfcBlocked == Doing("join", "nfc") /\ at["nfc"] = "read"
LogBlocked == Doing("join", "logger") /\ logAt = "write"
HandlerBlocked == Held /\ \E t \in Threads : handler[t] = "lock"
ApiBlocked ==
    Doing("join", "api") /\ at["api"] = "listen" /\ svr # "stopped"
LogMissed == Doing("join", "logger") /\ logAt = "waiting"

(* "Synchronized Graceful Teardown" (main.cpp:68): once should_exit is set *)
(* (it is never reset) the program ends, whatever its threads are doing at *)
(* the time and however often it is interrupted, or it is for ever in one  *)
(* of the waits named above.                                               *)
TeardownEnds ==
    <>[]shouldExit =>
        \/ <>[](mainAt = "done")
        \/ <>[]CameraBlocked \/ <>[]NfcBlocked \/ <>[]LogBlocked
        \/ <>[]HandlerBlocked \/ <>[]ApiBlocked \/ <>[]LogMissed
=============================================================================
