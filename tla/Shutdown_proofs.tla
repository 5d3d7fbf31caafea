--------------------------- MODULE Shutdown_proofs ---------------------------
(***************************************************************************)
(* The end of the door alarm program, whichever pins were started and      *)
(* however many signals, events and messages there are: an alarm does not  *)
(* outlive it, what was logged in time is written, and it comes to its end *)
(* unless one of four named waits keeps it.                                *)
(***************************************************************************)
EXTENDS Shutdown, SequenceTheorems, FiniteSetTheorems, TLAPS

(* Teardown in two parts: the first has two steps for each pin, the second *)
(* is always the same.                                                     *)
StopInputs ==
    << Do("flag", "system"), Do("stop", "svr"), Do("post", "events"),
       Do("close", "events") >>
    \o StopPin("reed") \o StopPin("button") \o StopPin("trigger")

FirstPart == stopVision \o StopInputs

LastPart ==
    << Do("join", "nfc"), Do("join", "control"), Do("join", "timer"),
       Do("join", "api"), Do("clear", "alarm"), Do("log", "logger"),
       Do("log", "logger"), Do("flag", "logger"),
       Do("notify", "logger"), Do("join", "logger") >>

(* What the first part may do, and to whom.                                *)
FirstSteps ==
    [do : {"flag", "join"},
     to : {"recognition", "camera", "system", "reed", "button", "trigger"}]
    \cup {Do("close", "frames"), Do("close", "events"), Do("stop", "svr"),
          Do("post", "events")}

Whats == {"flag", "close", "join", "stop", "post", "clear", "log", "notify"}
Whoms == {"recognition", "camera", "frames", "system", "svr", "events", "reed",
          "button", "trigger", "nfc", "control", "timer", "api", "alarm",
          "logger"}
Steps == [do : Whats, to : Whoms]

(* The steps of main before it joins the NFC thread.                       *)
n == Len(FirstPart)

(* main is past a join only behind the thread it joins, and past the end   *)
(* of the alarm manager only with the alarm off, which nobody can raise    *)
(* any more.                                                               *)
StopInv ==
    /\ mainAt \in {"lock", "test", "waiting"} => step = 1
    /\ mainAt = "stop" => step \in 1 .. n + 10
    /\ mainAt \in {"destroy", "done"} => step = n + 11
    /\ step > n + 2 => at["control"] = "exited"
    /\ step > n + 5 => ~alarm

(* The logger's worker ends after it was told to.                          *)
LogInv ==
    logAt = "exited" =>
        /\ "logger" \notin running
        /\ \A i \in 1 .. Len(logQueue) : logQueue[i] = "late"

ShutdownInv == ShutdownTypeOK /\ StopInv /\ LogInv

-----------------------------------------------------------------------------
(* The shape of Teardown.                                                  *)
LEMMA FirstPartSteps ==
    stopVision \in Seq(FirstSteps) /\ StopInputs \in Seq(FirstSteps)
<1>1. stopVision \in Seq(FirstSteps)
  BY DEF stopVision, FirstSteps, Do
<1>2. << Do("flag", "system"), Do("stop", "svr"), Do("post", "events"),
         Do("close", "events") >> \in Seq(FirstSteps)
  BY DEF FirstSteps, Do
<1>3. \A pin \in {"reed", "button", "trigger"} :
          StopPin(pin) \in Seq(FirstSteps)
  <2>1. \A pin \in {"reed", "button", "trigger"} :
            <<Do("flag", pin), Do("join", pin)>> \in Seq(FirstSteps)
    BY DEF FirstSteps, Do
  <2> QED
    BY <2>1 DEF StopPin
<1> QED
  BY <1>1, <1>2, <1>3 DEF StopInputs

LEMMA DoIsStep ==
    /\ \A what \in Whats, whom \in Whoms : Do(what, whom) \in Steps
    /\ FirstSteps \subseteq Steps
<1>1. \A what \in Whats, whom \in Whoms : Do(what, whom) \in Steps
  BY DEF Do, Steps
<1>2. [do : {"flag", "join"},
       to : {"recognition", "camera", "system", "reed", "button", "trigger"}]
          \subseteq Steps
  BY DEF Steps, Whats, Whoms
<1> QED
  BY <1>1, <1>2 DEF FirstSteps, Whats, Whoms

LEMMA TeardownParts ==
    /\ n \in Nat
    /\ Len(Teardown) = n + 10
    /\ \A i \in 1 .. n : Teardown[i] \in FirstSteps
    /\ \A i \in 1 .. 10 : Teardown[n + i] = LastPart[i]
<1>1. /\ stopVision \in Seq(Steps) /\ StopInputs \in Seq(Steps)
      /\ FirstPart \in Seq(Steps) /\ FirstPart \in Seq(FirstSteps)
  BY DoIsStep, FirstPartSteps, SeqMonotonic DEF FirstPart
<1>2. LastPart \in Seq(Steps) /\ Len(LastPart) = 10
  BY DoIsStep DEF LastPart, Whats, Whoms
<1>3. Teardown = FirstPart \o LastPart
  <2>1. stopSystem = StopInputs \o LastPart
    BY DEF stopSystem, StopInputs, LastPart
  <2>2. (stopVision \o StopInputs) \o LastPart =
            stopVision \o (StopInputs \o LastPart)
    BY <1>1, <1>2, ConcatAssociative, SMTT(30)
  <2> QED
    BY <2>1, <2>2 DEF Teardown, FirstPart
<1>4. n \in Nat
  BY <1>1, LenProperties DEF n
<1>5. /\ Len(Teardown) = n + 10
      /\ \A i \in 1 .. n + 10 :
             Teardown[i] = IF i <= n THEN FirstPart[i] ELSE LastPart[i - n]
  <2>1. LastPart \in Seq(Steps)
    BY <1>2
  <2>2. /\ Len(FirstPart \o LastPart) = Len(FirstPart) + Len(LastPart)
        /\ \A i \in 1 .. Len(FirstPart) + Len(LastPart) :
               (FirstPart \o LastPart)[i] =
                   IF i <= Len(FirstPart) THEN FirstPart[i]
                   ELSE LastPart[i - Len(FirstPart)]
    BY <1>1, <2>1, ConcatProperties, Zenon
  <2> QED
    BY <1>2, <1>3, <2>2 DEF n
<1>6. \A i \in 1 .. n : Teardown[i] \in FirstSteps
  <2>1. \A i \in 1 .. n : FirstPart[i] \in FirstSteps
    BY <1>1, ElementOfSeq DEF n
  <2> QED
    BY <1>4, <1>5, <2>1
<1>7. \A i \in 1 .. 10 : Teardown[n + i] = LastPart[i]
  BY <1>4, <1>5
<1> QED
  BY <1>4, <1>5, <1>6, <1>7

(* Where in Teardown the steps are that matter here.                       *)
LEMMA TeardownAt ==
    ASSUME NEW i \in 1 .. n + 10
    PROVE  /\ Teardown[i].do = "clear" <=> i = n + 5
           /\ i = n + 2 => Teardown[i] = Do("join", "control")
           /\ Teardown[i].do \in {"log", "notify"} => i > n + 5
           /\ Teardown[i].to = "logger" => i > n + 5
           /\ Teardown[i].do = "close" =>
                  Teardown[i].to \in {"frames", "events"}
<1>1. CASE i \in 1 .. n
  <2>1. Teardown[i] \in FirstSteps
    BY <1>1, TeardownParts
  <2>2. \/ /\ Teardown[i].do \in {"flag", "join"}
           /\ Teardown[i].to \in {"recognition", "camera", "system", "reed",
                                  "button", "trigger"}
        \/ /\ Teardown[i].do = "close"
           /\ Teardown[i].to \in {"frames", "events"}
        \/ /\ Teardown[i].do \in {"stop", "post"}
           /\ Teardown[i].to \in {"svr", "events"}
    BY <2>1 DEF FirstSteps, Do
  <2>3. i < n + 1
    BY <1>1, TeardownParts
  <2> QED
    BY <2>2, <2>3, TeardownParts DEF Do
<1>2. CASE i \notin 1 .. n
  <2>1. PICK j \in 1 .. 10 : i = n + j
    <3>1. n \in Nat
      BY TeardownParts
    <3>2. i - n \in 1 .. 10 /\ i = n + (i - n)
      BY <1>2, <3>1
    <3> QED
      BY <3>2
  <2>2. Teardown[i] = LastPart[j]
    BY <2>1, TeardownParts
  <2>3. \/ j = 1 \/ j = 2 \/ j = 3 \/ j = 4 \/ j = 5 \/ j = 6 \/ j = 7 \/ j = 8
        \/ j = 9 \/ j = 10
    BY <2>1
  <2>4. /\ j = 1 => Teardown[i] = [do |-> "join", to |-> "nfc"]
        /\ j = 2 => Teardown[i] = [do |-> "join", to |-> "control"]
        /\ j = 3 => Teardown[i] = [do |-> "join", to |-> "timer"]
        /\ j = 4 => Teardown[i] = [do |-> "join", to |-> "api"]
        /\ j = 5 => Teardown[i] = [do |-> "clear", to |-> "alarm"]
        /\ j \in 6 .. 7 => Teardown[i] = [do |-> "log", to |-> "logger"]
        /\ j = 8 => Teardown[i] = [do |-> "flag", to |-> "logger"]
        /\ j = 9 => Teardown[i] = [do |-> "notify", to |-> "logger"]
        /\ j = 10 => Teardown[i] = [do |-> "join", to |-> "logger"]
    BY <2>2, <2>3 DEF LastPart, Do
  <2>5. CASE j <= 4
    <3>1. /\ Teardown[i].to \in {"nfc", "control", "timer", "api"}
          /\ Teardown[i].do = "join"
          /\ j = 2 => Teardown[i] = Do("join", "control")
      BY <2>3, <2>4, <2>5 DEF Do
    <3>2. i # n + 5 /\ (i = n + 2 => j = 2)
      BY <2>1, <2>5, TeardownParts
    <3> QED
      BY <3>1, <3>2
  <2>6. CASE j = 5
    <3>1. Teardown[i].do = "clear" /\ Teardown[i].to = "alarm"
      BY <2>4, <2>6
    <3>2. i = n + 5 /\ i # n + 2
      BY <2>1, <2>6, TeardownParts
    <3> QED
      BY <3>1, <3>2
  <2>7. CASE j > 5
    <3>1. /\ Teardown[i].to = "logger"
          /\ Teardown[i].do \in {"log", "flag", "notify", "join"}
      BY <2>3, <2>4, <2>7
    <3>2. i > n + 5 /\ i # n + 5 /\ i # n + 2
      BY <2>1, <2>7, TeardownParts
    <3> QED
      BY <3>1, <3>2
  <2> QED
    BY <2>1, <2>5, <2>6, <2>7
<1> QED
  BY <1>1, <1>2

-----------------------------------------------------------------------------
(* The program starts to end with main in its first line.                  *)
LEMMA ShutdownInvInit == Init => ShutdownInv
<1> SUFFICES ASSUME Init PROVE ShutdownInv
  OBVIOUS
<1> USE ShutdownAssumption, TeardownParts DEF Init
<1>1. ShutdownTypeOK
  <2>1. shouldExit \in BOOLEAN /\ alarm \in BOOLEAN
    OBVIOUS
  <2>2. /\ step \in 1 .. Len(Teardown) + 1 /\ signals \in 0 .. MaxSignals
        /\ events \in Seq({"event", "Shutdown"})
        /\ logQueue \in Seq({"early", "late"})
    OBVIOUS
  <2> QED
    BY <2>1, <2>2 DEF ShutdownTypeOK
<1>2. StopInv
  BY DEF StopInv
<1>3. LogInv
  BY DEF LogInv
<1> QED
  BY <1>1, <1>2, <1>3 DEF ShutdownInv

(* A message goes to the end of the logger's queue, whoever sends it.      *)
LEMMA LogKeeps ==
    ASSUME ShutdownInv, log, running' = running
    PROVE  /\ logQueue' \in Seq({"early", "late"})
           /\ logAt' \in {"top", "acquire", "block", "waiting", "write",
                           "exited"}
           /\ LogInv'
<1>1. PICK m \in {"early", "late"} :
          /\ logQueue' = Append(logQueue, m)
          /\ "logger" \notin running => m = "late"
  BY DEF log
<1>2. logQueue \in Seq({"early", "late"})
  BY DEF ShutdownInv, ShutdownTypeOK
<1>3. logAt' = "exited" => logAt = "exited"
  BY DEF log
<1>4. LogInv'
  <2> SUFFICES ASSUME logAt' = "exited"
               PROVE  /\ "logger" \notin running'
                      /\ \A i \in 1 .. Len(logQueue') : logQueue'[i] = "late"
    BY DEF LogInv
  <2> QED
    BY <1>1, <1>2, <1>3 DEF ShutdownInv, LogInv
<1> QED
  BY <1>1, <1>2, <1>4 DEF log, ShutdownInv, ShutdownTypeOK

(* A step that moves one worker, or none, and does not raise the alarm     *)
(* keeps what is said of main.                                             *)
LEMMA StopInvKept ==
    ASSUME StopInv, UNCHANGED <<mainAt, step>>,
           at'["control"] = at["control"] \/ at'["control"] = "exited",
           alarm' => alarm
    PROVE  StopInv'
  BY DEF StopInv

(* Signals and their handlers change nothing but main's wait.              *)
LEMMA SignalKeeps ==
    ASSUME ShutdownInv, NEW t \in Threads, Signal(t) \/ Handler(t)
    PROVE  ShutdownInv'
<1> USE DEF ShutdownInv, ShutdownTypeOK, logVars
<1>1. CASE Signal(t)
  BY <1>1, ShutdownAssumption DEF Signal, mainVars, StopInv, LogInv
<1>2. CASE HandlerLocks(t)
  BY <1>2 DEF HandlerLocks, StopInv, LogInv
<1>3. CASE HandlerNotifies(t)
  BY <1>3 DEF HandlerNotifies, StopInv, LogInv
<1> QED
  BY <1>1, <1>2, <1>3 DEF Handler

(* A step of main's tear-down, before what it does to others.              *)
LEMMA StepOn ==
    ASSUME ShutdownInv, NEW what, Next1(what)
    PROVE  /\ step \in 1 .. n + 10 /\ step' = step + 1
           /\ step' \in 1 .. Len(Teardown) + 1
           /\ mainAt' \in {"stop", "destroy"}
           /\ mainAt' = "stop" => step' \in 1 .. n + 10
           /\ mainAt' = "destroy" => step' = n + 11
           /\ Teardown[step].do = what
           /\ UNCHANGED <<shouldExit, handler, signals>>
<1>1. n \in Nat /\ Len(Teardown) = n + 10
  BY TeardownParts
<1>2. /\ mainAt = "stop" /\ Teardown[step].do = what /\ step' = step + 1
      /\ mainAt' = (IF step = Len(Teardown) THEN "destroy" ELSE "stop")
      /\ UNCHANGED <<shouldExit, handler, signals>>
  BY DEF Next1, signalVars
<1>3. step \in 1 .. n + 10
  BY <1>2 DEF ShutdownInv, StopInv
<1> QED
  BY <1>1, <1>2, <1>3

(* It keeps what is said of main, if the alarm is not raised and joining   *)
(* waits.                                                                  *)
LEMMA StopInvStep ==
    ASSUME ShutdownInv, NEW what, Next1(what), UNCHANGED at,
           step = n + 2 => at["control"] = "exited",
           alarm' => alarm, step = n + 5 => ~alarm'
    PROVE  StopInv'
<1>1. n \in Nat /\ step \in 1 .. n + 10 /\ step' = step + 1
  BY TeardownParts, StepOn
<1>2. /\ mainAt' \in {"stop", "destroy"}
      /\ mainAt' = "stop" => step' \in 1 .. n + 10
      /\ mainAt' = "destroy" => step' = n + 11
  BY StepOn
<1>3. step' > n + 2 => at'["control"] = "exited"
  BY <1>1 DEF ShutdownInv, StopInv
<1>4. step' > n + 5 => ~alarm'
  BY <1>1 DEF ShutdownInv, StopInv
<1> QED
  BY <1>2, <1>3, <1>4 DEF StopInv

(* Steps of the tear-down that leave alarm and logger alone.               *)
LEMMA OtherStep ==
    ASSUME ShutdownInv, NEW what \in {"flag", "close", "stop", "post"},
           Next1(what), UNCHANGED <<at, alarm, logQueue, logAt>>,
           running' \subseteq running
    PROVE  StopInv' /\ LogInv'
<1>1. step # n + 2 /\ step # n + 5
  BY StepOn, TeardownAt DEF Do
<1>2. StopInv'
  BY <1>1, StopInvStep
<1>3. LogInv'
  BY DEF ShutdownInv, LogInv
<1> QED
  BY <1>2, <1>3

(* Main keeps the invariant.                                               *)
LEMMA MainKeeps ==
    ASSUME ShutdownInv, Main \/ MainSpurious
    PROVE  ShutdownInv'
<1>1. CASE MainLocks \/ MainTests \/ MainSpurious
  <2>1. UNCHANGED <<step, shouldExit, handler, signals, running, closed, at,
                    svr, events, alarm, logQueue, logAt>>
    BY <1>1 DEF MainLocks, MainTests, MainSpurious, signalVars, logVars
  <2>2. /\ mainAt \in {"lock", "test", "waiting"}
        /\ mainAt' \in {"lock", "test", "waiting", "stop"}
    BY <1>1 DEF MainLocks, MainTests, MainSpurious
  <2>3. ShutdownTypeOK'
    BY <2>1, <2>2 DEF ShutdownInv, ShutdownTypeOK
  <2>4. LogInv'
    BY <2>1 DEF ShutdownInv, LogInv
  <2>5. StopInv'
    <3>1. n \in Nat
      BY TeardownParts
    <3> QED
      BY <2>1, <2>2, <3>1 DEF ShutdownInv, StopInv
  <2> QED
    BY <2>3, <2>4, <2>5 DEF ShutdownInv
<1>2. CASE StopFlag
  <2>1. StopInv' /\ LogInv'
    BY <1>2, OtherStep DEF StopFlag, logVars
  <2> QED
    BY <1>2, <2>1, StepOn DEF StopFlag, ShutdownInv, ShutdownTypeOK, logVars
<1>3. CASE StopClose
  <2>1. StopInv' /\ LogInv'
    BY <1>3, OtherStep DEF StopClose, logVars
  <2>2. To \in {"frames", "events"}
    BY <1>3, StepOn, TeardownAt DEF StopClose, To
  <2> QED
    BY <1>3, <2>1, <2>2, StepOn
    DEF StopClose, ShutdownInv, ShutdownTypeOK, logVars
<1>4. CASE StopJoin
  <2>1. step = n + 2 => at["control"] = "exited"
    BY <1>4, StepOn, TeardownAt DEF StopJoin, To, Do
  <2>2. step # n + 5
    BY <1>4, StepOn, TeardownAt DEF StopJoin
  <2>3. StopInv'
    BY <1>4, <2>1, <2>2, StopInvStep DEF StopJoin
  <2> QED
    BY <1>4, <2>3, StepOn
    DEF StopJoin, ShutdownInv, ShutdownTypeOK, LogInv, logVars
<1>5. CASE StopServer
  <2>1. StopInv' /\ LogInv'
    BY <1>5, OtherStep DEF StopServer, logVars
  <2> QED
    BY <1>5, <2>1, StepOn DEF StopServer, ShutdownInv, ShutdownTypeOK, logVars
<1>6. CASE StopPosts
  <2>1. StopInv' /\ LogInv'
    BY <1>6, OtherStep DEF StopPosts, logVars
  <2>2. events' \in Seq({"event", "Shutdown"})
    BY <1>6 DEF StopPosts, post, ShutdownInv, ShutdownTypeOK
  <2> QED
    BY <1>6, <2>1, <2>2, StepOn
    DEF StopPosts, ShutdownInv, ShutdownTypeOK, logVars
<1>7. CASE StopAlarm
  <2>1. step # n + 2
    BY <1>7, StepOn, TeardownAt DEF StopAlarm, Do
  <2>2. StopInv'
    BY <1>7, <2>1, StopInvStep DEF StopAlarm
  <2> QED
    BY <1>7, <2>2, StepOn, LogKeeps DEF StopAlarm, ShutdownInv, ShutdownTypeOK
<1>8. CASE StopLogs
  <2>1. step # n + 2 /\ step # n + 5
    BY <1>8, StepOn, TeardownAt DEF StopLogs, Do
  <2>2. StopInv'
    BY <1>8, <2>1, StopInvStep DEF StopLogs
  <2> QED
    BY <1>8, <2>2, StepOn, LogKeeps DEF StopLogs, ShutdownInv, ShutdownTypeOK
<1>9. CASE StopNotifies
  <2>1. step # n + 2 /\ step # n + 5
    BY <1>9, StepOn, TeardownAt DEF StopNotifies, Do
  <2>2. StopInv'
    BY <1>9, <2>1, StopInvStep DEF StopNotifies
  <2> QED
    BY <1>9, <2>2, StepOn
    DEF StopNotifies, ShutdownInv, ShutdownTypeOK, LogInv
<1>10. CASE Destroy
  <2>1. StopInv'
    BY <1>10, TeardownParts DEF Destroy, ShutdownInv, StopInv
  <2> QED
    BY <1>10, <2>1, LogKeeps
    DEF Destroy, ShutdownInv, ShutdownTypeOK, signalVars
<1> QED
  BY <1>1, <1>2, <1>3, <1>4, <1>5, <1>6, <1>7, <1>8, <1>9, <1>10 DEF Main

(* The workers keep the invariant: only the control thread raises the      *)
(* alarm, and it is still in its loop then.                                *)
LEMMA WorkerKeeps ==
    ASSUME ShutdownInv, Worker \/ World
    PROVE  ShutdownInv'
<1> USE DEF ShutdownInv, ShutdownTypeOK, Moves, mainVars, signalVars, logVars
<1>1. "control" \in Workers /\ "control" \notin Pins /\ Pins \subseteq Workers
      /\ Workers = Pins \cup {"recognition", "camera", "nfc", "control",
                              "timer", "api"}
  BY ShutdownAssumption DEF Workers
<1>2. CASE RecognitionTests \/ RecognitionFrame \/ RecognitionClosed
           \/ RecognitionEsc
  <2>1. at'["control"] = at["control"] /\ UNCHANGED <<mainAt, step, alarm>>
    BY <1>1, <1>2 DEF RecognitionTests, RecognitionFrame, RecognitionClosed,
                      RecognitionEsc
  <2>2. StopInv'
    BY <2>1, StopInvKept
  <2>3. /\ at' \in [Workers -> {"loop", "pop", "read", "listen", "exited"}]
        /\ closed' \subseteq {"frames", "events"}
        /\ UNCHANGED <<shouldExit, handler, signals, running, svr, events,
                       logQueue, logAt>>
    BY <1>1, <1>2 DEF RecognitionTests, RecognitionFrame, RecognitionClosed,
                      RecognitionEsc
  <2> QED
    BY <2>1, <2>2, <2>3 DEF LogInv
<1>3. CASE CameraTests \/ CameraReads \/ CameraFails
  <2>1. at'["control"] = at["control"] /\ UNCHANGED <<mainAt, step, alarm>>
    BY <1>1, <1>3 DEF CameraTests, CameraReads, CameraFails
  <2>2. StopInv'
    BY <2>1, StopInvKept
  <2>3. /\ at' \in [Workers -> {"loop", "pop", "read", "listen", "exited"}]
        /\ UNCHANGED <<shouldExit, handler, signals, running, closed, svr,
                       events, logQueue, logAt>>
    BY <1>1, <1>3 DEF CameraTests, CameraReads, CameraFails
  <2>4. ShutdownTypeOK'
    BY <2>1, <2>3
  <2>5. LogInv'
    BY <2>3 DEF LogInv
  <2> QED
    BY <2>2, <2>4, <2>5
<1>4. ASSUME NEW w \in Pins, PinExits(w) \/ PinFault(w) PROVE ShutdownInv'
  <2>1. at'["control"] = at["control"] /\ UNCHANGED <<mainAt, step, alarm>>
    BY <1>1, <1>4 DEF PinExits, PinFault
  <2>2. StopInv'
    BY <2>1, StopInvKept
  <2>3. /\ at' = [at EXCEPT ![w] = "exited"]
        /\ running' \in {running, running \ {w}}
        /\ UNCHANGED <<shouldExit, handler, signals, closed, svr, events,
                       logQueue, logAt>>
    BY <1>4 DEF PinExits, PinFault
  <2>4. ShutdownTypeOK'
    BY <2>1, <2>3
  <2>5. LogInv'
    BY <2>3 DEF LogInv
  <2> QED
    BY <2>2, <2>4, <2>5
<1>5. ASSUME NEW w \in Pins, PinCallback(w) PROVE ShutdownInv'
  <2>1. at'["control"] = at["control"] /\ UNCHANGED <<mainAt, step, alarm>>
    BY <1>1, <1>5 DEF PinCallback
  <2>2. StopInv'
    BY <2>1, StopInvKept
  <2>3. events' \in Seq({"event", "Shutdown"})
    BY <1>5 DEF PinCallback, post
  <2> QED
    BY <1>1, <1>5, <2>2, <2>3, LogKeeps DEF PinCallback
<1>6. CASE NfcTests
  <2>1. at'["control"] = at["control"] /\ UNCHANGED <<mainAt, step, alarm>>
    BY <1>1, <1>6 DEF NfcTests
  <2>2. StopInv'
    BY <2>1, StopInvKept
  <2> QED
    BY <1>1, <1>6, <2>2 DEF NfcTests, LogInv
<1>7. CASE NfcReads
  <2>1. at'["control"] = at["control"] /\ UNCHANGED <<mainAt, step, alarm>>
    BY <1>1, <1>7 DEF NfcReads
  <2>2. StopInv'
    BY <2>1, StopInvKept
  <2>3. CASE log
    <3>1. events' \in Seq({"event", "Shutdown"})
      BY <1>7 DEF NfcReads, post
    <3> QED
      BY <1>1, <1>7, <2>2, <2>3, <3>1, LogKeeps DEF NfcReads
  <2>4. CASE ~log
    BY <1>1, <1>7, <2>2, <2>4 DEF NfcReads, LogInv
  <2> QED
    BY <2>3, <2>4
<1>8. CASE ControlHandles
  <2>1. at["control"] = "loop" /\ UNCHANGED <<mainAt, step, at>>
    BY <1>1, <1>8 DEF ControlHandles
  <2>2. ~(step > n + 2) /\ ~(step > n + 5)
    BY <2>1, TeardownParts DEF StopInv
  <2>3. StopInv'
    BY <2>1, <2>2 DEF StopInv
  <2>4. events' \in Seq({"event", "Shutdown"}) /\ alarm' \in BOOLEAN
    BY <1>8 DEF ControlHandles
  <2> QED
    BY <1>1, <1>8, <2>1, <2>3, <2>4, LogKeeps DEF ControlHandles
<1>9. CASE ControlExits
  <2>1. at'["control"] = "exited" /\ UNCHANGED <<mainAt, step, alarm>>
    BY <1>1, <1>9 DEF ControlExits
  <2>2. StopInv'
    BY <2>1, StopInvKept
  <2>3. events' \in Seq({"event", "Shutdown"})
    <3>1. events # <<>> => Tail(events) \in Seq({"event", "Shutdown"})
      OBVIOUS
    <3>2. events' = events \/ (events # <<>> /\ events' = Tail(events))
      BY <1>9 DEF ControlExits
    <3> QED
      BY <3>1, <3>2
  <2> QED
    BY <1>1, <1>9, <2>2, <2>3 DEF ControlExits, LogInv
<1>10. CASE TimerActs
  <2>1. /\ at'["control"] = at["control"] /\ UNCHANGED <<mainAt, step>>
        /\ alarm' \in BOOLEAN /\ (alarm' => alarm)
    <3>1. at'["control"] = at["control"] /\ UNCHANGED <<mainAt, step>>
      BY <1>1, <1>10 DEF TimerActs
    <3>2. alarm' = alarm \/ alarm' = FALSE
      BY <1>10 DEF TimerActs
    <3>3. alarm \in BOOLEAN
      OBVIOUS
    <3>4. alarm' \in BOOLEAN
      BY <3>2, <3>3
    <3>5. alarm' => alarm
      BY <3>2
    <3> QED
      BY <3>1, <3>4, <3>5
  <2>2. StopInv'
    BY <2>1, StopInvKept
  <2>3. events' \in Seq({"event", "Shutdown"})
    BY <1>10 DEF TimerActs, post
  <2> QED
    BY <1>1, <1>10, <2>1, <2>2, <2>3, LogKeeps DEF TimerActs
<1>11. CASE TimerExits
  <2>1. at'["control"] = at["control"] /\ UNCHANGED <<mainAt, step, alarm>>
    BY <1>1, <1>11 DEF TimerExits
  <2>2. StopInv'
    BY <2>1, StopInvKept
  <2> QED
    BY <1>1, <1>11, <2>2 DEF TimerExits, LogInv
<1>12. CASE ApiListens \/ ApiExits
  <2>1. at'["control"] = at["control"] /\ UNCHANGED <<mainAt, step, alarm>>
    BY <1>1, <1>12 DEF ApiListens, ApiExits
  <2>2. StopInv'
    BY <2>1, StopInvKept
  <2>3. /\ at' \in [Workers -> {"loop", "pop", "read", "listen", "exited"}]
        /\ svr' \in {"idle", "running", "stopped"}
        /\ UNCHANGED <<shouldExit, handler, signals, running, closed, events,
                       logQueue, logAt>>
    BY <1>1, <1>12 DEF ApiListens, ApiExits
  <2> QED
    BY <2>1, <2>2, <2>3 DEF LogInv
<1> QED
  BY <1>2, <1>3, <1>4, <1>5, <1>6, <1>7, <1>8, <1>9, <1>10, <1>11, <1>12
  DEF Worker, World

(* The logger's worker ends only when nothing is queued and it was told to.*)
LEMMA LoggerKeeps ==
    ASSUME ShutdownInv, processLogs \/ LogWrite \/ LogSpurious
    PROVE  ShutdownInv'
<1> USE DEF ShutdownInv, ShutdownTypeOK, LogGoes, mainVars, signalVars
<1>1. StopInv'
  BY StopInvKept DEF processLogs, LogTop, LogTest, LogWait, LogWrite,
                     LogSpurious
<1>2. CASE LogTop
  BY <1>1, <1>2 DEF LogTop, LogInv
<1>3. CASE LogTest
  <2>1. logQueue' \in Seq({"early", "late"})
    <3>1. logQueue # <<>> => Tail(logQueue) \in Seq({"early", "late"})
      OBVIOUS
    <3>2. logQueue' = logQueue
              \/ (logQueue # <<>> /\ logQueue' = Tail(logQueue))
      BY <1>3 DEF LogTest
    <3> QED
      BY <3>1, <3>2
  <2>2. logAt' \in {"write", "block", "top"}
    BY <1>3 DEF LogTest
  <2> QED
    BY <1>1, <1>3, <2>1, <2>2 DEF LogTest, LogInv
<1>4. CASE LogWait \/ LogWrite \/ LogSpurious
  BY <1>1, <1>4 DEF LogWait, LogWrite, LogSpurious, LogInv
<1> QED
  BY <1>2, <1>3, <1>4 DEF processLogs

(* Every reachable state satisfies the invariant.                          *)
LEMMA ShutdownInvAlways == Spec => []ShutdownInv
<1>1. ShutdownInv /\ [Next]_vars => ShutdownInv'
  <2> SUFFICES ASSUME ShutdownInv, [Next]_vars PROVE ShutdownInv'
    OBVIOUS
  <2>1. CASE UNCHANGED vars
    BY <2>1 DEF vars, mainVars, signalVars, logVars, ShutdownInv,
                ShutdownTypeOK, StopInv, LogInv
  <2>2. CASE Next
    BY <2>2, SignalKeeps, MainKeeps, WorkerKeeps, LoggerKeeps DEF Next
  <2> QED
    BY <2>1, <2>2
<1> QED
  BY <1>1, ShutdownInvInit, PTL DEF Spec

-----------------------------------------------------------------------------
(* The values of the variables.                                            *)
THEOREM ShutdownTypes == Spec => []ShutdownTypeOK
  BY ShutdownInvAlways, PTL DEF ShutdownInv

(* Once the alarm manager has been stopped (AlarmManager.cpp:35) no alarm  *)
(* is on, whatever the control thread still had in its queue: it has been  *)
(* joined by then.                                                         *)
THEOREM AlarmDoesNotOutlive == Spec => []AlarmStaysOff
<1>1. ShutdownInv => AlarmStaysOff
  <2> SUFFICES ASSUME ShutdownInv, AlarmStopped \/ mainAt = "done"
               PROVE  ~alarm
    BY DEF AlarmStaysOff
  <2>1. n \in Nat
    BY TeardownParts
  <2>2. CASE mainAt \in {"destroy", "done"}
    BY <2>1, <2>2 DEF ShutdownInv, StopInv
  <2>3. CASE mainAt = "stop"
    <3>1. step \in 1 .. n + 10 /\ Teardown[step].to = "logger"
      BY <2>3 DEF AlarmStopped, Doing, Do, ShutdownInv, StopInv
    <3>2. step > n + 5
      BY <3>1, TeardownAt
    <3> QED
      BY <3>2 DEF ShutdownInv, StopInv
  <2> QED
    BY <2>2, <2>3 DEF AlarmStopped, Doing
<1> QED
  BY <1>1, ShutdownInvAlways, PTL

(* When the logger's worker has ended, only messages sent after the logger *)
(* was stopped are unwritten (AsyncLogger.cpp:91).                         *)
THEOREM EarlyLogsAreWritten == Spec => []LoggedIsWritten
  BY ShutdownInvAlways, PTL DEF ShutdownInv, LogInv, LoggedIsWritten

-----------------------------------------------------------------------------
(* Who could take a step by himself: the conditions under which handlers,  *)
(* main, workers and the logger's worker wait, one by one.                 *)
HandlerCanRun(t) == handler[t] = "notify" \/ (handler[t] = "lock" /\ ~Held)

MainCanRun ==
    /\ ~Interrupted("main")
    /\ \/ mainAt \in {"lock", "test"}
       \/ /\ mainAt = "stop"
          /\ Teardown[step].do = "join" =>
                 IF To = "logger" THEN logAt = "exited"
                 ELSE at[To] = "exited"
          /\ Teardown[step].do \in {"clear", "log"} => logAt # "block"
       \/ mainAt = "destroy" /\ logAt # "block"

RecognitionCanRun ==
    \/ at["recognition"] = "loop"
    \/ at["recognition"] = "pop" /\ "frames" \in closed

ControlCanRun ==
    /\ at["control"] = "loop"
    /\ \/ events # <<>> /\ Head(events) = "event" /\ logAt # "block"
       \/ events # <<>> /\ Head(events) = "Shutdown"
       \/ events = <<>> /\ "events" \in closed

ApiCanRun == at["api"] = "loop" \/ (at["api"] = "listen" /\ svr = "stopped")

WorkerCanRun ==
    \/ ~Interrupted("recognition") /\ RecognitionCanRun
    \/ ~Interrupted("control") /\ ControlCanRun
    \/ ~Interrupted("api") /\ ApiCanRun
    \/ ~Interrupted("nfc") /\ at["nfc"] = "loop"
    \/ ~Interrupted("camera") /\ at["camera"] = "loop"
    \/ \E w \in Pins :
           ~Interrupted(w) /\ at[w] = "loop" /\ w \notin running
    \/ ~Interrupted("timer") /\ at["timer"] = "loop" /\ "system" \notin running

LoggerCanRun ==
    ~Interrupted("logger") /\ logAt \in {"top", "acquire", "block"}

CanRun ==
    \/ \E t \in Threads : HandlerCanRun(t)
    \/ MainCanRun \/ WorkerCanRun \/ LoggerCanRun

(* The program has ended, or is in one of the waits that TeardownEnds      *)
(* names.                                                                  *)
Excused ==
    \/ mainAt = "done"
    \/ CameraBlocked \/ NfcBlocked \/ LogBlocked
    \/ HandlerBlocked \/ ApiBlocked \/ LogMissed

-----------------------------------------------------------------------------
(* The order of Teardown: whom main joins has been told to end before.     *)
Before(s, i, x) == \E j \in 1 .. i - 1 : s[j] = x

Joinable == Workers \cup {"logger"}

ToldFirst(s) ==
    \A i \in 1 .. Len(s) : s[i].do = "join" =>
        /\ s[i].to \in Joinable
        /\ s[i].to = "recognition" => Before(s, i, Do("close", "frames"))
        /\ s[i].to \in Pins \cup {"camera"} =>
               Before(s, i, Do("flag", s[i].to))

(* Telling first is kept when two parts are put together.                  *)
LEMMA ToldFirstConcat ==
    ASSUME NEW s \in Seq(Steps), NEW t \in Seq(Steps),
           ToldFirst(s), ToldFirst(t)
    PROVE  s \o t \in Seq(Steps) /\ ToldFirst(s \o t)
<1> DEFINE st == s \o t
<1>1. /\ st \in Seq(Steps) /\ Len(s) \in Nat /\ Len(t) \in Nat
      /\ Len(st) = Len(s) + Len(t)
      /\ \A i \in 1 .. Len(s) + Len(t) :
             st[i] = IF i <= Len(s) THEN s[i] ELSE t[i - Len(s)]
  BY ConcatProperties, LenProperties
<1> HIDE DEF st
<1>2. ASSUME NEW i \in 1 .. Len(s), NEW x, Before(s, i, x)
      PROVE  Before(st, i, x)
  <2>1. PICK j \in 1 .. i - 1 : s[j] = x
    BY <1>2 DEF Before
  <2>2. j \in 1 .. Len(s) + Len(t) /\ j <= Len(s)
    BY <1>1
  <2> QED
    BY <1>1, <2>1, <2>2 DEF Before
<1>3. ASSUME NEW i \in 1 .. Len(t), NEW x, Before(t, i, x)
      PROVE  Before(st, Len(s) + i, x)
  <2>1. PICK j \in 1 .. i - 1 : t[j] = x
    BY <1>3 DEF Before
  <2>2. /\ Len(s) + j \in 1 .. Len(s) + Len(t) /\ ~(Len(s) + j <= Len(s))
        /\ (Len(s) + j) - Len(s) = j
        /\ Len(s) + j \in 1 .. (Len(s) + i) - 1
    BY <1>1
  <2>3. st[Len(s) + j] = x
    BY <1>1, <2>1, <2>2
  <2> QED
    BY <2>2, <2>3 DEF Before
<1>4. ASSUME NEW i \in 1 .. Len(st), st[i].do = "join"
      PROVE  /\ st[i].to \in Joinable
             /\ st[i].to = "recognition" =>
                    Before(st, i, Do("close", "frames"))
             /\ st[i].to \in Pins \cup {"camera"} =>
                    Before(st, i, Do("flag", st[i].to))
  <2>1. CASE i <= Len(s)
    <3>1. i \in 1 .. Len(s) /\ st[i] = s[i]
      BY <1>1, <2>1
    <3> QED
      BY <1>2, <1>4, <3>1 DEF ToldFirst
  <2>2. CASE ~(i <= Len(s))
    <3> DEFINE k == i - Len(s)
    <3>1. k \in 1 .. Len(t) /\ i = Len(s) + k /\ st[i] = t[k]
      BY <1>1, <2>2
    <3> HIDE DEF k
    <3> QED
      BY <1>3, <1>4, <3>1 DEF ToldFirst
  <2> QED
    BY <2>1, <2>2
<1>5. ToldFirst(st)
  BY <1>4 DEF ToldFirst
<1> QED
  BY <1>1, <1>5 DEF st

(* The calls with which DoorAlarmSystem::stop begins.                      *)
stopCalls == << Do("flag", "system"), Do("stop", "svr"), Do("post", "events"),
                Do("close", "events") >>

LEMMA PartsTellFirst ==
    /\ stopVision \in Seq(Steps) /\ ToldFirst(stopVision)
    /\ stopCalls \in Seq(Steps) /\ ToldFirst(stopCalls)
    /\ LastPart \in Seq(Steps) /\ ToldFirst(LastPart)
    /\ \A pin \in {"reed", "button", "trigger"} :
           StopPin(pin) \in Seq(Steps) /\ ToldFirst(StopPin(pin))
<1>1. \A what \in Whats, whom \in Whoms : Do(what, whom) \in Steps
  BY DoIsStep
<1>2. stopVision \in Seq(Steps) /\ ToldFirst(stopVision)
  <2>1. stopVision \in Seq(Steps) /\ Len(stopVision) = 6
    BY <1>1 DEF stopVision, Whats, Whoms
  <2>2. /\ stopVision[1] = [do |-> "flag", to |-> "recognition"]
        /\ stopVision[2] = [do |-> "close", to |-> "frames"]
        /\ stopVision[3] = [do |-> "join", to |-> "recognition"]
        /\ stopVision[4] = [do |-> "flag", to |-> "camera"]
        /\ stopVision[5] = [do |-> "close", to |-> "frames"]
        /\ stopVision[6] = [do |-> "join", to |-> "camera"]
    BY DEF stopVision, Do
  <2>3. "recognition" \notin Pins \cup {"camera"}
        /\ {"recognition", "camera"} \subseteq Joinable
    BY ShutdownAssumption DEF Joinable, Workers
  <2>4. /\ Before(stopVision, 3, Do("close", "frames"))
        /\ Before(stopVision, 6, Do("flag", "camera"))
    BY <2>2 DEF Before, Do
  <2>5. \A i \in 1 .. 6 : stopVision[i].do = "join" => i = 3 \/ i = 6
    BY <2>2
  <2> QED
    BY <2>1, <2>2, <2>3, <2>4, <2>5 DEF ToldFirst
<1>3. stopCalls \in Seq(Steps) /\ ToldFirst(stopCalls)
  <2>1. stopCalls \in Seq(Steps) /\ Len(stopCalls) = 4
    BY <1>1 DEF stopCalls, Whats, Whoms
  <2>2. \A i \in 1 .. 4 : stopCalls[i].do # "join"
    BY DEF stopCalls, Do
  <2> QED
    BY <2>1, <2>2 DEF ToldFirst
<1>4. LastPart \in Seq(Steps) /\ ToldFirst(LastPart)
  <2>1. LastPart \in Seq(Steps) /\ Len(LastPart) = 10
    BY <1>1 DEF LastPart, Whats, Whoms
  <2>2. \A i \in 1 .. 10 : LastPart[i].do = "join" =>
            LastPart[i].to \in {"nfc", "control", "timer", "api", "logger"}
    BY DEF LastPart, Do
  <2>3. \A x \in {"nfc", "control", "timer", "api", "logger"} :
            x \in Joinable /\ x \notin Pins \cup {"camera", "recognition"}
    BY ShutdownAssumption DEF Joinable, Workers
  <2> QED
    BY <2>1, <2>2, <2>3 DEF ToldFirst
<1>5. ASSUME NEW pin \in {"reed", "button", "trigger"}
      PROVE  StopPin(pin) \in Seq(Steps) /\ ToldFirst(StopPin(pin))
  <2>1. CASE pin \notin Pins
    <3>1. StopPin(pin) = <<>>
      BY <2>1 DEF StopPin
    <3> QED
      BY <3>1 DEF ToldFirst
  <2>2. CASE pin \in Pins
    <3> DEFINE s == StopPin(pin)
    <3>1. s = <<Do("flag", pin), Do("join", pin)>>
      BY <2>2 DEF StopPin
    <3>2. s \in Seq(Steps) /\ Len(s) = 2
      BY <1>1, <3>1 DEF Whats, Whoms
    <3>3. s[1] = Do("flag", pin) /\ s[1].do = "flag"
          /\ s[2].do = "join" /\ s[2].to = pin
      BY <3>1 DEF Do
    <3>4. pin \in Joinable /\ pin # "recognition"
      BY <2>2 DEF Joinable, Workers
    <3> HIDE DEF s
    <3>5. Before(s, 2, Do("flag", pin))
      BY <3>3 DEF Before
    <3>6. \A i \in 1 .. 2 : s[i].do = "join" => i = 2
      BY <3>3
    <3>7. ToldFirst(s)
      BY <3>2, <3>3, <3>4, <3>5, <3>6 DEF ToldFirst
    <3> QED
      BY <3>2, <3>7 DEF s
  <2> QED
    BY <2>1, <2>2
<1> QED
  BY <1>2, <1>3, <1>4, <1>5

(* What is at a place of the first part is there in the whole.             *)
LEMMA PlaceKept ==
    ASSUME NEW s \in Seq(Steps), NEW t \in Seq(Steps), NEW i \in 1 .. Len(s)
    PROVE  i \in 1 .. Len(s \o t) /\ (s \o t)[i] = s[i]
<1>1. /\ Len(s) \in Nat /\ Len(t) \in Nat
      /\ Len(s \o t) = Len(s) + Len(t)
      /\ \A k \in 1 .. Len(s) + Len(t) :
             (s \o t)[k] = IF k <= Len(s) THEN s[k] ELSE t[k - Len(s)]
  BY ConcatProperties, LenProperties
<1>2. i \in 1 .. Len(s) + Len(t) /\ i <= Len(s)
  BY <1>1
<1> QED
  BY <1>1, <1>2

(* Whom main joins can end, as far as main is concerned.                   *)
LEMMA JoinedWereTold ==
    /\ ToldFirst(Teardown)
    /\ Teardown[7] = Do("flag", "system")
    /\ Teardown[10] = Do("close", "events")
    /\ 10 <= n
<1> DEFINE a == stopCalls \o StopPin("reed")
           b == a \o StopPin("button")
           c == b \o StopPin("trigger")
<1>1. a \in Seq(Steps) /\ ToldFirst(a)
  BY PartsTellFirst, ToldFirstConcat
<1>2. b \in Seq(Steps) /\ ToldFirst(b)
  <2> HIDE DEF a
  <2> QED
    BY <1>1, PartsTellFirst, ToldFirstConcat
<1>3. c \in Seq(Steps) /\ ToldFirst(c)
  <2> HIDE DEF b
  <2> QED
    BY <1>2, PartsTellFirst, ToldFirstConcat
<1>4. stopSystem = c \o LastPart /\ StopInputs = c
  BY DEF stopSystem, LastPart, StopInputs, stopCalls
<1>5. \A i \in 1 .. 4 : i \in 1 .. Len(c) /\ c[i] = stopCalls[i]
  <2> SUFFICES ASSUME NEW i \in 1 .. 4
               PROVE  i \in 1 .. Len(c) /\ c[i] = stopCalls[i]
    OBVIOUS
  <2>1. Len(stopCalls) = 4
    BY DEF stopCalls
  <2>2. i \in 1 .. Len(a) /\ a[i] = stopCalls[i]
    BY <2>1, PartsTellFirst, PlaceKept
  <2>3. i \in 1 .. Len(b) /\ b[i] = a[i]
    <3> HIDE DEF a
    <3> QED
      BY <2>2, <1>1, PartsTellFirst, PlaceKept
  <2>4. i \in 1 .. Len(c) /\ c[i] = b[i]
    <3> HIDE DEF b
    <3> QED
      BY <2>3, <1>2, PartsTellFirst, PlaceKept
  <2> QED
    BY <2>2, <2>3, <2>4, Zenon
<1> HIDE DEF c
<1>6. stopSystem \in Seq(Steps) /\ ToldFirst(stopSystem)
  BY <1>3, <1>4, PartsTellFirst, ToldFirstConcat
<1>7. ToldFirst(Teardown)
  BY <1>6, PartsTellFirst, ToldFirstConcat DEF Teardown
<1>8. \A i \in 1 .. 4 : i \in 1 .. Len(stopSystem)
                            /\ stopSystem[i] = stopCalls[i]
  BY <1>3, <1>4, <1>5, PartsTellFirst, PlaceKept
<1>9. /\ Len(stopVision) = 6 /\ Len(stopSystem) \in Nat
      /\ \A i \in 1 .. 6 + Len(stopSystem) :
             Teardown[i] = IF i <= 6 THEN stopVision[i] ELSE stopSystem[i - 6]
  <2>1. Len(stopVision) = 6
    BY DEF stopVision
  <2>2. /\ Len(stopSystem) \in Nat
        /\ \A i \in 1 .. Len(stopVision) + Len(stopSystem) :
               (stopVision \o stopSystem)[i] =
                   IF i <= Len(stopVision) THEN stopVision[i]
                   ELSE stopSystem[i - Len(stopVision)]
    <3>1. stopVision \in Seq(Steps) /\ stopSystem \in Seq(Steps)
      BY <1>6, PartsTellFirst
    <3> QED
      BY <3>1, ConcatProperties, LenProperties, Zenon
  <2> QED
    BY <2>1, <2>2 DEF Teardown
<1>10. /\ 7 \in 1 .. 6 + Len(stopSystem) /\ 10 \in 1 .. 6 + Len(stopSystem)
       /\ stopSystem[1] = stopCalls[1] /\ stopSystem[4] = stopCalls[4]
  BY <1>8, <1>9
<1>11. Teardown[7] = stopCalls[1] /\ Teardown[10] = stopCalls[4]
  BY <1>9, <1>10
<1>12. 10 <= n
  <2>1. 4 \in 1 .. Len(c) /\ Len(c) \in Nat
    BY <1>3, <1>5, LenProperties
  <2>2. n = 6 + Len(c)
    <3>1. stopVision \in Seq(Steps) /\ c \in Seq(Steps)
      BY <1>3, PartsTellFirst
    <3>2. Len(stopVision \o c) = Len(stopVision) + Len(c)
      BY <3>1, ConcatProperties, Zenon
    <3> QED
      BY <1>4, <1>9, <3>2 DEF n, FirstPart
  <2> QED
    BY <2>1, <2>2
<1> QED
  BY <1>7, <1>11, <1>12 DEF stopCalls

-----------------------------------------------------------------------------
(* main does not sleep through should_exit: the handler that set it has    *)
(* still to notify.                                                        *)
WaitInv ==
    (mainAt = "waiting" /\ shouldExit) =>
        \E t \in Threads : handler[t] = "notify"

(* What main has told the threads stays said.                              *)
ToldInv ==
    \A i \in 1 .. step - 1 :
        /\ Teardown[i].do = "flag" => Teardown[i].to \notin running
        /\ Teardown[i].do = "close" => Teardown[i].to \in closed

(* The places of each worker's loop.                                       *)
PlaceInv ==
    /\ at["recognition"] \in {"loop", "pop", "exited"}
    /\ at["nfc"] \in {"loop", "read", "exited"}
    /\ at["api"] \in {"loop", "listen", "exited"}
    /\ at["camera"] \in {"loop", "read", "exited"}
    /\ \A w \in Pins \cup {"control", "timer"} : at[w] \in {"loop", "exited"}

LEMMA StuckInit == Init => WaitInv /\ ToldInv /\ PlaceInv
<1> SUFFICES ASSUME Init PROVE WaitInv /\ ToldInv /\ PlaceInv
  OBVIOUS
<1>1. WaitInv
  BY DEF Init, WaitInv
<1>2. ToldInv
  BY DEF Init, ToldInv
<1>3. PlaceInv
  BY DEF Init, PlaceInv, Workers
<1> QED
  BY <1>1, <1>2, <1>3

(* Nobody but the handler that set should_exit takes its notification      *)
(* away, and that one wakes main.                                          *)
LEMMA WaitKeeps ==
    ASSUME ShutdownInv, WaitInv, [Next]_vars
    PROVE  WaitInv'
<1> USE DEF WaitInv
<1>1. handler \in [Threads -> {"none", "lock", "notify"}]
  BY DEF ShutdownInv, ShutdownTypeOK
<1>2. ASSUME NEW t \in Threads, Signal(t) \/ Handler(t) PROVE WaitInv'
  <2>1. CASE Signal(t)
    BY <1>1, <2>1 DEF Signal, mainVars, Interrupted
  <2>2. CASE HandlerLocks(t)
    BY <1>1, <2>2 DEF HandlerLocks
  <2>3. CASE HandlerNotifies(t)
    BY <1>1, <2>3 DEF HandlerNotifies
  <2> QED
    BY <1>2, <2>1, <2>2, <2>3 DEF Handler
<1>3. CASE Main \/ MainSpurious
  <2>1. UNCHANGED <<shouldExit, handler>>
    BY <1>3 DEF Main, MainLocks, MainTests, MainSpurious, Destroy, StopFlag,
        StopClose, StopJoin, StopServer, StopPosts, StopAlarm, StopLogs,
        StopNotifies, Next1, signalVars
  <2>2. ~(mainAt' = "waiting" /\ shouldExit)
    BY <1>3 DEF Main, MainLocks, MainTests, MainSpurious, Destroy, StopFlag,
        StopClose, StopJoin, StopServer, StopPosts, StopAlarm, StopLogs,
        StopNotifies, Next1
  <2> QED
    BY <2>1, <2>2
<1>4. CASE Worker \/ World
  <2>1. UNCHANGED <<mainVars, signalVars>>
    BY <1>4 DEF Worker, World, RecognitionTests, RecognitionFrame,
        RecognitionClosed, RecognitionEsc, CameraTests, CameraReads,
        CameraFails, PinCallback, PinExits, PinFault, NfcTests, NfcReads,
        ControlHandles, ControlExits, TimerActs, TimerExits, ApiListens,
        ApiExits, Moves
  <2> QED
    BY <2>1 DEF mainVars, signalVars
<1>5. CASE processLogs \/ LogWrite \/ LogSpurious \/ UNCHANGED vars
  <2>1. UNCHANGED <<mainVars, signalVars>>
    BY <1>5 DEF processLogs, LogTop, LogTest, LogWait, LogWrite, LogSpurious,
                LogGoes, vars
  <2> QED
    BY <2>1 DEF mainVars, signalVars
<1> QED
  BY <1>2, <1>3, <1>4, <1>5 DEF Next

(* No flag is set again and no queue opened again.                         *)
LEMMA ToldKeeps ==
    ASSUME ShutdownInv, ToldInv, [Next]_vars
    PROVE  ToldInv'
<1>1. CASE \/ \E t \in Threads : Signal(t) \/ Handler(t)
           \/ MainLocks \/ MainTests \/ MainSpurious \/ Destroy
           \/ Worker \/ World \/ processLogs \/ LogWrite \/ LogSpurious
           \/ UNCHANGED vars
  <2>1. step' = step /\ running' \subseteq running /\ closed \subseteq closed'
    <3>1. CASE \E t \in Threads : Signal(t) \/ Handler(t)
      BY <3>1 DEF Signal, Handler, HandlerLocks, HandlerNotifies, mainVars
    <3>2. CASE MainLocks \/ MainTests \/ MainSpurious \/ Destroy
      BY <3>2 DEF MainLocks, MainTests, MainSpurious, Destroy
    <3>3. CASE Worker
      BY <3>3 DEF Worker, RecognitionTests, RecognitionClosed, CameraTests,
          PinExits, NfcTests, ControlHandles, ControlExits, TimerExits,
          ApiListens, ApiExits, Moves, mainVars
    <3>4. CASE World
      BY <3>4 DEF World, RecognitionFrame, RecognitionEsc, CameraReads,
          CameraFails, PinCallback, PinFault, NfcReads, TimerActs, Moves,
          mainVars
    <3>5. CASE processLogs \/ LogWrite \/ LogSpurious \/ UNCHANGED vars
      BY <3>5 DEF processLogs, LogTop, LogTest, LogWait, LogWrite,
          LogSpurious, LogGoes, vars, mainVars
    <3> QED
      BY <1>1, <3>1, <3>2, <3>3, <3>4, <3>5
  <2> QED
    BY <2>1 DEF ToldInv
<1>2. CASE StopFlag \/ StopClose \/ StopJoin \/ StopServer \/ StopPosts
           \/ StopAlarm \/ StopLogs \/ StopNotifies
  <2>1. /\ step \in Nat /\ step' = step + 1
        /\ running' \subseteq running /\ closed \subseteq closed'
        /\ Teardown[step].do = "flag" => To \notin running'
        /\ Teardown[step].do = "close" => To \in closed'
    <3>1. PICK what \in Whats : Next1(what)
      BY <1>2 DEF StopFlag, StopClose, StopJoin, StopServer, StopPosts,
          StopAlarm, StopLogs, StopNotifies, Whats
    <3>2. step \in Nat /\ step' = step + 1
      <4>1. n \in Nat
        BY TeardownParts
      <4>2. step \in 1 .. n + 10 /\ step' = step + 1
        BY <3>1, StepOn
      <4> QED
        BY <4>1, <4>2
    <3>3. /\ running' \subseteq running /\ closed \subseteq closed'
          /\ Teardown[step].do = "flag" => To \notin running'
          /\ Teardown[step].do = "close" => To \in closed'
      BY <1>2 DEF StopFlag, StopClose, StopJoin, StopServer, StopPosts,
          StopAlarm, StopLogs, StopNotifies, Next1
    <3> QED
      BY <3>2, <3>3
  <2>2. ASSUME NEW i \in 1 .. step' - 1
        PROVE  i \in 1 .. step - 1 \/ i = step
    BY <2>1
  <2> QED
    BY <2>1, <2>2 DEF ToldInv, To
<1> QED
  BY <1>1, <1>2 DEF Next, Main

LEMMA PlaceKeeps ==
    ASSUME ShutdownInv, PlaceInv, [Next]_vars
    PROVE  PlaceInv'
<1>1. at \in [Workers -> {"loop", "pop", "read", "listen", "exited"}]
  BY DEF ShutdownInv, ShutdownTypeOK
<1>2. /\ {"recognition", "camera", "nfc", "control", "timer", "api"}
             \cup Pins = Workers
      /\ Pins \subseteq {"reed", "button", "trigger"}
  BY ShutdownAssumption DEF Workers
<1>3. CASE \/ \E t \in Threads : Signal(t) \/ Handler(t)
           \/ Main \/ MainSpurious \/ processLogs \/ LogWrite \/ LogSpurious
           \/ UNCHANGED vars
  <2>1. at' = at
    BY <1>3 DEF Signal, Handler, HandlerLocks, HandlerNotifies, Main,
        MainLocks, MainTests, MainSpurious, Destroy, StopFlag, StopClose,
        StopJoin, StopServer, StopPosts, StopAlarm, StopLogs, StopNotifies,
        processLogs, LogTop, LogTest, LogWait, LogWrite, LogSpurious,
        LogGoes, vars
  <2> QED
    BY <2>1 DEF PlaceInv
<1>4. CASE Worker \/ World
  <2>1. \E w \in Workers, p \in {"loop", "pop", "read", "listen", "exited"} :
            /\ at' = [at EXCEPT ![w] = p]
            /\ w = "recognition" => p \in {"loop", "pop", "exited"}
            /\ w = "nfc" => p \in {"loop", "read", "exited"}
            /\ w = "api" => p \in {"loop", "listen", "exited"}
            /\ w = "camera" => p \in {"loop", "read", "exited"}
            /\ w \in Pins \cup {"control", "timer"} =>
                   p \in {"loop", "exited"}
    <3>1. CASE Worker
      BY <1>2, <3>1 DEF Worker, RecognitionTests, RecognitionClosed,
          CameraTests, PinExits, NfcTests, ControlHandles, ControlExits,
          TimerExits, ApiListens, ApiExits, Moves
    <3>2. CASE World
      BY <1>2, <3>2 DEF World, RecognitionFrame, RecognitionEsc, CameraReads,
          CameraFails, PinCallback, PinFault, NfcReads, TimerActs, Moves
    <3> QED
      BY <1>4, <3>1, <3>2
  <2> QED
    BY <1>1, <1>2, <2>1 DEF PlaceInv
<1> QED
  BY <1>3, <1>4 DEF Next

(* Whoever main joins has ended, can run, or is one of the four who may    *)
(* not end, the logger for either of two reasons.                          *)
LEMMA JoinedCanRun ==
    ASSUME ShutdownInv, ToldInv, PlaceInv, mainAt = "stop",
           Teardown[step].do = "join",
           \A t \in Threads : ~Interrupted(t)
    PROVE  \/ MainCanRun \/ WorkerCanRun \/ LoggerCanRun
           \/ CameraBlocked \/ NfcBlocked \/ LogBlocked
           \/ ApiBlocked \/ LogMissed
<1>1. /\ n \in Nat /\ step \in 1 .. n + 10 /\ Len(Teardown) = n + 10
      /\ 10 <= n
  BY TeardownParts, JoinedWereTold DEF ShutdownInv, StopInv
<1>2. /\ To \in Joinable
      /\ To = "recognition" => Before(Teardown, step, Do("close", "frames"))
      /\ To \in Pins \cup {"camera"} => Before(Teardown, step, Do("flag", To))
  BY <1>1, JoinedWereTold DEF ToldFirst, To
<1>3. Teardown[step] = Do("join", To)
  <2>1. Teardown[step] \in Steps
    <3>1. CASE step \in 1 .. n
      BY <3>1, TeardownParts, DoIsStep
    <3>2. CASE step \notin 1 .. n
      <4>1. step - n \in 1 .. 10 /\ step = n + (step - n)
        BY <1>1, <3>2
      <4>2. Teardown[step] = LastPart[step - n]
        BY <4>1, TeardownParts
      <4>3. LastPart \in Seq(Steps) /\ Len(LastPart) = 10
        BY DoIsStep DEF LastPart, Whats, Whoms
      <4>4. \A i \in 1 .. 10 : LastPart[i] \in Steps
        BY <4>3, ElementOfSeq
      <4> QED
        BY <4>1, <4>2, <4>4
    <3> QED
      BY <3>1, <3>2
  <2> QED
    BY <2>1 DEF Steps, Do, To
<1>4. ASSUME NEW x, Before(Teardown, step, x)
      PROVE  /\ x.do = "flag" => x.to \notin running
             /\ x.do = "close" => x.to \in closed
  BY <1>4 DEF ToldInv, Before
<1>5. {"main", "logger"} \subseteq Threads /\ Workers \subseteq Threads
  BY DEF Threads
<1>6. ~Interrupted("main") /\ ~Interrupted("logger")
      /\ \A w \in Workers : ~Interrupted(w)
  BY <1>5
<1>7. /\ {"recognition", "camera", "nfc", "control", "timer", "api"}
             \cup Pins = Workers
      /\ "logger" \notin Workers
  BY ShutdownAssumption DEF Workers
<1>8. To \in {"control", "timer"} => 10 < step
  <2>1. SUFFICES ASSUME To \in {"control", "timer"} PROVE step \notin 1 .. n
    BY <1>1
  <2>2. \A x \in FirstSteps : x.to \notin {"control", "timer"}
    BY DEF FirstSteps, Do
  <2> QED
    BY <2>1, <2>2, TeardownParts DEF To
<1>9. To \in {"control", "timer"} =>
          "system" \notin running /\ "events" \in closed
  <2>1. SUFFICES ASSUME 10 < step
                 PROVE  "system" \notin running /\ "events" \in closed
    BY <1>8
  <2>2. 7 \in 1 .. step - 1 /\ 10 \in 1 .. step - 1
    BY <1>1, <2>1
  <2> QED
    BY <2>2, JoinedWereTold DEF ToldInv, Do
<1>10. CASE To = "logger"
  BY <1>3, <1>6, <1>10
  DEF MainCanRun, LoggerCanRun, LogBlocked, LogMissed, Doing, Do, ShutdownInv,
      ShutdownTypeOK
<1>11. CASE To \in Workers /\ at[To] = "exited"
  <2>1. To # "logger"
    BY <1>7, <1>11
  <2> QED
    BY <1>6, <1>11, <2>1 DEF MainCanRun
<1>12. CASE To = "recognition" /\ at[To] # "exited"
  <2>1. "frames" \in closed
    BY <1>2, <1>4, <1>12 DEF Do
  <2> QED
    BY <1>6, <1>7, <1>12, <2>1 DEF WorkerCanRun, RecognitionCanRun, PlaceInv
<1>13. CASE To \in Pins /\ at[To] # "exited"
  <2>1. To \notin running
    BY <1>2, <1>4, <1>13 DEF Do
  <2> QED
    BY <1>6, <1>7, <1>13, <2>1 DEF WorkerCanRun, PlaceInv
<1>14. CASE To = "nfc" /\ at[To] # "exited"
  BY <1>3, <1>6, <1>7, <1>14
  DEF WorkerCanRun, PlaceInv, NfcBlocked, Doing
<1>15. CASE To = "api" /\ at[To] # "exited"
  BY <1>3, <1>6, <1>7, <1>15
  DEF WorkerCanRun, ApiCanRun, PlaceInv, ApiBlocked, Doing
<1>16. CASE To = "timer" /\ at[To] # "exited"
  BY <1>6, <1>7, <1>9, <1>16 DEF WorkerCanRun, PlaceInv
<1>17. CASE To = "control" /\ at[To] # "exited"
  <2>1. at["control"] = "loop" /\ "events" \in closed
    BY <1>9, <1>17 DEF PlaceInv
  <2>2. events # <<>> => Head(events) \in {"event", "Shutdown"}
    <3>1. events \in Seq({"event", "Shutdown"})
      BY DEF ShutdownInv, ShutdownTypeOK
    <3> QED
      BY <3>1
  <2>3. CASE logAt = "block"
    BY <1>6, <2>3 DEF LoggerCanRun
  <2>4. CASE logAt # "block"
    BY <1>6, <1>7, <2>1, <2>2, <2>4 DEF WorkerCanRun, ControlCanRun
  <2> QED
    BY <2>3, <2>4
<1>18. CASE To = "camera" /\ at[To] # "exited"
  BY <1>3, <1>6, <1>7, <1>18
  DEF WorkerCanRun, PlaceInv, CameraBlocked, Doing
<1> QED
  BY <1>2, <1>7, <1>10, <1>11, <1>12, <1>13, <1>14, <1>15, <1>16, <1>17,
     <1>18
  DEF Joinable

(* If nobody can run there is a reason.                                    *)
LEMMA SomebodyCanRun ==
    ASSUME ShutdownInv, WaitInv, ToldInv, PlaceInv, shouldExit, ~CanRun
    PROVE  Excused
<1> SUFFICES ASSUME ~HandlerBlocked PROVE Excused
  BY DEF Excused
<1>1. \A t \in Threads : ~Interrupted(t)
  <2>1. handler \in [Threads -> {"none", "lock", "notify"}]
    BY DEF ShutdownInv, ShutdownTypeOK
  <2>2. \A t \in Threads : handler[t] # "notify" /\ handler[t] # "lock"
    BY DEF CanRun, HandlerCanRun, HandlerBlocked
  <2> QED
    BY <2>1, <2>2 DEF Interrupted
<1>2. ~Interrupted("main") /\ ~Interrupted("logger")
  BY <1>1 DEF Threads
<1>3. ~MainCanRun /\ ~WorkerCanRun /\ ~LoggerCanRun
  BY DEF CanRun
<1>4. logAt # "block"
  BY <1>2, <1>3 DEF LoggerCanRun
<1>5. mainAt \notin {"lock", "test", "destroy"}
  BY <1>2, <1>3, <1>4 DEF MainCanRun
<1>6. mainAt # "waiting"
  <2>1. \A t \in Threads : handler[t] # "notify"
    BY <1>1 DEF Interrupted
  <2> QED
    BY <2>1 DEF WaitInv
<1>7. CASE mainAt = "done"
  BY <1>7 DEF Excused
<1>8. CASE mainAt = "stop"
  <2>1. Teardown[step].do = "join"
    BY <1>2, <1>3, <1>4, <1>8 DEF MainCanRun
  <2>2. \/ CameraBlocked \/ NfcBlocked \/ LogBlocked
        \/ ApiBlocked \/ LogMissed
    BY <1>1, <1>3, <1>8, <2>1, JoinedCanRun
  <2> QED
    BY <2>2 DEF Excused
<1> QED
  BY <1>5, <1>6, <1>7, <1>8 DEF ShutdownInv, ShutdownTypeOK

(* Whichever pins were started and whatever is queued: once should_exit is *)
(* set (main.cpp:26) somebody can run, unless the program has ended or one *)
(* of six named waits holds it up.   Every join in main.cpp and            *)
(* DoorAlarmSystem::stop comes after what makes its thread end, and main   *)
(* does not sleep through the flag.                                        *)
THEOREM NobodyStuck == Spec => []((shouldExit /\ ~CanRun) => Excused)
<1> DEFINE Inv == WaitInv /\ ToldInv /\ PlaceInv
<1>1. ShutdownInv /\ Inv /\ [Next]_vars => Inv'
  BY WaitKeeps, ToldKeeps, PlaceKeeps
<1>2. ShutdownInv /\ Inv => ((shouldExit /\ ~CanRun) => Excused)
  BY SomebodyCanRun
<1>3. Init => Inv
  BY StuckInit
<1> QED
  BY <1>1, <1>2, <1>3, ShutdownInvAlways, PTL DEF Spec

-----------------------------------------------------------------------------
(* What handlers, main, workers and logger do by themselves.               *)
ByThemselves ==
    \/ \E t \in Threads : Handler(t)
    \/ Main \/ Worker \/ processLogs \/ LogWrite

(* What they still have to do when the world leaves them alone, as a       *)
(* number of steps.  A message is worth what the logger does with it, an   *)
(* event what the control thread does, its message included.               *)
MainPlace ==
    CASE mainAt = "lock" -> 11
      [] mainAt = "test" -> 10
      [] mainAt \in {"waiting", "stop"} -> 9
      [] mainAt = "destroy" -> 8
      [] mainAt = "done" -> 0

MainWork == 10 * (Len(Teardown) + 1 - step) + MainPlace

In(place) == {t \in Threads : handler[t] = place}
HandlerWork == 4 * Cardinality(In("lock")) + 3 * Cardinality(In("notify"))

(* What is left of a worker's loop: blocking is the step before the last.  *)
Left(w) ==
    IF at[w] = "exited" THEN 0
    ELSE IF w \in {"recognition", "camera", "nfc", "api"} /\ at[w] = "loop"
         THEN 2 ELSE 1

WorkerWork ==
    Left("recognition") + Left("camera") + Left("nfc") + Left("control")
    + Left("timer") + Left("api")

PinsLeft == {w \in Pins : at[w] # "exited"}
PinWork == Cardinality(PinsLeft)

EventWork == 8 * Len(events)

LogPlace ==
    CASE logAt \in {"waiting", "exited"} -> 0
      [] logAt = "block" -> 1
      [] logAt = "acquire" -> 4
      [] logAt = "write" -> 6
      [] logAt = "top" -> IF "logger" \in running \/ logQueue # <<>>
                          THEN 5 ELSE 3

LogWork == 3 * Len(logQueue) + LogPlace

Work == MainWork + HandlerWork + WorkerWork + PinWork + EventWork + LogWork

WorkParts ==
    /\ MainWork \in Nat /\ HandlerWork \in Nat /\ WorkerWork \in Nat
    /\ PinWork \in Nat /\ EventWork \in Nat /\ LogWork \in Nat
    /\ IsFiniteSet(In("lock")) /\ IsFiniteSet(In("notify"))
    /\ IsFiniteSet(PinsLeft)

LEMMA ThreadsAreFinite == IsFiniteSet(Threads) /\ IsFiniteSet(Pins)
<1>1. \A S, x : IsFiniteSet(S) => IsFiniteSet(S \cup {x})
  BY FS_AddElement
<1>2. IsFiniteSet((({} \cup {"reed"}) \cup {"button"}) \cup {"trigger"})
  BY <1>1, FS_EmptySet, Zenon
<1>3. IsFiniteSet(Pins)
  <2>1. Pins \subseteq ({} \cup {"reed"}) \cup {"button"} \cup {"trigger"}
    BY ShutdownAssumption
  <2> QED
    BY <1>2, <2>1, FS_Subset
<1>4. Threads = ((((((((Pins \cup {"recognition"}) \cup {"camera"})
                          \cup {"nfc"}) \cup {"control"}) \cup {"timer"})
                          \cup {"api"}) \cup {"main"}) \cup {"logger"})
  BY DEF Threads, Workers
<1> QED
  BY <1>1, <1>3, <1>4, Zenon

(* The parts are numbers.                                                  *)
LEMMA PartsAreNumbers ==
    ASSUME ShutdownInv
    PROVE  WorkParts
<1> USE DEF ShutdownInv, ShutdownTypeOK
<1>1. MainWork \in Nat
  <2>1. MainPlace \in Nat
    BY DEF MainPlace
  <2>2. Len(Teardown) + 1 - step \in Nat
    BY TeardownParts
  <2> QED
    BY <2>1, <2>2 DEF MainWork
<1>2. IsFiniteSet(In("lock")) /\ IsFiniteSet(In("notify"))
  BY ThreadsAreFinite, FS_Subset DEF In
<1>3. HandlerWork \in Nat
  <2>1. Cardinality(In("lock")) \in Nat /\ Cardinality(In("notify")) \in Nat
    BY <1>2, FS_CardinalityType
  <2> QED
    BY <2>1 DEF HandlerWork
<1>4. WorkerWork \in Nat
  BY DEF WorkerWork, Left
<1>5. IsFiniteSet(PinsLeft) /\ PinWork \in Nat
  BY ThreadsAreFinite, FS_Subset, FS_CardinalityType DEF PinsLeft, PinWork
<1>6. EventWork \in Nat
  BY DEF EventWork
<1>7. LogWork \in Nat
  BY DEF LogWork, LogPlace
<1> QED
  BY <1>1, <1>2, <1>3, <1>4, <1>5, <1>6, <1>7 DEF WorkParts

(* Six parts, and what each loses or gains.                                *)
LEMMA LessIsLeft ==
    ASSUME NEW m \in Nat, NEW h \in Nat, NEW w \in Nat, NEW p \in Nat,
           NEW e \in Nat, NEW l \in Nat,
           NEW dm \in Int, NEW dh \in Int, NEW dw \in Int, NEW dp \in Int,
           NEW de \in Int, NEW dl \in Int,
           dm + dh + dw + dp + de + dl < 0
    PROVE  (m + dm) + (h + dh) + (w + dw) + (p + dp) + (e + de) + (l + dl)
               < m + h + w + p + e + l
  OBVIOUS

LEMMA WorkIsLess ==
    ASSUME WorkParts,
           NEW dm \in Int, NEW dh \in Int, NEW dw \in Int, NEW dp \in Int,
           NEW de \in Int, NEW dl \in Int,
           dm + dh + dw + dp + de + dl < 0,
           MainWork' = MainWork + dm, HandlerWork' = HandlerWork + dh,
           WorkerWork' = WorkerWork + dw, PinWork' = PinWork + dp,
           EventWork' = EventWork + de, LogWork' = LogWork + dl
    PROVE  Work' < Work
<1>1. Work' = (MainWork + dm) + (HandlerWork + dh) + (WorkerWork + dw)
                  + (PinWork + dp) + (EventWork + de) + (LogWork + dl)
  BY DEF Work
<1>2. Work = MainWork + HandlerWork + WorkerWork + PinWork + EventWork
                 + LogWork
  BY DEF Work
<1>3. /\ MainWork \in Nat /\ HandlerWork \in Nat /\ WorkerWork \in Nat
      /\ PinWork \in Nat /\ EventWork \in Nat /\ LogWork \in Nat
  BY DEF WorkParts
<1> QED
  BY <1>1, <1>2, <1>3, LessIsLeft

(* A part whose variables do not change is as it was.                      *)
LEMMA PartsKept ==
    ASSUME WorkParts
    PROVE  /\ UNCHANGED <<mainAt, step>> => MainWork' = MainWork + 0
           /\ UNCHANGED handler => HandlerWork' = HandlerWork + 0
           /\ UNCHANGED at =>
                  WorkerWork' = WorkerWork + 0 /\ PinWork' = PinWork + 0
           /\ UNCHANGED events => EventWork' = EventWork + 0
           /\ UNCHANGED <<logQueue, logAt, running>> => LogWork' = LogWork + 0
<1>1. /\ MainWork + 0 = MainWork /\ HandlerWork + 0 = HandlerWork
      /\ WorkerWork + 0 = WorkerWork /\ PinWork + 0 = PinWork
      /\ EventWork + 0 = EventWork /\ LogWork + 0 = LogWork
  BY DEF WorkParts
<1>2. UNCHANGED <<mainAt, step>> => MainWork' = MainWork
  BY DEF MainWork, MainPlace
<1>3. UNCHANGED handler => HandlerWork' = HandlerWork
  BY DEF HandlerWork, In
<1>4. UNCHANGED at => WorkerWork' = WorkerWork /\ PinWork' = PinWork
  BY DEF WorkerWork, Left, PinWork, PinsLeft
<1>5. UNCHANGED events => EventWork' = EventWork
  BY DEF EventWork
<1>6. UNCHANGED <<logQueue, logAt, running>> => LogWork' = LogWork
  BY DEF LogWork, LogPlace
<1> QED
  BY <1>1, <1>2, <1>3, <1>4, <1>5, <1>6, Zenon

(* A message costs at most seven steps, one that wakes the logger up.      *)
LEMMA LogCosts ==
    ASSUME ShutdownInv, log, running' = running
    PROVE  \E k \in {3, 5, 7} : LogWork' = LogWork + k
<1>1. /\ logQueue \in Seq({"early", "late"}) /\ Len(logQueue) \in Nat
      /\ logAt \in {"top", "acquire", "waiting", "write", "exited"}
  BY DEF ShutdownInv, ShutdownTypeOK, log
<1>2. Len(logQueue') = Len(logQueue) + 1 /\ logQueue' # <<>>
  BY <1>1 DEF log
<1>3. PICK k \in {0, 2, 4} : LogPlace' = LogPlace + k
  BY <1>1, <1>2 DEF LogPlace, log
<1>4. LogPlace \in Nat
  BY <1>1 DEF LogPlace
<1>5. LogWork' = LogWork + (3 + k)
  BY <1>1, <1>2, <1>3, <1>4 DEF LogWork
<1> QED
  BY <1>5

(* Workers other than the pins: one of them moves.                         *)
LEMMA OneMoves ==
    ASSUME ShutdownInv, WorkParts,
           NEW w \in {"recognition", "camera", "nfc", "control", "timer",
                      "api"},
           NEW place, at' = [at EXCEPT ![w] = place],
           NEW k \in Nat, Left(w)' = Left(w) + (0 - k)
    PROVE  WorkerWork' = WorkerWork + (0 - k) /\ PinWork' = PinWork + 0
<1>1. at \in [Workers -> {"loop", "pop", "read", "listen", "exited"}]
  BY DEF ShutdownInv, ShutdownTypeOK
<1>2. /\ w \in Workers /\ w \notin Pins /\ Pins \subseteq Workers
      /\ {"recognition", "camera", "nfc", "control", "timer", "api"}
             \subseteq Workers
  BY ShutdownAssumption DEF Workers
<1>3. \A v \in Workers : v # w => at'[v] = at[v]
  BY <1>1
<1>4. \A v \in {"recognition", "camera", "nfc", "control", "timer", "api"} :
          /\ v # w => Left(v)' = Left(v)
          /\ Left(v) \in Int
  BY <1>2, <1>3 DEF Left
<1>5. WorkerWork' = WorkerWork + (0 - k)
  BY <1>4 DEF WorkerWork
<1>6. PinsLeft' = PinsLeft
  BY <1>2, <1>3 DEF PinsLeft
<1> QED
  BY <1>5, <1>6 DEF PinWork, WorkParts

(* A handler takes the mutex and notifies, once each.                      *)
LEMMA HandlerRunsDown ==
    ASSUME ShutdownInv, WorkParts, NEW t \in Threads, Handler(t)
    PROVE  Work' < Work
<1>1. /\ handler \in [Threads -> {"none", "lock", "notify"}]
      /\ IsFiniteSet(In("lock")) /\ IsFiniteSet(In("notify"))
      /\ Cardinality(In("lock")) \in Nat /\ Cardinality(In("notify")) \in Nat
  BY FS_CardinalityType DEF ShutdownInv, ShutdownTypeOK, WorkParts
<1>2. UNCHANGED <<at, running, events, logQueue, logAt>>
  BY DEF Handler, HandlerLocks, HandlerNotifies, logVars
<1>3. CASE HandlerLocks(t)
  <2>1. /\ In("lock")' = In("lock") \ {t} /\ t \in In("lock")
        /\ In("notify")' = In("notify") \cup {t} /\ t \notin In("notify")
    BY <1>1, <1>3 DEF HandlerLocks, In
  <2>2. /\ Cardinality(In("lock"))' = Cardinality(In("lock")) - 1
        /\ Cardinality(In("notify"))' = Cardinality(In("notify")) + 1
    <3>1. Cardinality(In("lock") \ {t}) = Cardinality(In("lock")) - 1
      BY <1>1, <2>1, FS_RemoveElement, Zenon
    <3>2. Cardinality(In("notify") \cup {t}) = Cardinality(In("notify")) + 1
      BY <1>1, <2>1, FS_AddElement, Zenon
    <3> QED
      BY <2>1, <3>1, <3>2, Zenon
  <2>3. HandlerWork' = HandlerWork + (0 - 1)
    BY <1>1, <2>2 DEF HandlerWork
  <2>4. UNCHANGED <<mainAt, step>>
    BY <1>3 DEF HandlerLocks
  <2> QED
    BY <1>2, <2>3, <2>4, PartsKept, WorkIsLess
<1>4. CASE HandlerNotifies(t)
  <2>1. /\ In("lock")' = In("lock")
        /\ In("notify")' = In("notify") \ {t} /\ t \in In("notify")
    BY <1>1, <1>4 DEF HandlerNotifies, In
  <2>2. Cardinality(In("notify"))' = Cardinality(In("notify")) - 1
    BY <1>1, <2>1, FS_RemoveElement
  <2>3. HandlerWork' = HandlerWork + (0 - 3)
    BY <1>1, <2>1, <2>2 DEF HandlerWork
  <2>4. PICK k \in {0, 2} : MainPlace' = MainPlace + k
    BY <1>4 DEF HandlerNotifies, MainPlace, ShutdownInv, ShutdownTypeOK
  <2>5. MainWork' = MainWork + k
    <3>1. n \in Nat /\ Len(Teardown) = n + 10
      BY TeardownParts
    <3>2. step' = step /\ step \in Nat
      BY <1>4, <3>1 DEF HandlerNotifies, ShutdownInv, ShutdownTypeOK
    <3>3. MainPlace \in Nat
      BY DEF MainPlace, ShutdownInv, ShutdownTypeOK
    <3> QED
      BY <2>4, <3>1, <3>2, <3>3 DEF MainWork
  <2> QED
    BY <1>2, <2>3, <2>5, PartsKept, WorkIsLess
<1> QED
  BY <1>3, <1>4 DEF Handler

(* main: a step of the tear-down is worth ten, what it makes others do     *)
(* less.                                                                   *)
LEMMA StepIsWorth ==
    ASSUME ShutdownInv, WorkParts, NEW what, Next1(what)
    PROVE  \E k \in {10, 11} : MainWork' = MainWork + (0 - k)
<1>1. /\ step \in Nat /\ step' = step + 1 /\ mainAt = "stop"
      /\ mainAt' \in {"stop", "destroy"} /\ n \in Nat
      /\ Len(Teardown) = n + 10
  <2>1. n \in Nat /\ Len(Teardown) = n + 10
    BY TeardownParts
  <2>2. /\ step \in 1 .. n + 10 /\ step' = step + 1
        /\ mainAt' \in {"stop", "destroy"}
    BY StepOn
  <2>3. mainAt = "stop"
    BY DEF Next1
  <2> QED
    BY <2>1, <2>2, <2>3
<1>2. PICK k \in {0, 1} : MainPlace' = MainPlace + (0 - k)
  BY <1>1 DEF MainPlace
<1>3. MainPlace \in Nat
  BY <1>1 DEF MainPlace
<1>4. MainWork' = MainWork + (0 - (10 + k))
  BY <1>1, <1>2, <1>3 DEF MainWork
<1> QED
  BY <1>4

LEMMA MainRunsDown ==
    ASSUME ShutdownInv, WorkParts, Main
    PROVE  Work' < Work
<1>1. UNCHANGED <<handler, at>>
  BY DEF Main, MainLocks, MainTests, Destroy, StopFlag, StopClose, StopJoin,
      StopServer, StopPosts, StopAlarm, StopLogs, StopNotifies, Next1,
      signalVars
<1>2. /\ logQueue \in Seq({"early", "late"}) /\ Len(logQueue) \in Nat
      /\ events \in Seq({"event", "Shutdown"}) /\ Len(events) \in Nat
      /\ logAt \in {"top", "acquire", "block", "waiting", "write", "exited"}
  BY DEF ShutdownInv, ShutdownTypeOK
<1>3. n \in Nat /\ Len(Teardown) = n + 10 /\ step \in Nat
  <2>1. n \in Nat /\ Len(Teardown) = n + 10
    BY TeardownParts
  <2> QED
    BY <2>1 DEF ShutdownInv, ShutdownTypeOK
<1>4. LogPlace \in Nat
  BY <1>2 DEF LogPlace
<1>5. CASE MainLocks \/ MainTests
  <2>1. UNCHANGED <<step, running, events, logQueue, logAt>>
    BY <1>5 DEF MainLocks, MainTests, logVars
  <2>2. MainPlace' = MainPlace + (0 - 1) /\ MainPlace \in Nat
    BY <1>5 DEF MainLocks, MainTests, MainPlace
  <2>3. MainWork' = MainWork + (0 - 1)
    BY <1>3, <2>1, <2>2 DEF MainWork
  <2> QED
    BY <1>1, <2>1, <2>3, PartsKept, WorkIsLess
<1>6. CASE StopFlag
  <2>1. PICK k \in {10, 11} : MainWork' = MainWork + (0 - k)
    BY <1>6, StepIsWorth DEF StopFlag
  <2>2. running' \subseteq running /\ UNCHANGED <<events, logQueue, logAt>>
    BY <1>6 DEF StopFlag, logVars
  <2>3. PICK l \in {0, 2} : LogPlace' = LogPlace + (0 - l)
    BY <1>2, <2>2 DEF LogPlace
  <2>4. LogWork' = LogWork + (0 - l)
    BY <1>2, <1>4, <2>2, <2>3 DEF LogWork
  <2> QED
    BY <1>1, <2>1, <2>2, <2>4, PartsKept, WorkIsLess
<1>7. CASE StopClose \/ StopJoin \/ StopServer
  <2>1. PICK k \in {10, 11} : MainWork' = MainWork + (0 - k)
    BY <1>7, StepIsWorth DEF StopClose, StopJoin, StopServer
  <2>2. UNCHANGED <<running, events, logQueue, logAt>>
    BY <1>7 DEF StopClose, StopJoin, StopServer, logVars
  <2> QED
    BY <1>1, <2>1, <2>2, PartsKept, WorkIsLess
<1>8. CASE StopPosts
  <2>1. PICK k \in {10, 11} : MainWork' = MainWork + (0 - k)
    BY <1>8, StepIsWorth DEF StopPosts
  <2>2. UNCHANGED <<running, logQueue, logAt>>
    BY <1>8 DEF StopPosts, logVars
  <2>3. PICK e \in {0, 8} : EventWork' = EventWork + e
    <3>1. events' = events \/ Len(events') = Len(events) + 1
      BY <1>2, <1>8 DEF StopPosts, post
    <3> QED
      BY <1>2, <3>1 DEF EventWork
  <2> QED
    BY <1>1, <2>1, <2>2, <2>3, PartsKept, WorkIsLess
<1>9. CASE StopAlarm \/ StopLogs
  <2>1. PICK k \in {10, 11} : MainWork' = MainWork + (0 - k)
    BY <1>9, StepIsWorth DEF StopAlarm, StopLogs
  <2>2. UNCHANGED <<running, events>> /\ log
    BY <1>9 DEF StopAlarm, StopLogs
  <2>3. PICK l \in {3, 5, 7} : LogWork' = LogWork + l
    BY <2>2, LogCosts
  <2> QED
    BY <1>1, <2>1, <2>2, <2>3, PartsKept, WorkIsLess
<1>10. CASE StopNotifies
  <2>1. PICK k \in {10, 11} : MainWork' = MainWork + (0 - k)
    BY <1>10, StepIsWorth DEF StopNotifies
  <2>2. /\ UNCHANGED <<running, events, logQueue>>
        /\ logAt' = IF logAt = "waiting" THEN "acquire" ELSE logAt
    BY <1>10 DEF StopNotifies
  <2>3. PICK l \in {0, 4} : LogPlace' = LogPlace + l
    BY <1>2, <2>2 DEF LogPlace
  <2>4. LogWork' = LogWork + l
    BY <1>2, <1>4, <2>2, <2>3 DEF LogWork
  <2> QED
    BY <1>1, <2>1, <2>2, <2>4, PartsKept, WorkIsLess
<1>11. CASE Destroy
  <2>1. MainPlace' = MainPlace + (0 - 8) /\ MainPlace \in Nat /\ step' = step
    BY <1>11 DEF Destroy, MainPlace
  <2>2. MainWork' = MainWork + (0 - 8)
    BY <1>3, <2>1 DEF MainWork
  <2>3. UNCHANGED <<running, events>> /\ log
    BY <1>11 DEF Destroy
  <2>4. PICK l \in {3, 5, 7} : LogWork' = LogWork + l
    BY <2>3, LogCosts
  <2> QED
    BY <1>1, <2>2, <2>3, <2>4, PartsKept, WorkIsLess
<1> QED
  BY <1>5, <1>6, <1>7, <1>8, <1>9, <1>10, <1>11 DEF Main

(* A worker goes on in its loop, to block or to end; an event costs the    *)
(* message the control thread logs.                                        *)
LEMMA WorkersRunDown ==
    ASSUME ShutdownInv, WorkParts, PlaceInv, Worker
    PROVE  Work' < Work
<1>1. UNCHANGED <<mainAt, step, handler, running>>
  BY DEF Worker, RecognitionTests, RecognitionClosed, CameraTests, PinExits,
      NfcTests, ControlHandles, ControlExits, TimerExits, ApiListens,
      ApiExits, Moves, mainVars, signalVars
<1>2. /\ at \in [Workers -> {"loop", "pop", "read", "listen", "exited"}]
      /\ {"recognition", "camera", "nfc", "control", "timer", "api"}
             \subseteq Workers
      /\ Pins \subseteq Workers
      /\ Pins \subseteq {"reed", "button", "trigger"}
  BY ShutdownAssumption DEF ShutdownInv, ShutdownTypeOK, Workers
<1>3. events \in Seq({"event", "Shutdown"}) /\ Len(events) \in Nat
  BY DEF ShutdownInv, ShutdownTypeOK
<1>4. ASSUME NEW w \in {"recognition", "camera", "nfc", "timer", "api"},
             NEW place, at' = [at EXCEPT ![w] = place],
             NEW k \in {1, 2}, Left(w)' = Left(w) + (0 - k),
             UNCHANGED <<events, logQueue, logAt>>
      PROVE  Work' < Work
  <2>1. WorkerWork' = WorkerWork + (0 - k) /\ PinWork' = PinWork + 0
    BY <1>4, OneMoves
  <2> QED
    BY <1>1, <1>4, <2>1, PartsKept, WorkIsLess
<1>5. CASE RecognitionTests \/ RecognitionClosed
  <2>1. PICK place \in {"pop", "exited"} :
            /\ at' = [at EXCEPT !["recognition"] = place]
            /\ \/ at["recognition"] = "loop"
               \/ at["recognition"] = "pop" /\ place = "exited"
            /\ UNCHANGED <<events, logQueue, logAt>>
    BY <1>5 DEF RecognitionTests, RecognitionClosed, Moves, logVars
  <2>2. PICK k \in {1, 2} :
            Left("recognition")' = Left("recognition") + (0 - k)
    BY <1>2, <2>1 DEF Left
  <2> QED
    BY <1>4, <2>1, <2>2
<1>6. CASE NfcTests
  <2>1. PICK place \in {"read", "exited"} :
            /\ at' = [at EXCEPT !["nfc"] = place] /\ at["nfc"] = "loop"
            /\ UNCHANGED <<events, logQueue, logAt>>
    BY <1>6 DEF NfcTests, Moves, logVars
  <2>2. PICK k \in {1, 2} : Left("nfc")' = Left("nfc") + (0 - k)
    BY <1>2, <2>1 DEF Left
  <2> QED
    BY <1>4, <2>1, <2>2
<1>7. CASE CameraTests
  <2>1. PICK place \in {"read", "exited"} :
            /\ at' = [at EXCEPT !["camera"] = place] /\ at["camera"] = "loop"
            /\ UNCHANGED <<events, logQueue, logAt>>
    BY <1>7 DEF CameraTests, Moves, logVars
  <2>2. PICK k \in {1, 2} : Left("camera")' = Left("camera") + (0 - k)
    BY <1>2, <2>1 DEF Left
  <2> QED
    BY <1>4, <2>1, <2>2
<1>8. CASE TimerExits
  <2>1. /\ at' = [at EXCEPT !["timer"] = "exited"] /\ at["timer"] = "loop"
        /\ UNCHANGED <<events, logQueue, logAt>>
    BY <1>8 DEF TimerExits, Moves, logVars
  <2>2. Left("timer")' = Left("timer") + (0 - 1)
    BY <1>2, <2>1 DEF Left
  <2> QED
    BY <1>4, <2>1, <2>2
<1>9. CASE ApiListens \/ ApiExits
  <2>1. PICK place \in {"listen", "exited"} :
            /\ at' = [at EXCEPT !["api"] = place]
            /\ \/ at["api"] = "loop" /\ place = "listen"
               \/ at["api"] = "listen" /\ place = "exited"
            /\ UNCHANGED <<events, logQueue, logAt>>
    BY <1>9 DEF ApiListens, ApiExits, Moves, logVars
  <2>2. Left("api")' = Left("api") + (0 - 1)
    BY <1>2, <2>1 DEF Left
  <2> QED
    BY <1>4, <2>1, <2>2
<1>10. ASSUME NEW w \in Pins, PinExits(w) PROVE Work' < Work
  <2>1. /\ at' = [at EXCEPT ![w] = "exited"] /\ at[w] = "loop"
        /\ UNCHANGED <<events, logQueue, logAt>>
    BY <1>10 DEF PinExits, Moves, logVars
  <2>2. PinsLeft' = PinsLeft \ {w} /\ w \in PinsLeft
    BY <1>2, <2>1 DEF PinsLeft
  <2>3. Cardinality(PinsLeft \ {w}) = Cardinality(PinsLeft) - 1
    BY <2>2, FS_RemoveElement, Zenon DEF WorkParts
  <2>4. PinWork' = PinWork + (0 - 1)
    BY <2>2, <2>3 DEF PinWork, WorkParts
  <2>5. WorkerWork' = WorkerWork + 0
    <3>1. \A v \in {"recognition", "camera", "nfc", "control", "timer",
                    "api"} : Left(v)' = Left(v)
      BY <1>2, <2>1 DEF Left
    <3> QED
      BY <3>1 DEF WorkerWork, WorkParts
  <2> QED
    BY <1>1, <2>1, <2>4, <2>5, PartsKept, WorkIsLess
<1>11. CASE ControlHandles
  <2>1. at' = at
    BY <1>2, <1>11 DEF ControlHandles, Moves
  <2>2. EventWork' = EventWork + (0 - 8)
    <3>1. Len(events') = Len(events) - 1
      BY <1>3, <1>11 DEF ControlHandles
    <3> QED
      BY <1>3, <3>1 DEF EventWork
  <2>3. PICK l \in {3, 5, 7} : LogWork' = LogWork + l
    BY <1>1, <1>11, LogCosts DEF ControlHandles
  <2> QED
    BY <1>1, <2>1, <2>2, <2>3, PartsKept, WorkIsLess
<1>12. CASE ControlExits
  <2>1. /\ at' = [at EXCEPT !["control"] = "exited"]
        /\ at["control"] = "loop" /\ UNCHANGED <<logQueue, logAt>>
    BY <1>12 DEF ControlExits, Moves, logVars
  <2>2. Left("control")' = Left("control") + (0 - 1)
    BY <1>2, <2>1 DEF Left
  <2>3. WorkerWork' = WorkerWork + (0 - 1) /\ PinWork' = PinWork + 0
    BY <2>1, <2>2, OneMoves
  <2>4. PICK e \in {0, 8} : EventWork' = EventWork + (0 - e)
    <3>1. events' = events \/ Len(events') = Len(events) - 1
      BY <1>3, <1>12 DEF ControlExits
    <3> QED
      BY <1>3, <3>1 DEF EventWork
  <2> QED
    BY <1>1, <2>1, <2>3, <2>4, PartsKept, WorkIsLess
<1> QED
  BY <1>5, <1>6, <1>7, <1>8, <1>9, <1>10, <1>11, <1>12 DEF Worker

(* The logger's worker writes what is queued and waits or ends.            *)
LEMMA LoggerRunsDown ==
    ASSUME ShutdownInv, WorkParts, processLogs \/ LogWrite
    PROVE  Work' < Work
<1>1. UNCHANGED <<mainAt, step, handler, running, at, events>>
  BY DEF processLogs, LogTop, LogTest, LogWait, LogWrite, LogGoes, mainVars,
      signalVars
<1>2. /\ logQueue \in Seq({"early", "late"}) /\ Len(logQueue) \in Nat
  BY DEF ShutdownInv, ShutdownTypeOK
<1>3. LogPlace \in Nat
  BY DEF LogPlace, ShutdownInv, ShutdownTypeOK
<1>4. \E k \in 1 .. 3 : LogWork' = LogWork + (0 - k)
  <2>1. CASE logQueue' = logQueue
    <3>1. PICK k \in 1 .. 3 : LogPlace' = LogPlace + (0 - k)
      <4>1. CASE LogTop
        BY <1>1, <2>1, <4>1 DEF LogTop, LogGoes, LogPlace
      <4>2. CASE LogTest
        <5>1. logQueue = <<>>
          BY <1>2, <2>1, <4>2 DEF LogTest
        <5> QED
          BY <1>1, <2>1, <4>2, <5>1 DEF LogTest, LogGoes, LogPlace
      <4>3. CASE LogWait
        BY <4>3 DEF LogWait, LogGoes, LogPlace
      <4>4. CASE LogWrite
        BY <1>1, <2>1, <4>4 DEF LogWrite, LogGoes, LogPlace
      <4> QED
        BY <4>1, <4>2, <4>3, <4>4 DEF processLogs
    <3>2. LogWork' = LogWork + (0 - k)
      BY <1>2, <1>3, <2>1, <3>1 DEF LogWork
    <3> QED
      BY <3>2
  <2>2. CASE logQueue' # logQueue
    <3>1. /\ logQueue # <<>> /\ logQueue' = Tail(logQueue)
          /\ logAt = "acquire" /\ logAt' = "write"
      BY <2>2 DEF processLogs, LogTop, LogTest, LogWait, LogWrite, LogGoes
    <3>2. Len(logQueue') = Len(logQueue) - 1
      BY <1>2, <3>1
    <3>3. LogPlace' = LogPlace + 2
      BY <3>1 DEF LogPlace
    <3>4. LogWork' = LogWork + (0 - 1)
      BY <1>2, <1>3, <3>2, <3>3 DEF LogWork
    <3> QED
      BY <3>4
  <2> QED
    BY <2>1, <2>2
<1>5. PICK k \in 1 .. 3 : LogWork' = LogWork + (0 - k)
  BY <1>4
<1> QED
  BY <1>1, <1>5, PartsKept, WorkIsLess

(* Handlers, main, workers and logger do not keep each other busy for      *)
(* ever: each step they take by themselves leaves less to do, a handled    *)
(* event and its message, written and sent, included.  So once should_exit *)
(* is set, left alone by frames, edges, tags, timers and signals, the      *)
(* program comes to where nobody can run, and by NobodyStuck that is its   *)
(* end or a named wait.                                                    *)
THEOREM RunsDown ==
    Spec => [][ByThemselves => /\ Work \in Nat /\ Work' \in Nat
                               /\ Work' < Work]_vars
<1> DEFINE Inv == ShutdownInv /\ PlaceInv /\ WorkParts /\ Work \in Nat
<1>1. ShutdownInv /\ PlaceInv => Inv
  <2>1. WorkParts => Work \in Nat
    BY DEF Work, WorkParts
  <2> QED
    BY <2>1, PartsAreNumbers
<1>2. ShutdownInv /\ PlaceInv /\ [Next]_vars => PlaceInv'
  BY PlaceKeeps
<1>3. Spec => []Inv
  <2>1. Init => PlaceInv
    BY StuckInit
  <2> QED
    BY <1>1, <1>2, <2>1, ShutdownInvAlways, PTL DEF Spec
<1>4. ASSUME Inv, Inv', ByThemselves
      PROVE  Work \in Nat /\ Work' \in Nat /\ Work' < Work
  <2>1. Work' < Work
    BY <1>4, HandlerRunsDown, MainRunsDown, WorkersRunDown, LoggerRunsDown
    DEF ByThemselves
  <2> QED
    BY <1>4, <2>1
<1>5. Inv /\ Inv' => [ByThemselves => /\ Work \in Nat /\ Work' \in Nat
                                     /\ Work' < Work]_vars
  BY <1>4
<1> QED
  BY <1>3, <1>5, PTL

=============================================================================
