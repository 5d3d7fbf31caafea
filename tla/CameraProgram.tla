--------------------------- MODULE CameraProgram ---------------------------
(***************************************************************************)
(* The camera program (main_cam.cpp): the camera thread, the recognition   *)
(* thread with FaceRecognizer, GUIServer with OverrideManager, the logger, *)
(* and main with its tear-down, around the lock of DoorLock.               *)
(*                                                                         *)
(* A frame is what FaceRecognizer gets out of it: for each place in the    *)
(* picture the similarity of what is there to each entry of the database,  *)
(* as far as it is a face or not.  The queues are the FIFOs of EventQueue. *)
(* Publishing holds the mutex of EventBus until the lock's onAccessEvent   *)
(* has returned; the steps in between are those of DoorLock.               *)
(***************************************************************************)
EXTENDS DoorLock, Sequences

CONSTANTS
    Places,            \* where in a picture a face can be
    Frames,            \* the frames the camera may deliver
    Names,             \* the names in database_, in its order
    kMatchThreshold,
    kDetectEvery,
    maxSize,           \* the bound given to pushBounded, 4 in the code
    MaxEntries         \* bound: no unlock or note with so many log entries

Entries == 1 .. Len(Names)

ASSUME CameraAssumption ==
    /\ Frames \subseteq [Places -> [face : BOOLEAN, score : [Entries -> Int]]]
    /\ kMatchThreshold \in Nat \ {0}
    /\ {kDetectEvery, maxSize, MaxEntries} \subseteq Nat \ {0}
    /\ Names \in Seq({Names[i] : i \in Entries})
    /\ "Unknown" \notin {Names[i] : i \in Entries}

VARIABLES
    gShutdown,
    step,         \* the step of Teardown main is at, or 0 while it polls
    stopped,      \* the objects whose running_ is false
    frames,       \* frameQueue
    framesShut,   \* frameQueue has been shut down
    camAt,        \* the camera thread: "start", "loop" or "exited"
    recAt,        \* the recognition thread: "loop", "pop", "faces",
                  \* "publish", "inside" (onAccessEvent) or "exited"
    maybeFrame,   \* the frame it works on, or none: a sequence
    frameCount,   \* frameCount_, modulo kDetectEvery
    lastFaces,    \* lastFaces_, the places
    todo,         \* the ones of this frame that are still to be recognised
    evs,          \* events
    guiAt,        \* the GUI thread: "start", "loop", "accept", "publish",
                  \* "inside" or "exited"
    reply,        \* what its request publishes, or "none"
    serverFd,     \* the listening socket: "none", "open" or "closed"
    active,       \* active_ of OverrideManager
    entries,      \* access events the logger has yet to write
    logAt         \* the logger: "pop", or "exited"

mainVars == <<gShutdown, step, stopped>>
queueVars == <<frames, framesShut>>
recVars == <<recAt, maybeFrame, frameCount, lastFaces, todo, evs>>
guiVars == <<guiAt, reply, serverFd, active>>
logVars == <<entries, logAt>>
camVars == <<lockVars, mainVars, queueVars, camAt, recVars, guiVars, logVars>>

-----------------------------------------------------------------------------
\* A tear-down that does not join the GUI's thread.
TeardownHasty ==
    << [do |-> "flag", to |-> "recognition"], [do |-> "shut", to |-> "frames"],
       [do |-> "join", to |-> "recognition"],
       [do |-> "flag", to |-> "camera"], [do |-> "shut", to |-> "frames"],
       [do |-> "join", to |-> "camera"],
       [do |-> "flag", to |-> "gui"], [do |-> "close", to |-> "serverFd"],
       [do |-> "destroy", to |-> "door"] >>

\* A stop() of the recognition thread that does not shut its queue down.
TeardownBlocks ==
    << [do |-> "flag", to |-> "recognition"],
       [do |-> "join", to |-> "recognition"],
       [do |-> "flag", to |-> "camera"], [do |-> "shut", to |-> "frames"],
       [do |-> "join", to |-> "camera"],
       [do |-> "flag", to |-> "gui"], [do |-> "close", to |-> "serverFd"],
       [do |-> "join", to |-> "gui"],
       [do |-> "destroy", to |-> "door"] >>

(* main from line 50 on, up to the destructor of the lock.  Of the other   *)
(* destructors nothing is left to do.                                      *)
Teardown ==
    << [do |-> "flag", to |-> "recognition"], [do |-> "shut", to |-> "frames"],
       [do |-> "join", to |-> "recognition"],
       [do |-> "flag", to |-> "camera"], [do |-> "shut", to |-> "frames"],
       [do |-> "join", to |-> "camera"],
       [do |-> "flag", to |-> "gui"], [do |-> "close", to |-> "serverFd"],
       [do |-> "join", to |-> "gui"],
       [do |-> "destroy", to |-> "door"] >>

Init ==
    /\ LockInit
    /\ gShutdown = FALSE
    /\ step = 0
    /\ stopped = {}
    /\ frames = <<>>
    /\ framesShut = FALSE
    /\ camAt = "start"
    /\ recAt = "loop"
    /\ maybeFrame = <<>>
    /\ frameCount = 0
    /\ lastFaces = {}
    /\ todo = {}
    /\ evs = <<>>
    /\ guiAt = "start"
    /\ reply = "none"
    /\ serverFd = "none"
    /\ active = FALSE
    /\ entries = 0
    /\ logAt = "pop"

-----------------------------------------------------------------------------
\* A loop that compares the scores with the threshold only.
bestMatchLast(score) ==
    LET best[i \in 0 .. Len(Names)] ==
            IF i = 0 THEN [name |-> "Unknown", score |-> 0]
            ELSE IF score[i] >= kMatchThreshold
                 THEN [name |-> Names[i], score |-> score[i]]
                 ELSE best[i - 1]
    IN  best[Len(Names)]

(* The loop over database_ in FaceRecognizer::process, up to entry i.      *)
bestMatch(score) ==
    LET best[i \in 0 .. Len(Names)] ==
            IF i = 0 THEN [name |-> "Unknown", score |-> 0]
            ELSE LET b == best[i - 1]
                     s == score[i]
                 IN  IF s > b.score
                     THEN [name |-> IF s >= kMatchThreshold THEN Names[i]
                                    ELSE b.name,
                           score |-> s]
                     ELSE b
    IN  best[Len(Names)]

(* The event for the face at this place: the override comes first.         *)
recognise(place) ==
    LET best == bestMatch(maybeFrame[1][place].score)
        result == IF active THEN "OVERRIDE"
                  ELSE IF best.name # "Unknown" THEN "GRANTED" ELSE "DENIED"
    IN  [result |-> result, faceRect |-> place,
         identity |-> IF active THEN "Override" ELSE best.name]

(* lastFaces_ for frame f: located anew on every kDetectEvery-th frame.    *)
located(f) ==
    IF frameCount = 0 THEN {p \in Places : f[p].face} ELSE lastFaces

\* pushBounded that makes room only when there is one frame too many.
pushBoundedTooMany(f) ==
    frames' =
        IF framesShut THEN frames
        ELSE IF Len(frames) <= maxSize THEN Append(frames, f)
        ELSE Append(Tail(frames), f)

(* ThreadSafeQueue::pushBounded.                                           *)
pushBounded(f) ==
    frames' =
        IF framesShut THEN frames
        ELSE IF Len(frames) < maxSize THEN Append(frames, f)
        ELSE Append(SubSeq(frames, Len(frames) - maxSize + 2, Len(frames)), f)

(* Nobody holds the mutex of EventBus.                                     *)
BusFree == recAt # "inside" /\ guiAt # "inside"

publishOn(result) ==
    /\ BusFree
    /\ result # "DENIED" => entries < MaxEntries
    /\ deliver(result)

-----------------------------------------------------------------------------
(* The signal handler.                                                     *)
Signal ==
    /\ ~gShutdown
    /\ gShutdown' = TRUE
    /\ UNCHANGED <<lockVars, step, stopped, queueVars, camAt, recVars, guiVars,
                   logVars>>

(* main sees the flag, and then takes one step of Teardown after another.  *)
MainPolls ==
    /\ step = 0
    /\ gShutdown
    /\ step' = 1
    /\ UNCHANGED <<lockVars, gShutdown, stopped, queueVars, camAt, recVars,
                   guiVars, logVars>>

MainDoes(what) ==
    /\ step \in DOMAIN Teardown
    /\ Teardown[step].do = what
    /\ step' = step + 1
    /\ UNCHANGED <<gShutdown, camAt, recVars, guiAt, reply, active, logVars>>

To == Teardown[step].to

MainFlags ==
    /\ MainDoes("flag")
    /\ stopped' = stopped \cup {To}
    /\ UNCHANGED <<lockVars, queueVars, serverFd>>

MainShuts ==
    /\ MainDoes("shut")
    /\ framesShut' = TRUE
    /\ UNCHANGED <<lockVars, stopped, frames, serverFd>>

MainCloses ==
    /\ MainDoes("close")
    /\ serverFd' = IF serverFd = "open" THEN "closed" ELSE serverFd
    /\ UNCHANGED <<lockVars, stopped, queueVars>>

MainJoins ==
    /\ MainDoes("join")
    /\ To = "recognition" => recAt = "exited"
    /\ To = "camera" => camAt = "exited"
    /\ To = "gui" => guiAt = "exited"
    /\ UNCHANGED <<lockVars, stopped, queueVars, serverFd>>

MainDestroys ==
    /\ MainDoes("destroy")
    /\ StoreStopped
    /\ UNCHANGED <<stopped, queueVars, serverFd>>

Main == MainPolls \/ MainFlags \/ MainShuts \/ MainCloses \/ MainJoins
            \/ MainDestroys

-----------------------------------------------------------------------------
(* CameraThread::loop.                                                     *)
CamGoes(from, to) ==
    /\ camAt = from
    /\ camAt' = to
    /\ UNCHANGED <<lockVars, mainVars, framesShut, recVars, guiVars, logVars>>

CamOpens == CamGoes("start", "loop") /\ UNCHANGED frames
CamFails == CamGoes("start", "exited") /\ UNCHANGED frames

CamReads ==
    /\ CamGoes("loop", "loop")
    /\ "camera" \notin stopped
    /\ \E f \in Frames : pushBounded(f)

CamExits ==
    /\ CamGoes("loop", "exited")
    /\ "camera" \in stopped
    /\ UNCHANGED frames

-----------------------------------------------------------------------------
(* RecognitionThread::loop.                                                *)
RecGoes(from, to) ==
    /\ recAt = from
    /\ recAt' = to
    /\ UNCHANGED <<mainVars, camAt, guiVars, logVars>>

(* The end of a round, which drops the frame, and the test that begins the *)
(* next; ESC in the preview ends the loop instead.                         *)
RecTests ==
    /\ RecGoes("loop", IF "recognition" \in stopped THEN "exited" ELSE "pop")
    /\ maybeFrame' = <<>>
    /\ UNCHANGED <<lockVars, queueVars, frameCount, lastFaces, todo, evs>>

RecEsc ==
    /\ RecGoes("loop", "exited")
    /\ maybeFrame # <<>>
    /\ maybeFrame' = <<>>
    /\ framesShut' = TRUE
    /\ UNCHANGED <<lockVars, frames, frameCount, lastFaces, todo, evs>>

(* A frame is popped.                                                      *)
RecPops ==
    /\ frames # <<>>
    /\ RecGoes("pop", IF located(Head(frames)) = {} THEN "loop" ELSE "faces")
    /\ maybeFrame' = <<Head(frames)>>
    /\ frames' = Tail(frames)
    /\ frameCount' = (frameCount + 1) % kDetectEvery
    /\ lastFaces' = located(Head(frames))
    /\ todo' = lastFaces'
    /\ UNCHANGED <<lockVars, framesShut, evs>>

RecEnds ==
    /\ RecGoes("pop", "exited")
    /\ frames = <<>> /\ framesShut
    /\ UNCHANGED <<lockVars, queueVars, maybeFrame, frameCount, lastFaces,
                   todo, evs>>

(* One face, in the order in which the cascade happened to report it.      *)
RecFace ==
    /\ \E place \in todo :
           /\ RecGoes("faces", IF todo = {place} THEN "publish" ELSE "faces")
           /\ todo' = todo \ {place}
           /\ evs' = Append(evs, recognise(place))
    /\ UNCHANGED <<lockVars, queueVars, maybeFrame, frameCount, lastFaces>>

RecPublishes ==
    /\ RecGoes("publish", "inside")
    /\ publishOn(Head(evs).result)
    /\ UNCHANGED <<queueVars, maybeFrame, frameCount, lastFaces, todo, evs>>

RecReturns ==
    /\ RecGoes("inside", IF Len(evs) = 1 THEN "loop" ELSE "publish")
    /\ pubPc = "idle"
    /\ evs' = Tail(evs)
    /\ UNCHANGED <<lockVars, queueVars, maybeFrame, frameCount, lastFaces,
                   todo>>

Rec == RecTests \/ RecPops \/ RecEnds \/ RecFace \/ RecPublishes
           \/ RecReturns

-----------------------------------------------------------------------------
(* GUIServer::serve.                                                       *)
GuiGoes(from, to) ==
    /\ guiAt = from
    /\ guiAt' = to
    /\ UNCHANGED <<mainVars, queueVars, camAt, recVars, logVars>>

GuiOpens ==
    /\ GuiGoes("start", "loop")
    /\ serverFd' = "open"
    /\ UNCHANGED <<lockVars, reply, active>>

(* accept fails at once on a socket that has been closed before.           *)
GuiTests ==
    /\ GuiGoes("loop", IF "gui" \in stopped \/ serverFd = "closed"
                       THEN "exited" ELSE "accept")
    /\ UNCHANGED <<lockVars, reply, serverFd, active>>

(* A client: /override/on or off, which publish; /unlock or /note, which   *)
(* only log an entry (the bound keeps room for that of an unlock under     *)
(* way); or what changes nothing.                                          *)
GuiOverride ==
    /\ GuiGoes("accept", "publish")
    /\ \/ active' = TRUE /\ reply' = "OVERRIDE"
       \/ active' = FALSE /\ reply' = "GRANTED"
    /\ UNCHANGED <<lockVars, serverFd>>

GuiNotes ==
    /\ guiAt = "accept" /\ guiAt' = "loop"
    /\ entries + (IF pubPc = "idle" THEN 0 ELSE 1) < MaxEntries
    /\ entries' = entries + 1
    /\ UNCHANGED <<lockVars, mainVars, queueVars, camAt, recVars, reply,
                   serverFd, active, logAt>>

GuiOther ==
    /\ GuiGoes("accept", "loop")
    /\ UNCHANGED <<lockVars, reply, serverFd, active>>

(* accept fails because the socket was closed between the test and it.     *)
GuiFails ==
    /\ GuiGoes("accept", "exited")
    /\ serverFd = "closed"
    /\ UNCHANGED <<lockVars, reply, serverFd, active>>

GuiPublishes ==
    /\ GuiGoes("publish", "inside")
    /\ publishOn(reply)
    /\ UNCHANGED <<reply, serverFd, active>>

GuiReturns ==
    /\ GuiGoes("inside", "loop")
    /\ pubPc = "idle"
    /\ reply' = "none"
    /\ UNCHANGED <<lockVars, serverFd, active>>

Gui == GuiOpens \/ GuiTests \/ GuiPublishes \/ GuiReturns

-----------------------------------------------------------------------------
othersVars == <<mainVars, queueVars, camAt, recVars, guiVars, logAt>>

(* The lock's own steps; onAccessEvent ends an unlock with a log entry.    *)
InLock ==
    /\ onAccessEvent
    /\ entries' = IF pubPc = "greenHigh" THEN entries + 1 ELSE entries
    /\ UNCHANGED othersVars

Alone(A) == A /\ UNCHANGED <<othersVars, entries>>

(* AsyncLogger::workerLoop; the logger is destroyed after main has ended.  *)
LogWrites ==
    /\ logAt = "pop"
    /\ entries > 0
    /\ entries' = entries - 1
    /\ UNCHANGED <<lockVars, mainVars, queueVars, camAt, recVars, guiVars,
                   logAt>>

LogExits ==
    /\ logAt = "pop"
    /\ entries = 0
    /\ dtorPc = "gone"
    /\ logAt' = "exited"
    /\ UNCHANGED <<lockVars, mainVars, queueVars, camAt, recVars, guiVars,
                   entries>>

(* What the threads do by themselves, and what the world makes them do.    *)
Threads ==
    \/ Main
    \/ CamOpens \/ CamExits
    \/ Rec
    \/ Gui
    \/ InLock
    \/ Alone(RedOff) \/ Alone(timerLoop) \/ Alone(Destructor)
    \/ LogWrites \/ LogExits

World ==
    \/ Signal \/ RecEsc \/ CamReads \/ CamFails
    \/ GuiOverride \/ GuiNotes \/ GuiOther \/ GuiFails
    \/ Alone(TimerSpurious) \/ Alone(Tick)

Next == Threads \/ World

CamSpec == Init /\ [][Next]_camVars

-----------------------------------------------------------------------------
(* The values of the variables.                                            *)
CamTypeOK ==
    /\ gShutdown \in BOOLEAN
    /\ step \in 0 .. Len(Teardown) + 1
    /\ stopped \subseteq {"recognition", "camera", "gui"}
    /\ frames \in Seq(Frames) /\ Len(frames) <= maxSize
    /\ framesShut \in BOOLEAN
    /\ camAt \in {"start", "loop", "exited"}
    /\ recAt \in {"loop", "pop", "faces", "publish", "inside", "exited"}
    /\ maybeFrame \in {<<>>} \cup {<<f>> : f \in Frames}
    /\ frameCount \in 0 .. kDetectEvery - 1
    /\ todo \subseteq lastFaces /\ lastFaces \subseteq Places
    /\ \A i \in 1 .. Len(evs) : evs[i].result \in AuthResult
    /\ guiAt \in {"start", "loop", "accept", "publish", "inside", "exited"}
    /\ reply \in {"none", "OVERRIDE", "GRANTED"}
    /\ serverFd \in {"none", "open", "closed"}
    /\ active \in BOOLEAN
    /\ entries \in 0 .. MaxEntries
    /\ logAt \in {"pop", "exited"}

(* A face is admitted under the name it is most similar to, and refused    *)
(* only when it is like nobody in the database, whatever the order of the  *)
(* entries and wherever several are above the threshold                    *)
(* (FaceRecognizer.cpp:67); the events are about the frame at hand though  *)
(* the faces in it were located up to two frames ago.                      *)
EventsFit ==
    \A i \in 1 .. Len(evs) :
        LET ev == evs[i]
            score == maybeFrame[1][ev.faceRect].score
        IN  /\ ev.result = "GRANTED" =>
                   \E j \in Entries :
                       /\ Names[j] = ev.identity
                       /\ score[j] >= kMatchThreshold
                       /\ \A k \in Entries : score[k] <= score[j]
            /\ ev.result = "DENIED" =>
                   \A k \in Entries : score[k] < kMatchThreshold

-----------------------------------------------------------------------------
(* Who could take a step of Threads: the conditions under which the        *)
(* threads wait, one by one.                                               *)
MainCanRun ==
    \/ step = 0 /\ gShutdown
    \/ /\ step \in DOMAIN Teardown
       /\ Teardown[step].do = "join" =>
              /\ To = "recognition" => recAt = "exited"
              /\ To = "camera" => camAt = "exited"
              /\ To = "gui" => guiAt = "exited"
       /\ Teardown[step].do = "destroy" => dtorPc = "alive"

CamCanRun == camAt = "start" \/ (camAt = "loop" /\ "camera" \in stopped)

CanPublish(result) ==
    /\ BusFree /\ pubPc = "idle"
    /\ IF result = "DENIED" THEN reds < MaxReds ELSE entries < MaxEntries

RecCanRun ==
    \/ recAt = "loop"
    \/ recAt = "pop" /\ (frames # <<>> \/ framesShut)
    \/ recAt = "faces" /\ todo # {}
    \/ recAt = "publish" /\ CanPublish(Head(evs).result)
    \/ recAt = "inside" /\ pubPc = "idle"

GuiCanRun ==
    \/ guiAt \in {"start", "loop"}
    \/ guiAt = "publish" /\ CanPublish(reply)
    \/ guiAt = "inside" /\ pubPc = "idle"

LockCanRun ==
    \/ pubPc \notin {"idle", "arm"}
    \/ pubPc = "arm" /\ timerPc # "block"
    \/ reds > 0 /\ dtorPc # "gone"
    \/ timerPc \notin {"waiting", "asleep", "exited"}
    \/ timerPc = "asleep" /\ nap = 0
    \/ dtorPc \in {"notify", "low"}
    \/ dtorPc = "join" /\ timerPc = "exited"

LogCanRun == logAt = "pop" /\ (entries > 0 \/ dtorPc = "gone")

CanRun == MainCanRun \/ CamCanRun \/ RecCanRun \/ GuiCanRun \/ LockCanRun
              \/ LogCanRun

(* What may hold the end up: nobody connects to the GUI any more, whose    *)
(* accept is not ended by closing the socket; the lock's timer thread has  *)
(* missed the destructor's notification; or it is asleep, for its time.    *)
GuiBlocked == guiAt = "accept" /\ step \in DOMAIN Teardown
                  /\ Teardown[step] = [do |-> "join", to |-> "gui"]

TimerMissed == dtorPc = "join" /\ timerPc = "waiting"

TimerSleeps == dtorPc = "join" /\ timerPc = "asleep" /\ nap > 0

Excused == logAt = "exited" \/ GuiBlocked \/ TimerMissed \/ TimerSleeps

Runnable == ENABLED Threads

(* "Clean shutdown" (main_cam.cpp:48): after a signal the program does not *)
(* come to a standstill before its end, whoever waits for whom: main for   *)
(* its threads, they for frames and for the mutex of EventBus, and without *)
(* help from the camera, the GUI's clients or the clock.  Whoever CanRun   *)
(* says could run can, and nothing but what is Excused stops all of them.  *)
NoStandstill ==
    /\ CanRun => Runnable
    /\ (gShutdown /\ ~Runnable) => Excused
=============================================================================
