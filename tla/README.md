# A verification project for the IoT multi-factor smart door

TLA+ models of the smart door's own code, the TLC runs that check them on small
instances, and TLAPS proofs of what matters most for every value of the
constants. Paths are relative to the repository; line numbers are in
`PROJECT.json`, which maps every definition to the code it models.

## 1. The system

The repository holds three programs that share classes.

**The door alarm** (`src/main.cpp`, `DoorAlarmSystem`). A Raspberry Pi watches a
door with a reed switch. Threads and what they share:

| part | state | operations |
|---|---|---|
| `DoorAlarmFSM` | `state_`, `doorOpen_`, `verificationDeadline_`, `authorizationWindow_`, under one mutex | one handler per event type, setters and getters |
| `AlarmManager` | `alarmActive_`, under its own mutex | `triggerAlarm`, `clearAlarm`, called by the FSM inside its lock and by the timer thread outside it |
| `EventQueue` | FIFO, `shutdown_`, mutex and condition variable | `push`, `waitAndPop`, `tryPop`, `waitForAndPop`, `shutdown` |
| reed-switch worker (`GPIOPin`) | edge buffer | callback `onReedSwitchChange`: tells the FSM at once (`setDoorState`), refreshes LEDs, posts an event |
| button worker, NFC thread | time of the last press | look at the FSM, then post an authorization |
| control thread | | pops an event, `handleEvent`, refreshes the LED, starts `denied()` in AlarmActive |
| timer thread | last sampled state and a stopwatch | polls the FSM every 100 ms: silences the alarm after 5 s, resets AuthorizedEntry after 1 s by posting a `DoorClosed`, posts `VerificationTimeout` |
| `OutputController` | three GPIO lines | setters, and detached threads that switch lines off later |
| `AsyncLogger` | queue, worker thread | `log`, `start`, `stop` |

**The camera program** (`main_cam.cpp`). Camera thread, bounded frame queue,
recognition thread, `EventBus`, and the lock (`DoorLock.cpp`, class
`DoorController`): relay, cooldown, a timer thread that locks again. `GUIServer`
and `OverrideManager` publish on the same bus; `Logger.cpp` writes the accesses
to a file from a thread of its own. (`DoorLock.h` does not declare the two LED
members that `DoorLock.cpp` uses, and `GUIServer.cpp` calls an
`AsyncLogger::instance` that `Logger.h` lacks; the models follow the `.cpp`
files. `CMakeLists.txt` builds neither `main_cam.cpp` nor `GUIServer.cpp`; the
door alarm runs the camera and recognition threads with nobody subscribed to
the bus.)

**The alarm server** (`src/main_api.cpp`). A record `g_state` behind one mutex,
HTTP routes that change it, and a detached thread per reported opening that looks
at the record again when the verification window is over.

What is hard here: every thread of the door alarm decides on a state it read
earlier and acts by an event that is handled later; the door's level reaches the
FSM twice and in two orders; the timer compares samples; LEDs and buzzer are
written by five kinds of threads with no common lock; detached threads act
seconds later; condition variables are notified without the mutex in a
destructor and in the logger's `stop`; a tear-down joins ten threads, each
blocked in its own way. `PROJECT.json` lists each hazard at its line.

What makes the parts correct: the FSM never keeps a deadline or an alarm without
the state that owns it; an open door is noticed and a grace period always ends;
timings are kept when the threads keep up; the buzzer never sounds for nobody;
indicators agree with the state; an unlocked door is always locked again and not
too early; a queue loses neither items nor wakeups; a face is admitted under the
name it is most like; a program that is told to end does, with the alarm off, the
door locked and its log written.

## 2. Modules

| module | models | its actions |
|---|---|---|
| `DoorAlarmFSM` | `DoorAlarmFSM.cpp` and the alarm flag | one operator per handler; each public method is one atomic action because it holds the mutex throughout |
| `DoorAlarmSystem` (extends it) | `DoorAlarmSystem.cpp`: the threads, the queue, the door, time | a thread's step is what it does between two points where others can interfere: `ReedSense`/`ReedPost`, `ButtonEdge`/`ButtonPost`, `NfcRead`/`NfcPost`, `Control`, and `TimerSample` followed by `TimerSilence`, `TimerReset` or `TimerDeadline`/`TimerTimeout` |
| `OutputPins` (extends that) | LEDs and buzzer: `OutputController.cpp`, `updateGreenLedLogic`, the detached threads | each step is a step of `DoorAlarmSystem`, or one read or one pin write; what a thread still has to do is a sequence |
| `Fifo` | what callers of a queue rely on | a call begins, takes effect at once (`Put`, `PutBounded`, `Take`, `TakeNothing`, `Close`) and ends |
| `EventQueue` | `EventQueue.h` and `ThreadSafeQueue.h`, one monitor with the operations of both | one step per critical section, the test and the wait apart, notifying apart; spurious wakeups and timeouts |
| `Shutdown` | the end of the door alarm: `main.cpp`, every `stop()`, `AsyncLogger.cpp` | signal handler on any thread of `Takers`; main walks through `Teardown`, the sequence of flags, closings, joins and calls; each worker's blocking point, what it posts and logs, and the test that ends it; the logger's worker |
| `AlarmApi` | `main_api.cpp` | one action per POST route, `Verify(t)` for a thread that wakes up |
| `DoorLock` | `DoorLock.cpp`, `EventBus::publish` | one step per pin write or atomic store, the timer thread's test and wait apart, the destructor |
| `CameraProgram` (extends it) | `main_cam.cpp`: camera and recognition threads, `FaceRecognizer`, `GUIServer`, `OverrideManager`, `Logger.cpp`, main | what a thread does between two places where it can block or be seen; whoever publishes holds the bus until the lock's steps are done |
| `MC...` | | the small sets the configurations use |
| `..._proofs` | | the theorems of section 5 |

Who composes whom: `DoorAlarmSystem` takes its steps on the FSM from
`DoorAlarmFSM`; `EventQueue` implements `Fifo`, and the other modules use the
queue as a sequence with these steps; `CameraProgram` implements `LockSpec`, so
that the lock's properties hold in the program.

Abstractions. Log lines, reasons and event sources do not influence control and
are left out. Durations are numbers of ticks; the deadline is kept as time left. A
thread reads the clock in the step in which it reads the FSM. Popping and handling
an event are one step, since nobody can see the difference.
`AccessController::check` is membership in the constant `Allowed`. Door levels,
tags and presses come from the environment in any order. `OutputPins` leaves out
the exit button, which writes no output and whose event is handled like a tag's.
In `Shutdown` an event is an event or `Shutdown`, and handling one may raise or
clear the alarm; the alarm is `alarmActive_`, and the detached threads of
`denied()`, which may still switch the buzzer when the alarm manager has been
stopped, are left out (`OutputPins` has them). A worker tests its flag and acts
later, so a GPIO callback or the timer thread may act once more after the flag has
been cleared; the model lets them do so until they end. In `CameraProgram` a frame
is what OpenCV gets out of it: for each place whether the cascade sees a face
there, and how similar what is there is to each entry of the database;
`frameCount_` is kept modulo `kDetectEvery`.

Forms with a slip in them (`...KeepsDeadline`, `...Late` and so on) stand before
the definitions they are variants of. They are used by no specification:
`PROJECT.json` names for each property one that it must notice.

## 3. Runs

Passing runs:

- **system_async** (`SystemAsync.cfg`, `FairSpec`). Threads interleave freely, a
  tick may come between any two steps, the sensor's worker may die. Three
  movements of the door (open, close, open again is the shortest sequence in
  which a report overtakes another), two tags, a grace period of two ticks.
  Safety: deadline and alarm flag belong to their states; the flag is raised only
  by an expiring grace period (`RingsOncePerBreach`); when all reports are handled
  a cache that says "open" is right (`OpenCacheIsTrue`) and an open door nobody
  was authorized for is being counted down or in alarm (`IntrusionNoticed`).
  Liveness: PendingVerification, AuthorizedEntry and a ringing alarm end.
- **system_sync** (`SystemSync.cfg`, `FairSpec`). The world waits until the
  threads have nothing to do, so timings can be stated: duties are done within one
  period (`DutiesAreDone`); the timer thread silences no alarm before its time,
  although its stopwatch would not notice an alarm that ended and began again
  between two samples (`RingsFullTime`); a door that is opened and not closed
  again alarms unless somebody is admitted or disarms (`ForcedOpenAlarms`). Button
  and injected commands are active here too.
- **pins** (`Pins.cfg`, `PinsSpec`). Two detached threads, two movements, one
  tag, one camera signal, all durations 0 (how long a sleep lasts is then up to
  the interleaving, which covers every length). One event waits in the queue while
  others are held by the threads that are about to post them; longer queues are
  explored in `system_async`. The `VIEW` leaves out `held`, which no step reads.
  The buzzer always has an owner, a red LED at rest means an open door, a green
  one an authorization.
- **queue** (`Queue.cfg`, `QueueFairSpec`). Two producers and two consumers, any
  thread may call `shutdown` (a consumer does on ESC), a bound of one. Two
  producers that have begun to push may both do so, so two items wait at times and
  `pushBounded` has two to drop; with two of each thread a notification can reach
  the wrong thread, one that has timed out or nobody. To its callers the monitor
  is `Fifo` (`ImplementsFifo`), no wakeup is lost (`NoLostWakeup`), `shutdown`
  releases everybody, and items are taken.
- **shutdown** (`Shutdown.cfg`, `FairSpec`). Two signals at any time, each on
  main or on the control thread, which stands for the threads main joins; one
  GPIO worker stands for the three, which are stopped alike; one event and one
  message more than what the tear-down itself produces. An alarm raised while
  the system is being stopped does not outlive it (`AlarmStaysOff`), what was
  logged before the logger was stopped is written (`LoggedIsWritten`), and the
  tear-down ends (`TeardownEnds`), unless it stays for ever in one of six waits,
  which the property names: for a camera, an NFC reader or a log server that
  does not answer (`cap.read`, `readUID`, `curl_easy_perform` without a
  timeout); of a handler for `shutdown_mtx`, which main keeps during the
  tear-down, on main itself or on a thread that main joins; for a server that
  began to listen after `svr_.stop()`; for a logger whose notification fell
  between its worker's test and its wait.
- **api** (`Api.cfg`, `ApiFairSpec`). Two verification threads are enough for an
  old and a new one; a window of two ticks. `PendingIsWatched` says that the
  opening that is pending has a thread which looks at it exactly when its own
  window is over, whatever threads of earlier openings do.
- **door_lock** (`Lock.cfg`, `LockFairSpec`). In half seconds: unlocked for 6,
  cooldown 10, threads at most 1 late. `UnlockLasts` and `StateMatchesPins` rest
  on unlock time + 2 x lateness < cooldown (once before the sleep, once after
  it); with lateness 2 the run fails, so the bound is sharp. `WillRelock`,
  `DestroyedLocked` and `Relocks` need no such assumption. `DestructorReturns`:
  the destructor ends unless its notification, sent without `timerMutex_`, falls
  between the timer thread's test and its wait.
- **camera** (`Camera.cfg`, `CamSpec`). Two places, two entries in the database,
  a frame with nobody and one with somebody who is like both entries next to a
  stranger, faces located on every second frame (every third in the code; what
  matters is that there are frames in between, which reuse what was located), a
  frame queue of one (it overflows at once), an unlock that may be over at any
  time. The `VIEW` leaves out what no step of this program reads and none of
  these properties is about: the levels of the pins, `state_`, and the frames of
  a recognition thread that has ended. The program uses its lock as `DoorLock`
  assumes (`LockSpec`): one publisher at a time and none once the lock is being
  destroyed. Events name the right person (`EventsFit`). After a signal some
  thread can go on by itself (`NoStandstill`), without a new frame, client or
  tick, until the program has ended. What may keep it from that is named: a GUI
  nobody connects to, whose `accept` is not ended by closing the socket, the
  lock's lost wakeup, and the timer thread's sleep, which is only a delay.
  `NoStandstill` also compares `CanRun`, the threads' waiting conditions written
  out, with ENABLED; the proofs use `CanRun`.

Runs that show a disagreement, each with a finding in `PROJECT.json`:

- **system_tag_in_grace** (`GraceAdmits`): an authorization handled within the
  grace period is rejected because the door is open, and the alarm follows; the
  tests and the repository's README expect an authorized entry.
- **system_stale_timeout** (`NoEarlyAlarm`): the timer thread has read that the
  grace period of an opening is over; the closing and the next opening are
  handled; then its `VerificationTimeout`, which names no opening, ends the new
  grace period at once. The movements are open, close, open, one event waits in
  the queue, and a tick may come between any two steps.
- **system_open_door** (`AdmitsOnlyWhenShut`): after a tag the door is opened and
  stays open; a second later the timer's reset, a `DoorClosed` like the sensor's,
  marks it closed, and the next tag is admitted.
- **pins_sound** (`AlarmSounds`): `denied()` silences the alarm that started it.

Seen while modelling and not given a run: handled behind a `DoorOpened`, the
timer's reset also cancels the grace period of that opening; a verification
thread of the alarm server cannot tell whose window it ends, so after open,
close, open the first may end the second window early; a second Ctrl+C that
the main thread takes during the tear-down stops the program for good (one of
the waits of `TeardownEnds`); a door open at start is not known to be open until
it moves; the first press of the exit button is ignored
(`DoorAlarmSystem.cpp:155`); ESC in the preview ends recognition but not the
program, although `main_cam.cpp:41` says so; switching the override off publishes
a `GRANTED` event, which opens the door once more.

Deadlock checking is on everywhere but in `Shutdown`, whose program ends.
Elsewhere time can always pass or somebody can always call.

## 4. Fairness

Weak fairness for each thread (`Reed`, `ButtonPost`, `NfcPost`, `Control`,
`Timer`, `Verify(t)`, the lock's timer and destructor): the operating system runs
what is runnable. Weak fairness for `Tick`: time goes on. In `DoorLock` the clock
stops while the threads have used up their lateness, so `Tick` is strongly fair
there, and so is the publisher, which may find `timerMutex_` taken again and
again by spurious wakeups. For the same reason the steps inside a call of
`EventQueue`, and in `Shutdown` main and the control thread, which log under
`queueMtx_`, and the signal handlers, which lock `shutdown_mtx` while main may
wake up and take it in vain, are strongly fair: a mutex that is free again and
again is got in the end. In `Shutdown` a GPIO worker's exit is fair because its
wait has a timeout of 500 ms; the reads of camera and NFC reader and the call of
the log server have none, so nothing is assumed of `CameraReads`, `NfcReads` and
`LogWrite`.
Nothing is assumed of the door, users, clients, frames, signals, libgpiod's
exceptions, timeouts, spurious wakeups or the end of the program.
`CameraProgram` states safety only; `NoStandstill` asks whether some thread can
go on, not whether it does.

## 5. Proofs

TLAPS checks these for every value of the constants, from the named assumptions
in the modules (durations and bounds are natural numbers, `Allowed` is a set of
tags, flags are Booleans, `Producers` and `Consumers` are finite, `Names` is a
sequence without "Unknown"). The inductive invariants were run through TLC on
the configurations of section 3 before they were proved. Every invariant and
every action property that a passing run checks has its theorem;
`NoStandstill` has one for the part that does not use ENABLED.

- `DoorAlarmFSM_proofs`: `FSMTyping`, `FSMDeadline`, `FSMAlarmOwned`,
  `FSMRingsOnce`. The three state properties together are inductive. Each needs
  the type invariant; the action property needs the conjunction, since a silenced
  alarm could otherwise ring again.
- `DoorAlarmSystem_proofs`, the threads:
  - `SystemTyping`, and `SystemAlarmOwned` and `SystemRingsOnce`, which carry the
    FSM's theorems over. The inductive invariant is the types and the FSM's
    invariant.
  - `CacheIsTrue` and `IntrudersAreNoticed`. The state alone does not say why the
    cache will be right: the invariants speak of what is still queued. `ReportsInv`
    relates the sensor's buffer and the worker to the door; `CacheInv` says that
    when all reports have been posted and the door is closed, a cache or an event
    that says "open" has a `DoorClosed` behind it; `QuietInv` that without
    credentials only the sensor and the deadline post; `IntruderInv` that for an
    open door every queued `DoorClosed` has a `DoorOpened` behind it. The lemmas
    `AppendKeeps` and `TailKeeps` say what posting and handling do to "followed by".
    `IntrudersAreNoticed` assumes `StartOpen = {FALSE}`, a door that is closed when
    the program starts: the sensor reports edges only.
  - `DutiesInTime` and `AlarmRingsFullTime`, for threads that keep up
    (`Synchronous`) and `MaxWindow > 0`. `SyncInv` lists the situations such a
    system can be in (one input under way, or the timer thread alone, or what it
    posted alone in the queue), each with what the timer thread's stopwatch then
    says of the time the state has lasted. `RingInv` adds that a stopwatch which
    the thread reads in AlarmActive does not show more than the alarm has lasted:
    a new alarm needs a grace period of at least a tick, in which the thread has
    sampled another state. With a window of 0 the deadline would have passed
    before the timer thread is up.
- `OutputPins_proofs`: `BuzzerIsOwned`, `RedIsTrue`, `GreenIsTrue`, and
  `PinsAreObservers`, that the outputs do not get in the way of the threads. What
  a thread still has to write is a suffix of its program, so the invariant
  `OutputsInv` gives the suffixes as sets, and `PulsePrograms` says what each
  promises (the buzzer goes off after it went on, red goes off last). `RedInv`
  accounts for the red LED of `triggerAlarm`, which `clearAlarm` leaves on: the
  check at the end of the control thread's round starts the thread that ends it.
  `GreenInv` says that what a refresh has read of the FSM is still true, or an
  event is on its way whose handling ends with another refresh.
- `EventQueue_proofs`: `QueueTypes`, `WakeupsAreKept`, `MonitorIsFifo`.
  `NoLostWakeup` compares the number of items with the numbers of threads that
  are awake and that are about to notify; it is inductive together with
  `CallsInv` (what a place inside a call says of the call) and `MutexInv` (one
  thread between test and wait, and nothing to take while it is there). The
  refinement maps the places in the monitor to the phases of a call; the step in
  which a critical section takes effect is the step of `Fifo`.
- `Shutdown_proofs`: `ShutdownTypes`, `AlarmDoesNotOutlive`,
  `EarlyLogsAreWritten`. `Teardown` is split into a part whose length depends on
  the pins that were started and one that is fixed; `StopInv` says which joins
  main is past, hence that nobody is left who could raise the alarm when it is
  cleared for the last time; `LogInv` that the logger's worker leaves only late
  messages behind. `NobodyStuck` and `RunsDown` are the safety part of
  `TeardownEnds`, see below.
- `AlarmApi_proofs`: `ApiTyping`, `ApiIndicatorsAgree`, `ApiPendingIsWatched`. For
  the last the property is inductive with the types: the thread of the opening
  that is pending and the time since that opening move together.
- `DoorLock_proofs`:
  - `LockTyping`, `LockWillRelock`, `LockDestroyedLocked`. The invariant adds who
    may be where (`Order`: the destructor starts when nobody publishes, the timer
    thread leaves only for it) and that an arming is not missed (`NotMissed`: not
    armed between the timer's test and its wait, and an arming that finds it
    waiting will be notified). Without `NotMissed` a step that begins to wait
    could lose an arming.
  - `LockUnlockLasts` and `LockStateMatchesPins`, for `Punctual` threads: late by
    less than an unlock lasts, and unlock time + 2 x lateness < cooldown (3000 and
    5000 ms in the code leave threads a second). `FreshInv` bounds the age of an
    unlock the timer thread has not taken by the lag, `SleepInv` relates age and
    remaining sleep, and `OneUnlock` concludes that one unlock is over before the
    next begins, which gives each pin write one meaning.
- `CameraProgram_proofs`:
  - `CamImplementsLock`, that the program with its frames, database, GUI and
    tear-down implements `LockSpec`, and from it `CamWillRelock`,
    `CamDestroyedLocked`, `CamUnlockLasts` and `CamStateMatchesPins`, the lock's
    theorems inside the program. What has to be shown is that a publisher finds
    the lock idle and alive and the destructor finds it idle. The invariant
    `UsersInv` says why: who is inside `onAccessEvent` holds the bus, main is past
    a join only when that thread has exited, and the destruction is the last step
    of the tear-down.
  - `CamTyping`, with the bounds of both queues: `EntriesInv` gives an unlock room
    for its log entry from its beginning on.
  - `CamEventsFit`. `BestMatchFinds` is an induction over the database: the loop
    of `FaceRecognizer` is a recursive function, `LoopExists` shows that it is
    defined for every length and `LoopFinds` what it has found after each entry
    (`IsBest`). The library's induction theorems take a predicate as a parameter,
    which the provers cannot instantiate; `NatSetInduction` states induction with
    a set in its place and is proved from the well-foundedness of `<`. `RecInv`
    adds that the thread has events only while it holds the frame they are about.
  - `CamNobodyStuck`, `CamNoStandstill` and `CamRunsDown`, see below.

That a program told to end does is a liveness property, but most of it is not
about fairness. Two pairs of theorems prove that part:

- *Nobody is stuck* (`CamNobodyStuck`, `NobodyStuck`): after a signal, as long as
  the program has not ended, some thread can run, or one of a few named waits
  holds it up. `CanRun` writes down for each thread where it waits and for what.
  Of the camera program these waits are the three of `NoStandstill`; of the door
  alarm the six of `TeardownEnds`. The invariants say that what main told a thread
  stays said (`StopInv` of the camera program, `ToldInv`) and that main does not
  sleep through `should_exit` (`WaitInv`). The rest is the order of the tear-down:
  `JoinedWereTold` shows, for any set of pins, that each join comes after the flag
  or the closing that ends its thread. It goes through `Teardown` part by part,
  since "told before joined" is kept by concatenation (`ToldFirstConcat`).
  `CamNobodyStuck` assumes `MaxReds > 0`: `MaxReds` bounds the model's detached
  LED threads, and with none a refusal could not be published at all.
- *They run down* (`CamRunsDown`, `RunsDown`): each step the threads take by
  themselves makes the number `Work` smaller. A queued frame is worth the events
  its faces may cause, an event what the lock or the control thread does with it,
  its log message included, an armed timer the relocking, a step of the tear-down
  what it makes others do. So threads do not keep each other busy for ever, by
  events, messages and notifications. `CamRunsDown` assumes that `Places` is
  finite; `RunsDown` assumes nothing.

Together: left alone by the world, a program that was told to end takes finitely
many steps and then stands at its end or at a named wait. Two signals on any
threads are no exception: the theorems are about any `Takers` and `MaxSignals`.
`CamNoStandstill`
derives `NoStandstill` from `CanRun => ENABLED Threads`, the half that stays
with TLC. The same correspondence for `Shutdown` is by comparison of `CanRun`
with the guards.

Only model-checked: the liveness properties (`PendingResolves`,
`AuthorizationEnds`, `AlarmFallsSilent`, `ForcedOpenAlarms`, `VerificationEnds`,
`Relocks`, `DestructorReturns`, `ShutdownReleases`, `ItemsAreTaken`,
`TeardownEnds`), which rest on fairness, and that `CanRun` implies ENABLED in
`NoStandstill`; this prover has neither fairness nor ENABLED.

## 6. Not modelled

Image processing and the neural network, the serial protocol of the NFC reader,
libcurl, sockets, HTML and JSON (I/O or formatting); `EmailAlert` keeps no state
but its configuration; `api_server.cpp` has independent fields with a setter
each; `gpioevent.cpp`, `OutputHandler.cpp`, `DoorController.cpp`, `Camera.cpp`
and `main_nfc_access.cpp` are earlier versions `CMakeLists.txt` does not build;
`LoggerCam.cpp` repeats `Logger.cpp`; the data-set tools are sequential file I/O.

Of the modelled programs: the interleavings inside `DoorAlarmSystem::start` (the
models begin when it has returned; an edge before the camera trigger's callback
is set is lost), a GUI whose port cannot be bound, the order in which the
members of `DoorAlarmSystem` are destroyed, and the mail thread of the alarm
server.

## 7. Plan

What is left: the mail thread and the log ring of the alarm server; the
interleavings inside `DoorAlarmSystem::start`.
