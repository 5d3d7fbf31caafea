-------------------------- MODULE OutputPins_proofs --------------------------
(***************************************************************************)
(* The LEDs and the buzzer, for any number of detached threads, openings,  *)
(* tags and signals of the camera.                                         *)
(***************************************************************************)
EXTENDS OutputPins, DoorAlarmSystem_proofs

(* The pin writes of the detached threads, and what is left of their       *)
(* programs.                                                               *)
RedOn == <<"red", TRUE>>
RedOff == <<"red", FALSE>>
GreenOff == <<"green", FALSE>>
BuzzerOn == <<"buzzer", TRUE>>
BuzzerOff == <<"buzzer", FALSE>>

Writes == {RedOn, RedOff, GreenOff, BuzzerOn, BuzzerOff}

PulseTails ==
    { <<RedOn, GreenOff, BuzzerOn, BuzzerOff, RedOff>>,
      <<GreenOff, BuzzerOn, BuzzerOff, RedOff>>,
      <<BuzzerOn, BuzzerOff, RedOff>>,
      <<BuzzerOn, RedOn, BuzzerOff, RedOff>>,
      <<RedOn, BuzzerOff, RedOff>>,
      <<BuzzerOff, RedOff>>, <<RedOff>>, <<>> }

(* What is left of the control, the reed and the camera thread's output    *)
(* operations.                                                             *)
ControlTodo ==
    { <<"alarmRed", "state", "door", "camera", "green", "check">>,
      <<"state", "door", "camera", "green", "check">>,
      <<"door", "camera", "green", "check">>,
      <<"camera", "green", "check">>, <<"green", "check">>, <<"check">>,
      <<>> }

ReedTodo(last) ==
    { <<"state", "door", "camera", "green", last>>,
      <<"door", "camera", "green", last>>, <<"camera", "green", last>>,
      <<"green", last>>, <<last>> }

CameraTodo ==
    { <<"state", "door", "camera", "green">>, <<"door", "camera", "green">>,
      <<"camera", "green">>, <<"green">>, <<>> }

(* The next output operation of a thread.                                  *)
NextOp(s) == IF s = <<>> THEN "none" ELSE Head(s)

(* A detached thread's program still switches the buzzer off.              *)
Silences(p) == \E k \in 1 .. Len(p) : p[k] = BuzzerOff

-----------------------------------------------------------------------------
(* Lemmas about the programs.                                              *)

LEMMA WriteFacts ==
    /\ RedOn[1] = "red" /\ RedOn[2] = TRUE
    /\ RedOff[1] = "red" /\ RedOff[2] = FALSE
    /\ GreenOff[1] = "green" /\ GreenOff[2] = FALSE
    /\ BuzzerOn[1] = "buzzer" /\ BuzzerOn[2] = TRUE
    /\ BuzzerOff[1] = "buzzer" /\ BuzzerOff[2] = FALSE
  BY DEF RedOn, RedOff, GreenOff, BuzzerOn, BuzzerOff

LEMMA WritesDiffer ==
    /\ RedOn # BuzzerOff /\ RedOff # BuzzerOff
    /\ GreenOff # BuzzerOff /\ BuzzerOn # BuzzerOff
  BY DEF RedOn, RedOff, GreenOff, BuzzerOn, BuzzerOff

(* A detached thread switches red off last, switches the buzzer off after  *)
(* it has switched it on, and never switches green on.                     *)
LEMMA PulsePrograms ==
    ASSUME NEW p \in PulseTails, p # <<>>
    PROVE  /\ Tail(p) \in PulseTails
           /\ Head(p) \in Writes
           /\ Tail(p) = <<>> => Head(p) = RedOff
           /\ Head(p) = BuzzerOn => Silences(Tail(p))
           /\ Silences(p) /\ Head(p) # BuzzerOff => Silences(Tail(p))
<1>1. CASE p = <<RedOn, GreenOff, BuzzerOn, BuzzerOff, RedOff>>
  <2> DEFINE q == <<GreenOff, BuzzerOn, BuzzerOff, RedOff>>
  <2>1. Head(p) = RedOn /\ Tail(p) = q
    BY <1>1
  <2>2. q # <<>> /\ q[3] = BuzzerOff /\ Len(q) = 4
    OBVIOUS
  <2>3. Silences(q)
    BY <2>2 DEF Silences
  <2> QED
    BY <2>1, <2>2, <2>3 DEF PulseTails, Writes
<1>2. CASE p = <<GreenOff, BuzzerOn, BuzzerOff, RedOff>>
  <2> DEFINE q == <<BuzzerOn, BuzzerOff, RedOff>>
  <2>1. Head(p) = GreenOff /\ Tail(p) = q
    BY <1>2
  <2>2. q # <<>> /\ q[2] = BuzzerOff /\ Len(q) = 3
    OBVIOUS
  <2>3. Silences(q)
    BY <2>2 DEF Silences
  <2> QED
    BY <2>1, <2>2, <2>3 DEF PulseTails, Writes
<1>3. CASE p = <<BuzzerOn, BuzzerOff, RedOff>>
  <2> DEFINE q == <<BuzzerOff, RedOff>>
  <2>1. Head(p) = BuzzerOn /\ Tail(p) = q
    BY <1>3
  <2>2. q # <<>> /\ q[1] = BuzzerOff /\ Len(q) = 2
    OBVIOUS
  <2>3. Silences(q)
    BY <2>2 DEF Silences
  <2> QED
    BY <2>1, <2>2, <2>3 DEF PulseTails, Writes
<1>4. CASE p = <<BuzzerOn, RedOn, BuzzerOff, RedOff>>
  <2> DEFINE q == <<RedOn, BuzzerOff, RedOff>>
  <2>1. Head(p) = BuzzerOn /\ Tail(p) = q
    BY <1>4
  <2>2. q # <<>> /\ q[2] = BuzzerOff /\ Len(q) = 3
    OBVIOUS
  <2>3. Silences(q)
    BY <2>2 DEF Silences
  <2> QED
    BY <2>1, <2>2, <2>3 DEF PulseTails, Writes
<1>5. CASE p = <<RedOn, BuzzerOff, RedOff>>
  <2> DEFINE q == <<BuzzerOff, RedOff>>
  <2>1. Head(p) = RedOn /\ Tail(p) = q
    BY <1>5
  <2>2. q # <<>> /\ q[1] = BuzzerOff /\ Len(q) = 2
    OBVIOUS
  <2>3. Silences(q)
    BY <2>2 DEF Silences
  <2> QED
    BY <2>1, <2>2, <2>3 DEF PulseTails, Writes
<1>6. CASE p = <<BuzzerOff, RedOff>>
  <2>1. Head(p) = BuzzerOff /\ Tail(p) = <<RedOff>> /\ <<RedOff>> # <<>>
    BY <1>6
  <2> QED
    BY <2>1, WritesDiffer DEF PulseTails, Writes
<1>7. CASE p = <<RedOff>>
  <2>1. Head(p) = RedOff /\ Tail(p) = <<>> /\ RedOff # BuzzerOn
    BY <1>7, WriteFacts
  <2>2. ~Silences(p)
    BY <1>7, WritesDiffer DEF Silences
  <2> QED
    BY <2>1, <2>2 DEF PulseTails, Writes
<1> QED
  BY <1>1, <1>2, <1>3, <1>4, <1>5, <1>6, <1>7 DEF PulseTails

LEMMA NewPrograms ==
    /\ denied \in PulseTails /\ denied # <<>> /\ Silences(denied)
    /\ refused \in PulseTails /\ refused # <<>> /\ Silences(refused)
    /\ ~Silences(<<>>)
<1>1. /\ denied = <<RedOn, GreenOff, BuzzerOn, BuzzerOff, RedOff>>
      /\ refused = <<BuzzerOn, RedOn, BuzzerOff, RedOff>>
  BY DEF denied, refused, RedOn, RedOff, GreenOff, BuzzerOn, BuzzerOff
<1>2. /\ Len(denied) = 5 /\ denied[4] = BuzzerOff /\ denied # <<>>
      /\ Len(refused) = 4 /\ refused[3] = BuzzerOff /\ refused # <<>>
  BY <1>1
<1>3. denied \in PulseTails /\ refused \in PulseTails
  BY <1>1 DEF PulseTails
<1>4. Silences(denied) /\ Silences(refused)
  BY <1>2 DEF Silences
<1>5. ~Silences(<<>>)
  BY DEF Silences
<1> QED
  BY <1>2, <1>3, <1>4, <1>5

(* The order of the control thread's operations.                           *)
LEMMA ControlOrder ==
    ASSUME NEW s \in ControlTodo
    PROVE  /\ s = <<>> <=> NextOp(s) = "none"
           /\ NextOp(s) \in {"alarmRed", "state", "door", "camera", "green",
                             "check", "none"}
           /\ s # <<>> =>
                /\ Head(s) = NextOp(s)
                /\ Tail(s) \in ControlTodo
                /\ NextOp(s) = "alarmRed" => NextOp(Tail(s)) = "state"
                /\ NextOp(s) = "state" => NextOp(Tail(s)) = "door"
                /\ NextOp(s) = "door" => NextOp(Tail(s)) = "camera"
                /\ NextOp(s) = "camera" => NextOp(Tail(s)) = "green"
                /\ NextOp(s) = "green" => NextOp(Tail(s)) = "check"
                /\ NextOp(s) = "check" => NextOp(Tail(s)) = "none"
<1>1. CASE s = <<"alarmRed", "state", "door", "camera", "green", "check">>
  <2> DEFINE t == <<"state", "door", "camera", "green", "check">>
  <2>1. s # <<>> /\ Head(s) = "alarmRed" /\ Tail(s) = t
    BY <1>1
  <2>2. NextOp(s) = "alarmRed" /\ NextOp(t) = "state"
    BY <2>1 DEF NextOp
  <2> QED
    BY <2>1, <2>2 DEF ControlTodo
<1>2. CASE s = <<"state", "door", "camera", "green", "check">>
  <2> DEFINE t == <<"door", "camera", "green", "check">>
  <2>1. s # <<>> /\ Head(s) = "state" /\ Tail(s) = t
    BY <1>2
  <2>2. NextOp(s) = "state" /\ NextOp(t) = "door"
    BY <2>1 DEF NextOp
  <2> QED
    BY <2>1, <2>2 DEF ControlTodo
<1>3. CASE s = <<"door", "camera", "green", "check">>
  <2> DEFINE t == <<"camera", "green", "check">>
  <2>1. s # <<>> /\ Head(s) = "door" /\ Tail(s) = t
    BY <1>3
  <2>2. NextOp(s) = "door" /\ NextOp(t) = "camera"
    BY <2>1 DEF NextOp
  <2> QED
    BY <2>1, <2>2 DEF ControlTodo
<1>4. CASE s = <<"camera", "green", "check">>
  <2> DEFINE t == <<"green", "check">>
  <2>1. s # <<>> /\ Head(s) = "camera" /\ Tail(s) = t
    BY <1>4
  <2>2. NextOp(s) = "camera" /\ NextOp(t) = "green"
    BY <2>1 DEF NextOp
  <2> QED
    BY <2>1, <2>2 DEF ControlTodo
<1>5. CASE s = <<"green", "check">>
  <2> DEFINE t == <<"check">>
  <2>1. s # <<>> /\ Head(s) = "green" /\ Tail(s) = t
    BY <1>5
  <2>2. NextOp(s) = "green" /\ NextOp(t) = "check"
    BY <2>1 DEF NextOp
  <2> QED
    BY <2>1, <2>2 DEF ControlTodo
<1>6. CASE s = <<"check">>
  <2> DEFINE t == <<>>
  <2>1. s # <<>> /\ Head(s) = "check" /\ Tail(s) = t
    BY <1>6
  <2>2. NextOp(s) = "check" /\ NextOp(t) = "none"
    BY <2>1 DEF NextOp
  <2> QED
    BY <2>1, <2>2 DEF ControlTodo
<1>7. CASE s = <<>>
  BY <1>7 DEF NextOp
<1> QED
  BY <1>1, <1>2, <1>3, <1>4, <1>5, <1>6, <1>7 DEF ControlTodo

(* The reed switch's thread writes the red LED last.                       *)
LEMMA ReedOrder ==
    ASSUME NEW last \in {"redOn", "redOff"}, NEW s \in ReedTodo(last)
    PROVE  /\ s # <<>>
           /\ Head(s) \in {"state", "door", "camera", "green", last}
           /\ Head(s) = last => Tail(s) = <<>>
           /\ Head(s) # last => Tail(s) \in ReedTodo(last)
<1>1. CASE s = <<"state", "door", "camera", "green", last>>
  <2>1. /\ s # <<>> /\ Head(s) = "state"
        /\ Tail(s) = <<"door", "camera", "green", last>>
    BY <1>1
  <2> QED
    BY <2>1 DEF ReedTodo
<1>2. CASE s = <<"door", "camera", "green", last>>
  <2>1. s # <<>> /\ Head(s) = "door" /\ Tail(s) = <<"camera", "green", last>>
    BY <1>2
  <2> QED
    BY <2>1 DEF ReedTodo
<1>3. CASE s = <<"camera", "green", last>>
  <2>1. s # <<>> /\ Head(s) = "camera" /\ Tail(s) = <<"green", last>>
    BY <1>3
  <2> QED
    BY <2>1 DEF ReedTodo
<1>4. CASE s = <<"green", last>>
  <2>1. s # <<>> /\ Head(s) = "green" /\ Tail(s) = <<last>>
    BY <1>4
  <2> QED
    BY <2>1 DEF ReedTodo
<1>5. CASE s = <<last>>
  <2>1. s # <<>> /\ Head(s) = last /\ Tail(s) = <<>>
    BY <1>5
  <2> QED
    BY <2>1 DEF ReedTodo
<1> QED
  BY <1>1, <1>2, <1>3, <1>4, <1>5 DEF ReedTodo

LEMMA CameraOrder ==
    ASSUME NEW s \in CameraTodo, s # <<>>
    PROVE  /\ Head(s) \in {"state", "door", "camera", "green"}
           /\ Tail(s) \in CameraTodo
<1>1. CASE s = <<"state", "door", "camera", "green">>
  <2>1. Head(s) = "state" /\ Tail(s) = <<"door", "camera", "green">>
    BY <1>1
  <2> QED
    BY <2>1 DEF CameraTodo
<1>2. CASE s = <<"door", "camera", "green">>
  <2>1. Head(s) = "door" /\ Tail(s) = <<"camera", "green">>
    BY <1>2
  <2> QED
    BY <2>1 DEF CameraTodo
<1>3. CASE s = <<"camera", "green">>
  <2>1. Head(s) = "camera" /\ Tail(s) = <<"green">>
    BY <1>3
  <2> QED
    BY <2>1 DEF CameraTodo
<1>4. CASE s = <<"green">>
  <2>1. Head(s) = "green" /\ Tail(s) = <<>>
    BY <1>4
  <2> QED
    BY <2>1 DEF CameraTodo
<1> QED
  BY <1>1, <1>2, <1>3, <1>4 DEF CameraTodo

(* Concatenations of short sequences.                                      *)
LEMMA FourAndOne ==
    ASSUME NEW a, NEW b, NEW c, NEW d, NEW e
    PROVE  <<a, b, c, d>> \o <<e>> = <<a, b, c, d, e>>
<1> DEFINE S == {a, b, c, d, e}
           u == <<a, b, c, d>> \o <<e>>
<1>1. /\ <<a, b, c, d>> \in Seq(S) /\ Len(<<a, b, c, d>>) = 4
      /\ <<e>> \in Seq(S) /\ Len(<<e>>) = 1
      /\ <<a, b, c, d, e>> \in Seq(S) /\ Len(<<a, b, c, d, e>>) = 5
  OBVIOUS
<1>2. u \in Seq(S) /\ Len(u) = 5
  BY <1>1, ConcatProperties
<1>3. /\ u[1] = a /\ u[2] = b /\ u[3] = c
      /\ u[4] = d /\ u[5] = e
  BY <1>1, ConcatProperties
<1>4. \A i \in 1 .. 5 : u[i] = <<a, b, c, d, e>>[i]
  BY <1>3
<1> QED
  BY <1>1, <1>2, <1>4, SeqEqual

LEMMA OneAndFour ==
    ASSUME NEW a, NEW b, NEW c, NEW d, NEW e
    PROVE  <<a>> \o <<b, c, d, e>> = <<a, b, c, d, e>>
<1> DEFINE S == {a, b, c, d, e}
           u == <<a>> \o <<b, c, d, e>>
<1>1. /\ <<a>> \in Seq(S) /\ Len(<<a>>) = 1
      /\ <<b, c, d, e>> \in Seq(S) /\ Len(<<b, c, d, e>>) = 4
      /\ <<a, b, c, d, e>> \in Seq(S) /\ Len(<<a, b, c, d, e>>) = 5
  OBVIOUS
<1>2. u \in Seq(S) /\ Len(u) = 5
  BY <1>1, ConcatProperties
<1>3. /\ u[1] = a /\ u[2] = b /\ u[3] = c
      /\ u[4] = d /\ u[5] = e
  BY <1>1, ConcatProperties
<1>4. \A i \in 1 .. 5 : u[i] = <<a, b, c, d, e>>[i]
  BY <1>3
<1> QED
  BY <1>1, <1>2, <1>4, SeqEqual

LEMMA FiveAndOne ==
    ASSUME NEW a, NEW b, NEW c, NEW d, NEW e, NEW f
    PROVE  <<a, b, c, d, e>> \o <<f>> = <<a, b, c, d, e, f>>
<1> DEFINE S == {a, b, c, d, e, f}
           u == <<a, b, c, d, e>> \o <<f>>
<1>1. /\ <<a, b, c, d, e>> \in Seq(S) /\ Len(<<a, b, c, d, e>>) = 5
      /\ <<f>> \in Seq(S) /\ Len(<<f>>) = 1
      /\ <<a, b, c, d, e, f>> \in Seq(S) /\ Len(<<a, b, c, d, e, f>>) = 6
  OBVIOUS
<1>2. u \in Seq(S) /\ Len(u) = 6
  BY <1>1, ConcatProperties
<1>3. /\ u[1] = a /\ u[2] = b /\ u[3] = c
      /\ u[4] = d /\ u[5] = e /\ u[6] = f
  BY <1>1, ConcatProperties
<1>4. \A i \in 1 .. 6 : u[i] = <<a, b, c, d, e, f>>[i]
  BY <1>3
<1> QED
  BY <1>1, <1>2, <1>4, SeqEqual

(* The operations a step hands to a thread.                                *)
LEMMA NewOperations ==
    /\ updateGreenLedLogic \in CameraTodo
    /\ \A last \in {"redOn", "redOff"} :
           updateGreenLedLogic \o <<last>> \in ReedTodo(last)
    /\ <<>> \o updateGreenLedLogic \o <<"check">> \in ControlTodo
    /\ NextOp(<<>> \o updateGreenLedLogic \o <<"check">>) = "state"
    /\ <<"alarmRed">> \o updateGreenLedLogic \o <<"check">> \in ControlTodo
    /\ NextOp(<<"alarmRed">> \o updateGreenLedLogic \o <<"check">>)
           = "alarmRed"
<1> DEFINE S == {"alarmRed", "state", "door", "camera", "green", "check",
                 "redOn", "redOff"}
           g == <<"state", "door", "camera", "green">>
           s5 == <<"state", "door", "camera", "green", "check">>
           s6 == <<"alarmRed", "state", "door", "camera", "green", "check">>
<1>1. g \in Seq(S) /\ g \in CameraTodo
  BY DEF CameraTodo
<1>2. \A last \in S :
          g \o <<last>> = <<"state", "door", "camera", "green", last>>
  BY FourAndOne
<1>3. \A last \in {"redOn", "redOff"} :
          <<"state", "door", "camera", "green", last>> \in ReedTodo(last)
  BY DEF ReedTodo
<1>4. \A last \in {"redOn", "redOff"} : g \o <<last>> \in ReedTodo(last)
  BY <1>2, <1>3
<1>5. <<>> \o g = g
  BY <1>1, ConcatEmptySeq
<1>6. (<<>> \o g) \o <<"check">> = s5
  BY <1>2, <1>5
<1>7. <<"alarmRed">> \o g
          = <<"alarmRed", "state", "door", "camera", "green">>
  BY OneAndFour
<1>8. <<"alarmRed", "state", "door", "camera", "green">> \o <<"check">> = s6
  BY FiveAndOne
<1>9. NextOp(s5) = "state" /\ NextOp(s6) = "alarmRed"
  BY DEF NextOp
<1>10. s5 \in ControlTodo /\ s6 \in ControlTodo
  BY DEF ControlTodo
<1>11. (<<"alarmRed">> \o g) \o <<"check">> = s6
  BY <1>7, <1>8
<1>12. updateGreenLedLogic = g
  BY DEF updateGreenLedLogic
<1> HIDE DEF g, s5, s6
<1> QED
  BY <1>1, <1>4, <1>6, <1>9, <1>10, <1>11, <1>12

-----------------------------------------------------------------------------
(* The red write the reed switch's callback ends with.                     *)
LastRed == IF reedValue THEN "redOn" ELSE "redOff"

(* What the variables hold: every thread is somewhere in its program, the  *)
(* reed switch's between its sensing and its posting.  No fault of the     *)
(* sensor is a step of this module.                                        *)
OutputsInv ==
    /\ pins \in [red : BOOLEAN, green : BOOLEAN, buzzer : BOOLEAN]
    /\ DOMAIN todo = Writers
    /\ todo["control"] \in ControlTodo
    /\ todo["camera"] \in CameraTodo
    /\ todo["reed"] # <<>> =>
           reedPc = "post" /\ todo["reed"] \in ReedTodo(LastRed)
    /\ reg \in [Writers -> BOOLEAN]
    /\ pulses \in [PulseIds -> PulseTails]
    /\ cameraActive \in BOOLEAN
    /\ signals \in Nat
    /\ reedPc # "dead"

(* Red is on because a detached thread will still switch it off, because   *)
(* controlLoop's check will start one that does, or because the sensor's   *)
(* last word was "open".                                                   *)
RedInv ==
    /\ NextOp(todo["control"]) = "alarmRed" => state = "AlarmActive"
    /\ pins.red =>
         \/ \E i \in PulseIds : pulses[i] # <<>>
         \/ state = "AlarmActive" /\ todo["control"] # <<>>
         \/ (edges = <<>> /\ todo["reed"] = <<>>) => door

(* A movement of the door that controlLoop has not handled yet, or another *)
(* event, is on its way.                                                   *)
EventAhead == queue # <<>> \/ reedPc = "post" \/ edges # <<>>

Welcome == state = "AuthorizedEntry" /\ ~doorOpen

(* While the camera has never signalled, what the control thread has read  *)
(* of the FSM is still true, or an event is on its way whose handling ends *)
(* with a new refresh; so is what it has written.                          *)
GreenInv ==
    signals = 0 =>
      /\ ~cameraActive /\ todo["camera"] = <<>>
      /\ NextOp(todo["control"]) = "door" =>
             (reg["control"] => state = "AuthorizedEntry")
      /\ NextOp(todo["control"]) \in {"camera", "green"} =>
             (reg["control"] => Welcome \/ EventAhead)
      /\ NextOp(todo["control"]) \in {"check", "none"} =>
             (pins.green => Welcome \/ EventAhead)

-----------------------------------------------------------------------------
(* Every step is a step of DoorAlarmSystem or leaves its state alone.      *)
LEMMA PinsSimulation ==
    ASSUME [PinsNext]_pinVars
    PROVE  [Next]_vars
<1>1. CASE HandleEvent
  BY <1>1 DEF HandleEvent, Next
<1>2. CASE Sense \/ Report
  BY <1>2 DEF Sense, Report, Next, Reed
<1>3. CASE \E uid \in Tags : ReadTag(uid)
  BY <1>3 DEF ReadTag, Next, World
<1>4. CASE SilenceBuzzer \/ TimerReads
  BY <1>4 DEF SilenceBuzzer, TimerReads, Next, Timer
<1>5. CASE Others
  BY <1>5 DEF Others, Next, World, Timer
<1>6. CASE CameraSignal \/ UNCHANGED pinVars
  BY <1>6 DEF CameraSignal, pinVars
<1>7. CASE \E t \in Writers : Output(t)
  BY <1>7 DEF Output
<1>8. CASE \E i \in PulseIds : Pulse(i)
  BY <1>8 DEF Pulse
<1> QED
  BY <1>1, <1>2, <1>3, <1>4, <1>5, <1>6, <1>7, <1>8 DEF PinsNext

LEMMA OutputsInit == PinsInit => OutputsInv
<1> SUFFICES ASSUME PinsInit PROVE OutputsInv
  OBVIOUS
<1>1. pins \in [red : BOOLEAN, green : BOOLEAN, buzzer : BOOLEAN]
  BY DEF PinsInit
<1>2. /\ DOMAIN todo = Writers /\ todo["control"] = <<>>
      /\ todo["camera"] = <<>> /\ todo["reed"] = <<>>
  BY DEF PinsInit, Writers
<1>3. reg \in [Writers -> BOOLEAN] /\ pulses \in [PulseIds -> PulseTails]
  BY DEF PinsInit, PulseTails
<1>4. cameraActive \in BOOLEAN /\ signals \in Nat /\ reedPc # "dead"
  BY DEF PinsInit, Init
<1> QED
  BY <1>1, <1>2, <1>3, <1>4 DEF OutputsInv, ControlTodo, CameraTodo

(* A thread's next operation leaves its program one operation shorter and  *)
(* every other program alone.                                              *)
LEMMA OutputTodo ==
    ASSUME OutputsInv, NEW t \in Writers, Output(t)
    PROVE  /\ DOMAIN todo' = Writers /\ todo'[t] = Tail(todo[t])
           /\ todo[t] # <<>>
           /\ \A w \in Writers \ {t} : todo'[w] = todo[w]
           /\ todo'["control"] \in ControlTodo
           /\ todo'["camera"] \in CameraTodo
           /\ todo'["reed"] # <<>> => reedPc' = "post"
           /\ todo'["reed"] # <<>> => todo'["reed"] \in ReedTodo(LastRed)'
<1>1. /\ DOMAIN todo' = Writers /\ todo'[t] = Tail(todo[t])
      /\ todo[t] # <<>>
      /\ \A w \in Writers \ {t} : todo'[w] = todo[w]
  BY DEF OutputsInv, Output
<1>2. UNCHANGED <<reedPc, reedValue>>
  BY DEF Output, vars, sensorVars
<1>3. {"control", "camera", "reed"} = Writers
  BY DEF Writers
<1>4. todo'["control"] \in ControlTodo
  BY <1>1, <1>3, ControlOrder DEF OutputsInv
<1>5. todo'["camera"] \in CameraTodo
  BY <1>1, <1>3, CameraOrder DEF OutputsInv
<1>6. LastRed' = LastRed /\ LastRed \in {"redOn", "redOff"}
  BY <1>2 DEF LastRed
<1>7. ReedTodo(LastRed)' = ReedTodo(LastRed)
  BY <1>6 DEF ReedTodo
<1>8. todo'["reed"] # <<>> =>
          reedPc = "post" /\ todo'["reed"] \in ReedTodo(LastRed)
  <2>1. CASE t = "reed"
    <3>1. reedPc = "post" /\ todo["reed"] \in ReedTodo(LastRed)
      BY <1>1, <2>1 DEF OutputsInv
    <3>2. todo'["reed"] = Tail(todo["reed"])
      BY <1>1, <2>1
    <3> QED
      BY <1>6, <3>1, <3>2, ReedOrder
  <2>2. CASE t # "reed"
    <3>1. todo'["reed"] = todo["reed"]
      BY <1>1, <1>3, <2>2
    <3> QED
      BY <3>1 DEF OutputsInv
  <2> QED
    BY <2>1, <2>2
<1> QED
  BY <1>1, <1>2, <1>4, <1>5, <1>7, <1>8

(* A new detached thread takes a free place and leaves the others alone.   *)
LEMMA DetachFacts ==
    ASSUME OutputsInv, NEW program \in {denied, refused}, Detach(program)
    PROVE  /\ pulses' \in [PulseIds -> PulseTails]
           /\ \A i \in PulseIds :
                  pulses[i] # <<>> => pulses'[i] = pulses[i]
           /\ \E i \in PulseIds : pulses'[i] # <<>>
<1>1. PICK i \in PulseIds : /\ pulses[i] = <<>>
                            /\ pulses' = [pulses EXCEPT ![i] = program]
  BY DEF Detach
<1>2. program \in PulseTails /\ program # <<>>
  BY NewPrograms
<1> QED
  BY <1>1, <1>2 DEF OutputsInv

(* What the writes of a detached thread leave of it.                       *)
LEMMA PulseFacts ==
    ASSUME OutputsInv, NEW i \in PulseIds, Pulse(i)
    PROVE  /\ pulses' \in [PulseIds -> PulseTails]
           /\ pins' \in [red : BOOLEAN, green : BOOLEAN, buzzer : BOOLEAN]
           /\ \A j \in PulseIds \ {i} : pulses'[j] = pulses[j]
           /\ pulses'[i] = Tail(pulses[i])
           /\ pulses[i] \in PulseTails /\ pulses[i] # <<>>
           /\ pins'.green => pins.green
           /\ pins'.red => pulses'[i] # <<>>
           /\ pins'.buzzer =>
                \/ Silences(pulses'[i])
                \/ pins.buzzer /\ Head(pulses[i]) # BuzzerOff
<1> DEFINE p == pulses[i]
           w == Head(p)
<1>1. /\ p \in PulseTails /\ p # <<>>
      /\ pulses' = [pulses EXCEPT ![i] = Tail(p)]
      /\ pins' = [pins EXCEPT ![w[1]] = w[2]]
  BY DEF OutputsInv, Pulse, setPin
<1>2. /\ Tail(p) \in PulseTails /\ w \in Writes
      /\ Tail(p) = <<>> => w = RedOff
      /\ w = BuzzerOn => Silences(Tail(p))
  BY <1>1, PulsePrograms
<1> HIDE DEF p, w
<1>3. /\ pulses' \in [PulseIds -> PulseTails]
      /\ \A j \in PulseIds \ {i} : pulses'[j] = pulses[j]
      /\ pulses'[i] = Tail(p)
  BY <1>1, <1>2 DEF OutputsInv
<1>4. CASE w = RedOn
  <2>1. pins' = [pins EXCEPT !["red"] = TRUE] /\ Tail(p) # <<>>
    BY <1>1, <1>2, <1>4, WriteFacts
  <2>2. w # BuzzerOff
    BY <1>4, WritesDiffer
  <2> QED
    BY <1>1, <1>3, <2>1, <2>2 DEF OutputsInv, p, w
<1>5. CASE w = RedOff
  <2>1. pins' = [pins EXCEPT !["red"] = FALSE]
    BY <1>1, <1>5, WriteFacts
  <2>2. w # BuzzerOff
    BY <1>5, WritesDiffer
  <2> QED
    BY <1>1, <1>3, <2>1, <2>2 DEF OutputsInv, p, w
<1>6. CASE w = GreenOff
  <2>1. pins' = [pins EXCEPT !["green"] = FALSE] /\ Tail(p) # <<>>
    BY <1>1, <1>2, <1>6, WriteFacts
  <2>2. w # BuzzerOff
    BY <1>6, WritesDiffer
  <2> QED
    BY <1>1, <1>3, <2>1, <2>2 DEF OutputsInv, p, w
<1>7. CASE w = BuzzerOn
  <2>1. /\ pins' = [pins EXCEPT !["buzzer"] = TRUE] /\ Tail(p) # <<>>
        /\ Silences(Tail(p))
    BY <1>1, <1>2, <1>7, WriteFacts
  <2> QED
    BY <1>1, <1>3, <2>1 DEF OutputsInv, p, w
<1>8. CASE w = BuzzerOff
  <2>1. pins' = [pins EXCEPT !["buzzer"] = FALSE] /\ Tail(p) # <<>>
    BY <1>1, <1>2, <1>8, WriteFacts
  <2> QED
    BY <1>1, <1>3, <2>1 DEF OutputsInv, p, w
<1> QED
  BY <1>2, <1>4, <1>5, <1>6, <1>7, <1>8 DEF Writes

(* Handling an event starts with an idle control thread, hands it its      *)
(* refresh and switches the buzzer with the alarm.                         *)
LEMMA HandleFacts ==
    ASSUME OutputsInv, HandleEvent
    PROVE  /\ DOMAIN todo' = Writers
           /\ \A w \in Writers \ {"control"} : todo'[w] = todo[w]
           /\ todo["control"] = <<>>
           /\ todo'["control"] \in ControlTodo
           /\ NextOp(todo'["control"]) \in {"alarmRed", "state"}
           /\ NextOp(todo'["control"]) = "alarmRed" => state' = "AlarmActive"
           /\ pins' \in [red : BOOLEAN, green : BOOLEAN, buzzer : BOOLEAN]
           /\ pins'.red = pins.red
           /\ pins'.buzzer => alarmActive' \/ (pins.buzzer /\ ~alarmActive)
<1> DEFINE type == Head(queue)
           new == (IF Triggers(type) THEN <<"alarmRed">> ELSE <<>>)
                      \o updateGreenLedLogic \o <<"check">>
<1>1. /\ todo["control"] = <<>> /\ handleEvent(type)
      /\ todo' = [todo EXCEPT !["control"] = new]
  BY DEF HandleEvent, Control, Free
<1>2. new \in ControlTodo /\ NextOp(new) \in {"alarmRed", "state"}
  <2>1. CASE Triggers(type)
    BY <2>1, NewOperations
  <2>2. CASE ~Triggers(type)
    BY <2>2, NewOperations
  <2> QED
    BY <2>1, <2>2
<1>3. NextOp(new) = "alarmRed" => Triggers(type)
  BY NewOperations
<1> HIDE DEF new
<1>4. /\ DOMAIN todo' = Writers /\ todo'["control"] = new
      /\ \A w \in Writers \ {"control"} : todo'[w] = todo[w]
  BY <1>1 DEF OutputsInv, Writers
<1>5. Triggers(type) => state' = "AlarmActive" /\ alarmActive'
  BY <1>1 DEF Triggers, Expires, handleEvent, handleVerificationTimeout,
              triggerAlarm
<1>6. ~Triggers(type) /\ ~Clears(type) => alarmActive' = alarmActive
  BY <1>1 DEF Triggers, Clears, Expires, Arms, Resecures, Admits,
              handleEvent, handleArm, handleDisarm, handleDoorOpened,
              handleDoorClosed, handleAuthorization,
              handleVerificationTimeout, fsmVars
<1>7. \/ Triggers(type) /\ pins' = [pins EXCEPT !["buzzer"] = TRUE]
      \/ pins' = [pins EXCEPT !["buzzer"] = FALSE]
      \/ ~Triggers(type) /\ ~Clears(type) /\ pins' = pins
  BY DEF HandleEvent, setPin
<1>8. /\ pins' \in [red : BOOLEAN, green : BOOLEAN, buzzer : BOOLEAN]
      /\ pins'.red = pins.red
  BY <1>7 DEF OutputsInv
<1>9. pins'.buzzer => alarmActive' \/ (pins.buzzer /\ ~alarmActive)
  BY <1>5, <1>6, <1>7 DEF OutputsInv
<1> QED
  BY <1>1, <1>2, <1>3, <1>4, <1>5, <1>8, <1>9

(* The values stay what they are.                                          *)
LEMMA OutputsStep ==
    ASSUME ThreadsTypeOK, OutputsInv, [PinsNext]_pinVars
    PROVE  OutputsInv'
<1>1. CASE HandleEvent
  <2>1. UNCHANGED <<reg, pulses, cameraActive, signals, reedPc, reedValue>>
    BY <1>1 DEF HandleEvent, Control, sensorVars
  <2>2. todo'["camera"] = todo["camera"] /\ todo'["reed"] = todo["reed"]
    BY <1>1, HandleFacts DEF Writers
  <2>3. ReedTodo(LastRed)' = ReedTodo(LastRed)
    BY <2>1 DEF ReedTodo, LastRed
  <2> QED
    BY <1>1, <2>1, <2>2, <2>3, HandleFacts DEF OutputsInv
<1>2. CASE Sense
  <2> DEFINE last == IF Head(edges) THEN "redOn" ELSE "redOff"
  <2>1. /\ UNCHANGED <<pins, reg, pulses, cameraActive, signals>>
        /\ todo' = [todo EXCEPT !["reed"] = updateGreenLedLogic \o
                (IF Head(edges) THEN <<"redOn">> ELSE <<"redOff">>)]
        /\ reedPc' = "post" /\ reedValue' = Head(edges)
    BY <1>2 DEF Sense, ReedSense
  <2>2. todo' = [todo EXCEPT !["reed"] = updateGreenLedLogic \o <<last>>]
    BY <2>1
  <2>3. last \in {"redOn", "redOff"} /\ LastRed' = last
    BY <2>1 DEF LastRed
  <2>4. updateGreenLedLogic \o <<last>> \in ReedTodo(last)
    BY <2>3, NewOperations
  <2>5. ReedTodo(LastRed)' = ReedTodo(last)
    BY <2>3 DEF ReedTodo
  <2> HIDE DEF last
  <2>6. /\ DOMAIN todo' = Writers /\ todo'["control"] = todo["control"]
        /\ todo'["camera"] = todo["camera"]
        /\ todo'["reed"] = updateGreenLedLogic \o <<last>>
    BY <2>2 DEF OutputsInv, Writers
  <2> QED
    BY <2>1, <2>4, <2>5, <2>6 DEF OutputsInv
<1>3. CASE Report
  <2>1. UNCHANGED outVars /\ todo["reed"] = <<>> /\ reedPc' = "wait"
    BY <1>3 DEF Report, ReedPost, Free
  <2> QED
    BY <2>1 DEF outVars, OutputsInv
<1>4. CASE \E uid \in Tags : ReadTag(uid)
  <2>1. /\ UNCHANGED <<pins, todo, reg, cameraActive, signals>>
        /\ UNCHANGED <<reedPc, reedValue>>
        /\ UNCHANGED pulses \/ Detach(refused)
    BY <1>4 DEF ReadTag, NfcRead, sensorVars
  <2>2. pulses' \in [PulseIds -> PulseTails]
    BY <2>1, DetachFacts DEF OutputsInv
  <2>3. ReedTodo(LastRed)' = ReedTodo(LastRed)
    BY <2>1 DEF ReedTodo, LastRed
  <2> QED
    BY <2>1, <2>2, <2>3 DEF OutputsInv
<1>5. CASE SilenceBuzzer
  <2>1. /\ UNCHANGED <<todo, reg, pulses, cameraActive, signals>>
        /\ UNCHANGED <<reedPc, reedValue>>
        /\ pins' = [pins EXCEPT !["buzzer"] = FALSE]
    BY <1>5 DEF SilenceBuzzer, TimerSilence, sensorVars, setPin
  <2>2. pins' \in [red : BOOLEAN, green : BOOLEAN, buzzer : BOOLEAN]
    BY <2>1 DEF OutputsInv
  <2>3. ReedTodo(LastRed)' = ReedTodo(LastRed)
    BY <2>1 DEF ReedTodo, LastRed
  <2> QED
    BY <2>1, <2>2, <2>3 DEF OutputsInv
<1>6. CASE TimerReads \/ Others \/ UNCHANGED pinVars
  <2>1. UNCHANGED outVars /\ UNCHANGED <<reedPc, reedValue>>
    BY <1>6 DEF TimerReads, Others, TimerSample, TimerDeadline, DoorMoves,
         Tick, NfcPost, TimerReset, TimerTimeout, sensorVars, pinVars, vars
  <2>2. ReedTodo(LastRed)' = ReedTodo(LastRed)
    BY <2>1 DEF ReedTodo, LastRed
  <2> QED
    BY <2>1, <2>2 DEF OutputsInv, outVars
<1>7. CASE CameraSignal
  <2>1. /\ UNCHANGED <<pins, reg, pulses, reedPc, reedValue>>
        /\ cameraActive' = ~cameraActive /\ signals' = signals + 1
        /\ todo' = [todo EXCEPT !["camera"] = updateGreenLedLogic]
    BY <1>7 DEF CameraSignal, vars, sensorVars
  <2>2. /\ DOMAIN todo' = Writers /\ todo'["control"] = todo["control"]
        /\ todo'["camera"] = updateGreenLedLogic
        /\ todo'["reed"] = todo["reed"]
    BY <2>1 DEF OutputsInv, Writers
  <2>3. ReedTodo(LastRed)' = ReedTodo(LastRed)
    BY <2>1 DEF ReedTodo, LastRed
  <2>4. cameraActive' \in BOOLEAN /\ signals' \in Nat
    BY <2>1 DEF OutputsInv
  <2> QED
    BY <2>1, <2>2, <2>3, <2>4, NewOperations DEF OutputsInv
<1>8. ASSUME NEW t \in Writers, Output(t)
      PROVE  OutputsInv'
  <2>1. UNCHANGED <<cameraActive, signals, reedPc>>
    BY <1>8 DEF Output, vars, sensorVars
  <2>2. reg' \in [Writers -> BOOLEAN]
    BY <1>8 DEF Output, OutputsInv
  <2>3. pins' \in [red : BOOLEAN, green : BOOLEAN, buzzer : BOOLEAN]
    <3>1. \/ pins' = pins
          \/ pins' = [pins EXCEPT !["green"] = reg[t]]
          \/ pins' = [pins EXCEPT !["red"] = TRUE]
          \/ pins' = [pins EXCEPT !["red"] = FALSE]
      BY <1>8 DEF Output, setPin
    <3> QED
      BY <3>1 DEF OutputsInv
  <2>4. pulses' \in [PulseIds -> PulseTails]
    <3>1. UNCHANGED pulses \/ Detach(denied)
      BY <1>8 DEF Output
    <3> QED
      BY <3>1, DetachFacts DEF OutputsInv
  <2> QED
    BY <1>8, <2>1, <2>2, <2>3, <2>4, OutputTodo DEF OutputsInv
<1>9. ASSUME NEW i \in PulseIds, Pulse(i)
      PROVE  OutputsInv'
  <2>1. UNCHANGED <<todo, reg, cameraActive, signals, reedPc, reedValue>>
    BY <1>9 DEF Pulse, vars, sensorVars
  <2>2. ReedTodo(LastRed)' = ReedTodo(LastRed)
    BY <2>1 DEF ReedTodo, LastRed
  <2> QED
    BY <1>9, <2>1, <2>2, PulseFacts DEF OutputsInv
<1> QED
  BY <1>1, <1>2, <1>3, <1>4, <1>5, <1>6, <1>7, <1>8, <1>9 DEF PinsNext

-----------------------------------------------------------------------------
(* The buzzer.                                                             *)
BuzzerInv == pins.buzzer => alarmActive \/ \E i \in PulseIds :
                                               Silences(pulses[i])

LEMMA BuzzerStep ==
    ASSUME OutputsInv, BuzzerInv, [PinsNext]_pinVars
    PROVE  BuzzerInv'
<1>1. CASE UNCHANGED <<pins, pulses, alarmActive>>
  BY <1>1 DEF BuzzerInv
<1>2. CASE HandleEvent
  <2>1. pulses' = pulses
    BY <1>2 DEF HandleEvent
  <2> QED
    BY <1>2, <2>1, HandleFacts DEF BuzzerInv
<1>3. CASE /\ UNCHANGED <<pins, alarmActive>>
           /\ \E program \in {denied, refused} : Detach(program)
  <2>1. \A i \in PulseIds : pulses[i] # <<>> => pulses'[i] = pulses[i]
    BY <1>3, DetachFacts
  <2>2. \A i \in PulseIds : Silences(pulses[i]) => Silences(pulses'[i])
    BY <2>1, NewPrograms
  <2> QED
    BY <1>3, <2>2 DEF BuzzerInv
<1>4. CASE SilenceBuzzer
  <2>1. pins' = [pins EXCEPT !["buzzer"] = FALSE]
    BY <1>4 DEF SilenceBuzzer, setPin
  <2>2. ~pins'.buzzer
    BY <2>1 DEF OutputsInv
  <2> QED
    BY <2>2 DEF BuzzerInv
<1>5. ASSUME NEW t \in Writers, Output(t)
      PROVE  BuzzerInv'
  <2>1. alarmActive' = alarmActive
    BY <1>5 DEF Output, vars, fsmVars
  <2>2. \/ UNCHANGED <<pins, pulses>>
        \/ pins' = pins /\ Detach(denied)
        \/ pulses' = pulses /\ pins' = [pins EXCEPT !["green"] = reg[t]]
        \/ pulses' = pulses /\ pins' = [pins EXCEPT !["red"] = TRUE]
        \/ pulses' = pulses /\ pins' = [pins EXCEPT !["red"] = FALSE]
    BY <1>5 DEF Output, setPin
  <2>3. pins'.buzzer = pins.buzzer
    BY <2>2 DEF OutputsInv
  <2>4. CASE pulses' = pulses
    BY <2>1, <2>3, <2>4 DEF BuzzerInv
  <2>5. CASE pins' = pins /\ Detach(denied)
    BY <1>3, <2>1, <2>5
  <2> QED
    BY <2>2, <2>4, <2>5
<1>6. ASSUME NEW i \in PulseIds, Pulse(i)
      PROVE  BuzzerInv'
  <2>1. alarmActive' = alarmActive
    BY <1>6 DEF Pulse, vars, fsmVars
  <2> SUFFICES ASSUME pins'.buzzer, ~alarmActive
               PROVE  \E j \in PulseIds : Silences(pulses'[j])
    BY <2>1 DEF BuzzerInv
  <2>2. CASE Silences(pulses'[i])
    BY <2>2
  <2>3. CASE pins.buzzer /\ Head(pulses[i]) # BuzzerOff
    <3>1. PICK j \in PulseIds : Silences(pulses[j])
      BY <2>3 DEF BuzzerInv
    <3>2. CASE j = i
      BY <1>6, <2>3, <3>1, <3>2, PulseFacts, PulsePrograms
    <3>3. CASE j # i
      BY <1>6, <3>1, <3>3, PulseFacts
    <3> QED
      BY <3>2, <3>3
  <2> QED
    BY <1>6, <2>2, <2>3, PulseFacts
<1>7. CASE \E uid \in Tags : ReadTag(uid)
  <2>1. /\ UNCHANGED <<pins, alarmActive>>
        /\ UNCHANGED pulses \/ Detach(refused)
    BY <1>7 DEF ReadTag, NfcRead, fsmVars
  <2> QED
    BY <1>1, <1>3, <2>1
<1>8. CASE Sense \/ Report \/ TimerReads \/ Others \/ CameraSignal
  BY <1>1, <1>8
  DEF Sense, Report, TimerReads, Others, CameraSignal, ReedSense, ReedPost,
      setDoorState, TimerSample, TimerDeadline, DoorMoves, Tick, NfcPost,
      TimerReset, TimerTimeout, fsmVars, vars, outVars
<1>9. CASE UNCHANGED pinVars
  BY <1>1, <1>9 DEF pinVars, vars, fsmVars, outVars
<1> QED
  BY <1>2, <1>4, <1>5, <1>6, <1>7, <1>8, <1>9 DEF PinsNext

-----------------------------------------------------------------------------
(* The red LED.                                                            *)
LEMMA RedStep ==
    ASSUME TypeOK, ThreadsTypeOK, ReportsInv, OutputsInv, RedInv,
           [PinsNext]_pinVars
    PROVE  RedInv'
<1>1. CASE /\ UNCHANGED <<pins, state, pulses>>
           /\ todo'["control"] = todo["control"]
           /\ \/ edges' # <<>> \/ todo'["reed"] # <<>>
              \/ UNCHANGED <<edges, door>> /\ todo'["reed"] = todo["reed"]
  BY <1>1 DEF RedInv
<1>2. CASE HandleEvent
  <2>1. UNCHANGED <<pulses, edges, door>>
    BY <1>2 DEF HandleEvent, Control, sensorVars
  <2>2. todo'["reed"] = todo["reed"]
    BY <1>2, HandleFacts DEF Writers
  <2> QED
    BY <1>2, <2>1, <2>2, HandleFacts DEF RedInv
<1>3. CASE Sense
  <2>1. /\ UNCHANGED <<pins, state, pulses>> /\ edges # <<>>
        /\ todo' = [todo EXCEPT !["reed"] = updateGreenLedLogic \o
                (IF Head(edges) THEN <<"redOn">> ELSE <<"redOff">>)]
    BY <1>3 DEF Sense, ReedSense, setDoorState
  <2> DEFINE last == IF Head(edges) THEN "redOn" ELSE "redOff"
  <2>2. todo' = [todo EXCEPT !["reed"] = updateGreenLedLogic \o <<last>>]
    BY <2>1
  <2>3. /\ last \in {"redOn", "redOff"}
        /\ updateGreenLedLogic \o <<last>> \in ReedTodo(last)
    BY NewOperations
  <2>4. updateGreenLedLogic \o <<last>> # <<>>
    BY <2>3, ReedOrder
  <2> HIDE DEF last
  <2>5. todo'["control"] = todo["control"] /\ todo'["reed"] # <<>>
    BY <2>2, <2>4 DEF OutputsInv, Writers
  <2> QED
    BY <1>1, <2>1, <2>5
<1>4. CASE Report
  BY <1>1, <1>4 DEF Report, ReedPost, outVars, fsmVars
<1>5. CASE \E uid \in Tags : ReadTag(uid)
  <2>1. /\ UNCHANGED <<pins, todo, state, edges, door>>
        /\ UNCHANGED pulses \/ Detach(refused)
    BY <1>5 DEF ReadTag, NfcRead, fsmVars, sensorVars
  <2>2. CASE UNCHANGED pulses
    BY <1>1, <2>1, <2>2
  <2>3. CASE Detach(refused)
    <3>1. \E i \in PulseIds : pulses'[i] # <<>>
      BY <2>3, DetachFacts
    <3> QED
      BY <2>1, <3>1 DEF RedInv
  <2> QED
    BY <2>1, <2>2, <2>3
<1>6. CASE SilenceBuzzer
  <2>1. /\ UNCHANGED <<todo, pulses, state, edges, door>>
        /\ pins' = [pins EXCEPT !["buzzer"] = FALSE]
    BY <1>6 DEF SilenceBuzzer, TimerSilence, Silence, sensorVars, setPin
  <2>2. pins'.red = pins.red
    BY <2>1 DEF OutputsInv
  <2> QED
    BY <2>1, <2>2 DEF RedInv
<1>7. CASE TimerReads \/ Others \/ UNCHANGED pinVars
  <2>1. CASE DoorMoves /\ UNCHANGED outVars
    <3>1. edges' # <<>>
      BY <2>1 DEF DoorMoves, ThreadsTypeOK
    <3> QED
      BY <1>1, <2>1, <3>1 DEF DoorMoves, outVars, fsmVars
  <2>2. CASE UNCHANGED outVars /\ UNCHANGED <<state, edges, door>>
    BY <1>1, <2>2 DEF outVars
  <2> QED
    BY <1>7, <2>1, <2>2
    DEF TimerReads, Others, TimerSample, TimerDeadline, Tick, NfcPost,
        TimerReset, TimerTimeout, sensorVars, fsmVars, pinVars, vars
<1>8. CASE CameraSignal
  <2>1. /\ UNCHANGED <<pins, state, pulses, edges, door>>
        /\ todo' = [todo EXCEPT !["camera"] = updateGreenLedLogic]
    BY <1>8 DEF CameraSignal, vars, fsmVars, sensorVars
  <2>2. todo'["control"] = todo["control"] /\ todo'["reed"] = todo["reed"]
    BY <2>1 DEF OutputsInv, Writers
  <2> QED
    BY <1>1, <2>1, <2>2
<1>9. CASE Output("control")
  <2> DEFINE op == NextOp(todo["control"])
  <2>1. /\ UNCHANGED <<state, edges, door>>
        /\ todo["control"] # <<>> /\ todo["control"] \in ControlTodo
        /\ todo'["control"] = Tail(todo["control"])
        /\ todo'["reed"] = todo["reed"]
    BY <1>9, OutputTodo
    DEF Output, vars, fsmVars, sensorVars, Writers, OutputsInv
  <2>2. /\ Head(todo["control"]) = op
        /\ op \in {"alarmRed", "state", "door", "camera", "green", "check"}
        /\ NextOp(todo'["control"]) # "alarmRed"
        /\ op # "check" => todo'["control"] # <<>>
    BY <2>1, ControlOrder
  <2> HIDE DEF op
  <2>3. CASE op \in {"state", "door", "camera", "green"}
    <3>1. /\ pulses' = pulses
          /\ pins' = pins \/ pins' = [pins EXCEPT !["green"]
                                                     = reg["control"]]
      BY <1>9, <2>2, <2>3 DEF Output, setPin
    <3>2. pins'.red = pins.red
      BY <3>1 DEF OutputsInv
    <3> QED
      BY <2>1, <2>2, <2>3, <3>1, <3>2 DEF RedInv
  <2>4. CASE op = "alarmRed"
    <3>1. state = "AlarmActive"
      BY <2>4 DEF RedInv, op
    <3> QED
      BY <2>1, <2>2, <2>4, <3>1 DEF RedInv
  <2>5. CASE op = "check"
    <3>1. /\ pins' = pins
          /\ \/ Detach(denied)
             \/ state # "AlarmActive" /\ pulses' = pulses
      BY <1>9, <2>2, <2>5 DEF Output
    <3>2. CASE Detach(denied)
      <4>1. \E i \in PulseIds : pulses'[i] # <<>>
        BY <3>2, DetachFacts
      <4> QED
        BY <2>2, <4>1 DEF RedInv
    <3>3. CASE state # "AlarmActive" /\ pulses' = pulses
      BY <2>1, <2>2, <3>1, <3>3 DEF RedInv
    <3> QED
      BY <3>1, <3>2, <3>3
  <2> QED
    BY <2>2, <2>3, <2>4, <2>5
<1>10. CASE Output("reed")
  <2>1. /\ UNCHANGED <<state, edges, door, reedValue>>
        /\ todo["reed"] # <<>>
        /\ todo'["reed"] = Tail(todo["reed"])
        /\ todo'["control"] = todo["control"]
    BY <1>10, OutputTodo
    DEF Output, vars, fsmVars, sensorVars, Writers, OutputsInv
  <2>2. /\ reedPc = "post" /\ todo["reed"] \in ReedTodo(LastRed)
        /\ LastRed \in {"redOn", "redOff"}
    BY <2>1 DEF OutputsInv, LastRed
  <2>3. /\ Head(todo["reed"]) \in {"state", "door", "camera", "green",
                                   LastRed}
        /\ Head(todo["reed"]) # LastRed => todo'["reed"] # <<>>
    BY <2>1, <2>2, ReedOrder
  <2>4. CASE Head(todo["reed"]) \in {"state", "door", "camera", "green"}
    <3>1. /\ pulses' = pulses
          /\ pins' = pins \/ pins' = [pins EXCEPT !["green"] = reg["reed"]]
      BY <1>10, <2>4 DEF Output, setPin
    <3>2. pins'.red = pins.red /\ todo'["reed"] # <<>>
      BY <2>2, <2>3, <2>4, <3>1 DEF OutputsInv
    <3> QED
      BY <2>1, <3>1, <3>2 DEF RedInv
  <2>5. CASE Head(todo["reed"]) = LastRed
    <3>1. pins' = [pins EXCEPT !["red"] = LastRed # "redOff"]
      BY <1>10, <2>2, <2>5 DEF Output, setPin
    <3>2. pins'.red => reedValue
      BY <3>1 DEF OutputsInv, LastRed
    <3>3. edges = <<>> => (reedValue <=> door)
      BY <2>2 DEF ReportsInv
    <3> QED
      BY <2>1, <3>2, <3>3 DEF RedInv
  <2> QED
    BY <2>3, <2>4, <2>5
<1>11. CASE Output("camera")
  <2>1. /\ UNCHANGED <<state, edges, door>>
        /\ todo["camera"] # <<>> /\ todo["camera"] \in CameraTodo
        /\ todo'["reed"] = todo["reed"]
        /\ todo'["control"] = todo["control"]
    BY <1>11, OutputTodo
    DEF Output, vars, fsmVars, sensorVars, Writers, OutputsInv
  <2>2. Head(todo["camera"]) \in {"state", "door", "camera", "green"}
    BY <2>1, CameraOrder
  <2>3. /\ pulses' = pulses
        /\ pins' = pins \/ pins' = [pins EXCEPT !["green"] = reg["camera"]]
    BY <1>11, <2>2 DEF Output, setPin
  <2>4. pins'.red = pins.red
    BY <2>3 DEF OutputsInv
  <2> QED
    BY <2>1, <2>3, <2>4 DEF RedInv
<1>12. ASSUME NEW i \in PulseIds, Pulse(i)
       PROVE  RedInv'
  <2>1. UNCHANGED <<todo, state>>
    BY <1>12 DEF Pulse, vars, fsmVars
  <2>2. pins'.red => pulses'[i] # <<>>
    BY <1>12, PulseFacts
  <2> QED
    BY <2>1, <2>2 DEF RedInv
<1> QED
  BY <1>2, <1>3, <1>4, <1>5, <1>6, <1>7, <1>8, <1>9, <1>10, <1>11, <1>12
  DEF PinsNext, Writers

-----------------------------------------------------------------------------
(* The green LED.  An event on its way stays on its way until controlLoop  *)
(* handles it, and until then the FSM changes only by a new report of the  *)
(* sensor.                                                                 *)
LEMMA EventStaysAhead ==
    ASSUME ThreadsTypeOK, OutputsInv, [PinsNext]_pinVars, ~HandleEvent
    PROVE  /\ EventAhead => EventAhead'
           /\ state' = state
           /\ Welcome => Welcome' \/ EventAhead'
<1>1. CASE Sense
  <2>1. state' = state /\ reedPc' = "post"
    BY <1>1 DEF Sense, ReedSense, setDoorState
  <2> QED
    BY <2>1 DEF EventAhead
<1>2. ASSUME UNCHANGED <<state, doorOpen>>, NEW type \in EventType,
             postEvent(type)
      PROVE  UNCHANGED <<state, doorOpen>> /\ EventAhead'
  BY <1>2 DEF postEvent, ThreadsTypeOK, EventAhead
<1>3. CASE \/ Report \/ NfcPost \/ TimerReset \/ TimerTimeout
  <2>1. {"DoorOpened", "DoorClosed", "AuthorizedByNfc",
         "VerificationTimeout"} \subseteq EventType
    BY DEF EventType
  <2>2. UNCHANGED <<state, doorOpen>> /\ EventAhead'
    BY <1>2, <1>3, <2>1
    DEF Report, ReedPost, NfcPost, TimerReset, TimerTimeout, fsmVars
  <2> QED
    BY <2>2
<1>4. CASE DoorMoves
  <2>1. edges' # <<>> /\ UNCHANGED state
    BY <1>4 DEF DoorMoves, ThreadsTypeOK, fsmVars
  <2> QED
    BY <2>1 DEF EventAhead
<1>5. CASE UNCHANGED <<state, doorOpen, queue, reedPc, edges>>
  BY <1>5 DEF EventAhead, Welcome
<1>6. CASE (\E uid \in Tags : ReadTag(uid)) \/ SilenceBuzzer
  BY <1>5, <1>6
  DEF ReadTag, NfcRead, SilenceBuzzer, TimerSilence, Silence, fsmVars,
      sensorVars
<1>7. CASE TimerReads \/ Tick
  BY <1>5, <1>7
  DEF TimerReads, TimerSample, TimerDeadline, Tick, fsmVars, sensorVars
<1>8. CASE \/ CameraSignal \/ UNCHANGED pinVars
           \/ \E t \in Writers : Output(t)
           \/ \E i \in PulseIds : Pulse(i)
  BY <1>5, <1>8
  DEF CameraSignal, Output, Pulse, pinVars, vars, fsmVars, sensorVars
<1> QED
  BY <1>1, <1>3, <1>4, <1>6, <1>7, <1>8 DEF PinsNext, Others

LEMMA GreenStep ==
    ASSUME TypeOK, ThreadsTypeOK, OutputsInv, GreenInv, [PinsNext]_pinVars
    PROVE  GreenInv'
<1> SUFFICES ASSUME signals' = 0 PROVE GreenInv'
  BY DEF GreenInv
<1>1. CASE /\ UNCHANGED <<cameraActive, signals>>
           /\ todo'["camera"] = todo["camera"]
           /\ todo'["control"] = todo["control"]
           /\ reg'["control"] = reg["control"]
           /\ ~HandleEvent
           /\ pins'.green => pins.green \/ EventAhead'
  <2>1. /\ EventAhead => EventAhead'
        /\ state' = state
        /\ Welcome => Welcome' \/ EventAhead'
    BY <1>1, EventStaysAhead
  <2> QED
    BY <1>1, <2>1 DEF GreenInv
<1>2. CASE HandleEvent
  <2>1. UNCHANGED <<cameraActive, signals>>
    BY <1>2 DEF HandleEvent
  <2>2. /\ todo'["camera"] = todo["camera"]
        /\ NextOp(todo'["control"]) \in {"alarmRed", "state"}
    BY <1>2, HandleFacts DEF Writers
  <2> QED
    BY <2>1, <2>2 DEF GreenInv
<1>3. CASE Sense /\ ~HandleEvent
  <2>1. /\ UNCHANGED <<pins, reg, cameraActive, signals>>
        /\ \E new : todo' = [todo EXCEPT !["reed"] = new]
    BY <1>3 DEF Sense
  <2>2. /\ todo'["control"] = todo["control"]
        /\ todo'["camera"] = todo["camera"]
    BY <2>1 DEF OutputsInv, Writers
  <2> QED
    BY <1>1, <1>3, <2>1, <2>2
<1>4. CASE (\E uid \in Tags : ReadTag(uid)) /\ ~HandleEvent
  BY <1>1, <1>4 DEF ReadTag
<1>5. CASE SilenceBuzzer /\ ~HandleEvent
  <2>1. /\ UNCHANGED <<todo, reg, cameraActive, signals>>
        /\ pins' = [pins EXCEPT !["buzzer"] = FALSE]
    BY <1>5 DEF SilenceBuzzer, setPin
  <2>2. pins'.green = pins.green
    BY <2>1 DEF OutputsInv
  <2> QED
    BY <1>1, <1>5, <2>1, <2>2
<1>6. CASE /\ Report \/ TimerReads \/ Others \/ UNCHANGED pinVars
           /\ ~HandleEvent
  BY <1>1, <1>6 DEF Report, TimerReads, Others, pinVars, outVars
<1>7. CASE CameraSignal
  BY <1>7 DEF CameraSignal, OutputsInv
<1>8. CASE Output("control") /\ ~HandleEvent
  <2> DEFINE op == NextOp(todo["control"])
             next == NextOp(todo'["control"])
  <2>1. /\ UNCHANGED <<cameraActive, signals, state, doorOpen>>
        /\ EventAhead' = EventAhead
        /\ todo["control"] # <<>> /\ todo["control"] \in ControlTodo
        /\ todo'["control"] = Tail(todo["control"])
        /\ todo'["camera"] = todo["camera"]
    BY <1>8, OutputTodo
    DEF Output, vars, fsmVars, sensorVars, Writers, OutputsInv, EventAhead
  <2>2. /\ Head(todo["control"]) = op
        /\ op \in {"alarmRed", "state", "door", "camera", "green", "check"}
        /\ op = "alarmRed" => next = "state"
        /\ op = "state" => next = "door"
        /\ op = "door" => next = "camera"
        /\ op = "camera" => next = "green"
        /\ op = "green" => next = "check"
        /\ op = "check" => next = "none"
    BY <2>1, ControlOrder
  <2>3. signals = 0 /\ ~cameraActive' /\ todo'["camera"] = <<>>
    BY <2>1 DEF GreenInv
  <2>4. Welcome' = Welcome
    BY <2>1 DEF Welcome
  <2>5. reg["control"] \in BOOLEAN /\ DOMAIN reg = Writers
        /\ "control" \in Writers
    BY DEF OutputsInv, Writers
  <2>6. CASE op = "alarmRed"
    BY <2>2, <2>3, <2>6 DEF GreenInv
  <2>7. CASE op = "state"
    <3>1. reg' = [reg EXCEPT !["control"] = state = "AuthorizedEntry"]
      BY <1>8, <2>2, <2>7 DEF Output
    <3>2. reg'["control"] => state' = "AuthorizedEntry"
      BY <2>1, <2>5, <3>1
    <3> QED
      BY <2>2, <2>3, <2>7, <3>2 DEF GreenInv
  <2>8. CASE op = "door"
    <3>1. reg' = [reg EXCEPT !["control"] = @ /\ ~doorOpen]
      BY <1>8, <2>2, <2>8 DEF Output
    <3>2. reg'["control"] => reg["control"] /\ ~doorOpen
      BY <2>5, <3>1
    <3>3. reg["control"] => state = "AuthorizedEntry"
      BY <2>3, <2>8 DEF GreenInv
    <3>4. reg'["control"] => Welcome
      BY <3>2, <3>3 DEF Welcome
    <3> QED
      BY <2>2, <2>3, <2>4, <2>8, <3>4 DEF GreenInv
  <2>9. CASE op = "camera"
    <3>1. reg' = [reg EXCEPT !["control"] = @ \/ cameraActive]
      BY <1>8, <2>2, <2>9 DEF Output
    <3>2. reg'["control"] => reg["control"]
      BY <2>1, <2>3, <2>5, <3>1
    <3>3. reg["control"] => Welcome \/ EventAhead
      BY <2>3, <2>9 DEF GreenInv
    <3> QED
      BY <2>1, <2>2, <2>3, <2>4, <2>9, <3>2, <3>3 DEF GreenInv
  <2>10. CASE op = "green"
    <3>1. pins' = [pins EXCEPT !["green"] = reg["control"]]
      BY <1>8, <2>2, <2>10 DEF Output, setPin
    <3>2. pins'.green => reg["control"]
      BY <2>5, <3>1 DEF OutputsInv
    <3>3. reg["control"] => Welcome \/ EventAhead
      BY <2>3, <2>10 DEF GreenInv
    <3> QED
      BY <2>1, <2>2, <2>3, <2>4, <2>10, <3>2, <3>3 DEF GreenInv
  <2>11. CASE op = "check"
    <3>1. pins' = pins
      BY <1>8, <2>2, <2>11 DEF Output
    <3>2. pins.green => Welcome \/ EventAhead
      BY <2>3, <2>11 DEF GreenInv
    <3> QED
      BY <2>1, <2>2, <2>3, <2>4, <2>11, <3>1, <3>2 DEF GreenInv
  <2> QED
    BY <2>2, <2>6, <2>7, <2>8, <2>9, <2>10, <2>11
<1>9. CASE Output("reed") /\ ~HandleEvent
  <2>1. /\ UNCHANGED <<cameraActive, signals, reedPc>>
        /\ todo["reed"] # <<>>
        /\ todo'["control"] = todo["control"]
        /\ todo'["camera"] = todo["camera"]
    BY <1>9, OutputTodo DEF Output, vars, sensorVars, Writers
  <2>2. EventAhead'
    BY <2>1 DEF OutputsInv, EventAhead
  <2>3. reg'["control"] = reg["control"]
    BY <1>9 DEF Output, OutputsInv, Writers
  <2> QED
    BY <1>1, <1>9, <2>1, <2>2, <2>3
<1>10. CASE Output("camera")
  BY <1>10 DEF Output, GreenInv
<1>11. ASSUME NEW i \in PulseIds, Pulse(i), ~HandleEvent
       PROVE  GreenInv'
  <2>1. UNCHANGED <<todo, reg, cameraActive, signals>>
    BY <1>11 DEF Pulse
  <2>2. pins'.green => pins.green
    BY <1>11, PulseFacts
  <2> QED
    BY <1>1, <1>11, <2>1, <2>2
<1> QED
  BY <1>2, <1>3, <1>4, <1>5, <1>6, <1>7, <1>8, <1>9, <1>10, <1>11
  DEF PinsNext, Writers

-----------------------------------------------------------------------------
(* The invariants together, over those of DoorAlarmSystem.                 *)
PinsInv ==
    /\ SystemInv /\ ReportsInv
    /\ OutputsInv /\ BuzzerInv /\ RedInv /\ GreenInv

LEMMA PinsInvariant == PinsSpec => []PinsInv
<1>1. PinsInit => BuzzerInv /\ RedInv /\ GreenInv
  <2> SUFFICES ASSUME PinsInit PROVE BuzzerInv /\ RedInv /\ GreenInv
    OBVIOUS
  <2>1. ~pins.buzzer /\ ~pins.red /\ ~pins.green
    BY DEF PinsInit
  <2>2. /\ todo["control"] = <<>> /\ todo["camera"] = <<>>
        /\ ~cameraActive
    BY DEF PinsInit, Writers
  <2>3. NextOp(<<>>) = "none"
    BY DEF NextOp
  <2> QED
    BY <2>1, <2>2, <2>3 DEF BuzzerInv, RedInv, GreenInv
<1>2. PinsInit => SystemInv /\ ReportsInv
  BY InitType, FSMInitInv, ReportsInvInit DEF PinsInit, SystemInv
<1>3. PinsInv /\ [PinsNext]_pinVars => PinsInv'
  <2> SUFFICES ASSUME PinsInv, [PinsNext]_pinVars PROVE PinsInv'
    OBVIOUS
  <2>1. [Next]_vars
    BY PinsSimulation
  <2>2. TypeOK /\ ThreadsTypeOK
    BY DEF PinsInv, SystemInv, FSMInv
  <2>3. SystemInv'
    <3>1. FSMInv'
      BY <2>1, <2>2, FSMSimulation, FSMStepInv DEF PinsInv, SystemInv
    <3>2. ThreadsTypeOK'
      BY <2>1, <2>2, <3>1, ThreadsStep DEF FSMInv
    <3> QED
      BY <3>1, <3>2 DEF SystemInv
  <2>4. ReportsInv'
    BY <2>1, <2>2, ReportsStep DEF PinsInv
  <2>5. OutputsInv' /\ BuzzerInv' /\ RedInv' /\ GreenInv'
    BY <2>2, OutputsStep, BuzzerStep, RedStep, GreenStep DEF PinsInv
  <2> QED
    BY <2>3, <2>4, <2>5 DEF PinsInv
<1>4. PinsInit => PinsInv
  BY <1>1, <1>2, OutputsInit DEF PinsInv
<1> QED
  BY <1>3, <1>4, PTL DEF PinsSpec

(* The buzzer never sounds for nobody, however AlarmManager, the timer and *)
(* any number of detached threads write it (OutputController.cpp:70).      *)
THEOREM BuzzerIsOwned == PinsSpec => []BuzzerHasOwner
<1>1. PinsInv => BuzzerHasOwner
  BY DEF PinsInv, BuzzerInv, BuzzerHasOwner, WillSilence, Silences, BuzzerOff
<1> QED
  BY <1>1, PinsInvariant, PTL

(* When everything has settled a red LED means an open door, although      *)
(* clearAlarm leaves the red of triggerAlarm on (AlarmManager.cpp:66).     *)
THEOREM RedIsTrue == PinsSpec => []RedMeansOpen
<1>1. PinsInv => RedMeansOpen
  BY DEF PinsInv, RedInv, RedMeansOpen, Settled, Reported, SensorIdle, Writers
<1> QED
  BY <1>1, PinsInvariant, PTL

(* When everything has settled and the camera has never signalled, a green *)
(* LED means an authorized entry and a closed door, although the refreshes *)
(* read the FSM and write the LED in separate steps                        *)
(* (DoorAlarmSystem.cpp:115).                                              *)
THEOREM GreenIsTrue == PinsSpec => []GreenHasReason
<1>1. PinsInv => GreenHasReason
  <2> SUFFICES ASSUME PinsInv, Settled, pins.green, signals = 0
               PROVE  Welcome
    BY DEF GreenHasReason, Welcome
  <2>1. NextOp(todo["control"]) = "none"
    BY DEF Settled, NextOp, Writers
  <2>2. ~EventAhead
    BY DEF Settled, Reported, SensorIdle, EventAhead
  <2> QED
    BY <2>1, <2>2 DEF PinsInv, GreenInv
<1> QED
  BY <1>1, PinsInvariant, PTL

(* The outputs do not get in the way of the threads: whatever is done with *)
(* LEDs and buzzer, the system is DoorAlarmSystem, so that what is proved  *)
(* of it holds with the outputs too.                                       *)
THEOREM PinsAreObservers == PinsSpec => Spec
  BY PinsSimulation, PTL DEF PinsSpec, PinsInit, Spec

=============================================================================
