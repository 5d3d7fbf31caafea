-------------------------- MODULE MCCameraProgram --------------------------
(* A small instance of CameraProgram for TLC.                              *)
EXTENDS CameraProgram

MCNames == <<"ann", "bob">>
MCPlaces == {"left", "right"}

View(face, s1, s2) == [face |-> face, score |-> <<s1, s2>>]
Frame(l, r) == [p \in MCPlaces |-> IF p = "left" THEN l ELSE r]

Nothing == View(FALSE, 0, 0)
Ann == View(TRUE, 3, 2)
Stranger == View(TRUE, 1, -1)

(* Nobody; someone who is like both entries, more like the first, next to  *)
(* a stranger.                                                             *)
MCFrames == {Frame(Nothing, Nothing), Frame(Ann, Stranger)}

(* The state that some step still reads or some property is about: nobody  *)
(* reads the levels of the pins and state_, and once the recognition       *)
(* thread has ended nobody reads its frames.  States that differ in the    *)
(* rest alone are one.                                                     *)
recState ==
    IF recAt = "exited" THEN <<>>
    ELSE <<frames, maybeFrame, frameCount, lastFaces, todo, evs>>

LiveState ==
    <<running, age, timerArmed, pubPc, timerPc, nap, reds, dtorPc, lag,
      mainVars, framesShut, camAt, recAt, recState, guiVars, logVars>>
=============================================================================
