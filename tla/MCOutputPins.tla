---------------------------- MODULE MCOutputPins ----------------------------
(* Small instances of OutputPins for TLC.                                  *)
EXTENDS OutputPins, TLC

CONSTANTS good, bad,   \* a tag on the list of AccessController and one off it
          p1, p2       \* detached threads

MCTags == {good, bad}
MCAllowed == {good}
MCPulseIds == {p1, p2}
OnePulse == {p1}
StartsClosed == {FALSE}

(* held is a history variable that no action and no property of OutputPins *)
(* reads, so states that differ in it alone are one.                       *)
View == <<fsmVars, sensorVars, inputVars, timerVars, queue, used, outVars>>

Symmetry == Permutations(MCPulseIds)
=============================================================================
