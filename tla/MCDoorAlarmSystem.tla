-------------------------- MODULE MCDoorAlarmSystem --------------------------
(* Small instances of DoorAlarmSystem for TLC.                              *)
EXTENDS DoorAlarmSystem

CONSTANTS good, bad   \* a tag on the list of AccessController and one off it

MCTags == {good, bad}
MCAllowed == {good}
StartsClosed == {FALSE}
==============================================================================
