----------------------------- MODULE MCAlarmApi -----------------------------
(* Small instances of AlarmApi for TLC.                                    *)
EXTENDS AlarmApi

CONSTANTS t1, t2

TwoThreads == {t1, t2}
=============================================================================
