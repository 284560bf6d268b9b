---------------------------- MODULE MCScheduler ----------------------------
(* Instances of Scheduler for TLC. *)
EXTENDS Scheduler

CONSTANTS t1, t2, h1, h2, f1, f2

TwoThreads == {t1, t2}
TwoHandles == {h1, h2}
TwoFns == {f1, f2}
OneThrows == {f2}
NoneThrows == {}
=============================================================================
