----------------------------- MODULE MCSignalSet -----------------------------
(* Instances of SignalSet for TLC. *)
EXTENDS SignalSet

CONSTANTS s1, s2, w1, w2

OneSignal == {s1}
TwoSignals == {s1, s2}
OneWaiter == {w1}
TwoWaiters == {w1, w2}
===============================================================================
