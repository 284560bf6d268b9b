---------------------------- MODULE MCThreadPool ----------------------------
(* Instances of ThreadPool for TLC. *)
EXTENDS ThreadPool

CONSTANTS w1, w2, c1, j1, j2

TwoWorkers == {w1, w2}
OneClient == {c1}
TwoJobs == {j1, j2}
OneAwaited == {j1}
=============================================================================
