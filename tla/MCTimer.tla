------------------------------- MODULE MCTimer -------------------------------
(* Instances of Timer for TLC. *)
EXTENDS Timer

CONSTANTS c1, c2

OneClient == {c1}
TwoClients == {c1, c2}
DelaySet == {0, 2}
=============================================================================
