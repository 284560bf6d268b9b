-------------------------------- MODULE MCTcp --------------------------------
(* Instances of Tcp for TLC. *)
EXTENDS Tcp

CONSTANTS k1, k2
TwoCoros == {k1, k2}
OneServer == {k1}
=============================================================================
