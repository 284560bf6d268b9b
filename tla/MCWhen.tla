-------------------------------- MODULE MCWhen --------------------------------
(* Instances of When for TLC. *)
EXTENDS When
===============================================================================
