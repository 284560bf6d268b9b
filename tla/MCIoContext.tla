----------------------------- MODULE MCIoContext -----------------------------
(* Instances of IoContext for TLC. *)
EXTENDS IoContext

CONSTANTS c1
OneCaller == {c1}
=============================================================================
