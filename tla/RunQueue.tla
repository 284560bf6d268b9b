------------------------------- MODULE RunQueue -------------------------------
(***************************************************************************)
(* What the scheduler promises its clients, without threads, locks or      *)
(* condition variables: two FIFO logs of posted work, handles served       *)
(* before callables, and a loop that, once told to stop, returns only when *)
(* everything posted has been started.                                     *)
(***************************************************************************)
EXTENDS Naturals, Sequences

CONSTANTS Handles, Fns

VARIABLES posted_h, posted_f,    \* everything posted so far, in order
          started_h, started_f,  \* everything the loop has started, in order
          active,                \* run() is serving the queues
          stop_requested_

vars == <<posted_h, posted_f, started_h, started_f, active, stop_requested_>>

Init ==
  /\ posted_h = <<>>  /\ started_h = <<>>
  /\ posted_f = <<>>  /\ started_f = <<>>
  /\ active = FALSE   /\ stop_requested_ = FALSE

PostHandle(h) ==
  /\ posted_h' = Append(posted_h, h)
  /\ UNCHANGED <<posted_f, started_h, started_f, active, stop_requested_>>

PostFn(f) ==
  /\ posted_f' = Append(posted_f, f)
  /\ UNCHANGED <<posted_h, started_h, started_f, active, stop_requested_>>

\* The oldest handle not yet started.
StartHandle ==
  /\ active
  /\ Len(started_h) < Len(posted_h)
  /\ started_h' = Append(started_h, posted_h[Len(started_h) + 1])
  /\ UNCHANGED <<posted_h, posted_f, started_f, active, stop_requested_>>

\* The oldest callable not yet started, when no handle is waiting.
StartFn ==
  /\ active
  /\ started_h = posted_h
  /\ Len(started_f) < Len(posted_f)
  /\ started_f' = Append(started_f, posted_f[Len(started_f) + 1])
  /\ UNCHANGED <<posted_h, posted_f, started_h, active, stop_requested_>>

RequestStop(b) ==
  /\ stop_requested_' = b
  /\ b \/ ~active
  /\ UNCHANGED <<posted_h, posted_f, started_h, started_f, active>>

Enter ==
  /\ ~active /\ active' = TRUE
  /\ UNCHANGED <<posted_h, posted_f, started_h, started_f, stop_requested_>>

\* Normal return: stopped and drained.
Leave ==
  /\ active /\ active' = FALSE
  /\ stop_requested_ /\ started_h = posted_h /\ started_f = posted_f
  /\ UNCHANGED <<posted_h, posted_f, started_h, started_f, stop_requested_>>

\* A callable threw: only possible once one has been started.
Abort ==
  /\ active /\ active' = FALSE
  /\ started_f # <<>>
  /\ UNCHANGED <<posted_h, posted_f, started_h, started_f, stop_requested_>>

Next ==
  \/ \E h \in Handles : PostHandle(h)
  \/ \E f \in Fns : PostFn(f)
  \/ StartHandle \/ StartFn
  \/ \E b \in BOOLEAN : RequestStop(b)
  \/ Enter \/ Leave \/ Abort

Spec == Init /\ [][Next]_vars
===============================================================================
