------------------------------ MODULE AsioAwait ------------------------------
(***************************************************************************)
(* The Asio bridge: asio_awaitable and resume_on_ctx() between coroutines, *)
(* the loop thread and the network thread of asio_net_service.             *)
(*                                                                         *)
(* A coroutine runs on the loop thread or, after a stop request, on the    *)
(* network thread; whatever it does up to the end of await_suspend() it    *)
(* does there.  Asio itself (operations, the queue of handlers) is         *)
(* modelled by the promises the code relies on: an operation ends once,    *)
(* and its handler is run by the network thread or, after ioc_.stop(),     *)
(* not at all.  Modules of sockets extend this one.                        *)
(***************************************************************************)
EXTENDS Naturals, FiniteSets, Sequences, SequencesExt

CONSTANTS Coros,      \* coroutines, all posted to the loop at the start
          None

ASSUME AsioAssumption == IsFiniteSet(Coros) /\ None \notin Coros

VARIABLES
  handle_q_, stop_requested_,
  loop,       \* the coroutine run() executes, None between two, or "returned"
  net,        \* the net thread: [at : NetStates, co : coroutine or None]
  stopped_,   \* asio_net_service::stop() was called
  ready,      \* handlers Asio will run: [co, ec], co = None for a function
  co,         \* co[c]: "loop" or "net" (running there), "suspended" or "done"
  op,         \* op[c]: the Asio operation under way, or None
  res,        \* res[c]: asio_result and ex of c's awaitable; none without one
  got,        \* got[c]: what await_resume() did, until c goes on from there
  cancelled   \* coroutines in a call whose token is cancelled

bridge == <<handle_q_, stop_requested_, loop, net, stopped_, ready, co, op, res,
            got, cancelled>>

\* idle   in ioc_.run(), between handlers
\* post   in resume_on_ctx(), which has seen no stop request, before ctx->post()
\* user   running a coroutine it has resumed
\* left   out of ioc_.run()
NetStates == {"idle", "post", "user", "left"}
Idle == [at |-> "idle", co |-> None]

Outcomes == {"ok", "error"}
Results == {"none", "empty", "ok", "error", "ex"}
Gets == {"nothing", "value", "undefined", "cancelled", "error", "ex"}

\* The operations and handlers of the socket modules.
BridgeTypeOK(Ops) ==
  /\ handle_q_ \in Seq(Coros) /\ stop_requested_ \in BOOLEAN
  /\ loop \in Coros \cup {None, "returned"}
  /\ net \in [at : NetStates, co : Coros \cup {None}] /\ stopped_ \in BOOLEAN
  /\ ready \in Seq([co : Coros \cup {None}, ec : Outcomes])
  /\ co \in [Coros -> {"loop", "net", "suspended", "done"}]
  /\ op \in [Coros -> Ops \cup {None}]
  /\ res \in [Coros -> Results] /\ got \in [Coros -> Gets]
  /\ cancelled \subseteq Coros

BridgeInit ==
  /\ handle_q_ = SetToSeq(Coros)
  /\ stop_requested_ = FALSE /\ loop = None /\ net = Idle /\ stopped_ = FALSE
  /\ ready = <<>>
  /\ co = [c \in Coros |-> "suspended"] /\ op = [c \in Coros |-> None]
  /\ res = [c \in Coros |-> "none"] /\ got = [c \in Coros |-> "nothing"]
  /\ cancelled = {}

Running(c) == co[c] \in {"loop", "net"}

\* The thread that runs c goes back to its loop.
Leave(c) ==
  /\ loop' = IF co[c] = "loop" THEN None ELSE loop
  /\ net' = IF co[c] = "net" THEN Idle ELSE net

Mut_AwaitResume(c, r) ==
  CASE r = "none" -> "nothing"
    [] r = "ex" -> "ex"
    [] r = "error" -> "error"
    [] r = "ok" -> "value"
    [] r = "empty" -> "undefined"

\* await_resume(): the token first, then the exception of the starter, then the
\* error code; what remains is to dereference the stored value.  A coroutine that is
\* resumed for the first time has no awaitable.
AwaitResume(c, r) ==
  CASE r = "none" -> "nothing"
    [] r # "none" /\ c \in cancelled -> "cancelled"
    [] r = "ex" /\ c \notin cancelled -> "ex"
    [] r = "error" /\ c \notin cancelled -> "error"
    [] r = "ok" /\ c \notin cancelled -> "value"
    [] r = "empty" /\ c \notin cancelled -> "undefined"

Mut_ResumeOnCtx(c, r) ==
  IF stop_requested_
  THEN /\ got' = [got EXCEPT ![c] = AwaitResume(c, r)]
       /\ handle_q_' = Append(handle_q_, c)
       /\ UNCHANGED <<co, loop, net, res>>
  ELSE /\ handle_q_' = Append(handle_q_, c)
       /\ co' = [co EXCEPT ![c] = "suspended"]
       /\ res' = [res EXCEPT ![c] = r]
       /\ Leave(c)
       /\ UNCHANGED got

\* resume_on_ctx() inside await_suspend(), with r in the awaitable: after a stop
\* request the coroutine goes on at once, where it is; otherwise it is posted.
ResumeOnCtx(c, r) ==
  IF stop_requested_
  THEN /\ got' = [got EXCEPT ![c] = AwaitResume(c, r)]
       /\ UNCHANGED <<handle_q_, co, loop, net, res>>
  ELSE /\ handle_q_' = Append(handle_q_, c)
       /\ co' = [co EXCEPT ![c] = "suspended"]
       /\ res' = [res EXCEPT ![c] = r]
       /\ Leave(c)
       /\ UNCHANGED got

\* co_await asio_awaitable{...} in c, for operation o.  The token is cancelled,
\* or the starter throws, or the operation starts.
AwaitCancelled(c) ==
  /\ Running(c) /\ c \in cancelled
  /\ ResumeOnCtx(c, "empty")
  /\ UNCHANGED <<stop_requested_, stopped_, ready, op, cancelled>>

AwaitThrows(c) ==
  /\ Running(c) /\ c \notin cancelled
  /\ ResumeOnCtx(c, "ex")
  /\ UNCHANGED <<stop_requested_, stopped_, ready, op, cancelled>>

AwaitStarts(c, o) ==
  /\ Running(c) /\ c \notin cancelled
  /\ res' = [res EXCEPT ![c] = "empty"]
  /\ op' = [op EXCEPT ![c] = o]
  /\ co' = [co EXCEPT ![c] = "suspended"]
  /\ Leave(c)
  /\ UNCHANGED <<handle_q_, stop_requested_, stopped_, ready, got, cancelled>>

Await(c, o) == AwaitCancelled(c) \/ AwaitThrows(c) \/ AwaitStarts(c, o)

-------------------------------------------------------------------------------
(* The network thread.                                                     *)

\* Handlers of the operations of the coroutines in C, which have ended with ec.
Handlers(C, ec) == LET s == SetToSeq(C) IN [i \in 1..Len(s) |-> [co |-> s[i], ec |-> ec]]

Mut_Complete ==
  /\ net.at = "idle" /\ ~stopped_ /\ ready # <<>> /\ Head(ready).co # None
  /\ ready' = Tail(ready)
  /\ LET c == Head(ready).co IN
       IF Head(ready).ec = "ok"
       THEN /\ net' = [at |-> "post", co |-> c]
            /\ res' = [res EXCEPT ![c] = "ok"]
       ELSE /\ res' = [res EXCEPT ![c] = "error"]
            /\ UNCHANGED net
  /\ UNCHANGED <<handle_q_, stop_requested_, loop, stopped_, co, op, got, cancelled>>

\* The handler stores the result; resume_on_ctx() tests the scheduler's flag and
\* resumes the coroutine here or goes on to post it.
Complete ==
  /\ net.at = "idle" /\ ~stopped_ /\ ready # <<>> /\ Head(ready).co # None
  /\ ready' = Tail(ready)
  /\ LET c == Head(ready).co IN
       IF stop_requested_
       THEN /\ net' = [at |-> "user", co |-> c]
            /\ co' = [co EXCEPT ![c] = "net"]
            /\ got' = [got EXCEPT ![c] = AwaitResume(c, Head(ready).ec)]
            /\ res' = [res EXCEPT ![c] = "none"]
       ELSE /\ net' = [at |-> "post", co |-> c]
            /\ res' = [res EXCEPT ![c] = Head(ready).ec]
            /\ UNCHANGED <<co, got>>
  /\ UNCHANGED <<handle_q_, stop_requested_, loop, stopped_, op, cancelled>>

\* ctx->post(h), whatever stop_requested() and run() say by now.
Post ==
  /\ net.at = "post"
  /\ handle_q_' = Append(handle_q_, net.co)
  /\ net' = Idle
  /\ UNCHANGED <<stop_requested_, loop, stopped_, ready, co, op, res, got, cancelled>>

\* ~asio_net_service(), from io_context::shutdown(), which stops the scheduler
\* first: handlers still queued will not be run.
StopService ==
  /\ stop_requested_ /\ ~stopped_
  /\ stopped_' = TRUE
  /\ UNCHANGED <<handle_q_, stop_requested_, loop, net, ready, co, op, res, got,
                 cancelled>>

\* ioc_.run() returns, and join() with it.
LeaveRun ==
  /\ net.at = "idle" /\ stopped_
  /\ net' = [at |-> "left", co |-> None]
  /\ UNCHANGED <<handle_q_, stop_requested_, loop, stopped_, ready, co, op, res, got,
                 cancelled>>

-------------------------------------------------------------------------------
(* The loop thread, and user code.                                         *)

Resume ==
  /\ loop = None /\ handle_q_ # <<>>
  /\ LET c == Head(handle_q_) IN
       /\ loop' = c
       /\ co' = [co EXCEPT ![c] = "loop"]
       /\ got' = [got EXCEPT ![c] = AwaitResume(c, res[c])]
       /\ res' = [res EXCEPT ![c] = "none"]
  /\ handle_q_' = Tail(handle_q_)
  /\ UNCHANGED <<stop_requested_, net, stopped_, ready, op, cancelled>>

Return ==
  /\ loop = None /\ handle_q_ = <<>> /\ stop_requested_
  /\ loop' = "returned"
  /\ UNCHANGED <<handle_q_, stop_requested_, net, stopped_, ready, co, op, res, got,
                 cancelled>>

\* The coroutine ends.
Finish(c) ==
  /\ Running(c)
  /\ co' = [co EXCEPT ![c] = "done"]
  /\ Leave(c)
  /\ UNCHANGED <<handle_q_, stop_requested_, stopped_, ready, op, res, got, cancelled>>

Stop ==
  /\ ~stop_requested_ /\ stop_requested_' = TRUE
  /\ UNCHANGED <<handle_q_, loop, net, stopped_, ready, co, op, res, got, cancelled>>

\* The token of c's call is cancelled.
Cancel(c) ==
  /\ c \notin cancelled /\ cancelled' = cancelled \cup {c}
  /\ UNCHANGED <<handle_q_, stop_requested_, loop, net, stopped_, ready, co, op, res,
                 got>>

\* c's call comes to its end, by a value or by an exception.
GoOn(c) ==
  /\ got' = [got EXCEPT ![c] = "nothing"] /\ cancelled' = cancelled \ {c}
  /\ UNCHANGED <<handle_q_, stop_requested_, loop, net, stopped_, ready, co, op, res>>
=============================================================================
