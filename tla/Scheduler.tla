------------------------------ MODULE Scheduler ------------------------------
(***************************************************************************)
(* core::scheduler: two work queues behind the mutex m_ and the condition  *)
(* variable cv_, filled by any thread and served by the one thread that is *)
(* inside run().                                                           *)
(*                                                                         *)
(* A critical section of post() is one step.  The section of run() is one  *)
(* step too when the wait predicate holds; when it does not, the thread    *)
(* keeps m_ until it blocks, and stop(), which writes stop_requested_      *)
(* without m_, can come in between.                                        *)
(***************************************************************************)
EXTENDS Naturals, Sequences

CONSTANTS Threads,      \* threads other than the one that calls run()
          Loop,         \* the thread that calls run()
          Handles,      \* coroutine handles (a null handle is not posted)
          Fns,          \* generic callables
          Throwing,     \* the callables that throw
          None,         \* no work item
          MaxPosts      \* bound: number of post() calls

Actors == Threads \cup {Loop}

ASSUME SchedulerAssumption ==
  /\ Loop \notin Threads
  /\ Throwing \subseteq Fns
  /\ Handles \cap Fns = {}
  /\ None \notin Handles \cup Fns
  /\ MaxPosts \in Nat

VARIABLES
  handle_q_, fn_q_,
  stop_requested_, running_,
  loop,   \* where the thread Loop is (see LoopStates)
  cur,    \* the work item it is executing
  call,   \* call[t]: t is inside post() or stop(), before its notify
  posted_h, posted_f,    \* history: everything posted
  started_h, started_f,  \* history: everything taken off a queue to execute
  owed    \* history: how much had been posted when stop was requested

queues == <<handle_q_, fn_q_>>
posted == <<posted_h, posted_f>>
started == <<started_h, started_f>>
vars == <<handle_q_, fn_q_, stop_requested_, running_, loop, cur, call,
          posted_h, posted_f, started_h, started_f, owed>>

\* idle     outside run()
\* top      about to lock m_ and evaluate the wait predicate
\* block    predicate was false; still holds m_, not yet in the wait set
\* blocked  in the wait set of cv_, m_ released
\* exec     m_ released, executing cur
\* exit     left the loop, running_ not yet cleared
LoopStates == {"idle", "top", "block", "blocked", "exec", "exit"}

TypeOK ==
  /\ handle_q_ \in Seq(Handles) /\ fn_q_ \in Seq(Fns)
  /\ stop_requested_ \in BOOLEAN /\ running_ \in BOOLEAN
  /\ loop \in LoopStates
  /\ cur \in Handles \cup Fns \cup {None}
  /\ call \in [Actors -> {"none", "notify"}]
  /\ posted_h \in Seq(Handles) /\ started_h \in Seq(Handles)
  /\ posted_f \in Seq(Fns) /\ started_f \in Seq(Fns)
  /\ owed \in [h : Nat, f : Nat]

Init ==
  /\ handle_q_ = <<>> /\ fn_q_ = <<>>
  /\ stop_requested_ = FALSE /\ running_ = FALSE
  /\ loop = "idle" /\ cur = None
  /\ call = [t \in Actors |-> "none"]
  /\ posted_h = <<>> /\ posted_f = <<>>
  /\ started_h = <<>> /\ started_f = <<>>
  /\ owed = [h |-> 0, f |-> 0]

-------------------------------------------------------------------------------
(* Calls made by any thread.  Loop makes them from the work it executes.   *)

Pending == Len(handle_q_) + Len(fn_q_)

CanCall(t) == call[t] = "none" /\ (t = Loop => loop = "exec")

Mut_LockFree == TRUE

\* m_ is held across steps only between a false predicate and the block.
LockFree == loop # "block"

PostHandle(t, h) ==
  /\ CanCall(t) /\ LockFree
  /\ Len(posted_h) + Len(posted_f) < MaxPosts
  /\ handle_q_' = Append(handle_q_, h)
  /\ posted_h' = Append(posted_h, h)
  /\ call' = [call EXCEPT ![t] = "notify"]
  /\ UNCHANGED <<fn_q_, stop_requested_, running_, loop, cur, posted_f, started, owed>>

Mut_PostFn(t, f) ==
  /\ CanCall(t) /\ LockFree
  /\ Len(posted_h) + Len(posted_f) < MaxPosts
  /\ handle_q_' = Append(handle_q_, f)
  /\ posted_f' = Append(posted_f, f)
  /\ call' = [call EXCEPT ![t] = "notify"]
  /\ UNCHANGED <<fn_q_, stop_requested_, running_, loop, cur, posted_h, started, owed>>

PostFn(t, f) ==
  /\ CanCall(t) /\ LockFree
  /\ Len(posted_h) + Len(posted_f) < MaxPosts
  /\ fn_q_' = Append(fn_q_, f)
  /\ posted_f' = Append(posted_f, f)
  /\ call' = [call EXCEPT ![t] = "notify"]
  /\ UNCHANGED <<handle_q_, stop_requested_, running_, loop, cur, posted_h, started, owed>>

\* The store is not made under m_.
Stop(t) ==
  /\ CanCall(t)
  /\ stop_requested_' = TRUE
  /\ owed' = IF stop_requested_ THEN owed
             ELSE [h |-> Len(posted_h), f |-> Len(posted_f)]
  /\ call' = [call EXCEPT ![t] = "notify"]
  /\ UNCHANGED <<queues, running_, loop, cur, posted, started>>

\* cv_.notify_one() of post() and cv_.notify_all() of stop(): there is at
\* most one waiter.
Notify(t) ==
  /\ call[t] = "notify"
  /\ call' = [call EXCEPT ![t] = "none"]
  /\ loop' = IF loop = "blocked" THEN "top" ELSE loop
  /\ UNCHANGED <<queues, stop_requested_, running_, cur, posted, started, owed>>

\* "Must not be called while run() is active."
Reset ==
  /\ loop = "idle"
  /\ stop_requested_' = FALSE
  /\ UNCHANGED <<queues, running_, loop, cur, call, posted, started, owed>>

-------------------------------------------------------------------------------
(* run().                                                                  *)

Run ==
  /\ loop = "idle"
  /\ running_' = TRUE
  /\ loop' = "top"
  /\ UNCHANGED <<queues, stop_requested_, cur, call, posted, started, owed>>

Mut_TakeHandle ==
  /\ loop = "top" /\ handle_q_ # <<>>
  /\ cur' = handle_q_[Len(handle_q_)]
  /\ handle_q_' = SubSeq(handle_q_, 1, Len(handle_q_) - 1)
  /\ started_h' = Append(started_h, cur')
  /\ loop' = "exec"
  /\ UNCHANGED <<fn_q_, stop_requested_, running_, call, posted, started_f, owed>>

\* Predicate true, handles first; m_ is released before cur is resumed.
TakeHandle ==
  /\ loop = "top" /\ handle_q_ # <<>>
  /\ cur' = Head(handle_q_)
  /\ handle_q_' = Tail(handle_q_)
  /\ started_h' = Append(started_h, cur')
  /\ loop' = "exec"
  /\ UNCHANGED <<fn_q_, stop_requested_, running_, call, posted, started_f, owed>>

Mut_TakeFn ==
  /\ loop = "top" /\ fn_q_ # <<>>
  /\ cur' = Head(fn_q_)
  /\ fn_q_' = Tail(fn_q_)
  /\ started_f' = Append(started_f, cur')
  /\ loop' = "exec"
  /\ UNCHANGED <<handle_q_, stop_requested_, running_, call, posted, started_h, owed>>

TakeFn ==
  /\ loop = "top" /\ handle_q_ = <<>> /\ fn_q_ # <<>>
  /\ cur' = Head(fn_q_)
  /\ fn_q_' = Tail(fn_q_)
  /\ started_f' = Append(started_f, cur')
  /\ loop' = "exec"
  /\ UNCHANGED <<handle_q_, stop_requested_, running_, call, posted, started_h, owed>>

Mut_Break ==
  /\ loop = "top" /\ stop_requested_
  /\ loop' = "exit"
  /\ UNCHANGED <<queues, stop_requested_, running_, cur, call, posted, started, owed>>

\* Both queues empty and stop requested: leave the loop.
Break ==
  /\ loop = "top" /\ stop_requested_ /\ Pending = 0
  /\ loop' = "exit"
  /\ UNCHANGED <<queues, stop_requested_, running_, cur, call, posted, started, owed>>

Mut_PredicateFalse ==
  /\ loop = "top" /\ Pending = 0
  /\ loop' = "block"
  /\ UNCHANGED <<queues, stop_requested_, running_, cur, call, posted, started, owed>>

\* The predicate of cv_.wait is false: the thread will block, holding m_ until then.
PredicateFalse ==
  /\ loop = "top" /\ ~stop_requested_ /\ Pending = 0
  /\ loop' = "block"
  /\ UNCHANGED <<queues, stop_requested_, running_, cur, call, posted, started, owed>>

\* Enter the wait set and release m_, atomically.
Block ==
  /\ loop = "block"
  /\ loop' = "blocked"
  /\ UNCHANGED <<queues, stop_requested_, running_, cur, call, posted, started, owed>>

SpuriousWakeup ==
  /\ loop = "blocked"
  /\ loop' = "top"
  /\ UNCHANGED <<queues, stop_requested_, running_, cur, call, posted, started, owed>>

\* h.resume() or fn() returned.
Finish ==
  /\ loop = "exec" /\ call[Loop] = "none" /\ cur \notin Throwing
  /\ cur' = None
  /\ loop' = "top"
  /\ UNCHANGED <<queues, stop_requested_, running_, call, posted, started, owed>>

\* fn() threw: the exception leaves run(), past the store that clears running_.
Throw ==
  /\ loop = "exec" /\ call[Loop] = "none" /\ cur \in Throwing
  /\ cur' = None
  /\ loop' = "idle"
  /\ UNCHANGED <<queues, stop_requested_, running_, call, posted, started, owed>>

Return ==
  /\ loop = "exit"
  /\ running_' = FALSE
  /\ loop' = "idle"
  /\ UNCHANGED <<queues, stop_requested_, cur, call, posted, started, owed>>

-------------------------------------------------------------------------------
Client(t) ==
  \/ \E h \in Handles : PostHandle(t, h)
  \/ \E f \in Fns : PostFn(t, f)
  \/ Stop(t)

LoopStep ==
  \/ TakeHandle \/ TakeFn \/ Break \/ PredicateFalse \/ Block
  \/ Finish \/ Throw \/ Return

Next ==
  \/ \E t \in Actors : Client(t) \/ Notify(t)
  \/ Reset \/ Run \/ LoopStep \/ SpuriousWakeup

Spec == Init /\ [][Next]_vars

\* The operating system runs every thread that can take a step of its own, and
\* every work item ends (it does not call post() and stop() for ever).  Nobody
\* is obliged to post, to stop or to call run(), and no spurious wakeup is owed
\* to a blocked thread.
Fairness ==
  /\ WF_vars(LoopStep)
  /\ SF_vars(Finish \/ Throw)
  /\ \A t \in Actors : WF_vars(Notify(t))

FairSpec == Spec /\ Fairness

-------------------------------------------------------------------------------
(* Properties.                                                             *)

\* Everything posted is started exactly once and in posting order within its
\* queue, or is still queued, whatever thread posts and however run() ends:
\* post(), the pops of run() and an exception lose, repeat and reorder nothing.
NothingLostOrReordered ==
  /\ posted_h = started_h \o handle_q_
  /\ posted_f = started_f \o fn_q_

\* post() pushes under m_ and notifies after unlocking: run() never sleeps on
\* cv_ over queued work unless a thread inside post() or stop() is still to
\* notify it.
NoLostWakeup ==
  loop = "blocked" /\ Pending > 0 => \E t \in Actors : call[t] = "notify"

\* "Pending work already queued will still be drained before exit"
\* (scheduler.hpp:243): when run() leaves its loop, all that had been posted
\* when stop() set the flag has been started.
DrainedBeforeExit ==
  loop = "exit" => Len(started_h) >= owed.h /\ Len(started_f) >= owed.f

\* What the induction needs besides.  A thread that found the predicate false
\* holds m_ until it blocks, so nothing is queued behind its back; only reset()
\* lowers the flag run() left on; what is owed was posted; and an executing
\* callable has been recorded as started.
HeldWhileEmpty == loop = "block" => Pending = 0
ExitStopped == loop = "exit" => stop_requested_
OwedWasPosted == owed.h <= Len(posted_h) /\ owed.f <= Len(posted_f)
ExecutingIsStarted == loop = "exec" /\ cur \in Fns => started_f # <<>>

\* The inductive invariant.
IInv ==
  /\ TypeOK
  /\ NothingLostOrReordered
  /\ NoLostWakeup
  /\ DrainedBeforeExit
  /\ HeldWhileEmpty
  /\ ExitStopped
  /\ OwedWasPosted
  /\ ExecutingIsStarted

\* The scheduler implements the run queue its clients rely on: FIFO per class,
\* handles first, and a normal return only when stopped and drained.
RQ == INSTANCE RunQueue WITH active <- loop \notin {"idle", "exit"}

ImplementsRunQueue == RQ!Spec

\* Once run() is serving, each posted handle and callable is eventually started
\* unless run() ends first: no wakeup of post() is lost.
PostedWorkStarts ==
  \A n \in 1..MaxPosts :
    /\ (Len(posted_h) >= n /\ loop # "idle") ~> (Len(started_h) >= n \/ loop = "idle")
    /\ (Len(posted_f) >= n /\ loop # "idle") ~> (Len(started_f) >= n \/ loop = "idle")

\* A stop request in force while run() executes a work item, whoever made it,
\* ends run() once the queues are drained: it is seen at the next predicate.
StopSeenAfterWork == (stop_requested_ /\ loop = "exec") ~> loop = "idle"

\* "Wakes all waiters so that run() can observe the stop request"
\* (scheduler.hpp:242): after stop() run() eventually returns.
StopEndsRun == stop_requested_ ~> loop = "idle"
===============================================================================
