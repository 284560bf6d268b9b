------------------------------ MODULE ThreadPool ------------------------------
(***************************************************************************)
(* core::thread_pool: worker threads serving one FIFO queue, coroutines    *)
(* that await a job's result, and the stop / shutdown protocol.            *)
(*                                                                         *)
(* A job is one call of submit().  Plain jobs come from submit(function);  *)
(* the others are awaited: their coroutine is suspended on the pool and    *)
(* its handle is posted to the io_context when the job is over.            *)
(***************************************************************************)
EXTENDS Naturals, FiniteSets, Sequences, SequencesExt

CONSTANTS Workers,  \* the pool's threads (the constructor makes one of zero)
          Clients,  \* all other threads
          Jobs,     \* bound: the calls of submit()
          Awaited,  \* the jobs a coroutine awaits
          None

Actors == Workers \cup Clients

ASSUME ThreadPoolAssumption ==
  /\ Workers # {} /\ IsFiniteSet(Workers)
  /\ Workers \cap Clients = {}
  /\ Awaited \subseteq Jobs
  /\ None \notin Jobs \cup Actors

VARIABLES
  q_, stop_, shutdown_done_,
  joiner,     \* the thread whose shutdown() cleared workers_, or None
  at,         \* at[w]: where worker w is (see WorkerStates)
  cur,        \* cur[w]: the job w holds
  call,       \* call[t]: what is left of the pool operation t is inside
  cancelled,  \* the awaited jobs whose token is cancelled
  result,     \* result[j]: store / ex of the awaitable of j
  posted,     \* the handles posted to the io_context, in order
  accepted,   \* history: jobs queued, in order
  started,    \* history: jobs taken off the queue, in order
  refused,    \* history: jobs enqueue() dropped
  early       \* history: jobs cancelled before a worker took them

vars == <<q_, stop_, shutdown_done_, joiner, at, cur, call, cancelled, result,
          posted, accepted, started, refused, early>>
pool == <<q_, stop_, shutdown_done_, joiner>>
coro == <<cancelled, result, posted, early>>
log == <<accepted, started, refused>>

\* top      about to lock m_ and evaluate the wait predicate
\* block    predicate was false; still holds m_
\* blocked  in the wait set of cv_
\* picked   took a job, m_ released
\* exec     inside the user's callable
\* ran      result stored, handle not yet posted
\* done     left worker_loop()
WorkerStates == {"top", "block", "blocked", "picked", "exec", "ran", "done"}
CallStates == {"none", "notify_one", "notify_all", "sd_stop", "sd_notify", "joining"}

TypeOK ==
  /\ q_ \in Seq(Jobs) /\ stop_ \in BOOLEAN /\ shutdown_done_ \in BOOLEAN
  /\ joiner \in Actors \cup {None}
  /\ at \in [Workers -> WorkerStates]
  /\ cur \in [Workers -> Jobs \cup {None}]
  /\ call \in [Actors -> CallStates]
  /\ cancelled \subseteq Awaited /\ early \subseteq cancelled
  /\ result \in [Awaited -> {"none", "value", "error", "cancelled"}]
  /\ posted \in Seq(Awaited)
  /\ accepted \in Seq(Jobs) /\ started \in Seq(Jobs) /\ refused \subseteq Jobs

Init ==
  /\ q_ = <<>> /\ stop_ = FALSE /\ shutdown_done_ = FALSE /\ joiner = None
  /\ at = [w \in Workers |-> "top"] /\ cur = [w \in Workers |-> None]
  /\ call = [t \in Actors |-> "none"]
  /\ cancelled = {} /\ early = {}
  /\ result = [j \in Awaited |-> "none"]
  /\ posted = <<>> /\ accepted = <<>> /\ started = <<>> /\ refused = {}

-------------------------------------------------------------------------------
(* Operations any thread may call; a worker calls them from its job.       *)

CanCall(t) == call[t] = "none" /\ (t \in Workers => at[t] = "exec")

Mut_LockFree == TRUE

\* m_ is held across steps only by a worker between a false predicate and its block.
LockFree == \A w \in Workers : at[w] # "block"

Fresh(j) == j \notin Range(accepted) \cup refused

\* enqueue() of a running pool.
Submit(t, j) ==
  /\ CanCall(t) /\ LockFree /\ Fresh(j)
  /\ ~stop_
  /\ q_' = Append(q_, j)
  /\ accepted' = Append(accepted, j)
  /\ call' = [call EXCEPT ![t] = "notify_one"]
  /\ UNCHANGED <<stop_, shutdown_done_, joiner, at, cur, coro, started, refused>>

\* enqueue() of a stopped pool returns without queueing, and tells nobody.
SubmitRefused(t, j) ==
  /\ CanCall(t) /\ LockFree /\ Fresh(j)
  /\ stop_
  /\ refused' = refused \cup {j}
  /\ UNCHANGED <<pool, at, cur, call, coro, accepted, started>>

Cancel(j) ==
  /\ j \notin cancelled
  /\ cancelled' = cancelled \cup {j}
  /\ early' = IF j \in Range(started) THEN early ELSE early \cup {j}
  /\ UNCHANGED <<pool, at, cur, call, result, posted, log>>

Stop(t) ==
  /\ CanCall(t) /\ LockFree
  /\ stop_' = TRUE
  /\ call' = [call EXCEPT ![t] = "notify_all"]
  /\ UNCHANGED <<q_, shutdown_done_, joiner, at, cur, coro, log>>

\* shutdown(), and the destructor that calls it: the compare-exchange.
Shutdown(t) ==
  /\ CanCall(t) /\ ~shutdown_done_
  /\ shutdown_done_' = TRUE
  /\ call' = [call EXCEPT ![t] = "sd_stop"]
  /\ UNCHANGED <<q_, stop_, joiner, at, cur, coro, log>>

\* (A shutdown() whose compare-exchange fails returns at once and changes
\* nothing.)

ShutdownStop(t) ==
  /\ call[t] = "sd_stop" /\ LockFree
  /\ stop_' = TRUE
  /\ call' = [call EXCEPT ![t] = "sd_notify"]
  /\ UNCHANGED <<q_, shutdown_done_, joiner, at, cur, coro, log>>

\* The wait set is {w : at[w] = "blocked"}.  notify_one wakes one member, if any.
NotifyOne(t) ==
  /\ call[t] = "notify_one"
  /\ call' = [call EXCEPT ![t] = "none"]
  /\ \/ \E w \in Workers : at[w] = "blocked" /\ at' = [at EXCEPT ![w] = "top"]
     \/ (\A w \in Workers : at[w] # "blocked") /\ UNCHANGED at
  /\ UNCHANGED <<pool, cur, coro, log>>

Mut_NotifyAll(t) ==
  /\ call[t] \in {"notify_all", "sd_notify"}
  /\ call' = [call EXCEPT ![t] = IF @ = "sd_notify" THEN "joining" ELSE "none"]
  /\ \/ \E w \in Workers : at[w] = "blocked" /\ at' = [at EXCEPT ![w] = "top"]
     \/ (\A w \in Workers : at[w] # "blocked") /\ UNCHANGED at
  /\ UNCHANGED <<pool, cur, coro, log>>

\* notify_all of stop() and of shutdown(), which goes on to join.
NotifyAll(t) ==
  /\ call[t] \in {"notify_all", "sd_notify"}
  /\ call' = [call EXCEPT ![t] = IF @ = "sd_notify" THEN "joining" ELSE "none"]
  /\ at' = [w \in Workers |-> IF at[w] = "blocked" THEN "top" ELSE at[w]]
  /\ UNCHANGED <<pool, cur, coro, log>>

Mut_Join(t) ==
  /\ call[t] = "joining"
  /\ \E w \in Workers : at[w] = "done"
  /\ joiner' = t
  /\ call' = [call EXCEPT ![t] = "none"]
  /\ UNCHANGED <<q_, stop_, shutdown_done_, at, cur, coro, log>>

\* Join every worker, detach oneself if one of them, clear workers_, return.
Join(t) ==
  /\ call[t] = "joining"
  /\ \A w \in Workers \ {t} : at[w] = "done"
  /\ joiner' = t
  /\ call' = [call EXCEPT ![t] = "none"]
  /\ UNCHANGED <<q_, stop_, shutdown_done_, at, cur, coro, log>>

-------------------------------------------------------------------------------
(* worker_loop().                                                          *)

Mut_Take(w) ==
  /\ at[w] = "top" /\ LockFree /\ q_ # <<>>
  /\ cur' = [cur EXCEPT ![w] = Last(q_)]
  /\ q_' = Front(q_)
  /\ started' = Append(started, Last(q_))
  /\ at' = [at EXCEPT ![w] = "picked"]
  /\ UNCHANGED <<stop_, shutdown_done_, joiner, call, coro, accepted, refused>>

Take(w) ==
  /\ at[w] = "top" /\ LockFree /\ q_ # <<>>
  /\ cur' = [cur EXCEPT ![w] = Head(q_)]
  /\ q_' = Tail(q_)
  /\ started' = Append(started, Head(q_))
  /\ at' = [at EXCEPT ![w] = "picked"]
  /\ UNCHANGED <<stop_, shutdown_done_, joiner, call, coro, accepted, refused>>

PredicateFalse(w) ==
  /\ at[w] = "top" /\ LockFree /\ q_ = <<>> /\ ~stop_
  /\ at' = [at EXCEPT ![w] = "block"]
  /\ UNCHANGED <<pool, cur, call, coro, log>>

Block(w) ==
  /\ at[w] = "block"
  /\ at' = [at EXCEPT ![w] = "blocked"]
  /\ UNCHANGED <<pool, cur, call, coro, log>>

SpuriousWakeup(w) ==
  /\ at[w] = "blocked"
  /\ at' = [at EXCEPT ![w] = "top"]
  /\ UNCHANGED <<pool, cur, call, coro, log>>

\* Stopped and drained: leave the loop.
Exit(w) ==
  /\ at[w] = "top" /\ LockFree /\ q_ = <<>> /\ stop_
  /\ at' = [at EXCEPT ![w] = "done"]
  /\ UNCHANGED <<pool, cur, call, coro, log>>

\* The job of an awaited call tests its token first: cancelled, it stores the
\* error without calling fn.
SkipCancelled(w) ==
  /\ at[w] = "picked" /\ cur[w] \in cancelled
  /\ result' = [result EXCEPT ![cur[w]] = "cancelled"]
  /\ at' = [at EXCEPT ![w] = "ran"]
  /\ UNCHANGED <<pool, cur, call, cancelled, posted, early, log>>

Mut_Enter(w) ==
  /\ at[w] = "picked"
  /\ at' = [at EXCEPT ![w] = "exec"]
  /\ UNCHANGED <<pool, cur, call, coro, log>>

Enter(w) ==
  /\ at[w] = "picked" /\ cur[w] \notin cancelled
  /\ at' = [at EXCEPT ![w] = "exec"]
  /\ UNCHANGED <<pool, cur, call, coro, log>>

\* fn() of a plain job returned or threw: worker_loop() swallows the exception.
EndPlain(w) ==
  /\ at[w] = "exec" /\ call[w] = "none" /\ cur[w] \notin Awaited
  /\ cur' = [cur EXCEPT ![w] = None]
  /\ at' = [at EXCEPT ![w] = "top"]
  /\ UNCHANGED <<pool, call, coro, log>>

\* fn() of an awaited job returned a value, or its exception was captured.
EndAwaited(w) ==
  /\ at[w] = "exec" /\ call[w] = "none" /\ cur[w] \in Awaited
  /\ \E r \in {"value", "error"} : result' = [result EXCEPT ![cur[w]] = r]
  /\ at' = [at EXCEPT ![w] = "ran"]
  /\ UNCHANGED <<pool, cur, call, cancelled, posted, early, log>>

Mut_PostBack(w) ==
  /\ at[w] \in {"ran", "picked"} /\ cur[w] \in Awaited
  /\ posted' = Append(posted, cur[w])
  /\ at' = [at EXCEPT ![w] = IF @ = "ran" THEN "top" ELSE "exec"]
  /\ cur' = [cur EXCEPT ![w] = IF at[w] = "ran" THEN None ELSE @]
  /\ UNCHANGED <<pool, call, cancelled, result, early, log>>

\* pool->ctx_post(h).
PostBack(w) ==
  /\ at[w] = "ran"
  /\ posted' = Append(posted, cur[w])
  /\ cur' = [cur EXCEPT ![w] = None]
  /\ at' = [at EXCEPT ![w] = "top"]
  /\ UNCHANGED <<pool, call, cancelled, result, early, log>>

-------------------------------------------------------------------------------
InCall(t) == ShutdownStop(t) \/ NotifyOne(t) \/ NotifyAll(t) \/ Join(t)

Client(t) ==
  \/ \E j \in Jobs : Submit(t, j) \/ SubmitRefused(t, j)
  \/ Stop(t) \/ Shutdown(t)

WorkerStep(w) ==
  \/ Take(w) \/ PredicateFalse(w) \/ Block(w) \/ Exit(w)
  \/ SkipCancelled(w) \/ Enter(w) \/ PostBack(w)

EndJob(w) == EndPlain(w) \/ EndAwaited(w)

Next ==
  \/ \E t \in Actors : Client(t) \/ InCall(t)
  \/ \E j \in Awaited : Cancel(j)
  \/ \E w \in Workers : WorkerStep(w) \/ EndJob(w) \/ SpuriousWakeup(w)

Spec == Init /\ [][Next]_vars

\* Every thread that can run is run; m_ is handed to every thread that keeps
\* asking for it while it keeps being free; a user's callable ends.
Fairness ==
  /\ \A w \in Workers : SF_vars(WorkerStep(w)) /\ SF_vars(EndJob(w))
  /\ \A t \in Actors : SF_vars(InCall(t))

FairSpec == Spec /\ Fairness

-------------------------------------------------------------------------------
(* Properties.                                                             *)

\* "simple FIFO execution" (thread_pool.hpp:102): with any number of workers
\* the accepted jobs are started once each, in order; none is dropped by stop().
FifoNothingLost == accepted = started \o q_

\* A worker sleeps only when the jobs in the queue are no more than the workers
\* on their way to it and the notifications on their way to a sleeper: enqueue()
\* wakes one worker per job, and no job waits for a busy worker while another sleeps.
WorkersFollowJobs ==
  (\E w \in Workers : at[w] = "blocked") =>
    Len(q_) <= Cardinality({w \in Workers : at[w] = "top"})
               + Cardinality({t \in Actors : call[t] = "notify_one"})

\* A handle is posted to the io_context at most once, after its job's outcome is
\* stored: await_resume() finds a value or an exception.
ResumedOnceWithOutcome ==
  /\ IsInjective(posted)
  /\ \A j \in Range(posted) : result[j] # "none"

\* "If the cancellation token is already cancelled before execution starts, the
\* coroutine resumes with a cancelled system_error" (thread_pool.hpp:148).
EarlyCancelWins ==
  \A j \in early : result[j] \in {"none", "cancelled"}

\* When a client's shutdown() has joined the workers, the queue is drained and
\* every coroutine whose job was accepted has been posted.
JoinedMeansFinished ==
  joiner \in Clients =>
    /\ q_ = <<>>
    /\ \A w \in Workers : at[w] = "done"
    /\ Range(accepted) \cap Awaited \subseteq Range(posted)

\* An accepted job's coroutine is eventually posted, whoever stops the pool.
AcceptedResumes ==
  \A j \in Awaited : j \in Range(accepted) ~> j \in Range(posted)

\* The shutdown() that wins the compare-exchange eventually returns, also when
\* it is called from a worker: no join waits for itself.
ShutdownReturns == shutdown_done_ ~> joiner # None
===============================================================================
