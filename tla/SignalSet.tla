------------------------------ MODULE SignalSet ------------------------------
(***************************************************************************)
(* core::signal_set: a worker thread in sigwait(), the queue of captured   *)
(* signals, the job that the worker posts to the loop for each of them,    *)
(* and coroutines in async_wait().                                         *)
(*                                                                         *)
(* Coroutines and jobs run on the loop thread, one at a time, handles      *)
(* before jobs; a step is one critical section of m_.  The program keeps   *)
(* the signals it watches blocked in its other threads, as sigwait()       *)
(* demands, so that a signal raised stays pending until it is taken.       *)
(***************************************************************************)
EXTENDS Naturals, FiniteSets, Sequences

CONSTANTS Signals,   \* signal numbers
          Waiters,   \* coroutines that call async_wait(), again and again
          None,      \* no signal (0 in the code), no waiter
          Free, Job, \* the loop thread between two items, and inside a job
          MaxRaised  \* bound: signals raised

ASSUME SignalSetAssumption ==
  /\ MaxRaised \in Nat
  /\ None \notin Signals \cup Waiters
  /\ Free # Job /\ Free \notin Waiters /\ Job \notin Waiters

VARIABLES
  signals_,    \* a set: duplicates change neither sigaddset() nor remove()
  on_signal_,  \* a callback is registered
  pending_, started_, stop_,
  waiter_,     \* waiter_ and waiter_active_: None when not active
  raised,      \* external: signals pending in the process
  worker,      \* where worker_loop() is (see WorkerStates)
  sigs_copy, received,  \* its locals
  jobs,        \* its jobs in the loop's callable queue
  loop,        \* what the loop thread is doing: Free, Job or a coroutine
  job,         \* the running job's locals: sig, waiter, handler
  co,          \* co[w]: where coroutine w is (see CoStates)
  sig,         \* sig[w]: the awaitable's member
  cancelled,   \* coroutines whose current token is cancelled
  count,       \* bound: signals raised so far
  captured,    \* history: captured[s], times s was put in pending_ by the worker
  used         \* history: used[s], times s left it for good

worker_vars == <<worker, sigs_copy, received>>
coroutines == <<co, sig>>
config == <<signals_, on_signal_, started_, stop_>>
log == <<captured, used>>
vars == <<signals_, on_signal_, pending_, started_, stop_, waiter_, raised, worker,
          sigs_copy, received, jobs, loop, job, co, sig, cancelled, count, captured, used>>

\* none, top, sigwait (with sigs_copy), got (received), post, done
WorkerStates == {"none", "top", "sigwait", "got", "post", "done"}
\* idle       not in async_wait()
\* started    before await_ready()
\* checked    await_ready() was false
\* suspended  registered as the waiter
\* posted     its handle is in the loop's queue
\* ready      about to await_resume() without having been suspended
\* lost       suspended, and its handle is nowhere any more
CoStates == {"idle", "started", "checked", "suspended", "posted", "ready", "lost"}

NoJob == [sig |-> None, waiter |-> None, handler |-> FALSE]

TypeOK ==
  /\ signals_ \subseteq Signals /\ raised \subseteq Signals /\ sigs_copy \subseteq Signals
  /\ on_signal_ \in BOOLEAN /\ started_ \in BOOLEAN /\ stop_ \in BOOLEAN
  /\ pending_ \in Seq(Signals) /\ waiter_ \in Waiters \cup {None}
  /\ worker \in WorkerStates /\ received \in Signals \cup {None}
  /\ jobs \in 0..MaxRaised /\ loop \in {Free, Job} \cup Waiters
  /\ job \in [sig : Signals \cup {None}, waiter : Waiters \cup {None}, handler : BOOLEAN]
  /\ co \in [Waiters -> CoStates] /\ sig \in [Waiters -> Signals \cup {None}]
  /\ cancelled \subseteq Waiters /\ count \in 0..MaxRaised
  /\ captured \in [Signals -> 0..MaxRaised] /\ used \in [Signals -> 0..MaxRaised]

Init ==
  /\ signals_ = {} /\ on_signal_ = FALSE /\ started_ = FALSE /\ stop_ = FALSE
  /\ pending_ = <<>> /\ waiter_ = None /\ raised = {}
  /\ worker = "none" /\ sigs_copy = {} /\ received = None
  /\ jobs = 0 /\ loop = Free /\ job = NoJob
  /\ co = [w \in Waiters |-> "idle"] /\ sig = [w \in Waiters |-> None]
  /\ cancelled = {} /\ count = 0
  /\ captured = [s \in Signals |-> 0] /\ used = [s \in Signals |-> 0]

-------------------------------------------------------------------------------
(* Called from any thread.                                                 *)

Add(s) ==
  /\ s \notin signals_
  /\ signals_' = signals_ \cup {s}
  /\ UNCHANGED <<on_signal_, pending_, started_, stop_, waiter_, raised, worker_vars,
                 jobs, loop, job, coroutines, cancelled, count, log>>

Remove(s) ==
  /\ s \in signals_
  /\ signals_' = signals_ \ {s}
  /\ UNCHANGED <<on_signal_, pending_, started_, stop_, waiter_, raised, worker_vars,
                 jobs, loop, job, coroutines, cancelled, count, log>>

OnSignal ==
  /\ on_signal_' = ~on_signal_
  /\ UNCHANGED <<signals_, pending_, started_, stop_, waiter_, raised, worker_vars,
                 jobs, loop, job, coroutines, cancelled, count, log>>

Stop ==
  /\ stop_' = TRUE
  /\ UNCHANGED <<signals_, on_signal_, pending_, started_, waiter_, raised, worker_vars,
                 jobs, loop, job, coroutines, cancelled, count, log>>

\* request_cancel() on the token of the wait w is in.
Cancel(w) ==
  /\ co[w] # "idle"
  /\ cancelled' = cancelled \cup {w}
  /\ UNCHANGED <<config, pending_, waiter_, raised, worker_vars, jobs, loop, job,
                 coroutines, count, log>>

\* External: a signal is sent to the process; one already pending is merged.
Raise(s) ==
  /\ count < MaxRaised
  /\ count' = count + 1
  /\ raised' = raised \cup {s}
  /\ UNCHANGED <<config, pending_, waiter_, worker_vars, jobs, loop, job,
                 coroutines, cancelled, log>>

-------------------------------------------------------------------------------
(* worker_loop().                                                          *)

\* With no signal registered the worker sleeps and looks again.
Top ==
  /\ worker = "top"
  /\ \/ stop_ /\ worker' = "done" /\ UNCHANGED sigs_copy
     \/ ~stop_ /\ signals_ # {} /\ worker' = "sigwait" /\ sigs_copy' = signals_
  /\ UNCHANGED <<config, pending_, waiter_, raised, received, jobs, loop, job,
                 coroutines, cancelled, count, log>>

\* sigwait() takes a pending signal of its set.
Sigwait(s) ==
  /\ worker = "sigwait" /\ s \in raised \cap sigs_copy
  /\ raised' = raised \ {s}
  /\ received' = s
  /\ worker' = "got"
  /\ UNCHANGED <<config, pending_, waiter_, sigs_copy, jobs, loop, job, coroutines,
                 cancelled, count, log>>

\* rc != 0.
SigwaitFails ==
  /\ worker = "sigwait"
  /\ worker' = "top"
  /\ UNCHANGED <<config, pending_, waiter_, raised, sigs_copy, received, jobs, loop,
                 job, coroutines, cancelled, count, log>>

\* A signal received after stop() is dropped.
Capture ==
  /\ worker = "got"
  /\ received' = None
  /\ IF stop_
     THEN worker' = "done" /\ UNCHANGED <<pending_, captured>>
     ELSE /\ worker' = "post"
          /\ pending_' = Append(pending_, received)
          /\ captured' = [captured EXCEPT ![received] = @ + 1]
  /\ UNCHANGED <<config, waiter_, raised, sigs_copy, jobs, loop, job, coroutines,
                 cancelled, count, used>>

Post ==
  /\ worker = "post"
  /\ jobs' = jobs + 1
  /\ worker' = "top"
  /\ UNCHANGED <<config, pending_, waiter_, raised, sigs_copy, received, loop, job,
                 coroutines, cancelled, count, log>>

-------------------------------------------------------------------------------
(* async_wait(), on the loop thread.                                       *)

StartIfNeeded(w) ==
  /\ loop = Free /\ co[w] = "idle"
  /\ loop' = w
  /\ co' = [co EXCEPT ![w] = "started"]
  /\ cancelled' = cancelled \ {w}
  /\ started_' = TRUE
  /\ worker' = IF started_ THEN worker ELSE "top"
  /\ UNCHANGED <<signals_, on_signal_, stop_, pending_, waiter_, raised, sigs_copy,
                 received, jobs, job, sig, count, log>>

\* sig = pending_.front(); pending_.pop()
TakePending(w) ==
  /\ sig' = [sig EXCEPT ![w] = Head(pending_)]
  /\ pending_' = Tail(pending_)

AwaitReady(w) ==
  /\ co[w] = "started"
  /\ IF pending_ # <<>>
     THEN TakePending(w) /\ co' = [co EXCEPT ![w] = "ready"]
     ELSE co' = [co EXCEPT ![w] = "checked"] /\ UNCHANGED <<sig, pending_>>
  /\ UNCHANGED <<config, waiter_, raised, worker_vars, jobs, loop, job, cancelled, count, log>>

\* Cancelled, or a signal has come since await_ready(): go on through the loop.
\* Otherwise register, over any other waiter.
AwaitSuspend(w) ==
  /\ co[w] = "checked"
  /\ loop' = Free
  /\ \/ /\ w \in cancelled
        /\ co' = [co EXCEPT ![w] = "posted"] /\ UNCHANGED <<waiter_, pending_, sig>>
     \/ /\ w \notin cancelled /\ pending_ # <<>>
        /\ TakePending(w)
        /\ co' = [co EXCEPT ![w] = "posted"] /\ UNCHANGED waiter_
     \/ /\ w \notin cancelled /\ pending_ = <<>>
        /\ waiter_' = w
        /\ co' = [v \in Waiters |-> IF v = w THEN "suspended"
                                    ELSE IF v = waiter_ THEN "lost" ELSE co[v]]
        /\ UNCHANGED <<pending_, sig>>
  /\ UNCHANGED <<config, raised, worker_vars, jobs, job, cancelled, count, log>>

\* await_resume() returns sig, or throws if cancelled: sig is gone either way.
AwaitResume(w) ==
  /\ \/ co[w] = "ready"
     \/ co[w] = "posted" /\ loop = Free
  /\ loop' = Free
  /\ co' = [co EXCEPT ![w] = "idle"]
  /\ used' = [s \in Signals |-> used[s] + (IF sig[w] = s THEN 1 ELSE 0)]
  /\ sig' = [sig EXCEPT ![w] = None]
  /\ UNCHANGED <<config, pending_, waiter_, raised, worker_vars, jobs, job, cancelled,
                 count, captured>>

-------------------------------------------------------------------------------
(* The job.                                                                *)

CanRunJob == loop = Free /\ jobs > 0 /\ \A w \in Waiters : co[w] # "posted"

JobNothing ==
  /\ CanRunJob /\ pending_ = <<>>
  /\ jobs' = jobs - 1
  /\ UNCHANGED <<config, pending_, waiter_, raised, worker_vars, loop, job, coroutines,
                 cancelled, count, log>>

Mut_JobTake ==
  /\ CanRunJob /\ pending_ # <<>>
  /\ jobs' = jobs - 1
  /\ job' = [sig |-> Head(pending_), waiter |-> waiter_, handler |-> on_signal_]
  /\ pending_' = Tail(pending_)
  /\ loop' = Job
  /\ UNCHANGED <<config, waiter_, raised, worker_vars, coroutines, cancelled, count, log>>

Mut_JobTakeEither ==
  /\ CanRunJob /\ pending_ # <<>>
  /\ jobs' = jobs - 1
  /\ job' = [sig |-> Head(pending_), handler |-> on_signal_,
             waiter |-> IF on_signal_ THEN None ELSE waiter_]
  /\ pending_' = Tail(pending_)
  /\ waiter_' = IF on_signal_ THEN waiter_ ELSE None
  /\ loop' = Job
  /\ UNCHANGED <<config, raised, worker_vars, coroutines, cancelled, count, log>>

\* The oldest pending signal, the callback and the waiter are taken.
JobTake ==
  /\ CanRunJob /\ pending_ # <<>>
  /\ jobs' = jobs - 1
  /\ job' = [sig |-> Head(pending_), waiter |-> waiter_, handler |-> on_signal_]
  /\ pending_' = Tail(pending_)
  /\ waiter_' = None
  /\ loop' = Job
  /\ UNCHANGED <<config, raised, worker_vars, coroutines, cancelled, count, log>>

Mut_JobEnd ==
  /\ loop = Job
  /\ pending_' = IF job.handler THEN pending_ ELSE Append(pending_, job.sig)
  /\ co' = [w \in Waiters |-> IF w = job.waiter THEN "posted" ELSE co[w]]
  /\ job' = NoJob
  /\ loop' = Free
  /\ UNCHANGED <<config, waiter_, raised, worker_vars, jobs, sig, cancelled, count, log>>

Mut_JobEndSilent ==
  /\ loop = Job
  /\ pending_' = Append(pending_, job.sig)
  /\ co' = [w \in Waiters |-> IF w = job.waiter /\ ~job.handler THEN "posted" ELSE co[w]]
  /\ job' = NoJob
  /\ loop' = Free
  /\ UNCHANGED <<config, waiter_, raised, worker_vars, jobs, sig, cancelled, count, log>>

\* The callback, if any, has returned: the signal goes to the back of pending_
\* and the waiter, if any, to the loop.
JobEnd ==
  /\ loop = Job
  /\ pending_' = Append(pending_, job.sig)
  /\ co' = [w \in Waiters |-> IF w = job.waiter THEN "posted" ELSE co[w]]
  /\ job' = NoJob
  /\ loop' = Free
  /\ UNCHANGED <<config, waiter_, raised, worker_vars, jobs, sig, cancelled, count, log>>

\* The callback throws, through the job and out of run(): the signal and the
\* waiter's handle go with the job's locals.
HandlerThrows ==
  /\ loop = Job /\ job.handler
  /\ used' = [used EXCEPT ![job.sig] = @ + 1]
  /\ co' = [w \in Waiters |-> IF w = job.waiter THEN "lost" ELSE co[w]]
  /\ job' = NoJob
  /\ loop' = Free
  /\ UNCHANGED <<config, pending_, waiter_, raised, worker_vars, jobs, sig, cancelled,
                 count, captured>>

-------------------------------------------------------------------------------
WorkerStep == Top \/ Capture \/ Post

CoStep(w) == AwaitReady(w) \/ AwaitSuspend(w) \/ AwaitResume(w)

RunJob == JobNothing \/ JobTake

EndJob == JobEnd \/ HandlerThrows

Next ==
  \/ \E s \in Signals : Add(s) \/ Remove(s) \/ Raise(s) \/ Sigwait(s)
  \/ OnSignal \/ Stop \/ SigwaitFails \/ WorkerStep \/ RunJob \/ EndJob
  \/ \E w \in Waiters : StartIfNeeded(w) \/ CoStep(w) \/ Cancel(w)

Spec == Init /\ [][Next]_vars

\* Both threads run, sigwait() does not fail for ever while it could succeed,
\* and coroutines do not call async_wait() so often that the loop never comes to
\* its callables.
Fairness ==
  /\ WF_vars(WorkerStep) /\ WF_vars(EndJob) /\ SF_vars(RunJob)
  /\ \A s \in Signals : SF_vars(Sigwait(s))
  /\ \A w \in Waiters : WF_vars(CoStep(w))

FairSpec == Spec /\ Fairness

-------------------------------------------------------------------------------
(* Properties.                                                             *)

Occurrences(s) ==
  Cardinality({k \in DOMAIN pending_ : pending_[k] = s})
  + (IF job.sig = s THEN 1 ELSE 0)
  + Cardinality({w \in Waiters : sig[w] = s})

\* A signal captured is in pending_, in the running job or in the awaitable that
\* took it, once, until a wait completes with it or a callback throws: the job's
\* way of taking it out and putting it back neither loses nor doubles it.
SignalsConserved ==
  \A s \in Signals : captured[s] = Occurrences(s) + used[s]

\* async_wait() registers only when it has found pending_ empty, the worker posts
\* a job after each capture, and a job that puts a signal back has taken the
\* waiter: no coroutine stays registered beside a captured signal without a job
\* to come.
NoMissedSignal ==
  waiter_ # None /\ pending_ # <<>> => jobs > 0 \/ worker = "post"

\* A handle kept in waiter_ or by the job is that of a suspended coroutine, and
\* is kept in one place: nobody resumes a coroutine twice or while it runs.
HeldHandleIsSuspended ==
  /\ waiter_ # None => co[waiter_] = "suspended" /\ job.waiter # waiter_
  /\ job.waiter # None => co[job.waiter] = "suspended"

\* A signal that sigwait() is waiting for wakes the registered coroutine, unless
\* the set is stopped, the signal removed or another wait takes it meanwhile.
SignalWakesWaiter ==
  \A w \in Waiters, s \in Signals :
    (waiter_ = w /\ worker = "sigwait" /\ s \in raised \cap sigs_copy)
      ~> (co[w] # "suspended" \/ stop_ \/ s \notin signals_
          \/ \E v \in Waiters \ {w} : sig[v] # None)

\* "The returned task completes with the signal number once available"
\* (signal.hpp:99): a wait that is not cancelled returns a signal.
WaitReturnsSignal ==
  [][\A w \in Waiters :
       co[w] \in {"ready", "posted"} /\ co'[w] = "idle" /\ w \notin cancelled
         => sig[w] # None]_vars
===============================================================================
