--------------------------- MODULE SignalSetProofs ---------------------------
(***************************************************************************)
(* Theorems about SignalSet for any signals, coroutines and number of      *)
(* signals raised.                                                         *)
(***************************************************************************)
EXTENDS SignalSet, FiniteSetTheorems, SequenceTheorems, TLAPS

\* The types the proofs need.
Types ==
  /\ co \in [Waiters -> CoStates] /\ jobs \in Nat
  /\ waiter_ \in Waiters \cup {None} /\ job.waiter \in Waiters \cup {None}

\* Only the coroutine on the loop thread is inside async_wait()'s critical
\* sections, and while a job is there nobody is registered.
OnLoop ==
  /\ \A w \in Waiters : co[w] \in {"started", "checked", "ready"} => loop = w
  /\ loop = Job => waiter_ = None

NotStarted == ~started_ => worker = "none"

IInv == Types /\ OnLoop /\ NotStarted /\ NoMissedSignal /\ HeldHandleIsSuspended

-------------------------------------------------------------------------------
\* A new set has no worker, no waiter and nothing pending.
LEMMA InitIInv == Init => IInv
  BY DEF Init, IInv, Types, OnLoop, NotStarted, NoMissedSignal, HeldHandleIsSuspended, NoJob,
         CoStates

\* The worker, its jobs and the coroutines on the loop keep IInv.
LEMMA StepIInv ==
  ASSUME IInv, [Next]_vars
  PROVE  IInv'
<1> USE SignalSetAssumption DEF IInv
<1>1. ASSUME UNCHANGED <<started_, pending_, waiter_, worker, jobs, loop, job, co>>
      PROVE  IInv'
  BY <1>1 DEF Types, OnLoop, NotStarted, NoMissedSignal, HeldHandleIsSuspended
<1>2. ASSUME \/ \E s \in Signals : Add(s) \/ Remove(s) \/ Raise(s)
             \/ OnSignal \/ Stop \/ UNCHANGED vars \/ \E w \in Waiters : Cancel(w)
      PROVE  UNCHANGED <<started_, pending_, waiter_, worker, jobs, loop, job, co>>
  BY <1>2 DEF Add, Remove, Raise, OnSignal, Stop, Cancel, vars, config, worker_vars, coroutines
<1>3. ASSUME \/ Top \/ SigwaitFails \/ Capture \/ Post \/ \E s \in Signals : Sigwait(s)
      PROVE  IInv'
  <2>1. UNCHANGED <<started_, waiter_, loop, job, co>> /\ (jobs' = jobs \/ jobs' = jobs + 1)
    BY <1>3 DEF Top, SigwaitFails, Capture, Post, Sigwait, config, coroutines
  <2>2. worker # "none" /\ started_
    BY <1>3 DEF Top, SigwaitFails, Capture, Post, Sigwait, NotStarted
  <2>3. NoMissedSignal'
    BY <1>3 DEF Types, NoMissedSignal, Top, SigwaitFails, Capture, Post, Sigwait
  <2>4. QED
    BY <2>1, <2>2, <2>3 DEF Types, OnLoop, NotStarted, HeldHandleIsSuspended
<1>4. ASSUME NEW w \in Waiters, StartIfNeeded(w)
      PROVE  IInv'
  <2>1. /\ loop = Free /\ loop' = w /\ co[w] = "idle" /\ co' = [co EXCEPT ![w] = "started"]
        /\ started_' = TRUE /\ worker' = (IF started_ THEN worker ELSE "top")
        /\ UNCHANGED <<pending_, waiter_, jobs, job>>
    BY <1>4 DEF StartIfNeeded
  <2>2. Types' /\ HeldHandleIsSuspended'
    BY <2>1 DEF Types, CoStates, HeldHandleIsSuspended
  <2>3. OnLoop'
    BY <2>1 DEF Types, OnLoop
  <2>4. NoMissedSignal' /\ NotStarted'
    BY <2>1 DEF NoMissedSignal, NotStarted
  <2>5. QED
    BY <2>2, <2>3, <2>4
<1>5. ASSUME NEW w \in Waiters, AwaitReady(w)
      PROVE  IInv'
  <2>1. /\ co[w] = "started" /\ co' \in {[co EXCEPT ![w] = "ready"], [co EXCEPT ![w] = "checked"]}
        /\ pending_' # <<>> => pending_ # <<>>
        /\ UNCHANGED <<started_, waiter_, worker, jobs, loop, job>>
    BY <1>5 DEF AwaitReady, TakePending, config, worker_vars
  <2>2. QED
    BY <2>1 DEF Types, CoStates, OnLoop, NotStarted, NoMissedSignal, HeldHandleIsSuspended
<1>6. ASSUME NEW w \in Waiters, AwaitSuspend(w)
      PROVE  IInv'
  <2>1. /\ co[w] = "checked" /\ loop = w /\ loop' = Free
        /\ UNCHANGED <<started_, worker, jobs, job>>
    BY <1>6 DEF AwaitSuspend, config, worker_vars, OnLoop
  <2>2. CASE /\ co' = [co EXCEPT ![w] = "posted"] /\ waiter_' = waiter_
             /\ pending_' # <<>> => pending_ # <<>>
    BY <2>1, <2>2 DEF Types, CoStates, OnLoop, NotStarted, NoMissedSignal, HeldHandleIsSuspended
  <2>3. CASE /\ waiter_' = w /\ pending_' = pending_ /\ pending_ = <<>>
             /\ co' = [v \in Waiters |-> IF v = w THEN "suspended"
                                         ELSE IF v = waiter_ THEN "lost" ELSE co[v]]
    <3>1. Types' /\ OnLoop'
      BY <2>1, <2>3 DEF Types, CoStates, OnLoop
    <3>2. HeldHandleIsSuspended'
      BY <2>1, <2>3 DEF Types, HeldHandleIsSuspended
    <3>3. QED
      BY <2>1, <2>3, <3>1, <3>2 DEF NotStarted, NoMissedSignal
  <2>4. QED
    BY <1>6, <2>2, <2>3 DEF AwaitSuspend, TakePending
<1>7. ASSUME NEW w \in Waiters, AwaitResume(w)
      PROVE  IInv'
  <2>1. /\ co[w] \in {"ready", "posted"} /\ loop' = Free /\ co' = [co EXCEPT ![w] = "idle"]
        /\ loop = w \/ loop = Free
        /\ UNCHANGED <<started_, pending_, waiter_, worker, jobs, job>>
    BY <1>7 DEF AwaitResume, config, worker_vars, OnLoop
  <2>2. OnLoop'
    BY <2>1 DEF Types, OnLoop
  <2>3. QED
    BY <2>1, <2>2 DEF Types, CoStates, NotStarted, NoMissedSignal, HeldHandleIsSuspended
<1>8. CASE JobNothing
  BY <1>8 DEF JobNothing, CanRunJob, config, worker_vars, coroutines, Types, OnLoop, NotStarted,
              NoMissedSignal, HeldHandleIsSuspended
<1>9. CASE JobTake
  <2>1. /\ loop = Free /\ loop' = Job /\ waiter_' = None /\ job'.waiter = waiter_ /\ jobs' \in Nat
        /\ UNCHANGED <<started_, worker, co>>
    BY <1>9 DEF JobTake, CanRunJob, config, worker_vars, coroutines, Types
  <2>2. QED
    BY <2>1 DEF Types, OnLoop, NotStarted, NoMissedSignal, HeldHandleIsSuspended
<1>10. CASE JobEnd \/ HandlerThrows
  <2>1. /\ loop = Job /\ loop' = Free /\ job'.waiter = None
        /\ \E x \in {"posted", "lost"} :
             co' = [v \in Waiters |-> IF v = job.waiter THEN x ELSE co[v]]
        /\ UNCHANGED <<started_, worker, waiter_, jobs>>
    BY <1>10 DEF JobEnd, HandlerThrows, NoJob, config, worker_vars
  <2>2. waiter_ = None
    BY <2>1 DEF OnLoop
  <2>3. Types' /\ OnLoop'
    BY <2>1, <2>2 DEF Types, CoStates, OnLoop
  <2>4. QED
    BY <2>1, <2>2, <2>3 DEF NotStarted, NoMissedSignal, HeldHandleIsSuspended
<1>11. QED
  BY <1>1, <1>2, <1>3, <1>4, <1>5, <1>6, <1>7, <1>8, <1>9, <1>10
     DEF Next, WorkerStep, CoStep, RunJob, EndJob

\* IInv holds in every reachable state of the signal set.
LEMMA Inductive == Spec => []IInv
  BY InitIInv, StepIInv, PTL DEF Spec

-------------------------------------------------------------------------------
(* The theorems.                                                           *)

\* No coroutine stays registered beside a captured signal without a job to come:
\* the second look at pending_ in await_suspend() closes the window.
THEOREM MissedSignalTheorem == Spec => []NoMissedSignal
  BY Inductive, PTL DEF IInv

\* waiter_ and the job hold handles of suspended coroutines only, never the same.
THEOREM HeldHandleTheorem == Spec => []HeldHandleIsSuspended
  BY Inductive, PTL DEF IInv

-------------------------------------------------------------------------------
(* SignalsConserved counts.                                                *)

\* Where a queue holds signal s, and the coroutines that have taken it.
Places(q, s) == {k \in DOMAIN q : q[k] = s}
Takers(s) == {w \in Waiters : sig[w] = s}

\* Pushing a signal adds one place.
LEMMA CountAppend ==
  ASSUME NEW q \in Seq(Signals), NEW x \in Signals, NEW s \in Signals
  PROVE  /\ Cardinality(Places(q, s)) \in Nat
         /\ Cardinality(Places(Append(q, x), s)) = Cardinality(Places(q, s)) + (IF x = s THEN 1 ELSE 0)
<1>1. /\ Len(q) \in Nat /\ DOMAIN q = 1..Len(q) /\ DOMAIN Append(q, x) = 1..Len(q) + 1
      /\ Append(q, x)[Len(q) + 1] = x /\ \A k \in 1..Len(q) : Append(q, x)[k] = q[k]
  BY LenProperties, AppendProperties
<1>2. IsFiniteSet(Places(q, s))
  <2>1. IsFiniteSet(1..Len(q))
    BY <1>1, FS_Interval
  <2>2. QED
    BY <1>1, <2>1, FS_Subset DEF Places
<1>3. Places(Append(q, x), s) = IF x = s THEN Places(q, s) \cup {Len(q) + 1} ELSE Places(q, s)
  BY <1>1 DEF Places
<1>4. Len(q) + 1 \notin Places(q, s)
  BY <1>1 DEF Places
<1>5. QED
  BY <1>2, <1>3, <1>4, FS_AddElement, FS_CardinalityType

\* Popping takes one away.
LEMMA CountTail ==
  ASSUME NEW q \in Seq(Signals), q # <<>>, NEW s \in Signals
  PROVE  /\ Tail(q) \in Seq(Signals) /\ Head(q) \in Signals
         /\ Cardinality(Places(Tail(q), s)) \in Nat
         /\ Cardinality(Places(q, s)) = Cardinality(Places(Tail(q), s)) + (IF Head(q) = s THEN 1 ELSE 0)
<1> DEFINE S == Places(Tail(q), s)
           T == Places(q, s) \ {1}
           f == [k \in S |-> k + 1]
<1>1. /\ Tail(q) \in Seq(Signals) /\ Head(q) \in Signals /\ Head(q) = q[1]
      /\ Len(q) \in Nat \ {0} /\ DOMAIN q = 1..Len(q) /\ DOMAIN Tail(q) = 1..Len(q) - 1
      /\ \A k \in 1..Len(q) - 1 : Tail(q)[k] = q[k + 1]
  BY LenProperties, HeadTailProperties, EmptySeq
<1>2. IsFiniteSet(S) /\ IsFiniteSet(Places(q, s))
  <2>1. IsFiniteSet(1..Len(q)) /\ IsFiniteSet(1..Len(q) - 1)
    BY <1>1, FS_Interval
  <2>2. QED
    BY <1>1, <2>1, FS_Subset DEF Places
<1>3. f \in Bijection(S, T)
  <2>1. f \in [S -> T] /\ \A a, b \in S : f[a] = f[b] => a = b
    BY <1>1 DEF Places
  <2>2. ASSUME NEW t \in T
        PROVE  \E k \in S : f[k] = t
    <3>1. t - 1 \in S /\ f[t - 1] = t
      BY <1>1 DEF Places
    <3>2. QED
      BY <3>1
  <2>3. QED
    BY <2>1, <2>2 DEF Bijection, Injection, Surjection, IsInjective
<1>4. Cardinality(T) = Cardinality(S) /\ Cardinality(S) \in Nat
  BY <1>2, <1>3, FS_Bijection, FS_CardinalityType DEF ExistsBijection
<1>5. Cardinality(T) = IF Head(q) = s THEN Cardinality(Places(q, s)) - 1 ELSE Cardinality(Places(q, s))
  <2>1. 1 \in Places(q, s) <=> Head(q) = s
    BY <1>1 DEF Places
  <2>2. QED
    BY <1>2, <2>1, FS_RemoveElement
<1>6. Cardinality(Places(q, s)) \in Nat
  BY <1>2, FS_CardinalityType
<1>7. QED
  BY <1>1, <1>4, <1>5, <1>6

\* The types of what is counted, and who carries a signal when: the job while it
\* runs, and a coroutine that is about to return from async_wait().
Carried ==
  /\ pending_ \in Seq(Signals) /\ sig \in [Waiters -> Signals \cup {None}]
  /\ captured \in [Signals -> Nat] /\ used \in [Signals -> Nat]
  /\ worker = "got" => received \in Signals
  /\ IF loop = Job THEN job.sig \in Signals ELSE job.sig = None
  /\ \A w \in Waiters : sig[w] # None => co[w] \in {"ready", "posted"}

\* The sets that are counted are finite.
FinitelyTaken == \A s \in Signals : IsFiniteSet(Takers(s))

\* Signals keep their carriers.
LEMMA CarriedStep ==
  ASSUME IInv, Carried, [Next]_vars
  PROVE  Carried'
<1> USE SignalSetAssumption
<1>0. co \in [Waiters -> CoStates]
  BY DEF IInv, Types
<1>1. ASSUME UNCHANGED <<pending_, sig, captured, used, worker, received, loop, job, co>>
      PROVE  Carried'
  BY <1>1 DEF Carried
<1>2. ASSUME \/ \E s \in Signals : Add(s) \/ Remove(s) \/ Raise(s)
             \/ OnSignal \/ Stop \/ UNCHANGED vars \/ JobNothing \/ \E w \in Waiters : Cancel(w)
      PROVE  UNCHANGED <<pending_, sig, captured, used, worker, received, loop, job, co>>
  BY <1>2 DEF Add, Remove, Raise, OnSignal, Stop, Cancel, JobNothing, vars, config, worker_vars,
     coroutines, log
<1>3. ASSUME Top \/ SigwaitFails \/ Post \/ \E s \in Signals : Sigwait(s)
      PROVE  Carried'
  BY <1>3 DEF Top, SigwaitFails, Post, Sigwait, config, coroutines, log, Carried
<1>4. CASE Capture
  <2>1. /\ received \in Signals /\ worker' # "got" /\ UNCHANGED <<sig, used, loop, job, co>>
        /\ \/ pending_' = pending_ /\ captured' = captured
           \/ /\ pending_' = Append(pending_, received)
              /\ captured' = [captured EXCEPT ![received] = @ + 1]
    BY <1>4 DEF Capture, Carried, coroutines
  <2>2. pending_' \in Seq(Signals) /\ captured' \in [Signals -> Nat]
    <3>1. Append(pending_, received) \in Seq(Signals)
      BY <2>1, AppendProperties DEF Carried
    <3>2. [captured EXCEPT ![received] = @ + 1] \in [Signals -> Nat]
      BY <2>1 DEF Carried
    <3>3. QED
      BY <2>1, <3>1, <3>2 DEF Carried
  <2>3. QED
    BY <2>1, <2>2 DEF Carried
<1>5. ASSUME NEW w \in Waiters, StartIfNeeded(w)
      PROVE  Carried'
  <2>1. /\ loop = Free /\ loop' = w /\ co[w] = "idle" /\ co' = [co EXCEPT ![w] = "started"]
        /\ UNCHANGED <<pending_, job, sig, received, captured, used>>
        /\ worker' = worker \/ worker' = "top"
    BY <1>5 DEF StartIfNeeded, log
  <2>2. QED
    BY <1>0, <2>1 DEF Carried
<1>6. ASSUME NEW w \in Waiters, AwaitReady(w) \/ AwaitSuspend(w)
      PROVE  Carried'
  <2>1. /\ loop = w /\ co[w] \in {"started", "checked"} /\ loop' \in {w, Free}
        /\ UNCHANGED <<job, received, worker, captured, used>>
    BY <1>6 DEF AwaitReady, AwaitSuspend, IInv, OnLoop, worker_vars, log
  <2>2. CASE pending_' = pending_ /\ sig' = sig
    <3>1. \A v \in Waiters : sig[v] # None => co'[v] = co[v]
      BY <1>0, <1>6, <2>1 DEF Carried, IInv, HeldHandleIsSuspended, AwaitReady, AwaitSuspend
    <3>2. QED
      BY <2>1, <2>2, <3>1 DEF Carried
  <2>3. CASE pending_ # <<>> /\ TakePending(w) /\ \E x \in {"ready", "posted"} : co' = [co EXCEPT ![w] = x]
    <3>1. pending_' \in Seq(Signals) /\ sig' \in [Waiters -> Signals \cup {None}]
      BY <2>3, HeadTailProperties DEF Carried, TakePending
    <3>2. \A v \in Waiters : v # w => sig'[v] = sig[v] /\ co'[v] = co[v]
      BY <1>0, <2>3 DEF Carried, TakePending
    <3>3. co'[w] \in {"ready", "posted"}
      BY <1>0, <2>3
    <3>4. QED
      BY <2>1, <3>1, <3>2, <3>3 DEF Carried
  <2>4. QED
    BY <1>6, <2>2, <2>3 DEF AwaitReady, AwaitSuspend
<1>7. ASSUME NEW w \in Waiters, AwaitResume(w)
      PROVE  Carried'
  <2>1. /\ loop # Job /\ loop' = Free /\ co' = [co EXCEPT ![w] = "idle"]
        /\ sig' = [sig EXCEPT ![w] = None]
        /\ UNCHANGED <<pending_, job, received, worker, captured>>
    BY <1>7 DEF AwaitResume, worker_vars, IInv, OnLoop
  <2>2. used' \in [Signals -> Nat]
    BY <1>7 DEF AwaitResume, Carried
  <2>3. QED
    BY <1>0, <2>1, <2>2 DEF Carried
<1>8. CASE JobTake
  <2>1. /\ loop' = Job /\ job'.sig = Head(pending_) /\ pending_' = Tail(pending_) /\ pending_ # <<>>
        /\ UNCHANGED <<co, sig, received, worker, captured, used>>
    BY <1>8 DEF JobTake, coroutines, worker_vars, log
  <2>2. Head(pending_) \in Signals /\ Tail(pending_) \in Seq(Signals)
    BY <2>1, HeadTailProperties DEF Carried
  <2>3. QED
    BY <2>1, <2>2 DEF Carried
<1>9. CASE JobEnd \/ HandlerThrows
  <2>1. /\ loop = Job /\ loop' = Free /\ job'.sig = None
        /\ UNCHANGED <<sig, received, worker, captured>>
        /\ \A v \in Waiters : v # job.waiter => co'[v] = co[v]
    BY <1>9 DEF JobEnd, HandlerThrows, NoJob, worker_vars, log
  <2>2. \A v \in Waiters : sig[v] # None => v # job.waiter
    BY DEF Carried, IInv, HeldHandleIsSuspended
  <2>3. pending_' \in Seq(Signals) /\ used' \in [Signals -> Nat]
    <3>1. job.sig \in Signals /\ Append(pending_, job.sig) \in Seq(Signals)
      BY <2>1, AppendProperties DEF Carried
    <3>2. [used EXCEPT ![job.sig] = @ + 1] \in [Signals -> Nat]
      BY <3>1 DEF Carried
    <3>3. QED
      BY <1>9, <3>1, <3>2 DEF JobEnd, HandlerThrows, Carried, log
  <2>4. QED
    BY <2>1, <2>2, <2>3 DEF Carried
<1>10. QED
  BY <1>1, <1>2, <1>3, <1>4, <1>5, <1>6, <1>7, <1>8, <1>9
     DEF Next, WorkerStep, CoStep, RunJob, EndJob

\* No step loses or doubles a signal.
LEMMA ConservedStep ==
  ASSUME IInv, Carried, FinitelyTaken, SignalsConserved, [Next]_vars
  PROVE  FinitelyTaken' /\ SignalsConserved'
<1> USE SignalSetAssumption
<1> SUFFICES ASSUME NEW s \in Signals
             PROVE  /\ IsFiniteSet(Takers(s)')
                    /\ captured'[s] = Occurrences(s)' + used'[s]
  BY DEF FinitelyTaken, SignalsConserved
<1> DEFINE P == Cardinality(Places(pending_, s))
           T == Cardinality(Takers(s))
           One(x) == IF x = s THEN 1 ELSE 0
<1>0. /\ pending_ \in Seq(Signals) /\ sig \in [Waiters -> Signals \cup {None}]
      /\ captured \in [Signals -> Nat] /\ used \in [Signals -> Nat] /\ s # None
  BY DEF Carried
<1>1. captured[s] = P + One(job.sig) + T + used[s] /\ IsFiniteSet(Takers(s))
  BY DEF SignalsConserved, Occurrences, FinitelyTaken, Places, Takers
<1>2. P \in Nat /\ T \in Nat /\ captured[s] \in Nat /\ used[s] \in Nat
  BY <1>0, <1>1, CountAppend, FS_CardinalityType
<1>3. Occurrences(s)' = P' + One(job'.sig) + T'
  BY DEF Occurrences, Places, Takers
<1>4. ASSUME UNCHANGED <<pending_, sig, captured, used, job>>
      PROVE  IsFiniteSet(Takers(s)') /\ captured'[s] = Occurrences(s)' + used'[s]
  <2>1. Takers(s)' = Takers(s) /\ P' = P /\ job'.sig = job.sig
    BY <1>4 DEF Takers, Places
  <2>2. QED
    BY <1>1, <1>3, <1>4, <2>1
<1>5. ASSUME \/ \E x \in Signals : Add(x) \/ Remove(x) \/ Raise(x) \/ Sigwait(x)
             \/ OnSignal \/ Stop \/ UNCHANGED vars \/ JobNothing \/ Top \/ SigwaitFails \/ Post
             \/ \E w \in Waiters : Cancel(w) \/ StartIfNeeded(w)
      PROVE  UNCHANGED <<pending_, sig, captured, used, job>>
  BY <1>5 DEF Add, Remove, Raise, Sigwait, OnSignal, Stop, Cancel, JobNothing, Top, SigwaitFails,
     Post, StartIfNeeded, vars, config, worker_vars, coroutines, log
<1>6. ASSUME Capture, ~stop_
      PROVE  IsFiniteSet(Takers(s)') /\ captured'[s] = Occurrences(s)' + used'[s]
  <2>1. /\ received \in Signals /\ pending_' = Append(pending_, received)
        /\ captured' = [captured EXCEPT ![received] = @ + 1] /\ UNCHANGED <<sig, used, job>>
    BY <1>6 DEF Capture, Carried, coroutines
  <2>2. captured'[s] = captured[s] + One(received)
    BY <1>0, <2>1
  <2>3. P' = P + One(received)
    BY <1>0, <2>1, CountAppend
  <2>4. Takers(s)' = Takers(s) /\ used'[s] = used[s] /\ job'.sig = job.sig
    BY <2>1 DEF Takers
  <2>5. QED
    BY <1>1, <1>2, <1>3, <2>2, <2>3, <2>4
<1>7. ASSUME NEW w \in Waiters, AwaitReady(w) \/ AwaitSuspend(w), pending_ # <<>>, TakePending(w)
      PROVE  IsFiniteSet(Takers(s)') /\ captured'[s] = Occurrences(s)' + used'[s]
  <2>1. sig[w] = None /\ sig' = [sig EXCEPT ![w] = Head(pending_)] /\ pending_' = Tail(pending_)
    BY <1>7 DEF AwaitReady, AwaitSuspend, TakePending, Carried
  <2>2. captured' = captured /\ used' = used /\ job' = job
    BY <1>7 DEF AwaitReady, AwaitSuspend, log
  <2>3. P = P' + One(Head(pending_)) /\ P' \in Nat
    BY <1>0, <1>7, <2>1, CountTail
  <2>4. Takers(s)' = IF Head(pending_) = s THEN Takers(s) \cup {w} ELSE Takers(s)
    BY <1>0, <2>1 DEF Takers
  <2>5. w \notin Takers(s)
    BY <1>0, <2>1 DEF Takers
  <2>6. IsFiniteSet(Takers(s)') /\ T' = T + One(Head(pending_))
    BY <1>1, <1>2, <2>4, <2>5, FS_AddElement
  <2>7. QED
    BY <1>1, <1>2, <1>3, <2>2, <2>3, <2>6
<1>8. ASSUME NEW w \in Waiters, AwaitResume(w)
      PROVE  IsFiniteSet(Takers(s)') /\ captured'[s] = Occurrences(s)' + used'[s]
  <2>1. /\ used'[s] = used[s] + One(sig[w]) /\ sig' = [sig EXCEPT ![w] = None]
        /\ UNCHANGED <<captured, pending_, job>>
    BY <1>8 DEF AwaitResume
  <2>2. Takers(s)' = Takers(s) \ {w} /\ (w \in Takers(s) <=> sig[w] = s)
    BY <1>0, <2>1 DEF Takers
  <2>3. IsFiniteSet(Takers(s)') /\ T' = T - One(sig[w])
    BY <1>1, <1>2, <2>2, FS_RemoveElement
  <2>4. P' = P /\ captured'[s] = captured[s] /\ job'.sig = job.sig
    BY <2>1 DEF Places
  <2>5. QED
    BY <1>1, <1>2, <1>3, <2>1, <2>3, <2>4
<1>9. CASE JobTake
  <2>1. /\ pending_ # <<>> /\ job'.sig = Head(pending_) /\ pending_' = Tail(pending_)
        /\ job.sig = None /\ UNCHANGED <<sig, captured, used>>
    BY <1>9 DEF JobTake, CanRunJob, coroutines, log, Carried
  <2>2. P = P' + One(Head(pending_)) /\ P' \in Nat
    BY <1>0, <2>1, CountTail
  <2>3. Takers(s)' = Takers(s) /\ captured'[s] = captured[s] /\ used'[s] = used[s]
    BY <2>1 DEF Takers
  <2>4. QED
    BY <1>0, <1>1, <1>2, <1>3, <2>1, <2>2, <2>3
<1>10. CASE JobEnd \/ HandlerThrows
  <2>1. /\ job.sig \in Signals /\ job'.sig = None /\ UNCHANGED <<sig, captured>>
        /\ \/ pending_' = Append(pending_, job.sig) /\ used' = used
           \/ pending_' = pending_ /\ used' = [used EXCEPT ![job.sig] = @ + 1]
    BY <1>10 DEF JobEnd, HandlerThrows, NoJob, Carried, log
  <2>2. Takers(s)' = Takers(s) /\ captured'[s] = captured[s]
    BY <2>1 DEF Takers
  <2>3. \/ P' = P + One(job.sig) /\ used'[s] = used[s]
        \/ P' = P /\ used'[s] = used[s] + One(job.sig)
    <3>1. CASE pending_' = Append(pending_, job.sig) /\ used' = used
      BY <1>0, <2>1, <3>1, CountAppend
    <3>2. CASE pending_' = pending_ /\ used' = [used EXCEPT ![job.sig] = @ + 1]
      BY <1>0, <2>1, <3>2 DEF Places
    <3>3. QED
      BY <2>1, <3>1, <3>2
  <2>4. QED
    BY <1>0, <1>1, <1>2, <1>3, <2>1, <2>2, <2>3
<1>11. ASSUME Capture, stop_
       PROVE  UNCHANGED <<pending_, sig, captured, used, job>>
  BY <1>11 DEF Capture, coroutines
<1>12. ASSUME NEW w \in Waiters, AwaitReady(w) \/ AwaitSuspend(w), ~(pending_ # <<>> /\ TakePending(w))
       PROVE  UNCHANGED <<pending_, sig, captured, used, job>>
  BY <1>12 DEF AwaitReady, AwaitSuspend, log
<1>13. QED
  BY <1>4, <1>5, <1>6, <1>7, <1>8, <1>9, <1>10, <1>11, <1>12
     DEF Next, WorkerStep, CoStep, RunJob, EndJob

\* Every captured signal is accounted for: in pending_, in the job, in one awaitable,
\* or used; for any signals, coroutines and numbers of captures.
THEOREM ConservedTheorem == Spec => []SignalsConserved
<1> DEFINE K == Carried /\ FinitelyTaken /\ SignalsConserved
<1>1. Init => K
  <2> SUFFICES ASSUME Init PROVE K
    OBVIOUS
  <2>1. Carried
    BY SignalSetAssumption, EmptySeq DEF Init, Carried, NoJob
  <2>2. \A s \in Signals : Takers(s) = {} /\ Places(pending_, s) = {}
    BY SignalSetAssumption DEF Init, Takers, Places
  <2>3. ASSUME NEW s \in Signals
        PROVE  Occurrences(s) = 0
    <3>1. Cardinality(Places(pending_, s)) = 0 /\ Cardinality(Takers(s)) = 0
      BY <2>2, FS_EmptySet
    <3>2. job.sig # s
      BY SignalSetAssumption DEF Init, NoJob
    <3>3. QED
      BY <3>1, <3>2 DEF Occurrences, Places, Takers
  <2>4. FinitelyTaken
    BY <2>2, FS_EmptySet DEF FinitelyTaken
  <2>5. SignalsConserved
    BY <2>3 DEF Init, SignalsConserved
  <2>6. QED
    BY <2>1, <2>4, <2>5
<1>2. IInv /\ K /\ [Next]_vars => K'
  BY CarriedStep, ConservedStep
<1>3. QED
  BY <1>1, <1>2, Inductive, PTL DEF Spec
===============================================================================
