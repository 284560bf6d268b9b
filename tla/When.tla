--------------------------------- MODULE When ---------------------------------
(***************************************************************************)
(* when_all and when_any: N tasks wrapped in detached runners, the state   *)
(* they share, and the coroutine that awaits them.                         *)
(*                                                                         *)
(* Coroutines run on the loop thread, from its FIFO handle queue, so one   *)
(* resumption, up to the next suspension, is one step.  What a task waits  *)
(* for (a timer, the pool, a socket) posts its handle from elsewhere.      *)
(***************************************************************************)
EXTENDS Naturals, FiniteSets, Sequences, SequencesExt

CONSTANTS N,         \* sizeof...(Ts), tasks of a non-void type
          Awaiter,   \* the handle of the when_all / when_any coroutine
          MaxWaits   \* bound: suspensions of one task

ASSUME WhenAssumption ==
  /\ N \in Nat \ {0} /\ MaxWaits \in Nat /\ Awaiter \notin 0..N

Tasks == 1..N

VARIABLES
  kind,       \* "all" or "any": which of the two is called
  handle_q_,  \* the scheduler's handle queue
  awaiter,    \* where the awaiting coroutine is (see AwaiterStates)
  task,       \* task[i]: "held", "queued", "waiting" or "done"
  waits,      \* waits[i]: suspensions of task i so far
  results,    \* the engaged slots
  ex,         \* first_ex / ex: the task whose exception is kept, 0 for none
  remaining,  \* when_all_state
  done, index,  \* when_any_state; 0 for the initial index
  finished,   \* history: [task, ok] of the finished tasks, in order
  out         \* what await_resume() gave: [slots read, index] or the exception

shared == <<results, ex, remaining, done, index>>
vars == <<kind, handle_q_, awaiter, task, waits, results, ex, remaining, done,
          index, finished, out>>

\* idle       not called
\* scheduled  in co_await sched.schedule()
\* suspended  in the awaitable: runners started
\* returned, threw
AwaiterStates == {"idle", "scheduled", "suspended", "returned", "threw"}

TypeOK ==
  /\ kind \in {"all", "any"}
  /\ handle_q_ \in Seq(Tasks \cup {Awaiter}) /\ awaiter \in AwaiterStates
  /\ task \in [Tasks -> {"held", "queued", "waiting", "done"}]
  /\ waits \in [Tasks -> 0..MaxWaits]
  /\ results \subseteq Tasks /\ ex \in 0..N /\ remaining \in 0..N
  /\ done \in BOOLEAN /\ index \in 0..N
  /\ finished \in Seq([task : Tasks, ok : BOOLEAN])
  /\ out \in [read : SUBSET Tasks, index : 0..N, ex : 0..N]

Init ==
  /\ kind \in {"all", "any"}
  /\ handle_q_ = <<>> /\ awaiter = "idle"
  /\ task = [i \in Tasks |-> "held"] /\ waits = [i \in Tasks |-> 0]
  /\ results = {} /\ ex = 0 /\ remaining = N /\ done = FALSE /\ index = 0
  /\ finished = <<>>
  /\ out = [read |-> {}, index |-> 0, ex |-> 0]

-------------------------------------------------------------------------------
\* when_all(sched, ...) or when_any(sched, ...) is awaited: co_await schedule().
Call ==
  /\ awaiter = "idle"
  /\ awaiter' = "scheduled"
  /\ handle_q_' = Append(handle_q_, Awaiter)
  /\ UNCHANGED <<kind, task, waits, shared, finished, out>>

\* await_suspend(): the runners of the tasks in ts are started in order, that is
\* detached and their handles posted.
Start(ts) ==
  /\ awaiter = "scheduled" /\ handle_q_ # <<>> /\ Head(handle_q_) = Awaiter
  /\ awaiter' = "suspended"
  /\ handle_q_' = Tail(handle_q_) \o ts
  /\ task' = [i \in Tasks |-> IF i \in Range(ts) THEN "queued" ELSE task[i]]
  /\ UNCHANGED <<kind, waits, shared, finished, out>>

InOrder(n) == [i \in 1..n |-> i]

Mut_StartAll == kind = "all" /\ Start(InOrder(N - 1))

StartAll == kind = "all" /\ Start(InOrder(N))

StartAny == kind = "any" /\ Start(InOrder(N))

\* The loop resumes task i, which suspends (again).
Suspend(i) ==
  /\ handle_q_ # <<>> /\ Head(handle_q_) = i
  /\ waits[i] < MaxWaits
  /\ handle_q_' = Tail(handle_q_)
  /\ task' = [task EXCEPT ![i] = "waiting"]
  /\ waits' = [waits EXCEPT ![i] = @ + 1]
  /\ UNCHANGED <<kind, awaiter, shared, finished, out>>

\* What task i waits for has happened: its handle is posted.
Wake(i) ==
  /\ task[i] = "waiting"
  /\ task' = [task EXCEPT ![i] = "queued"]
  /\ handle_q_' = Append(handle_q_, i)
  /\ UNCHANGED <<kind, awaiter, waits, shared, finished, out>>

\* A runner's co_await t comes back with a value, which it stores, or with an
\* exception, which it keeps if it is the first.
Await(i, ok) ==
  /\ handle_q_ # <<>> /\ Head(handle_q_) = i
  /\ task' = [task EXCEPT ![i] = "done"]
  /\ results' = IF ok THEN results \cup {i} ELSE results
  /\ ex' = IF ~ok /\ ex = 0 THEN i ELSE ex
  /\ finished' = Append(finished, [task |-> i, ok |-> ok])
  /\ UNCHANGED <<kind, awaiter, waits, out>>

Mut_AllRunner(i, ok) ==
  /\ kind = "all"
  /\ Await(i, ok)
  /\ remaining' = remaining - 1
  /\ handle_q_' = IF remaining = 1 \/ ~ok THEN Append(Tail(handle_q_), Awaiter)
                                         ELSE Tail(handle_q_)
  /\ UNCHANGED <<done, index>>

\* when_all_runner: the last to finish posts the awaiting coroutine.
AllRunner(i, ok) ==
  /\ kind = "all"
  /\ Await(i, ok)
  /\ remaining' = remaining - 1
  /\ handle_q_' = IF remaining = 1 THEN Append(Tail(handle_q_), Awaiter)
                                   ELSE Tail(handle_q_)
  /\ UNCHANGED <<done, index>>

Mut_AnyRunnerAgain(i, ok) ==
  /\ kind = "any"
  /\ Await(i, ok)
  /\ done' = TRUE
  /\ index' = IF done THEN index ELSE i
  /\ handle_q_' = Append(Tail(handle_q_), Awaiter)
  /\ UNCHANGED remaining

Mut_AnyRunnerLast(i, ok) ==
  /\ kind = "any"
  /\ Await(i, ok)
  /\ done' = TRUE
  /\ index' = i
  /\ handle_q_' = IF done THEN Tail(handle_q_) ELSE Append(Tail(handle_q_), Awaiter)
  /\ UNCHANGED remaining

\* when_any_runner: the first to finish wins the compare-exchange and posts.
AnyRunner(i, ok) ==
  /\ kind = "any"
  /\ Await(i, ok)
  /\ done' = TRUE
  /\ index' = IF done THEN index ELSE i
  /\ handle_q_' = IF done THEN Tail(handle_q_) ELSE Append(Tail(handle_q_), Awaiter)
  /\ UNCHANGED remaining

\* await_resume() rethrows whatever exception is kept by now.
Rethrow ==
  /\ awaiter = "suspended" /\ handle_q_ # <<>> /\ Head(handle_q_) = Awaiter
  /\ ex # 0
  /\ awaiter' = "threw"
  /\ out' = [out EXCEPT !.ex = ex]
  /\ handle_q_' = Tail(handle_q_)
  /\ UNCHANGED <<kind, task, waits, shared, finished>>

\* materialize_tuple(): every slot is dereferenced and moved from, engaged or not.
SlotsRead == Tasks

Return ==
  /\ awaiter = "suspended" /\ handle_q_ # <<>> /\ Head(handle_q_) = Awaiter
  /\ ex = 0
  /\ awaiter' = "returned"
  /\ out' = [out EXCEPT !.read = SlotsRead, !.index = index]
  /\ handle_q_' = Tail(handle_q_)
  /\ UNCHANGED <<kind, task, waits, shared, finished>>

-------------------------------------------------------------------------------
LoopStep ==
  \/ StartAll \/ StartAny \/ Rethrow \/ Return
  \/ \E i \in Tasks : Suspend(i) \/ \E ok \in BOOLEAN : AllRunner(i, ok) \/ AnyRunner(i, ok)

Next == Call \/ LoopStep \/ \E i \in Tasks : Wake(i)

Spec == Init /\ [][Next]_vars

\* The loop runs, and whatever a task waits for happens.
FairSpec == Spec /\ WF_vars(LoopStep) /\ \A i \in Tasks : WF_vars(Wake(i))

-------------------------------------------------------------------------------
(* Properties.                                                             *)

Finished == {finished[k].task : k \in DOMAIN finished}
FirstFailure == SelectInSeq(finished, LAMBDA f : ~f.ok)

\* The awaiting coroutine is in the handle queue at most once, and never after
\* it has gone on: the countdown and the compare-exchange let one runner post
\* it, and a late runner of when_any does not resume a finished coroutine.
ResumedOnce ==
  /\ Cardinality({k \in DOMAIN handle_q_ : handle_q_[k] = Awaiter}) <= 1
  /\ awaiter \in {"returned", "threw"} => ~Contains(handle_q_, Awaiter)

\* when_all goes on when all tasks are over, not before: with every result, or
\* with the exception of the task that failed first, however many fail.
AllWaitsForAll ==
  kind = "all" /\ awaiter \in {"returned", "threw"} =>
    /\ Finished = Tasks
    /\ awaiter = "returned" => out.read \subseteq results
    /\ awaiter = "threw" => out.ex = finished[FirstFailure].task

\* when_any returns the index of the task that finished first, and its result is
\* there: losers finishing before the awaiting coroutine runs change neither.
AnyReturnsWinner ==
  kind = "any" /\ awaiter = "returned" =>
    /\ out.index = finished[1].task
    /\ out.index \in results

\* A call comes back: the runner that has to post the awaiting coroutine does.
CallReturns == awaiter = "scheduled" ~> awaiter \in {"returned", "threw"}

\* "This allows uniform 'present or not' handling for each task slot"
\* (when.hpp:69): a slot is read only if a task has stored into it.
ReadsStoredSlots ==
  awaiter = "returned" => out.read \subseteq results
===============================================================================
