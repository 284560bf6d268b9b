------------------------------ MODULE WhenProofs ------------------------------
(***************************************************************************)
(* Theorems about When for any number of tasks and suspensions.            *)
(***************************************************************************)
EXTENDS When, FiniteSetTheorems, TLAPS

\* The types the proof needs.
Types ==
  /\ handle_q_ \in Seq(Tasks \cup {Awaiter})
  /\ task \in [Tasks -> {"held", "queued", "waiting", "done"}]
  /\ finished \in Seq([task : Tasks, ok : BOOLEAN])
  /\ out \in [read : SUBSET Tasks, index : 0..N, ex : 0..N]
  /\ index \in 0..N /\ ex \in 0..N
  /\ awaiter \in {"idle", "scheduled", "suspended", "returned", "threw"}

\* Until the runners are started the loop knows the awaiting coroutine only.
NothingStarted ==
  awaiter \in {"idle", "scheduled"} =>
    /\ \A i \in Tasks : task[i] = "held"
    /\ handle_q_ = IF awaiter = "idle" THEN <<>> ELSE <<Awaiter>>

\* The compare-exchange is won by the first task to finish, and as long as no
\* exception is kept its result is stored.
WinnerKept ==
  kind = "any" /\ done =>
    /\ finished # <<>> /\ index = finished[1].task
    /\ ex = 0 => index \in results

\* A task has finished only if somebody has won.
FinishedMeansDone == kind = "any" /\ finished # <<>> => done

\* The awaiting coroutine is back in the queue, or past it, only after that.
PostedByWinner ==
  /\ kind = "any" /\ awaiter = "suspended" /\ Contains(handle_q_, Awaiter) => done
  /\ kind = "any" /\ awaiter \in {"returned", "threw"} => done

IInv ==
  /\ Types /\ NothingStarted /\ WinnerKept /\ FinishedMeansDone /\ PostedByWinner
  /\ AnyReturnsWinner

-------------------------------------------------------------------------------
\* Before the call nothing has been posted or has finished.
LEMMA InitIInv == Init => IInv
<1> SUFFICES ASSUME Init PROVE IInv
  OBVIOUS
<1>1. Types
  BY WhenAssumption DEF Init, Types
<1>2. NothingStarted /\ WinnerKept /\ FinishedMeansDone /\ PostedByWinner /\ AnyReturnsWinner
  BY DEF Init, NothingStarted, WinnerKept, FinishedMeansDone, PostedByWinner, AnyReturnsWinner
<1>3. QED
  BY <1>1, <1>2 DEF IInv

\* What the handle queue contains after a pop and after a push.
LEMMA QueueContains ==
  ASSUME NEW S, NEW q \in Seq(S), NEW x \in S, NEW h
  PROVE  /\ q # <<>> => Tail(q) \in Seq(S) /\ (Contains(Tail(q), h) => Contains(q, h))
         /\ Append(q, x) \in Seq(S)
         /\ Contains(Append(q, x), h) => Contains(q, h) \/ h = x
         /\ q # <<>> => Contains(q, Head(q))
<1>1. ASSUME q # <<>>
      PROVE  /\ Tail(q) \in Seq(S) /\ Contains(q, Head(q))
             /\ Contains(Tail(q), h) => Contains(q, h)
  BY <1>1 DEF Contains
<1>2. Append(q, x) \in Seq(S) /\ (Contains(Append(q, x), h) => Contains(q, h) \/ h = x)
  BY DEF Contains
<1>3. QED
  BY <1>1, <1>2

\* A runner that finishes appends to the history and keeps the first entry.
LEMMA FinishedGrows ==
  ASSUME NEW i \in Tasks, NEW ok \in BOOLEAN, Types,
         finished' = Append(finished, [task |-> i, ok |-> ok])
  PROVE  /\ finished' \in Seq([task : Tasks, ok : BOOLEAN]) /\ finished' # <<>>
         /\ finished # <<>> => finished'[1] = finished[1]
         /\ finished = <<>> => finished'[1].task = i
  BY DEF Types

\* Every step of the awaiting coroutine, of the runners and of what the tasks
\* wait for keeps IInv.
LEMMA StepIInv ==
  ASSUME IInv, [Next]_vars
  PROVE  IInv'
<1> USE WhenAssumption DEF IInv
<1> DEFINE H == Tasks \cup {Awaiter}
<1>0. Awaiter \notin Tasks /\ Tasks \subseteq 0..N /\ 0 \notin Tasks
  BY DEF Tasks
<1>1. CASE UNCHANGED vars
  BY <1>1 DEF vars, Types, NothingStarted, WinnerKept, FinishedMeansDone, PostedByWinner,
     AnyReturnsWinner
<1>2. CASE Call
  BY <1>2 DEF Call, shared, Types, NothingStarted, WinnerKept, FinishedMeansDone, PostedByWinner,
     AnyReturnsWinner
<1>3. ASSUME Start(InOrder(N))
      PROVE  IInv'
  <2>1. handle_q_ = <<Awaiter>>
    BY <1>3 DEF Start, NothingStarted
  <2>2. InOrder(N) \in Seq(H) /\ ~Contains(InOrder(N), Awaiter)
    BY <1>0 DEF InOrder, Contains, Tasks
  <2>3. handle_q_' = InOrder(N)
    BY <1>3, <2>1, <2>2 DEF Start
  <2>4. task' \in [Tasks -> {"held", "queued", "waiting", "done"}]
    BY <1>3 DEF Start, Types
  <2>5. awaiter' = "suspended" /\ UNCHANGED <<kind, shared, finished, out>>
    BY <1>3 DEF Start
  <2>6. QED
    BY <2>2, <2>3, <2>4, <2>5 DEF shared, Types, NothingStarted, WinnerKept, FinishedMeansDone,
       PostedByWinner, AnyReturnsWinner
<1>4. ASSUME NEW i \in Tasks, Suspend(i)
      PROVE  IInv'
  <2>1. awaiter \notin {"idle", "scheduled"} /\ handle_q_ # <<>>
    BY <1>4, <1>0 DEF Suspend, NothingStarted
  <2>2. /\ handle_q_' \in Seq(H)
        /\ Contains(handle_q_', Awaiter) => Contains(handle_q_, Awaiter)
    BY <1>4, <2>1, QueueContains DEF Suspend, Types
  <2>3. /\ task' \in [Tasks -> {"held", "queued", "waiting", "done"}]
        /\ UNCHANGED <<kind, awaiter, shared, finished, out>>
    BY <1>4 DEF Suspend, Types
  <2>4. QED
    BY <2>1, <2>2, <2>3 DEF shared, Types, NothingStarted, WinnerKept, FinishedMeansDone,
       PostedByWinner, AnyReturnsWinner
<1>5. ASSUME NEW i \in Tasks, Wake(i)
      PROVE  IInv'
  <2>1. awaiter \notin {"idle", "scheduled"}
    BY <1>5 DEF Wake, NothingStarted
  <2>2. /\ handle_q_' \in Seq(H)
        /\ Contains(handle_q_', Awaiter) => Contains(handle_q_, Awaiter)
    BY <1>5, <1>0, QueueContains DEF Wake, Types
  <2>3. /\ task' \in [Tasks -> {"held", "queued", "waiting", "done"}]
        /\ UNCHANGED <<kind, awaiter, shared, finished, out>>
    BY <1>5 DEF Wake, Types
  <2>4. QED
    BY <2>1, <2>2, <2>3 DEF shared, Types, NothingStarted, WinnerKept, FinishedMeansDone,
       PostedByWinner, AnyReturnsWinner
<1>6. ASSUME NEW i \in Tasks, NEW ok \in BOOLEAN, AllRunner(i, ok) \/ AnyRunner(i, ok)
      PROVE  IInv'
  <2>1. Await(i, ok) /\ handle_q_ # <<>> /\ Head(handle_q_) = i
    BY <1>6 DEF AllRunner, AnyRunner, Await
  <2>2. awaiter \notin {"idle", "scheduled"} /\ UNCHANGED <<kind, awaiter, out>>
    BY <2>1, <1>0 DEF Await, NothingStarted
  <2>3. Tail(handle_q_) \in Seq(H) /\ Append(Tail(handle_q_), Awaiter) \in Seq(H)
    BY <2>1 DEF Types
  <2>4. /\ index' \in 0..N /\ ex' \in 0..N /\ handle_q_' \in Seq(H)
        /\ task' \in [Tasks -> {"held", "queued", "waiting", "done"}]
    BY <1>6, <1>0, <2>1, <2>3 DEF AllRunner, AnyRunner, Await, Types
  <2>5. /\ finished' \in Seq([task : Tasks, ok : BOOLEAN]) /\ finished' # <<>>
        /\ finished # <<>> => finished'[1] = finished[1]
        /\ finished = <<>> => finished'[1].task = i
    BY <2>1, FinishedGrows DEF Await
  <2>6. Types' /\ NothingStarted'
    BY <2>2, <2>4, <2>5 DEF Types, NothingStarted
  <2>7. CASE kind = "all"
    BY <2>2, <2>6, <2>7 DEF WinnerKept, FinishedMeansDone, PostedByWinner, AnyReturnsWinner
  <2>8. CASE kind = "any"
    <3>1. done' = TRUE /\ index' = (IF done THEN index ELSE i)
      BY <1>6, <2>8 DEF AllRunner, AnyRunner
    <3>2. /\ results' = (IF ok THEN results \cup {i} ELSE results)
          /\ ex' = (IF ~ok /\ ex = 0 THEN i ELSE ex)
      BY <2>1 DEF Await
    <3>3. ex' = 0 => index' \in results'
      BY <3>1, <3>2, <2>8, <1>0 DEF WinnerKept
    <3>4. WinnerKept'
      BY <3>1, <3>3, <2>5, <2>8 DEF WinnerKept, FinishedMeansDone
    <3>5. AnyReturnsWinner'
      BY <3>2, <2>2, <2>5, <2>8 DEF AnyReturnsWinner, PostedByWinner, WinnerKept
    <3>6. QED
      BY <3>1, <3>4, <3>5, <2>6 DEF FinishedMeansDone, PostedByWinner
  <2>9. QED
    BY <1>6, <2>7, <2>8 DEF AllRunner, AnyRunner
<1>7. CASE Rethrow \/ Return
  <2>1. /\ awaiter = "suspended" /\ handle_q_ # <<>> /\ Head(handle_q_) = Awaiter
        /\ handle_q_' = Tail(handle_q_) /\ UNCHANGED <<kind, task, shared, finished>>
        /\ awaiter' \in {"returned", "threw"}
    BY <1>7 DEF Rethrow, Return
  <2>2. kind = "any" => done
    BY <2>1, QueueContains DEF PostedByWinner, Types
  <2>3. handle_q_' \in Seq(H)
    BY <2>1 DEF Types
  <2>4. out' \in [read : SUBSET Tasks, index : 0..N, ex : 0..N]
    <3>1. CASE Rethrow
      BY <3>1 DEF Rethrow, Types
    <3>2. CASE Return
      <4>1. out' = [out EXCEPT !.read = Tasks, !.index = index]
        BY <3>2 DEF Return, SlotsRead
      <4>2. Tasks \in SUBSET Tasks
        OBVIOUS
      <4>3. QED
        BY <4>1, <4>2 DEF Types
    <3>3. QED
      BY <1>7, <3>1, <3>2
  <2>5. AnyReturnsWinner'
    BY <1>7, <2>1, <2>2 DEF Rethrow, Return, AnyReturnsWinner, WinnerKept, Types, shared
  <2>6. QED
    BY <2>1, <2>2, <2>3, <2>4, <2>5 DEF shared, Types, NothingStarted, WinnerKept,
       FinishedMeansDone, PostedByWinner
<1>8. QED
  BY <1>1, <1>2, <1>3, <1>4, <1>5, <1>6, <1>7 DEF Next, LoopStep, StartAll, StartAny

\* IInv holds in every reachable state of a call.
LEMMA Inductive == Spec => []IInv
  BY InitIInv, StepIInv, PTL DEF Spec

-------------------------------------------------------------------------------
\* when_any returns the index of the task that finished first, with its result
\* stored, however many losers finish before the awaiting coroutine runs.
THEOREM WinnerTheorem == Spec => []AnyReturnsWinner
  BY Inductive, PTL DEF IInv

-------------------------------------------------------------------------------
(* The queue and the countdown.                                            *)

\* Tasks whose runner has not finished.
Unfinished == {i \in Tasks : task[i] # "done"}

\* A handle is queued at most once, and a task's just when the task is "queued".
HandlesOnce ==
  /\ IsInjective(handle_q_)
  /\ \A i \in Tasks : Contains(handle_q_, i) <=> task[i] = "queued"

\* remaining counts the runners that have not finished.
Countdown ==
  /\ Finished = Tasks \ Unfinished
  /\ kind = "all" => remaining = Cardinality(Unfinished)

\* The awaiting coroutine of when_all is posted when none is left, and a coroutine
\* that has gone on is not in the queue.
PostedByLast ==
  /\ kind = "all" /\ awaiter = "suspended" /\ Contains(handle_q_, Awaiter) => Unfinished = {}
  /\ kind = "all" /\ awaiter \in {"returned", "threw"} => Unfinished = {}
  /\ awaiter \in {"returned", "threw"} => ~Contains(handle_q_, Awaiter)

\* The kept exception is that of the first task to fail; without one every
\* finished task has stored its result.
FirstKept ==
  /\ ex = 0 => Finished \subseteq results
  /\ ex = 0 => \A k \in DOMAIN finished : finished[k].ok
  /\ ex # 0 => \E k \in DOMAIN finished :
       /\ ~finished[k].ok /\ finished[k].task = ex
       /\ \A m \in DOMAIN finished : m < k => finished[m].ok

\* What await_resume() saw is still so.
OutKept ==
  /\ awaiter = "threw" => ex # 0 /\ out.ex = ex
  /\ kind = "all" /\ awaiter = "returned" => out.read \subseteq results

\* What the countdown properties rest on, beside IInv.
CInv == HandlesOnce /\ Countdown /\ PostedByLast /\ FirstKept /\ OutKept

\* Popping and pushing a queue of different handles.
LEMMA InjectiveQueue ==
  ASSUME NEW S, NEW q \in Seq(S), NEW x \in S, IsInjective(q)
  PROVE  /\ q # <<>> => /\ Tail(q) \in Seq(S) /\ IsInjective(Tail(q))
                        /\ \A h : Contains(Tail(q), h) <=> Contains(q, h) /\ h # Head(q)
         /\ ~Contains(q, x) => IsInjective(Append(q, x))
         /\ \A h : Contains(Append(q, x), h) <=> Contains(q, h) \/ h = x
<1>1. ASSUME q # <<>>
      PROVE  /\ Tail(q) \in Seq(S) /\ IsInjective(Tail(q))
             /\ \A h : Contains(Tail(q), h) <=> Contains(q, h) /\ h # Head(q)
  <2>1. /\ Tail(q) \in Seq(S) /\ Len(q) \in Nat \ {0} /\ Len(Tail(q)) = Len(q) - 1
        /\ Head(q) = q[1] /\ \A k \in 1..Len(Tail(q)) : Tail(q)[k] = q[k + 1]
    BY <1>1
  <2>2. IsInjective(Tail(q))
    BY <2>1 DEF IsInjective
  <2>3. ASSUME NEW h, Contains(Tail(q), h)
        PROVE  Contains(q, h) /\ h # Head(q)
    BY <2>1, <2>3 DEF Contains, IsInjective
  <2>4. ASSUME NEW h, Contains(q, h), h # Head(q)
        PROVE  Contains(Tail(q), h)
    <3>1. PICK k \in 1..Len(q) : q[k] = h
      BY <2>4 DEF Contains
    <3>2. k # 1 /\ k - 1 \in 1..Len(Tail(q))
      BY <2>1, <2>4, <3>1
    <3>3. Tail(q)[k - 1] = h
      BY <2>1, <3>1, <3>2
    <3>4. QED
      BY <3>2, <3>3 DEF Contains
  <2>5. QED
    BY <2>1, <2>2, <2>3, <2>4
<1>2. /\ Len(q) \in Nat /\ Len(Append(q, x)) = Len(q) + 1 /\ Append(q, x)[Len(q) + 1] = x
      /\ \A k \in 1..Len(q) : Append(q, x)[k] = q[k]
  OBVIOUS
<1>3. ASSUME ~Contains(q, x)
      PROVE  IsInjective(Append(q, x))
  BY <1>2, <1>3 DEF Contains, IsInjective
<1>4. ASSUME NEW h
      PROVE  Contains(Append(q, x), h) <=> Contains(q, h) \/ h = x
  BY <1>2 DEF Contains
<1>5. QED
  BY <1>1, <1>3, <1>4

\* A finished runner is one more in the history, and takes its place among the
\* first failures.
LEMMA FinishKept ==
  ASSUME IInv, CInv, NEW i \in Tasks, NEW ok \in BOOLEAN, Await(i, ok)
  PROVE  /\ Finished' = Finished \cup {i} /\ FirstKept'
         /\ results \subseteq results' /\ (ex # 0 => ex' = ex)
<1> DEFINE f == [task |-> i, ok |-> ok]
<1>1. finished' = Append(finished, f) /\ finished \in Seq([task : Tasks, ok : BOOLEAN])
  BY DEF Await, IInv, Types
<1>2. /\ Len(finished) \in Nat /\ DOMAIN finished = 1..Len(finished)
      /\ DOMAIN finished' = 1..Len(finished) + 1 /\ finished'[Len(finished) + 1] = f
      /\ \A k \in DOMAIN finished : finished'[k] = finished[k]
  BY <1>1
<1>3. Finished' = Finished \cup {i}
  BY <1>2 DEF Finished
<1>4. /\ results' = (IF ok THEN results \cup {i} ELSE results)
      /\ ex' = (IF ~ok /\ ex = 0 THEN i ELSE ex) /\ i # 0
  BY WhenAssumption DEF Await, Tasks
<1>5. CASE ex # 0
  <2>1. PICK k \in DOMAIN finished :
          /\ ~finished[k].ok /\ finished[k].task = ex
          /\ \A m \in DOMAIN finished : m < k => finished[m].ok
    BY <1>5 DEF CInv, FirstKept
  <2>2. /\ k \in DOMAIN finished' /\ ~finished'[k].ok /\ finished'[k].task = ex'
        /\ \A m \in DOMAIN finished' : m < k => finished'[m].ok
    BY <1>2, <1>4, <1>5, <2>1
  <2>3. QED
    BY <1>3, <1>4, <1>5, <2>2 DEF FirstKept
<1>6. CASE ex = 0 /\ ok
  <2>1. Finished' \subseteq results' /\ \A k \in DOMAIN finished' : finished'[k].ok
    BY <1>2, <1>3, <1>4, <1>6 DEF CInv, FirstKept
  <2>2. QED
    BY <1>3, <1>4, <1>6, <2>1 DEF FirstKept
<1>7. CASE ex = 0 /\ ~ok
  <2>1. /\ Len(finished) + 1 \in DOMAIN finished' /\ ~finished'[Len(finished) + 1].ok
        /\ finished'[Len(finished) + 1].task = ex'
        /\ \A m \in DOMAIN finished' : m < Len(finished) + 1 => finished'[m].ok
    BY <1>2, <1>4, <1>7 DEF CInv, FirstKept
  <2>2. QED
    BY <1>3, <1>4, <1>7, <2>1 DEF FirstKept
<1>8. QED
  BY <1>5, <1>6, <1>7

\* Every step keeps the queue's and the countdown's invariants.
LEMMA StepCInv ==
  ASSUME IInv, CInv, [Next]_vars
  PROVE  CInv'
<1> USE WhenAssumption
<1> DEFINE H == Tasks \cup {Awaiter}
<1>0. /\ Awaiter \notin Tasks /\ handle_q_ \in Seq(H) /\ IsInjective(handle_q_)
      /\ task \in [Tasks -> {"held", "queued", "waiting", "done"}]
      /\ IsFiniteSet(Unfinished)
  <2>1. IsFiniteSet(Tasks)
    BY FS_Interval DEF Tasks
  <2>2. IsFiniteSet(Unfinished)
    BY <2>1, FS_Subset DEF Unfinished
  <2>3. QED
    BY <2>2 DEF IInv, Types, CInv, HandlesOnce, Tasks
<1>1. CASE UNCHANGED vars
  BY <1>1 DEF vars, CInv, HandlesOnce, Countdown, PostedByLast, FirstKept, OutKept, Finished,
     Unfinished
<1>2. CASE Call
  <2>1. handle_q_ = <<>> /\ handle_q_' = <<Awaiter>> /\ \A i \in Tasks : task[i] = "held"
    BY <1>2 DEF Call, IInv, NothingStarted
  <2>2. HandlesOnce'
    BY <1>0, <1>2, <2>1 DEF HandlesOnce, Call, Contains, IsInjective
  <2>3. QED
    BY <1>2, <2>2 DEF Call, shared, CInv, Countdown, PostedByLast, FirstKept, OutKept, Finished,
       Unfinished
<1>3. ASSUME Start(InOrder(N))
      PROVE  CInv'
  <2>1. handle_q_ = <<Awaiter>> /\ \A i \in Tasks : task[i] = "held"
    BY <1>3 DEF Start, IInv, NothingStarted
  <2>2. handle_q_' = InOrder(N) /\ \A i \in Tasks : InOrder(N)[i] = i
    BY <1>3, <2>1 DEF Start, InOrder, Tasks
  <2>3. DOMAIN InOrder(N) = Tasks /\ Len(InOrder(N)) = N
    BY DEF InOrder, Tasks
  <2>4. \A i \in Tasks : task'[i] = "queued"
    BY <1>3, <2>2, <2>3 DEF Start, Range
  <2>5. HandlesOnce' /\ ~Contains(handle_q_', Awaiter)
    BY <1>0, <2>2, <2>3, <2>4 DEF HandlesOnce, Contains, IsInjective, Tasks
  <2>6. Unfinished' = Unfinished /\ awaiter' = "suspended"
        /\ UNCHANGED <<kind, shared, finished, out>>
    BY <1>3, <2>1, <2>4 DEF Start, Unfinished
  <2>7. QED
    BY <2>5, <2>6 DEF CInv, shared, Countdown, PostedByLast, FirstKept, OutKept, Finished
<1>4. ASSUME NEW i \in Tasks, Suspend(i)
      PROVE  CInv'
  <2>1. handle_q_ # <<>> /\ Head(handle_q_) = i /\ handle_q_' = Tail(handle_q_)
        /\ task' = [task EXCEPT ![i] = "waiting"]
    BY <1>4 DEF Suspend
  <2>2. /\ IsInjective(handle_q_') /\ Contains(handle_q_, i)
        /\ \A h : Contains(handle_q_', h) <=> Contains(handle_q_, h) /\ h # i
    BY <1>0, <2>1, InjectiveQueue, QueueContains
  <2>3. HandlesOnce'
    BY <1>0, <2>1, <2>2 DEF CInv, HandlesOnce
  <2>4. Unfinished' = Unfinished /\ UNCHANGED <<kind, awaiter, shared, finished, out>>
    BY <1>0, <1>4, <2>1, <2>2 DEF Suspend, Unfinished, CInv, HandlesOnce
  <2>5. QED
    BY <1>0, <2>2, <2>3, <2>4 DEF CInv, shared, Countdown, PostedByLast, FirstKept, OutKept, Finished
<1>5. ASSUME NEW i \in Tasks, Wake(i)
      PROVE  CInv'
  <2>1. /\ task[i] = "waiting" /\ task' = [task EXCEPT ![i] = "queued"]
        /\ handle_q_' = Append(handle_q_, i)
    BY <1>5 DEF Wake
  <2>2. /\ IsInjective(handle_q_')
        /\ \A h : Contains(handle_q_', h) <=> Contains(handle_q_, h) \/ h = i
    BY <1>0, <2>1, InjectiveQueue DEF CInv, HandlesOnce
  <2>3. HandlesOnce'
    BY <1>0, <2>1, <2>2 DEF CInv, HandlesOnce
  <2>4. Unfinished' = Unfinished /\ UNCHANGED <<kind, awaiter, shared, finished, out>>
    BY <1>0, <1>5, <2>1 DEF Wake, Unfinished
  <2>5. QED
    BY <1>0, <2>2, <2>3, <2>4 DEF CInv, shared, Countdown, PostedByLast, FirstKept, OutKept, Finished
<1>6. ASSUME NEW i \in Tasks, NEW ok \in BOOLEAN, AllRunner(i, ok) \/ AnyRunner(i, ok)
      PROVE  CInv'
  <2>1. /\ Await(i, ok) /\ handle_q_ # <<>> /\ Head(handle_q_) = i
        /\ task' = [task EXCEPT ![i] = "done"] /\ UNCHANGED <<kind, awaiter, out>>
    BY <1>6 DEF AllRunner, AnyRunner, Await
  <2>2. /\ Tail(handle_q_) \in Seq(H) /\ IsInjective(Tail(handle_q_)) /\ Contains(handle_q_, i)
        /\ \A h : Contains(Tail(handle_q_), h) <=> Contains(handle_q_, h) /\ h # i
    BY <1>0, <2>1, InjectiveQueue, QueueContains
  <2>3. i \in Unfinished /\ Unfinished' = Unfinished \ {i}
    BY <1>0, <2>1, <2>2 DEF Unfinished, CInv, HandlesOnce
  <2>4. awaiter \notin {"idle", "scheduled"}
    BY <1>0, <2>1 DEF IInv, NothingStarted
  <2>5. /\ Finished' = Finished \cup {i} /\ FirstKept'
        /\ results \subseteq results' /\ (ex # 0 => ex' = ex)
    BY <2>1, FinishKept
  <2>6. Cardinality(Unfinished') = Cardinality(Unfinished) - 1 /\ Cardinality(Unfinished) \in Nat
    BY <1>0, <2>3, FS_RemoveElement, FS_CardinalityType
  <2>7. Countdown'
    BY <1>6, <2>1, <2>3, <2>5, <2>6 DEF Countdown, CInv, AllRunner, AnyRunner, Unfinished
  \* The one that posts the awaiting coroutine finds it outside the queue.
  <2>8. \/ handle_q_' = Tail(handle_q_)
        \/ /\ handle_q_' = Append(Tail(handle_q_), Awaiter)
           /\ awaiter = "suspended" /\ ~Contains(handle_q_, Awaiter)
           /\ kind = "all" => Unfinished' = {}
    <3>1. CASE AllRunner(i, ok)
      <4>1. awaiter = "suspended" /\ ~Contains(handle_q_, Awaiter)
        BY <2>3, <2>4, <3>1 DEF AllRunner, CInv, PostedByLast, IInv, Types
      <4>2. remaining = 1 => Unfinished' = {}
        BY <1>0, <2>3, <2>6, <3>1, FS_RemoveElement, FS_EmptySet DEF AllRunner, CInv, Countdown
      <4>3. QED
        BY <3>1, <4>1, <4>2 DEF AllRunner
    <3>2. CASE AnyRunner(i, ok)
      <4>1. ~done => awaiter = "suspended" /\ ~Contains(handle_q_, Awaiter)
        BY <2>4, <3>2 DEF AnyRunner, IInv, PostedByWinner, Types
      <4>2. QED
        BY <3>2, <4>1 DEF AnyRunner
    <3>3. QED
      BY <1>6, <3>1, <3>2
  <2>9. /\ ~Contains(handle_q_, Awaiter) => IsInjective(Append(Tail(handle_q_), Awaiter))
        /\ \A h : Contains(Append(Tail(handle_q_), Awaiter), h)
                 <=> Contains(Tail(handle_q_), h) \/ h = Awaiter
    <3>1. Awaiter \in H
      OBVIOUS
    <3>2. ASSUME NEW q \in Seq(H), IsInjective(q)
          PROVE  /\ ~Contains(q, Awaiter) => IsInjective(Append(q, Awaiter))
                 /\ \A h : Contains(Append(q, Awaiter), h) <=> Contains(q, h) \/ h = Awaiter
      BY <3>1, <3>2, InjectiveQueue
    <3>3. QED
      BY <2>2, <3>2
  <2>10. HandlesOnce'
    <3>1. IsInjective(handle_q_')
      BY <2>2, <2>8, <2>9
    <3>2. \A j \in Tasks : Contains(handle_q_', j) <=> Contains(handle_q_, j) /\ j # i
      BY <1>0, <2>2, <2>8, <2>9
    <3>3. QED
      BY <1>0, <2>1, <3>1, <3>2 DEF CInv, HandlesOnce
  <2>11. PostedByLast'
    <3>1. Contains(handle_q_', Awaiter) =>
            \/ Contains(handle_q_, Awaiter)
            \/ awaiter = "suspended" /\ (kind = "all" => Unfinished' = {})
      BY <1>0, <2>2, <2>8, <2>9
    <3>2. QED
      BY <2>1, <2>3, <3>1 DEF CInv, PostedByLast
  <2>12. OutKept'
    BY <2>1, <2>5 DEF CInv, OutKept
  <2>13. QED
    BY <2>5, <2>7, <2>10, <2>11, <2>12 DEF CInv
<1>7. CASE Rethrow \/ Return
  <2>1. /\ awaiter = "suspended" /\ handle_q_ # <<>> /\ Head(handle_q_) = Awaiter
        /\ handle_q_' = Tail(handle_q_) /\ UNCHANGED <<kind, task, shared, finished>>
        /\ awaiter' \in {"returned", "threw"}
    BY <1>7 DEF Rethrow, Return
  <2>2. /\ IsInjective(handle_q_') /\ Contains(handle_q_, Awaiter)
        /\ \A h : Contains(handle_q_', h) <=> Contains(handle_q_, h) /\ h # Awaiter
    BY <1>0, <2>1, InjectiveQueue, QueueContains
  <2>3. HandlesOnce' /\ Countdown' /\ PostedByLast' /\ FirstKept'
    BY <1>0, <2>1, <2>2 DEF CInv, HandlesOnce, Countdown, PostedByLast, FirstKept, Finished,
       Unfinished, shared
  <2>4. OutKept'
    <3>1. CASE Rethrow
      BY <2>1, <3>1 DEF Rethrow, OutKept, shared, IInv, Types
    <3>2. CASE Return
      <4>1. kind = "all" => Tasks \subseteq results
        BY <2>1, <2>2, <3>2 DEF Return, CInv, PostedByLast, Countdown, FirstKept
      <4>2. out'.read = Tasks /\ awaiter' = "returned"
        BY <3>2 DEF Return, SlotsRead, IInv, Types
      <4>3. QED
        BY <2>1, <4>1, <4>2 DEF OutKept, shared
    <3>3. QED
      BY <1>7, <3>1, <3>2
  <2>5. QED
    BY <2>3, <2>4 DEF CInv
<1>8. QED
  BY <1>1, <1>2, <1>3, <1>4, <1>5, <1>6, <1>7 DEF Next, LoopStep, StartAll, StartAny

\* Before the call all tasks are to come.
LEMMA InitCInv == Init => CInv
<1> SUFFICES ASSUME Init PROVE CInv
  OBVIOUS
<1>1. Unfinished = Tasks /\ Finished = {} /\ DOMAIN finished = {}
  BY DEF Init, Unfinished, Finished
<1>2. Cardinality(Tasks) = N
  BY WhenAssumption, FS_Interval DEF Tasks
<1>3. HandlesOnce
  BY DEF Init, HandlesOnce, IsInjective, Contains
<1>4. Countdown /\ PostedByLast /\ FirstKept /\ OutKept
  BY <1>1, <1>2 DEF Init, Countdown, PostedByLast, FirstKept, OutKept
<1>5. QED
  BY <1>3, <1>4 DEF CInv

\* Both invariants hold throughout a call.
LEMMA CountdownInductive == Spec => [](IInv /\ CInv)
<1>1. IInv /\ CInv /\ [Next]_vars => CInv'
  BY StepCInv
<1>2. QED
  BY <1>1, InitCInv, Inductive, PTL DEF Spec

-------------------------------------------------------------------------------
\* The awaiting coroutine of either is queued at most once and not after it has
\* gone on: the countdown and the compare-exchange let one runner post it.
THEOREM ResumedOnceTheorem == Spec => []ResumedOnce
<1>1. IInv /\ CInv => ResumedOnce
  <2> SUFFICES ASSUME IInv, CInv PROVE ResumedOnce
    OBVIOUS
  <2> DEFINE P == {k \in DOMAIN handle_q_ : handle_q_[k] = Awaiter}
  <2>1. \A k, m \in P : k = m
    BY DEF CInv, HandlesOnce, IsInjective
  <2>2. Cardinality(P) = 0 \/ Cardinality(P) = 1
    <3>1. CASE P = {}
      BY <3>1, FS_EmptySet
    <3>2. CASE P # {}
      <4>1. PICK k : P = {k}
        BY <2>1, <3>2
      <4>2. QED
        BY <4>1, FS_Singleton
    <3>3. QED
      BY <3>1, <3>2
  <2>3. QED
    BY <2>2 DEF ResumedOnce, CInv, PostedByLast
<1>2. QED
  BY <1>1, CountdownInductive, PTL

\* when_all goes on after its last task only, with every result stored or with the
\* exception of the task that failed first.
THEOREM AllTheorem == Spec => []AllWaitsForAll
<1>1. IInv /\ CInv => AllWaitsForAll
  <2> SUFFICES ASSUME IInv, CInv, kind = "all", awaiter \in {"returned", "threw"}
               PROVE  /\ Finished = Tasks
                      /\ awaiter = "returned" => out.read \subseteq results
                      /\ awaiter = "threw" => out.ex = finished[FirstFailure].task
    BY DEF AllWaitsForAll
  <2>1. Finished = Tasks
    BY DEF CInv, PostedByLast, Countdown
  <2>2. ASSUME awaiter = "threw"
        PROVE  out.ex = finished[FirstFailure].task
    <3>1. ex # 0 /\ out.ex = ex
      BY <2>2 DEF CInv, OutKept
    <3>2. PICK k \in DOMAIN finished :
            /\ ~finished[k].ok /\ finished[k].task = ex
            /\ \A m \in DOMAIN finished : m < k => finished[m].ok
      BY <3>1 DEF CInv, FirstKept
    <3> DEFINE Failures == {m \in 1..Len(finished) : ~finished[m].ok}
    <3>3. DOMAIN finished = 1..Len(finished) /\ Len(finished) \in Nat
      BY DEF IInv, Types
    <3>4. k \in Failures /\ \A m \in Failures : k <= m
      BY <3>2, <3>3
    <3>5. FirstFailure = CHOOSE m \in Failures : \A n \in Failures : m <= n
      BY <3>4 DEF FirstFailure, SelectInSeq, Min
    <3>6. FirstFailure = k
      BY <3>3, <3>4, <3>5
    <3>7. QED
      BY <3>1, <3>2, <3>6
  <2>3. QED
    BY <2>1, <2>2 DEF CInv, OutKept
<1>2. QED
  BY <1>1, CountdownInductive, PTL
===============================================================================
