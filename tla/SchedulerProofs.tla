--------------------------- MODULE SchedulerProofs ---------------------------
(***************************************************************************)
(* Theorems about Scheduler for any sets of threads, handles and callables *)
(* and any number of posts.                                                *)
(***************************************************************************)
EXTENDS Scheduler, SequenceTheorems, TLAPS

-------------------------------------------------------------------------------
(* A log of which the prefix s has been served and q is still queued.      *)

\* Serving moves the first queued item to the served prefix.
LEMMA LogTake ==
  ASSUME NEW S, NEW s \in Seq(S), NEW q \in Seq(S), q # <<>>
  PROVE  /\ s \o q = Append(s, Head(q)) \o Tail(q)
         /\ Len(s) < Len(s \o q)
         /\ (s \o q)[Len(s) + 1] = Head(q)
<1>1. Head(q) \in S /\ Tail(q) \in Seq(S) /\ <<Head(q)>> \in Seq(S)
  BY HeadTailProperties
<1>2. q = <<Head(q)>> \o Tail(q)
  BY <1>1, HeadTailProperties, EmptySeq
<1>3. s \o (<<Head(q)>> \o Tail(q)) = Append(s, Head(q)) \o Tail(q)
  BY <1>1, ConcatAssociative, AppendIsConcat
<1>4. Len(s) \in Nat /\ Len(q) \in Nat \ {0} /\ Head(q) = q[1]
  BY EmptySeq, LenProperties
<1>5. QED
  BY <1>2, <1>3, <1>4, ConcatProperties

\* Nothing queued: everything posted has been served.
LEMMA LogLength ==
  ASSUME NEW S, NEW s \in Seq(S), NEW q \in Seq(S)
  PROVE  /\ Len(s \o q) = Len(s) + Len(q)
         /\ Len(s) \in Nat /\ Len(q) \in Nat
         /\ Len(q) = 0 <=> q = <<>>
         /\ q = <<>> => s \o q = s
  BY ConcatProperties, ConcatEmptySeq, EmptySeq, LenProperties

-------------------------------------------------------------------------------
(* Type correctness.                                                       *)

\* No step changes the type of a variable.
LEMMA TypePreserved ==
  ASSUME TypeOK, [Next]_vars
  PROVE  TypeOK'
<1> USE DEF TypeOK, LoopStates, queues, posted, started
<1>1. ASSUME NEW t \in Actors, NEW h \in Handles, PostHandle(t, h)
      PROVE  TypeOK'
  BY <1>1, AppendProperties DEF PostHandle
<1>2. ASSUME NEW t \in Actors, NEW f \in Fns, PostFn(t, f)
      PROVE  TypeOK'
  BY <1>2, AppendProperties DEF PostFn
<1>3. ASSUME NEW t \in Actors, Stop(t)
      PROVE  TypeOK'
  <2>1. Len(posted_h) \in Nat /\ Len(posted_f) \in Nat
    BY LenProperties
  <2> QED
    BY <1>3, <2>1 DEF Stop
<1>4. ASSUME NEW t \in Actors, Notify(t)
      PROVE  TypeOK'
  BY <1>4 DEF Notify
<1>5. CASE Reset
  BY <1>5 DEF Reset
<1>6. CASE Run
  BY <1>6 DEF Run
<1>7. CASE TakeHandle
  BY <1>7, HeadTailProperties, AppendProperties DEF TakeHandle
<1>8. CASE TakeFn
  BY <1>8, HeadTailProperties, AppendProperties DEF TakeFn
<1>9. CASE Break \/ PredicateFalse \/ Block \/ SpuriousWakeup \/ Return
  BY <1>9 DEF Break, PredicateFalse, Block, SpuriousWakeup, Return
<1>10. CASE Finish \/ Throw
  BY <1>10 DEF Finish, Throw
<1>11. CASE UNCHANGED vars
  BY <1>11 DEF vars
<1> QED
  BY <1>1, <1>2, <1>3, <1>4, <1>5, <1>6, <1>7, <1>8, <1>9, <1>10, <1>11
     DEF Next, Client, LoopStep

\* The constructor's state is well typed.
LEMMA TypeInit == Init => TypeOK
<1> SUFFICES ASSUME Init PROVE TypeOK
  OBVIOUS
<1> USE DEF Init
<1>1. /\ handle_q_ \in Seq(Handles) /\ fn_q_ \in Seq(Fns)
      /\ posted_h \in Seq(Handles) /\ started_h \in Seq(Handles)
      /\ posted_f \in Seq(Fns) /\ started_f \in Seq(Fns)
  OBVIOUS
<1>2. owed \in [h : Nat, f : Nat]
  OBVIOUS
<1>3. loop \in LoopStates /\ call \in [Actors -> {"none", "notify"}]
  BY DEF LoopStates
<1>4. stop_requested_ \in BOOLEAN /\ running_ \in BOOLEAN
      /\ cur \in Handles \cup Fns \cup {None}
  OBVIOUS
<1> QED
  BY <1>1, <1>2, <1>3, <1>4 DEF TypeOK

\* Every variable of the scheduler keeps its type in every reachable state.
THEOREM TypeCorrect == Spec => []TypeOK
  BY TypeInit, TypePreserved, PTL DEF Spec

-------------------------------------------------------------------------------
(* Safety.  Each conjunct of IInv is shown preserved on its own.           *)

\* Posting appends to log and queue, serving moves the head: the logs stay
\* what was started followed by what is queued.
LEMMA LogPreserved ==
  ASSUME TypeOK, NothingLostOrReordered, [Next]_vars
  PROVE  NothingLostOrReordered'
<1> USE DEF NothingLostOrReordered, queues, posted, started
<1>0. /\ handle_q_ \in Seq(Handles) /\ started_h \in Seq(Handles)
      /\ fn_q_ \in Seq(Fns) /\ started_f \in Seq(Fns)
      /\ posted_h \in Seq(Handles) /\ posted_f \in Seq(Fns)
  BY DEF TypeOK
<1>1. ASSUME NEW t \in Actors, NEW h \in Handles, PostHandle(t, h)
      PROVE  NothingLostOrReordered'
  <2>1. Append(posted_h, h) = posted_h \o <<h>> /\ Append(handle_q_, h) = handle_q_ \o <<h>>
    BY <1>0, AppendIsConcat
  <2>2. <<h>> \in Seq(Handles)
    OBVIOUS
  <2>3. (started_h \o handle_q_) \o <<h>> = started_h \o (handle_q_ \o <<h>>)
    BY <1>0, <2>2, ConcatAssociative
  <2> QED
    BY <2>1, <2>3, <1>1 DEF PostHandle
<1>2. ASSUME NEW t \in Actors, NEW f \in Fns, PostFn(t, f)
      PROVE  NothingLostOrReordered'
  <2>1. Append(posted_f, f) = posted_f \o <<f>> /\ Append(fn_q_, f) = fn_q_ \o <<f>>
    BY <1>0, AppendIsConcat
  <2>2. <<f>> \in Seq(Fns)
    OBVIOUS
  <2>3. (started_f \o fn_q_) \o <<f>> = started_f \o (fn_q_ \o <<f>>)
    BY <1>0, <2>2, ConcatAssociative
  <2> QED
    BY <2>1, <2>3, <1>2 DEF PostFn
<1>3. ASSUME NEW t \in Actors, Stop(t) \/ Notify(t)
      PROVE  NothingLostOrReordered'
  BY <1>3 DEF Stop, Notify
<1>4. CASE TakeHandle
  BY <1>0, <1>4, LogTake DEF TakeHandle
<1>5. CASE TakeFn
  BY <1>0, <1>5, LogTake DEF TakeFn
<1>6. CASE Reset \/ Run \/ Break \/ PredicateFalse \/ Block \/ SpuriousWakeup
           \/ Finish \/ Throw \/ Return
  BY <1>6 DEF Reset, Run, Break, PredicateFalse, Block, SpuriousWakeup,
              Finish, Throw, Return
<1>7. CASE UNCHANGED vars
  BY <1>7 DEF vars
<1> QED
  BY <1>1, <1>2, <1>3, <1>4, <1>5, <1>6, <1>7 DEF Next, Client, LoopStep

\* run() is not left asleep over work: what is posted while it sleeps is
\* followed by a notify, and nothing is posted between its test and its sleep.
LEMMA WakeupPreserved ==
  ASSUME TypeOK, HeldWhileEmpty, NoLostWakeup, [Next]_vars
  PROVE  HeldWhileEmpty' /\ NoLostWakeup'
<1> USE DEF HeldWhileEmpty, NoLostWakeup, Pending, queues, posted, started
<1>0. call \in [Actors -> {"none", "notify"}]
  BY DEF TypeOK
<1>1. ASSUME NEW t \in Actors,
             \/ \E h \in Handles : PostHandle(t, h)
             \/ \E f \in Fns : PostFn(t, f)
             \/ Stop(t)
      PROVE  HeldWhileEmpty' /\ NoLostWakeup'
  <2>1. call'[t] = "notify"
    BY <1>0, <1>1 DEF PostHandle, PostFn, Stop
  <2>2. HeldWhileEmpty'
    BY <1>1 DEF PostHandle, PostFn, Stop, LockFree
  <2> QED
    BY <2>1, <2>2
<1>2. ASSUME NEW t \in Actors, Notify(t)
      PROVE  HeldWhileEmpty' /\ NoLostWakeup'
  BY <1>2 DEF Notify
<1>3. CASE Reset \/ Run \/ TakeHandle \/ TakeFn \/ Break \/ PredicateFalse
           \/ SpuriousWakeup \/ Finish \/ Throw \/ Return
  BY <1>3 DEF Reset, Run, TakeHandle, TakeFn, Break, PredicateFalse,
              SpuriousWakeup, Finish, Throw, Return
<1>4. CASE Block
  <2>1. Len(handle_q_) \in Nat /\ Len(fn_q_) \in Nat
    BY LenProperties DEF TypeOK
  <2> QED
    BY <1>4, <2>1 DEF Block
<1>5. CASE UNCHANGED vars
  BY <1>5 DEF vars
<1> QED
  BY <1>1, <1>2, <1>3, <1>4, <1>5 DEF Next, Client, LoopStep

\* run() leaves its loop with empty queues, and after that the request that
\* made it leave stands, so nothing more becomes owed.
LEMMA DrainPreserved ==
  ASSUME TypeOK, NothingLostOrReordered, ExitStopped, OwedWasPosted,
         DrainedBeforeExit, [Next]_vars
  PROVE  ExitStopped' /\ OwedWasPosted' /\ DrainedBeforeExit'
<1> USE DEF ExitStopped, OwedWasPosted, DrainedBeforeExit, queues, posted, started
<1>0. /\ Len(posted_h) \in Nat /\ Len(posted_f) \in Nat
      /\ owed.h \in Nat /\ owed.f \in Nat
  BY LenProperties DEF TypeOK
<1>1. ASSUME NEW t \in Actors, NEW h \in Handles, PostHandle(t, h)
      PROVE  ExitStopped' /\ OwedWasPosted' /\ DrainedBeforeExit'
  <2>1. Len(posted_h') = Len(posted_h) + 1
    BY <1>1, AppendProperties DEF PostHandle, TypeOK
  <2> QED
    BY <1>0, <1>1, <2>1 DEF PostHandle
<1>2. ASSUME NEW t \in Actors, NEW f \in Fns, PostFn(t, f)
      PROVE  ExitStopped' /\ OwedWasPosted' /\ DrainedBeforeExit'
  <2>1. Len(posted_f') = Len(posted_f) + 1
    BY <1>2, AppendProperties DEF PostFn, TypeOK
  <2> QED
    BY <1>0, <1>2, <2>1 DEF PostFn
<1>3. ASSUME NEW t \in Actors, Stop(t)
      PROVE  ExitStopped' /\ OwedWasPosted' /\ DrainedBeforeExit'
  BY <1>0, <1>3 DEF Stop
<1>4. ASSUME NEW t \in Actors, Notify(t)
      PROVE  ExitStopped' /\ OwedWasPosted' /\ DrainedBeforeExit'
  BY <1>4 DEF Notify
<1>5. CASE Break
  <2>1. Len(handle_q_) = 0 /\ Len(fn_q_) = 0
    BY <1>5, LenProperties DEF Break, Pending, TypeOK
  <2>2. Len(started_h) = Len(posted_h) /\ Len(started_f) = Len(posted_f)
    BY <2>1, LogLength DEF NothingLostOrReordered, TypeOK
  <2> QED
    BY <1>0, <1>5, <2>2 DEF Break
<1>6. CASE TakeHandle \/ TakeFn
  BY <1>6 DEF TakeHandle, TakeFn
<1>7. CASE Reset \/ Run \/ PredicateFalse \/ Block \/ SpuriousWakeup
           \/ Finish \/ Throw \/ Return
  BY <1>7 DEF Reset, Run, PredicateFalse, Block, SpuriousWakeup, Finish, Throw, Return
<1>8. CASE UNCHANGED vars
  BY <1>8 DEF vars
<1> QED
  BY <1>1, <1>2, <1>3, <1>4, <1>5, <1>6, <1>7, <1>8 DEF Next, Client, LoopStep

\* What executes was recorded as started when it was taken.
LEMMA ExecutingPreserved ==
  ASSUME TypeOK, ExecutingIsStarted, [Next]_vars
  PROVE  ExecutingIsStarted'
<1> USE DEF ExecutingIsStarted, queues, posted, started
<1>1. ASSUME NEW t \in Actors, Client(t) \/ Notify(t)
      PROVE  ExecutingIsStarted'
  BY <1>1 DEF Client, PostHandle, PostFn, Stop, Notify
<1>2. CASE TakeHandle
  <2>1. Head(handle_q_) \in Handles
    BY <1>2, HeadTailProperties DEF TakeHandle, TypeOK
  <2> QED
    BY <1>2, <2>1, SchedulerAssumption DEF TakeHandle
<1>3. CASE TakeFn
  <2>1. Head(fn_q_) \in Fns
    BY <1>3, HeadTailProperties DEF TakeFn, TypeOK
  <2>2. started_f \in Seq(Fns)
    BY DEF TypeOK
  <2>3. Append(started_f, Head(fn_q_)) # <<>>
    BY <2>1, <2>2, AppendProperties
  <2> QED
    BY <1>3, <2>3 DEF TakeFn
<1>4. CASE Reset \/ Run \/ Break \/ PredicateFalse \/ Block \/ SpuriousWakeup
           \/ Finish \/ Throw \/ Return
  BY <1>4 DEF Reset, Run, Break, PredicateFalse, Block, SpuriousWakeup,
              Finish, Throw, Return
<1>5. CASE UNCHANGED vars
  BY <1>5 DEF vars
<1> QED
  BY <1>1, <1>2, <1>3, <1>4, <1>5 DEF Next, LoopStep

\* IInv is an invariant of the scheduler.
THEOREM Inductive == Spec => []IInv
<1>1. Init => IInv
  <2> SUFFICES ASSUME Init PROVE IInv
    OBVIOUS
  <2>1. TypeOK
    BY TypeInit
  <2>2. NothingLostOrReordered
    BY ConcatEmptySeq DEF Init, NothingLostOrReordered
  <2>3. OwedWasPosted
    BY DEF Init, OwedWasPosted
  <2> QED
    BY <2>1, <2>2, <2>3 DEF Init, IInv, NoLostWakeup, DrainedBeforeExit,
       HeldWhileEmpty, ExitStopped, ExecutingIsStarted
<1>2. IInv /\ [Next]_vars => IInv'
  BY TypePreserved, LogPreserved, WakeupPreserved, DrainPreserved,
     ExecutingPreserved DEF IInv
<1> QED
  BY <1>1, <1>2, PTL DEF Spec

\* post(), run(), stop(), reset() and exceptions lose, repeat and reorder no
\* work item, for any number of threads and posts.
THEOREM ConservationTheorem == Spec => []NothingLostOrReordered
<1>1. IInv => NothingLostOrReordered
  BY DEF IInv
<1> QED
  BY <1>1, Inductive, PTL

\* run() never sleeps over queued work without a notify to come.
THEOREM WakeupTheorem == Spec => []NoLostWakeup
<1>1. IInv => NoLostWakeup
  BY DEF IInv
<1> QED
  BY <1>1, Inductive, PTL

\* run() leaves its loop only after starting all that was posted before the
\* stop request.
THEOREM DrainTheorem == Spec => []DrainedBeforeExit
<1>1. IInv => DrainedBeforeExit
  BY DEF IInv
<1> QED
  BY <1>1, Inductive, PTL

-------------------------------------------------------------------------------
(* Refinement.                                                             *)

\* Every step of the scheduler is a step of the run queue or changes nothing
\* the run queue's clients see.
LEMMA StepSimulation ==
  ASSUME IInv, [Next]_vars
  PROVE  [RQ!Next]_RQ!vars
<1> USE DEF queues, posted, started
<1>0. TypeOK /\ NothingLostOrReordered /\ ExecutingIsStarted
  BY DEF IInv
<1>1. ASSUME NEW t \in Actors, NEW h \in Handles, PostHandle(t, h)
      PROVE  [RQ!Next]_RQ!vars
  <2>1. RQ!PostHandle(h)
    BY <1>1 DEF PostHandle, RQ!PostHandle
  <2> QED
    BY <2>1 DEF RQ!Next
<1>2. ASSUME NEW t \in Actors, NEW f \in Fns, PostFn(t, f)
      PROVE  [RQ!Next]_RQ!vars
  <2>1. RQ!PostFn(f)
    BY <1>2 DEF PostFn, RQ!PostFn
  <2> QED
    BY <2>1 DEF RQ!Next
<1>3. ASSUME NEW t \in Actors, Stop(t)
      PROVE  [RQ!Next]_RQ!vars
  <2>1. RQ!RequestStop(TRUE)
    BY <1>3 DEF Stop, RQ!RequestStop
  <2> QED
    BY <2>1 DEF RQ!Next
<1>4. ASSUME NEW t \in Actors, Notify(t)
      PROVE  [RQ!Next]_RQ!vars
  BY <1>4 DEF Notify, RQ!vars
<1>5. CASE Reset
  <2>1. RQ!RequestStop(FALSE)
    BY <1>5 DEF Reset, RQ!RequestStop
  <2> QED
    BY <2>1 DEF RQ!Next
<1>6. CASE Run
  <2>1. RQ!Enter
    BY <1>6 DEF Run, RQ!Enter
  <2> QED
    BY <2>1 DEF RQ!Next
<1>7. CASE TakeHandle
  <2>1. Len(started_h) < Len(posted_h) /\ posted_h[Len(started_h) + 1] = Head(handle_q_)
    BY <1>0, <1>7, LogTake DEF TakeHandle, TypeOK, NothingLostOrReordered
  <2>2. RQ!StartHandle
    BY <1>7, <2>1 DEF TakeHandle, RQ!StartHandle
  <2> QED
    BY <2>2 DEF RQ!Next
<1>8. CASE TakeFn
  <2>1. Len(started_f) < Len(posted_f) /\ posted_f[Len(started_f) + 1] = Head(fn_q_)
    BY <1>0, <1>8, LogTake DEF TakeFn, TypeOK, NothingLostOrReordered
  <2>2. started_h = posted_h
    BY <1>0, <1>8, LogLength DEF TakeFn, TypeOK, NothingLostOrReordered
  <2>3. RQ!StartFn
    BY <1>8, <2>1, <2>2 DEF TakeFn, RQ!StartFn
  <2> QED
    BY <2>3 DEF RQ!Next
<1>9. CASE Break
  <2>1. Len(handle_q_) = 0 /\ Len(fn_q_) = 0
    BY <1>0, <1>9, LenProperties DEF Break, Pending, TypeOK
  <2>2. handle_q_ = <<>> /\ fn_q_ = <<>>
    BY <1>0, <2>1, LogLength DEF TypeOK
  <2>3. started_h = posted_h /\ started_f = posted_f
    BY <1>0, <2>2, LogLength DEF TypeOK, NothingLostOrReordered
  <2>4. RQ!Leave
    BY <1>9, <2>3 DEF Break, RQ!Leave
  <2> QED
    BY <2>4 DEF RQ!Next
<1>10. CASE Throw
  <2>1. started_f # <<>>
    BY <1>0, <1>10, SchedulerAssumption DEF Throw, ExecutingIsStarted
  <2>2. RQ!Abort
    BY <1>10, <2>1 DEF Throw, RQ!Abort
  <2> QED
    BY <2>2 DEF RQ!Next
<1>11. CASE PredicateFalse \/ Block \/ SpuriousWakeup \/ Finish \/ Return
  BY <1>11 DEF PredicateFalse, Block, SpuriousWakeup, Finish, Return, RQ!vars
<1>12. CASE UNCHANGED vars
  BY <1>12 DEF vars, RQ!vars
<1> QED
  BY <1>1, <1>2, <1>3, <1>4, <1>5, <1>6, <1>7, <1>8, <1>9, <1>10, <1>11, <1>12
     DEF Next, Client, LoopStep

\* The scheduler implements the run queue: FIFO per class, handles first, and a
\* normal return of run() only when stopped and drained.
THEOREM RefinementTheorem == Spec => ImplementsRunQueue
<1>1. Init => RQ!Init
  BY DEF Init, RQ!Init
<1>2. IInv /\ [Next]_vars => [RQ!Next]_RQ!vars
  BY StepSimulation
<1> QED
  BY <1>1, <1>2, Inductive, PTL DEF Spec, ImplementsRunQueue, RQ!Spec
===============================================================================
