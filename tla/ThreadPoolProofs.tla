--------------------------- MODULE ThreadPoolProofs ---------------------------
(***************************************************************************)
(* Theorems about ThreadPool for any number of workers, clients and jobs.  *)
(***************************************************************************)
EXTENDS ThreadPool, SequencesExt, SequenceTheorems, FiniteSetTheorems, TLAPS

\* w has a job that it has not finished with.
Holds(w) == at[w] \in {"picked", "exec", "ran"}

\* What a worker holds has been started, by it alone, and its handle is not posted.
Held ==
  \A w \in Workers : Holds(w) =>
    /\ cur[w] \in Range(started) /\ cur[w] \notin Range(posted)
    /\ \A v \in Workers : Holds(v) /\ cur[v] = cur[w] => v = w

\* An executing job was not cancelled before it was started, and one that has run
\* is awaited and has its outcome stored.
HeldResult ==
  \A w \in Workers :
    /\ at[w] = "exec" => cur[w] \notin early
    /\ at[w] = "ran" => cur[w] \in Awaited /\ result[cur[w]] # "none"

\* Outcomes and handles come from started jobs, and a started job that is awaited
\* is held by a worker until its handle is posted.
Accounted ==
  /\ \A j \in Awaited : result[j] # "none" => j \in Range(started)
  /\ Range(posted) \subseteq Range(started)
  /\ \A j \in Awaited : j \in Range(started) =>
       j \in Range(posted) \/ \E w \in Workers : Holds(w) /\ cur[w] = j

AcceptedOnce == IsInjective(accepted)

\* A worker leaves when the pool is stopped and drained, which it then stays.
DoneIsDrained == \A w \in Workers : at[w] = "done" => stop_ /\ q_ = <<>>

JoinedAreDone == joiner \in Clients => \A w \in Workers : at[w] = "done"

IInv ==
  /\ TypeOK /\ FifoNothingLost /\ AcceptedOnce /\ Held /\ HeldResult /\ Accounted
  /\ ResumedOnceWithOutcome /\ EarlyCancelWins /\ DoneIsDrained /\ JoinedAreDone

-------------------------------------------------------------------------------
(* A log of which the prefix s has been served and q is still queued.      *)

\* Serving moves the first queued item to the served prefix.
LEMMA LogTake ==
  ASSUME NEW S, NEW s \in Seq(S), NEW q \in Seq(S), q # <<>>
  PROVE  /\ s \o q = Append(s, Head(q)) \o Tail(q)
         /\ Len(s) < Len(s \o q)
         /\ (s \o q)[Len(s) + 1] = Head(q)
<1>1. Head(q) \in S /\ Tail(q) \in Seq(S) /\ <<Head(q)>> \in Seq(S)
  BY HeadTailProperties
<1>2. q = <<Head(q)>> \o Tail(q)
  BY <1>1, HeadTailProperties, EmptySeq
<1>3. s \o (<<Head(q)>> \o Tail(q)) = Append(s, Head(q)) \o Tail(q)
  BY <1>1, ConcatAssociative, AppendIsConcat
<1>4. Len(s) \in Nat /\ Len(q) \in Nat \ {0} /\ Head(q) = q[1]
  BY EmptySeq, LenProperties
<1>5. QED
  BY <1>2, <1>3, <1>4, ConcatProperties

\* The elements of a sequence with one more at its end.
LEMMA RangeAppend ==
  ASSUME NEW S, NEW s \in Seq(S), NEW e \in S
  PROVE  /\ Append(s, e) \in Seq(S)
         /\ Range(Append(s, e)) = Range(s) \cup {e}
         /\ Range(s) \subseteq S
         /\ IsInjective(s) /\ e \notin Range(s) => IsInjective(Append(s, e))
<1>1. /\ Append(s, e) \in Seq(S) /\ Len(Append(s, e)) = Len(s) + 1
      /\ \A i \in 1..Len(s) : Append(s, e)[i] = s[i]
      /\ Append(s, e)[Len(s) + 1] = e
  BY AppendProperties
<1>2. /\ Len(s) \in Nat /\ DOMAIN s = 1..Len(s) /\ DOMAIN Append(s, e) = 1..Len(s) + 1
      /\ \A i \in 1..Len(s) : s[i] \in S
  BY <1>1, LenProperties, ElementOfSeq
<1>3. Range(Append(s, e)) = Range(s) \cup {e} /\ Range(s) \subseteq S
  BY <1>1, <1>2 DEF Range
<1>4. ASSUME IsInjective(s), e \notin Range(s)
      PROVE  IsInjective(Append(s, e))
  BY <1>1, <1>2, <1>4 DEF IsInjective, Range
<1>5. QED
  BY <1>1, <1>3, <1>4

\* In a log without repetitions the next item has not been served, and what has
\* been served is logged.
LEMMA LogInjective ==
  ASSUME NEW S, NEW s \in Seq(S), NEW q \in Seq(S)
  PROVE  /\ Range(s) \subseteq Range(s \o q)
         /\ IsInjective(s \o q) /\ q # <<>> => Head(q) \notin Range(s)
<1>1. /\ s \o q \in Seq(S) /\ Len(s \o q) = Len(s) + Len(q)
      /\ \A i \in 1..Len(s) + Len(q) :
           (s \o q)[i] = IF i <= Len(s) THEN s[i] ELSE q[i - Len(s)]
  BY ConcatProperties
<1>2. /\ Len(s) \in Nat /\ DOMAIN s = 1..Len(s) /\ Len(q) \in Nat
      /\ DOMAIN (s \o q) = 1..Len(s) + Len(q)
  BY <1>1, LenProperties
<1>3. Range(s) \subseteq Range(s \o q)
  BY <1>1, <1>2 DEF Range
<1>4. ASSUME IsInjective(s \o q), q # <<>>
      PROVE  Head(q) \notin Range(s)
  <2>1. Len(s) < Len(s \o q) /\ (s \o q)[Len(s) + 1] = Head(q)
    BY <1>4, LogTake
  <2>2. QED
    BY <1>1, <1>2, <1>4, <2>1 DEF IsInjective, Range
<1>5. QED
  BY <1>3, <1>4

-------------------------------------------------------------------------------
\* The variables keep their types.
LEMMA TypeStep ==
  ASSUME TypeOK, HeldResult, [Next]_vars
  PROVE  TypeOK'
<1> USE ThreadPoolAssumption DEF Actors
<1>1. ASSUME NEW t \in Actors, NEW j \in Jobs, Submit(t, j)
      PROVE  TypeOK'
  <2>1. q_' \in Seq(Jobs) /\ accepted' \in Seq(Jobs)
    BY <1>1, RangeAppend DEF TypeOK, Submit
  <2>2. QED
    BY <1>1, <2>1 DEF TypeOK, Submit, coro, CallStates
<1>2. ASSUME NEW t \in Actors, NEW j \in Jobs, SubmitRefused(t, j)
      PROVE  TypeOK'
  BY <1>2 DEF TypeOK, SubmitRefused, pool, coro
<1>3. ASSUME NEW t \in Actors, Stop(t) \/ Shutdown(t) \/ ShutdownStop(t) \/ Join(t)
      PROVE  TypeOK'
  BY <1>3 DEF TypeOK, Stop, Shutdown, ShutdownStop, Join, coro, log, CallStates
<1>4. ASSUME NEW t \in Actors, NotifyOne(t) \/ NotifyAll(t)
      PROVE  TypeOK'
  <2>1. call' \in [Actors -> CallStates]
    BY <1>4 DEF TypeOK, NotifyOne, NotifyAll, CallStates
  <2>2. at' \in [Workers -> WorkerStates]
    BY <1>4 DEF TypeOK, NotifyOne, NotifyAll, WorkerStates
  <2>3. QED
    BY <1>4, <2>1, <2>2 DEF TypeOK, NotifyOne, NotifyAll, pool, coro, log
<1>5. ASSUME NEW j \in Awaited, Cancel(j)
      PROVE  TypeOK'
  BY <1>5 DEF TypeOK, Cancel, pool, log
<1>6. ASSUME NEW w \in Workers, Take(w)
      PROVE  TypeOK'
  <2>1. Head(q_) \in Jobs /\ Tail(q_) \in Seq(Jobs)
    BY <1>6, HeadTailProperties DEF TypeOK, Take
  <2>2. started' \in Seq(Jobs)
    BY <1>6, <2>1, RangeAppend DEF TypeOK, Take
  <2>3. QED
    BY <1>6, <2>1, <2>2 DEF TypeOK, Take, coro, WorkerStates
<1>7. ASSUME NEW w \in Workers,
             \/ PredicateFalse(w) \/ Block(w) \/ SpuriousWakeup(w) \/ Exit(w) \/ Enter(w)
             \/ EndPlain(w)
      PROVE  TypeOK'
  BY <1>7 DEF TypeOK, PredicateFalse, Block, SpuriousWakeup, Exit, Enter, EndPlain, pool, coro,
              log, WorkerStates
<1>8. ASSUME NEW w \in Workers, SkipCancelled(w) \/ EndAwaited(w)
      PROVE  TypeOK'
  <2>1. result' \in [Awaited -> {"none", "value", "error", "cancelled"}]
    BY <1>8 DEF TypeOK, SkipCancelled, EndAwaited
  <2>2. at' \in [Workers -> WorkerStates]
    BY <1>8 DEF TypeOK, SkipCancelled, EndAwaited, WorkerStates
  <2>3. QED
    BY <1>8, <2>1, <2>2 DEF TypeOK, SkipCancelled, EndAwaited, pool, log
<1>9. ASSUME NEW w \in Workers, PostBack(w)
      PROVE  TypeOK'
  <2>1. posted' \in Seq(Awaited)
    BY <1>9, RangeAppend DEF TypeOK, HeldResult, PostBack
  <2>2. QED
    BY <1>9, <2>1 DEF TypeOK, PostBack, pool, log, WorkerStates
<1>10. CASE UNCHANGED vars
  BY <1>10 DEF TypeOK, vars
<1>11. QED
  BY <1>1, <1>2, <1>3, <1>4, <1>5, <1>6, <1>7, <1>8, <1>9, <1>10
     DEF Next, Client, InCall, WorkerStep, EndJob

\* enqueue() and the workers keep the order of the log.
LEMMA LogStep ==
  ASSUME TypeOK, FifoNothingLost, AcceptedOnce, [Next]_vars
  PROVE  FifoNothingLost' /\ AcceptedOnce'
<1>1. ASSUME NEW t \in Actors, NEW j \in Jobs, Submit(t, j)
      PROVE  FifoNothingLost' /\ AcceptedOnce'
  <2>1. /\ q_' = Append(q_, j) /\ accepted' = Append(accepted, j) /\ started' = started
        /\ j \notin Range(accepted)
    BY <1>1 DEF Submit, Fresh
  <2>2. Append(started \o q_, j) = started \o Append(q_, j)
    <3>1. started \in Seq(Jobs) /\ q_ \in Seq(Jobs)
      BY DEF TypeOK
    <3>2. /\ Append(started \o q_, j) = (started \o q_) \o <<j>>
          /\ Append(q_, j) = q_ \o <<j>> /\ <<j>> \in Seq(Jobs)
      BY <3>1, ConcatProperties, AppendIsConcat
    <3>3. (started \o q_) \o <<j>> = started \o (q_ \o <<j>>)
      BY <3>1, <3>2, ConcatAssociative
    <3>4. QED
      BY <3>2, <3>3
  <2>3. IsInjective(accepted')
    BY <2>1, RangeAppend DEF TypeOK, AcceptedOnce
  <2>4. QED
    BY <2>1, <2>2, <2>3 DEF FifoNothingLost, AcceptedOnce
<1>2. ASSUME NEW w \in Workers, Take(w)
      PROVE  FifoNothingLost' /\ AcceptedOnce'
  <2>1. /\ q_ # <<>> /\ q_' = Tail(q_) /\ started' = Append(started, Head(q_))
        /\ accepted' = accepted
    BY <1>2 DEF Take
  <2>2. started \o q_ = started' \o q_'
    BY <2>1, LogTake DEF TypeOK
  <2>3. QED
    BY <2>1, <2>2 DEF FifoNothingLost, AcceptedOnce
<1>3. CASE UNCHANGED <<q_, accepted, started>>
  BY <1>3 DEF FifoNothingLost, AcceptedOnce
<1>4. ASSUME NEW t \in Actors,
             \/ Stop(t) \/ Shutdown(t) \/ InCall(t) \/ \E j \in Jobs : SubmitRefused(t, j)
      PROVE  UNCHANGED <<q_, accepted, started>>
  BY <1>4 DEF InCall, Stop, Shutdown, ShutdownStop, NotifyOne, NotifyAll, Join, SubmitRefused,
              pool, log
<1>5. ASSUME NEW w \in Workers,
             \/ PredicateFalse(w) \/ Block(w) \/ SpuriousWakeup(w) \/ Exit(w) \/ SkipCancelled(w)
             \/ Enter(w) \/ EndPlain(w) \/ EndAwaited(w) \/ PostBack(w)
      PROVE  UNCHANGED <<q_, accepted, started>>
  BY <1>5 DEF PredicateFalse, Block, SpuriousWakeup, Exit, SkipCancelled, Enter, EndPlain,
              EndAwaited, PostBack, pool, log
<1>6. ASSUME UNCHANGED vars \/ \E j \in Awaited : Cancel(j)
      PROVE  UNCHANGED <<q_, accepted, started>>
  BY <1>6 DEF Cancel, pool, log, vars
<1>7. QED
  BY <1>1, <1>2, <1>3, <1>4, <1>5, <1>6 DEF Next, Client, WorkerStep, EndJob

\* A worker that has left stays away, and what it saw stays true.
LEMMA DoneStep ==
  ASSUME TypeOK, DoneIsDrained, JoinedAreDone, [Next]_vars
  PROVE  DoneIsDrained' /\ JoinedAreDone'
<1> USE ThreadPoolAssumption DEF Actors
<1>1. ASSUME NEW t \in Actors, NEW j \in Jobs, Submit(t, j)
      PROVE  DoneIsDrained' /\ JoinedAreDone'
  BY <1>1 DEF Submit, DoneIsDrained, JoinedAreDone
<1>2. ASSUME NEW t \in Actors, Join(t)
      PROVE  DoneIsDrained' /\ JoinedAreDone'
  BY <1>2 DEF Join, DoneIsDrained, JoinedAreDone
<1>3. ASSUME NEW w \in Workers, Take(w) \/ Exit(w)
      PROVE  DoneIsDrained' /\ JoinedAreDone'
  BY <1>3 DEF TypeOK, Take, Exit, pool, DoneIsDrained, JoinedAreDone
<1>4. ASSUME q_' = q_, joiner' = joiner, stop_ => stop_',
             \A w \in Workers : at'[w] = "done" <=> at[w] = "done"
      PROVE  DoneIsDrained' /\ JoinedAreDone'
  BY <1>4 DEF DoneIsDrained, JoinedAreDone
<1>5. ASSUME NEW t \in Actors,
             \/ Stop(t) \/ Shutdown(t) \/ ShutdownStop(t) \/ \E j \in Jobs : SubmitRefused(t, j)
      PROVE  q_' = q_ /\ joiner' = joiner /\ (stop_ => stop_') /\ at' = at
  BY <1>5 DEF Stop, Shutdown, ShutdownStop, SubmitRefused, pool
<1>6. ASSUME NEW t \in Actors, NotifyOne(t) \/ NotifyAll(t)
      PROVE  /\ q_' = q_ /\ joiner' = joiner /\ (stop_ => stop_')
             /\ \A w \in Workers : at'[w] = "done" <=> at[w] = "done"
  BY <1>6 DEF TypeOK, NotifyOne, NotifyAll, pool
<1>7. ASSUME NEW v \in Workers,
             \/ PredicateFalse(v) \/ Block(v) \/ SpuriousWakeup(v) \/ SkipCancelled(v)
             \/ Enter(v) \/ EndPlain(v) \/ EndAwaited(v) \/ PostBack(v)
      PROVE  /\ q_' = q_ /\ joiner' = joiner /\ (stop_ => stop_')
             /\ \A w \in Workers : at'[w] = "done" <=> at[w] = "done"
  BY <1>7 DEF TypeOK, PredicateFalse, Block, SpuriousWakeup, SkipCancelled, Enter, EndPlain,
              EndAwaited, PostBack, pool
<1>8. ASSUME UNCHANGED vars \/ \E j \in Awaited : Cancel(j)
      PROVE  q_' = q_ /\ joiner' = joiner /\ (stop_ => stop_') /\ at' = at
  BY <1>8 DEF Cancel, pool, vars
<1>9. QED
  BY <1>1, <1>2, <1>3, <1>4, <1>5, <1>6, <1>7, <1>8 DEF Next, Client, InCall, WorkerStep, EndJob

\* Jobs go from the queue to one worker, and from there to the posted handles.
LEMMA JobStep ==
  ASSUME IInv, [Next]_vars
  PROVE  Held' /\ HeldResult' /\ Accounted' /\ ResumedOnceWithOutcome' /\ EarlyCancelWins'
<1> USE ThreadPoolAssumption
<1> DEFINE Job == Held /\ HeldResult /\ Accounted /\ ResumedOnceWithOutcome /\ EarlyCancelWins
<1>a. /\ at \in [Workers -> WorkerStates] /\ cur \in [Workers -> Jobs \cup {None}]
      /\ result \in [Awaited -> {"none", "value", "error", "cancelled"}]
      /\ started \in Seq(Jobs) /\ posted \in Seq(Awaited) /\ q_ \in Seq(Jobs)
      /\ early \subseteq cancelled /\ cancelled \subseteq Awaited
  BY DEF IInv, TypeOK
<1>b. Job
  BY DEF IInv
<1>1. ASSUME UNCHANGED <<cur, started, posted, result, early>>,
             \A w \in Workers : /\ Holds(w)' <=> Holds(w)
                                /\ at'[w] \in {"exec", "ran"} => at'[w] = at[w]
      PROVE  Job'
  <2>1. Held' /\ HeldResult'
    BY <1>1, <1>b DEF Held, HeldResult
  <2>2. Accounted'
    BY <1>1, <1>b DEF Accounted
  <2>3. QED
    BY <1>1, <1>b, <2>1, <2>2 DEF ResumedOnceWithOutcome, EarlyCancelWins
<1>2. ASSUME NEW j \in Awaited, Cancel(j)
      PROVE  Job'
  <2>1. /\ UNCHANGED <<at, cur, started, posted, result>>
        /\ early' = early \/ (early' = early \cup {j} /\ j \notin Range(started))
    BY <1>2 DEF Cancel, log
  <2>2. Held' /\ Accounted' /\ ResumedOnceWithOutcome'
    BY <1>b, <2>1 DEF Held, Holds, Accounted, ResumedOnceWithOutcome
  <2>3. HeldResult'
    BY <1>b, <2>1 DEF Held, Holds, HeldResult
  <2>4. EarlyCancelWins'
    BY <1>a, <1>b, <2>1 DEF EarlyCancelWins, Accounted
  <2>5. QED
    BY <2>2, <2>3, <2>4
<1>3. ASSUME NEW w \in Workers, Take(w)
      PROVE  Job'
  <2> DEFINE h == Head(q_)
  <2>1. /\ at[w] = "top" /\ q_ # <<>> /\ at' = [at EXCEPT ![w] = "picked"]
        /\ cur' = [cur EXCEPT ![w] = h] /\ started' = Append(started, h)
        /\ UNCHANGED <<posted, result, early>>
    BY <1>3 DEF Take, coro
  <2>2. h \in Jobs /\ h \notin Range(started)
    BY <1>a, <2>1, HeadTailProperties, LogInjective DEF IInv, FifoNothingLost, AcceptedOnce
  <2>3. Range(started)' = Range(started) \cup {h}
    BY <1>a, <2>1, <2>2, RangeAppend
  <2> HIDE DEF h
  <2>4. h \notin Range(posted)
    BY <1>b, <2>2 DEF Accounted
  <2>5. \A v \in Workers :
          /\ v # w => at'[v] = at[v] /\ cur'[v] = cur[v] /\ (Holds(v)' <=> Holds(v))
          /\ v = w => at'[v] = "picked" /\ cur'[v] = h /\ Holds(v)' /\ ~Holds(v)
    BY <1>a, <2>1 DEF Holds
  <2>6. Held'
    BY <1>b, <2>1, <2>2, <2>3, <2>4, <2>5 DEF Held
  <2>7. HeldResult' /\ ResumedOnceWithOutcome' /\ EarlyCancelWins'
    BY <1>b, <2>1, <2>5 DEF HeldResult, ResumedOnceWithOutcome, EarlyCancelWins
  <2>8. Accounted'
    BY <1>b, <2>1, <2>3, <2>5 DEF Accounted
  <2>9. QED
    BY <2>6, <2>7, <2>8
<1>4. ASSUME NEW w \in Workers, Enter(w)
      PROVE  Job'
  <2>1. /\ at[w] = "picked" /\ at' = [at EXCEPT ![w] = "exec"] /\ cur[w] \notin early
        /\ UNCHANGED <<cur, started, posted, result, early>>
    BY <1>4, <1>a DEF Enter, coro, log
  <2>2. \A v \in Workers : (Holds(v)' <=> Holds(v)) /\ (v # w => at'[v] = at[v])
                           /\ (v = w => at'[v] = "exec")
    BY <1>a, <2>1 DEF Holds
  <2>3. Held' /\ Accounted'
    BY <1>b, <2>1, <2>2 DEF Held, Accounted
  <2>4. QED
    BY <1>b, <2>1, <2>2, <2>3 DEF HeldResult, ResumedOnceWithOutcome, EarlyCancelWins
<1>5. ASSUME NEW w \in Workers, SkipCancelled(w) \/ EndAwaited(w)
      PROVE  Job'
  <2>1. /\ Holds(w) /\ cur[w] \in Awaited /\ at' = [at EXCEPT ![w] = "ran"]
        /\ UNCHANGED <<cur, started, posted, early>>
    BY <1>5, <1>a DEF SkipCancelled, EndAwaited, Holds, log
  <2>2. PICK r \in {"value", "error", "cancelled"} :
          /\ result' = [result EXCEPT ![cur[w]] = r]
          /\ cur[w] \in early => r = "cancelled"
    BY <1>5, <1>b DEF SkipCancelled, EndAwaited, HeldResult
  <2>3. \A v \in Workers : (Holds(v)' <=> Holds(v)) /\ (v # w => at'[v] = at[v])
                           /\ (v = w => at'[v] = "ran")
    BY <1>a, <2>1 DEF Holds
  <2>4. \A j \in Awaited : result'[j] = IF j = cur[w] THEN r ELSE result[j]
    BY <1>a, <2>1, <2>2
  <2>5. cur[w] \in Range(started) /\ cur[w] \notin Range(posted)
    BY <1>b, <2>1 DEF Held
  <2>6. Held' /\ Accounted'
    BY <1>b, <2>1, <2>3, <2>4, <2>5 DEF Held, Accounted
  <2>7. HeldResult'
    BY <1>b, <2>1, <2>2, <2>3, <2>4 DEF HeldResult
  <2>8. EarlyCancelWins'
    BY <1>a, <1>b, <2>1, <2>2, <2>4 DEF EarlyCancelWins
  <2>9. ResumedOnceWithOutcome'
    <3>1. Range(posted) \subseteq Awaited
      BY <1>a, LenProperties, ElementOfSeq DEF Range
    <3>2. QED
      BY <1>b, <2>1, <2>4, <2>5, <3>1 DEF ResumedOnceWithOutcome
  <2>10. QED
    BY <2>6, <2>7, <2>8, <2>9
<1>6. ASSUME NEW w \in Workers, EndPlain(w)
      PROVE  Job'
  <2>1. /\ Holds(w) /\ cur[w] \notin Awaited /\ at' = [at EXCEPT ![w] = "top"]
        /\ cur' = [cur EXCEPT ![w] = None]
        /\ UNCHANGED <<started, posted, result, early>>
    BY <1>6, <1>a DEF EndPlain, Holds, coro, log
  <2>2. \A v \in Workers : /\ v # w => at'[v] = at[v] /\ cur'[v] = cur[v] /\ (Holds(v)' <=> Holds(v))
                           /\ v = w => at'[v] = "top" /\ ~Holds(v)'
    BY <1>a, <2>1 DEF Holds
  <2>3. Held' /\ HeldResult'
    BY <1>b, <2>1, <2>2 DEF Held, HeldResult
  <2>4. Accounted'
    BY <1>b, <2>1, <2>2 DEF Accounted
  <2>5. QED
    BY <1>b, <2>1, <2>3, <2>4 DEF ResumedOnceWithOutcome, EarlyCancelWins
<1>7. ASSUME NEW w \in Workers, PostBack(w)
      PROVE  Job'
  <2> DEFINE h == cur[w]
  <2>1. /\ at[w] = "ran" /\ at' = [at EXCEPT ![w] = "top"] /\ cur' = [cur EXCEPT ![w] = None]
        /\ posted' = Append(posted, h)
        /\ UNCHANGED <<started, result, early>>
    BY <1>7 DEF PostBack, log
  <2>2. /\ Holds(w) /\ h \in Awaited /\ result[h] # "none"
        /\ h \in Range(started) /\ h \notin Range(posted)
    BY <1>b, <2>1 DEF Holds, Held, HeldResult
  <2>3. \A v \in Workers : Holds(v) /\ v # w => cur[v] # h
    BY <1>b, <2>2 DEF Held
  <2> HIDE DEF h
  <2>4. Range(posted)' = Range(posted) \cup {h} /\ IsInjective(posted)'
    BY <1>a, <1>b, <2>1, <2>2, RangeAppend DEF ResumedOnceWithOutcome
  <2>5. \A v \in Workers : /\ v # w => at'[v] = at[v] /\ cur'[v] = cur[v] /\ (Holds(v)' <=> Holds(v))
                           /\ v = w => at'[v] = "top" /\ ~Holds(v)'
    BY <1>a, <2>1 DEF Holds
  <2>6. Held' /\ HeldResult'
    BY <1>b, <2>1, <2>3, <2>4, <2>5 DEF Held, HeldResult
  <2>7. Accounted'
    BY <1>b, <2>1, <2>2, <2>4, <2>5 DEF Accounted, h
  <2>8. ResumedOnceWithOutcome' /\ EarlyCancelWins'
    BY <1>b, <2>1, <2>2, <2>4 DEF ResumedOnceWithOutcome, EarlyCancelWins
  <2>9. QED
    BY <2>6, <2>7, <2>8
<1>8. ASSUME NEW t \in Actors,
             \/ Stop(t) \/ Shutdown(t) \/ ShutdownStop(t) \/ Join(t)
             \/ \E j \in Jobs : Submit(t, j) \/ SubmitRefused(t, j)
      PROVE  UNCHANGED <<at, cur, started, posted, result, early>>
  BY <1>8 DEF Stop, Shutdown, ShutdownStop, Join, Submit, SubmitRefused, coro, log
<1>9. ASSUME UNCHANGED <<at, cur, started, posted, result, early>>
      PROVE  Job'
  BY <1>1, <1>9 DEF Holds
<1>10. ASSUME \/ \E t \in Actors : NotifyOne(t) \/ NotifyAll(t)
              \/ \E w \in Workers : PredicateFalse(w) \/ Block(w) \/ SpuriousWakeup(w) \/ Exit(w)
       PROVE  Job'
  <2>1. UNCHANGED <<cur, started, posted, result, early>>
    BY <1>10 DEF NotifyOne, NotifyAll, PredicateFalse, Block, SpuriousWakeup, Exit, coro, log
  <2>2. \A w \in Workers :
          at'[w] = at[w] \/ {at[w], at'[w]} \subseteq {"top", "block", "blocked", "done"}
    BY <1>10, <1>a DEF NotifyOne, NotifyAll, PredicateFalse, Block, SpuriousWakeup, Exit
  <2>3. QED
    BY <1>1, <2>1, <2>2 DEF Holds
<1>11. CASE UNCHANGED vars
  BY <1>9, <1>11 DEF vars
<1>12. QED
  BY <1>2, <1>3, <1>4, <1>5, <1>6, <1>7, <1>8, <1>9, <1>10, <1>11
     DEF Next, Client, InCall, WorkerStep, EndJob

\* A new pool has no job, and every worker is at the top of its loop.
LEMMA InitIInv == Init => IInv
<1> SUFFICES ASSUME Init PROVE IInv
  OBVIOUS
<1> USE ThreadPoolAssumption
<1>1. <<>> \in Seq(Jobs) /\ <<>> \in Seq(Awaited)
  BY EmptySeq
<1>2. TypeOK
  <2>1. at \in [Workers -> WorkerStates] /\ cur \in [Workers -> Jobs \cup {None}]
    BY DEF Init, WorkerStates
  <2>2. /\ call \in [Actors -> CallStates]
        /\ result \in [Awaited -> {"none", "value", "error", "cancelled"}]
    BY DEF Init, CallStates
  <2>3. QED
    BY <1>1, <2>1, <2>2, Zenon DEF Init, TypeOK
<1>3. Range(started) = {} /\ Range(posted) = {} /\ IsInjective(posted) /\ IsInjective(accepted)
  BY DEF Init, Range, IsInjective
<1>4. FifoNothingLost
  BY <1>1, ConcatEmptySeq DEF Init, FifoNothingLost
<1>5. \A w \in Workers : at[w] = "top" /\ ~Holds(w)
  BY DEF Init, Holds
<1>6. Held /\ HeldResult /\ DoneIsDrained /\ AcceptedOnce
  BY <1>3, <1>5 DEF Held, HeldResult, DoneIsDrained, AcceptedOnce
<1>7. Accounted /\ ResumedOnceWithOutcome /\ EarlyCancelWins /\ JoinedAreDone
  BY <1>3 DEF Init, Accounted, ResumedOnceWithOutcome, EarlyCancelWins, JoinedAreDone, Actors
<1>8. QED
  BY <1>2, <1>4, <1>6, <1>7 DEF IInv

\* Submissions, workers, stop() and shutdown() keep IInv.
LEMMA Inductive == Spec => []IInv
<1>1. IInv /\ [Next]_vars => IInv'
  BY TypeStep, LogStep, DoneStep, JobStep DEF IInv
<1>2. QED
  BY <1>1, InitIInv, PTL DEF Spec

-------------------------------------------------------------------------------
(* The theorems.                                                           *)

\* However many workers take from the queue, accepted jobs are started once each
\* and in order, and stop() drops none.
THEOREM FifoTheorem == Spec => []FifoNothingLost
  BY Inductive, PTL DEF IInv

\* No handle is posted twice or before its outcome is stored.
THEOREM ResumeTheorem == Spec => []ResumedOnceWithOutcome
  BY Inductive, PTL DEF IInv

\* A job cancelled before a worker took it does not store a value.
THEOREM CancelTheorem == Spec => []EarlyCancelWins
  BY Inductive, PTL DEF IInv

\* After a client's shutdown() nothing is queued and no accepted coroutine is left.
THEOREM JoinTheorem == Spec => []JoinedMeansFinished
<1>1. IInv => JoinedMeansFinished
  <2> SUFFICES ASSUME IInv, joiner \in Clients
               PROVE  JoinedMeansFinished
    BY DEF JoinedMeansFinished
  <2>1. q_ = <<>> /\ \A w \in Workers : at[w] = "done" /\ ~Holds(w)
    BY ThreadPoolAssumption DEF IInv, JoinedAreDone, DoneIsDrained, Holds
  <2>2. accepted = started
    BY <2>1, ConcatEmptySeq DEF IInv, FifoNothingLost, TypeOK
  <2>3. Range(accepted) \cap Awaited \subseteq Range(posted)
    BY <2>1, <2>2 DEF IInv, Accounted
  <2>4. QED
    BY <2>1, <2>3 DEF JoinedMeansFinished
<1>2. QED
  BY <1>1, Inductive, PTL


-------------------------------------------------------------------------------
(* WorkersFollowJobs counts workers and notifications.                     *)

\* Workers that will look at the queue, and threads about to notify one.
AtTop == {w \in Workers : at[w] = "top"}
Notifying == {t \in Actors : call[t] = "notify_one"}

\* A worker that found the queue empty holds m_ until it sleeps, so the queue is
\* still empty when it does; only finitely many notifications are on their way.
BlockSeesEmpty ==
  /\ \A w \in Workers : at[w] = "block" => q_ = <<>>
  /\ IsFiniteSet(Notifying)

\* A new job comes with a notification, a notification with an awake worker, and a
\* worker leaves the top of its loop with a job or from an empty queue.
LEMMA FollowStep ==
  ASSUME TypeOK, TypeOK', BlockSeesEmpty, WorkersFollowJobs, [Next]_vars
  PROVE  BlockSeesEmpty' /\ WorkersFollowJobs'
<1> USE ThreadPoolAssumption DEF Actors
<1> DEFINE Asleep == \E w \in Workers : at[w] = "blocked"
<1>0. WorkersFollowJobs <=> (Asleep => Len(q_) <= Cardinality(AtTop) + Cardinality(Notifying))
  BY DEF WorkersFollowJobs, AtTop, Notifying
<1>1. WorkersFollowJobs' <=> (Asleep' => Len(q_') <= Cardinality(AtTop') + Cardinality(Notifying'))
  BY DEF WorkersFollowJobs, AtTop, Notifying
<1>2. IsFiniteSet(AtTop) /\ IsFiniteSet(AtTop')
  BY FS_Subset DEF AtTop
<1>3. Cardinality(AtTop) \in Nat /\ Cardinality(AtTop') \in Nat /\ Cardinality(Notifying) \in Nat
  BY <1>2, FS_CardinalityType DEF BlockSeesEmpty
<1>4. Len(q_) \in Nat /\ q_ \in Seq(Jobs) /\ Len(<<>>) = 0
  BY LenProperties, EmptySeq DEF TypeOK
<1>5. ASSUME NEW t \in Actors, NEW j \in Jobs, Submit(t, j)
      PROVE  BlockSeesEmpty' /\ WorkersFollowJobs'
  <2>1. AtTop' = AtTop /\ Asleep' = Asleep /\ \A w \in Workers : at'[w] # "block"
    BY <1>5 DEF Submit, AtTop, LockFree
  <2>2. Notifying' = Notifying \cup {t} /\ t \notin Notifying
    BY <1>5 DEF Submit, Notifying, CanCall, TypeOK
  <2>3. IsFiniteSet(Notifying') /\ Cardinality(Notifying') = Cardinality(Notifying) + 1
    BY <2>2, FS_AddElement DEF BlockSeesEmpty
  <2>4. Len(q_') = Len(q_) + 1
    BY <1>4, <1>5, AppendProperties DEF Submit
  <2>5. QED
    BY <1>0, <1>1, <1>3, <1>4, <2>1, <2>3, <2>4 DEF BlockSeesEmpty
<1>6. ASSUME NEW w \in Workers, Take(w)
      PROVE  BlockSeesEmpty' /\ WorkersFollowJobs'
  <2>1. AtTop' = AtTop \ {w} /\ w \in AtTop /\ Asleep' = Asleep
    BY <1>6 DEF Take, AtTop, TypeOK, WorkerStates
  <2>2. Cardinality(AtTop') = Cardinality(AtTop) - 1
    BY <1>2, <2>1, FS_RemoveElement
  <2>3. Notifying' = Notifying /\ \A v \in Workers : at'[v] # "block"
    BY <1>6 DEF Take, Notifying, LockFree, TypeOK
  <2>4. Len(q_') = Len(q_) - 1
    BY <1>4, <1>6, HeadTailProperties DEF Take
  <2>5. QED
    BY <1>0, <1>1, <1>3, <1>4, <2>1, <2>2, <2>3, <2>4 DEF BlockSeesEmpty
<1>7. ASSUME NEW w \in Workers, PredicateFalse(w) \/ Block(w) \/ Exit(w)
      PROVE  BlockSeesEmpty' /\ WorkersFollowJobs'
  <2>1. q_' = <<>>
    BY <1>7 DEF PredicateFalse, Block, Exit, pool, BlockSeesEmpty
  <2>2. Notifying' = Notifying
    BY <1>7 DEF PredicateFalse, Block, Exit, Notifying
  <2>3. QED
    BY <1>1, <1>3, <1>4, <2>1, <2>2 DEF BlockSeesEmpty
<1>8. ASSUME NEW t \in Actors, NotifyOne(t)
      PROVE  BlockSeesEmpty' /\ WorkersFollowJobs'
  <2>1. Notifying' = Notifying \ {t} /\ t \in Notifying /\ q_' = q_
    BY <1>8 DEF NotifyOne, Notifying, TypeOK, pool
  <2>2. IsFiniteSet(Notifying') /\ Cardinality(Notifying') = Cardinality(Notifying) - 1
    BY <2>1, FS_RemoveElement DEF BlockSeesEmpty
  <2>3. CASE ~Asleep
    <3>1. ~Asleep' /\ at' = at
      BY <1>8, <2>3 DEF NotifyOne
    <3>2. QED
      BY <1>1, <2>1, <2>2, <3>1 DEF BlockSeesEmpty
  <2>4. CASE Asleep
    <3>1. PICK w \in Workers : at[w] = "blocked" /\ at' = [at EXCEPT ![w] = "top"]
      BY <1>8, <2>4 DEF NotifyOne
    <3>2. AtTop' = AtTop \cup {w} /\ w \notin AtTop
      BY <3>1 DEF AtTop, TypeOK
    <3>3. Cardinality(AtTop') = Cardinality(AtTop) + 1
      BY <1>2, <3>2, FS_AddElement
    <3>4. \A v \in Workers : at'[v] = "block" => at[v] = "block"
      BY <3>1 DEF TypeOK
    <3>5. QED
      BY <1>0, <1>1, <1>3, <1>4, <2>1, <2>2, <2>4, <3>3, <3>4 DEF BlockSeesEmpty
  <2>5. QED
    BY <2>3, <2>4
<1>9. ASSUME NEW t \in Actors, NotifyAll(t)
      PROVE  BlockSeesEmpty' /\ WorkersFollowJobs'
  <2>1. ~Asleep' /\ \A w \in Workers : at'[w] = "block" => at[w] = "block"
    BY <1>9 DEF NotifyAll, TypeOK
  <2>2. Notifying' = Notifying /\ q_' = q_
    BY <1>9 DEF NotifyAll, Notifying, TypeOK, pool
  <2>3. QED
    BY <1>1, <2>1, <2>2 DEF BlockSeesEmpty
\* Steps that leave the queue and the notifications alone and only add awake workers.
<1>10. ASSUME /\ q_' = q_ /\ Notifying' = Notifying
              /\ AtTop \subseteq AtTop' /\ (Asleep' => Asleep)
              /\ \A w \in Workers : at'[w] = "block" => at[w] = "block"
       PROVE  BlockSeesEmpty' /\ WorkersFollowJobs'
  <2>1. Cardinality(AtTop) <= Cardinality(AtTop')
    BY <1>2, <1>10, FS_Subset
  <2>2. QED
    BY <1>0, <1>1, <1>3, <1>4, <1>10, <2>1 DEF BlockSeesEmpty
<1>11. ASSUME NEW w \in Workers,
              \/ SpuriousWakeup(w) \/ SkipCancelled(w) \/ Enter(w) \/ EndPlain(w)
              \/ EndAwaited(w) \/ PostBack(w)
       PROVE  BlockSeesEmpty' /\ WorkersFollowJobs'
  <2>1. /\ at[w] # "top" /\ at'[w] \notin {"block", "blocked"}
        /\ \A v \in Workers \ {w} : at'[v] = at[v]
    BY <1>11 DEF SpuriousWakeup, SkipCancelled, Enter, EndPlain, EndAwaited, PostBack, TypeOK
  <2>2. q_' = q_ /\ call' = call
    BY <1>11 DEF SpuriousWakeup, SkipCancelled, Enter, EndPlain, EndAwaited, PostBack, pool
  <2>3. AtTop \subseteq AtTop' /\ (Asleep' => Asleep)
    BY <2>1 DEF AtTop
  <2>4. QED
    BY <1>10, <2>1, <2>2, <2>3 DEF Notifying
<1>12. ASSUME NEW t \in Actors,
              \/ Stop(t) \/ Shutdown(t) \/ ShutdownStop(t) \/ Join(t)
              \/ \E j \in Jobs : SubmitRefused(t, j)
       PROVE  BlockSeesEmpty' /\ WorkersFollowJobs'
  <2>1. q_' = q_ /\ at' = at
    BY <1>12 DEF Stop, Shutdown, ShutdownStop, Join, SubmitRefused, pool
  <2>2. Notifying' = Notifying
    BY <1>12 DEF Stop, Shutdown, ShutdownStop, Join, SubmitRefused, Notifying, CanCall, TypeOK
  <2>3. QED
    BY <1>10, <2>1, <2>2 DEF AtTop
<1>13. ASSUME UNCHANGED vars \/ \E j \in Awaited : Cancel(j)
       PROVE  BlockSeesEmpty' /\ WorkersFollowJobs'
  <2>1. q_' = q_ /\ at' = at /\ call' = call
    BY <1>13 DEF vars, Cancel, pool
  <2>2. QED
    BY <1>10, <2>1 DEF AtTop, Notifying
<1>14. QED
  BY <1>5, <1>6, <1>7, <1>8, <1>9, <1>11, <1>12, <1>13
     DEF Next, Client, InCall, WorkerStep, EndJob

\* A worker sleeps only while the queued jobs have their workers and notifications,
\* for any number of workers and of concurrent submissions.
THEOREM FollowTheorem == Spec => []WorkersFollowJobs
<1>1. Init => BlockSeesEmpty /\ WorkersFollowJobs
  <2> SUFFICES ASSUME Init PROVE BlockSeesEmpty /\ WorkersFollowJobs
    OBVIOUS
  <2>1. Notifying = {} /\ \A w \in Workers : at[w] = "top"
    BY DEF Init, Notifying, Actors
  <2>2. QED
    BY <2>1, FS_EmptySet DEF BlockSeesEmpty, WorkersFollowJobs
<1>2. BlockSeesEmpty /\ WorkersFollowJobs /\ IInv /\ IInv' /\ [Next]_vars
      => (BlockSeesEmpty /\ WorkersFollowJobs)'
  BY FollowStep DEF IInv
<1>3. QED
  BY <1>1, <1>2, Inductive, PTL DEF Spec
===============================================================================
