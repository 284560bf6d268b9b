----------------------------- MODULE TimerProofs -----------------------------
(***************************************************************************)
(* Theorems about Timer for any clients and delays and any number of       *)
(* entries and ticks.                                                      *)
(***************************************************************************)
EXTENDS Timer, WellFoundedInduction, SequenceTheorems, TLAPS

-------------------------------------------------------------------------------
(* The first entry of the queue.                                           *)

\* A set of natural numbers has a least element.
LEMMA LeastNatural ==
  ASSUME NEW T, T \subseteq Nat, T # {}
  PROVE  \E x \in T : \A y \in T : x <= y
<1>1. IsWellFoundedOn(OpToRel(<, Nat), Nat)
  BY NatLessThanWellFounded
<1>2. PICK x \in T : \A y \in T : ~(<<y, x>> \in OpToRel(<, Nat))
  BY <1>1, WFMin
<1>3. \A y \in T : ~(y < x)
  BY <1>2 DEF OpToRel
<1>4. QED
  BY <1>3

\* q_.begin() of a queue with distinct ids: no queued entry is before it.
LEMMA FirstIsLeast ==
  ASSUME TypeOK, q_ # {}, \A e, f \in q_ : e.id = f.id => e = f
  PROVE  /\ First \in q_
         /\ \A f \in q_ \ {First} : Before(First, f)
<1> DEFINE W == {e.when : e \in q_}
<1>1. \A e \in q_ : e.when \in Nat /\ e.id \in Nat
  BY TimerAssumption DEF TypeOK, Entries
<1>2. PICK w \in W : \A y \in W : w <= y
  <2>1. W \subseteq Nat /\ W # {}
    BY <1>1
  <2>2. QED
    BY <2>1, LeastNatural
<1> DEFINE I == {e.id : e \in {f \in q_ : f.when = w}}
<1>3. PICK i \in I : \A y \in I : i <= y
  <2>1. I \subseteq Nat /\ I # {}
    BY <1>1, <1>2
  <2>2. QED
    BY <2>1, LeastNatural
<1>4. PICK e \in q_ : e.when = w /\ e.id = i
  BY <1>3
<1>5. \A f \in q_ \ {e} : Before(e, f)
  <2>1. SUFFICES ASSUME NEW f \in q_, f # e
                 PROVE  Before(e, f)
    OBVIOUS
  <2>2. e.when <= f.when
    BY <1>2, <1>4
  <2>3. e.when = f.when => e.id <= f.id
    BY <1>3, <1>4
  <2>4. e.id # f.id
    BY <2>1, <1>4
  <2>5. QED
    BY <1>1, <2>2, <2>3, <2>4 DEF Before
<1>6. QED
  BY <1>4, <1>5 DEF First

-------------------------------------------------------------------------------
(* The inductive invariant.                                                *)

Held == IF next = None THEN {} ELSE {next}

\* The worker has an entry in its hands exactly between taking and posting it.
Holding == next # None <=> worker \in {"test", "lock", "timed", "woken", "due"}

\* The clock does not go back behind a deadline that was found due.
DueIsDue == worker = "due" => now >= next.when

\* Among equal deadlines the entry in hand is older than the queued ones, and the
\* posted ones are older than both.
HeldBeforeTies == \A h \in Held, e \in q_ : e.when = h.when => h.id < e.id
PostedBeforeTies ==
  \A i \in DOMAIN posted, e \in q_ \cup Held :
    e.when = posted[i].when => posted[i].id < e.id

IInv ==
  /\ TypeOK /\ Holding /\ DueIsDue /\ EachEntryOnce /\ SameDeadlineInOrder
  /\ HeldBeforeTies /\ PostedBeforeTies /\ NothingQueuedAfterStop

\* Appending the entry in hand to the posted ones.
LEMMA AppendPosted ==
  ASSUME TypeOK, NEW e \in Entries, posted' = Append(posted, e)
  PROVE  /\ posted' \in Seq(Entries)
         /\ DOMAIN posted = 1..Len(posted) /\ Len(posted) \in Nat
         /\ DOMAIN posted' = 1..Len(posted) + 1
         /\ \A i \in DOMAIN posted : posted'[i] = posted[i] /\ posted[i] \in Entries
         /\ posted'[Len(posted) + 1] = e
         /\ PostedIds' = PostedIds \cup {e.id}
<1>1. posted \in Seq(Entries)
  BY DEF TypeOK
<1>2. /\ posted' \in Seq(Entries) /\ Len(posted') = Len(posted) + 1
      /\ \A i \in 1..Len(posted) : posted'[i] = posted[i]
      /\ posted'[Len(posted) + 1] = e
  BY <1>1, AppendProperties
<1>3. /\ DOMAIN posted = 1..Len(posted) /\ Len(posted) \in Nat
      /\ \A i \in 1..Len(posted) : posted[i] \in Entries
  BY <1>1, LenProperties, ElementOfSeq
<1>4. DOMAIN posted' = 1..Len(posted) + 1
  BY <1>2, <1>3, LenProperties
<1>5. PostedIds' = PostedIds \cup {e.id}
  BY <1>2, <1>3, <1>4 DEF PostedIds
<1>6. QED
  BY <1>2, <1>3, <1>4, <1>5

\* The variables keep their types.
LEMMA TypeStep ==
  ASSUME TypeOK, Holding, EachEntryOnce, [Next]_vars
  PROVE  TypeOK'
<1> USE TimerAssumption, NoneAssumption
<1>a. Idle \in Calls /\ Notifying \in Calls
  BY DEF Calls, Idle, Notifying
<1>1. ASSUME NEW c \in Clients, NEW d \in Delays, NEW ct \in BOOLEAN, After(c, d, ct)
      PROVE  TypeOK'
  <2>1. [op |-> "schedule", when |-> now + d, ct |-> ct] \in Calls
    BY <1>1 DEF TypeOK, After, Calls
  <2>2. QED
    BY <1>1, <2>1 DEF TypeOK, After, history
<1>2. ASSUME NEW c \in Clients, Schedule(c)
      PROVE  TypeOK'
  <2>1. [when |-> call[c].when, id |-> seq_ + 1, ct |-> call[c].ct] \in Entries
    BY <1>2 DEF TypeOK, Schedule, Entries, Calls
  <2>2. q_' \subseteq Entries /\ seq_' \in 0..MaxEntries
    BY <1>2, <2>1 DEF TypeOK, Schedule
  <2>3. QED
    BY <1>2, <1>a, <2>2 DEF TypeOK, Schedule, history
<1>3. ASSUME NEW c \in Clients, ScheduleRefused(c)
      PROVE  TypeOK'
  BY <1>3, <1>a DEF TypeOK, ScheduleRefused, history
<1>4. ASSUME NEW c \in Clients, Stop(c)
      PROVE  TypeOK'
  <2>1. Ids(q_) \subseteq 1..MaxEntries
    BY DEF TypeOK, Ids, Entries
  <2>2. dropped' \subseteq 1..MaxEntries
    BY <1>4, <2>1 DEF Stop, TypeOK
  <2>3. QED
    BY <1>4, <1>a, <2>2 DEF TypeOK, Stop
<1>5. ASSUME NEW c \in Clients, Notify(c)
      PROVE  TypeOK'
  BY <1>5, <1>a DEF TypeOK, Notify, history, WorkerStates
<1>6. CASE Cancel
  <2>1. \A e \in q_ \cup (IF next = None THEN {} ELSE {next}) : e.id \in 1..MaxEntries
    BY DEF TypeOK, Entries
  <2>2. PICK e \in q_ \cup (IF next = None THEN {} ELSE {next}) :
          cancelled' = cancelled \cup {e.id}
    BY <1>6 DEF Cancel
  <2>3. cancelled' \subseteq 1..MaxEntries
    BY <2>1, <2>2 DEF TypeOK
  <2>4. QED
    BY <1>6, <2>3 DEF TypeOK, Cancel, history
<1>7. CASE Tick
  BY <1>7 DEF TypeOK, Tick, history
<1>8. CASE WaitForEntry \/ ExitTop \/ TestClock \/ WaitUntil \/ WaitAgain \/ TimedOut \/ Spurious
  BY <1>8 DEF TypeOK, WaitForEntry, ExitTop, TestClock, WaitUntil, WaitAgain, TimedOut,
              Spurious, history, idle, WorkerStates
<1>9. CASE TakeFirst \/ Swap
  <2>1. First \in q_
    BY <1>9, FirstIsLeast DEF TakeFirst, Swap, EachEntryOnce
  <2>2. worker = "lock" => next \in Entries
    BY DEF Holding, TypeOK
  <2>3. QED
    BY <1>9, <2>1, <2>2 DEF TypeOK, TakeFirst, Swap, history, idle, WorkerStates
<1>10. CASE ExitHolding \/ SkipCancelled
  <2>1. next.id \in 1..MaxEntries
    BY <1>10 DEF Holding, TypeOK, Entries, ExitHolding, SkipCancelled
  <2>2. QED
    BY <1>10, <2>1 DEF TypeOK, ExitHolding, SkipCancelled, idle, WorkerStates
<1>11. CASE Dispatch
  <2>1. next \in Entries
    BY <1>11 DEF Holding, TypeOK, Dispatch
  <2>2. posted' \in Seq(Entries)
    BY <1>11, <2>1, AppendPosted DEF Dispatch
  <2>3. QED
    BY <1>11, <2>2 DEF TypeOK, Dispatch, idle, WorkerStates
<1>12. CASE UNCHANGED vars
  BY <1>12 DEF TypeOK, vars
<1>13. QED
  BY <1>1, <1>2, <1>3, <1>4, <1>5, <1>6, <1>7, <1>8, <1>9, <1>10, <1>11, <1>12
     DEF Next, InCall, WorkerStep

\* The first queued entry is one the worker can take.
LEMMA FirstQueued ==
  ASSUME TypeOK, EachEntryOnce, q_ # {}
  PROVE  /\ First \in q_ /\ First \in Entries /\ First # None
         /\ \A f \in q_ \ {First} : Before(First, f)
<1>1. First \in q_ /\ \A f \in q_ \ {First} : Before(First, f)
  BY FirstIsLeast DEF EachEntryOnce
<1>2. QED
  BY <1>1, NoneAssumption DEF TypeOK

\* The worker holds an entry exactly at the places of its loop that need one.
LEMMA HoldingStep ==
  ASSUME TypeOK, Holding, DueIsDue, EachEntryOnce, [Next]_vars
  PROVE  Holding' /\ DueIsDue'
<1> USE TimerAssumption, NoneAssumption
<1>1. ASSUME NEW c \in Clients, \/ \E d \in Delays, ct \in BOOLEAN : After(c, d, ct)
                               \/ Schedule(c) \/ ScheduleRefused(c) \/ Stop(c)
      PROVE  Holding' /\ DueIsDue'
  BY <1>1 DEF Holding, DueIsDue, After, Schedule, ScheduleRefused, Stop
<1>2. ASSUME NEW c \in Clients, Notify(c)
      PROVE  Holding' /\ DueIsDue'
  BY <1>2 DEF Holding, DueIsDue, Notify
<1>3. CASE Cancel \/ UNCHANGED vars
  BY <1>3 DEF Holding, DueIsDue, Cancel, vars
<1>4. CASE Tick
  <2>1. worker = "due" => next.when \in Nat /\ now \in Nat
    BY DEF Holding, TypeOK, Entries
  <2>2. QED
    BY <1>4, <2>1 DEF Holding, DueIsDue, Tick
<1>5. CASE WaitForEntry \/ ExitTop \/ TestClock \/ WaitUntil \/ WaitAgain \/ TimedOut \/ Spurious
  BY <1>5 DEF Holding, DueIsDue, WaitForEntry, ExitTop, TestClock, WaitUntil, WaitAgain,
              TimedOut, Spurious, idle
<1>6. CASE TakeFirst \/ Swap
  BY <1>6, FirstQueued DEF Holding, DueIsDue, TakeFirst, Swap
<1>7. CASE ExitHolding \/ SkipCancelled \/ Dispatch
  BY <1>7 DEF Holding, DueIsDue, ExitHolding, SkipCancelled, Dispatch
<1>8. QED
  BY <1>1, <1>2, <1>3, <1>4, <1>5, <1>6, <1>7 DEF Next, InCall, WorkerStep

\* stop() empties the queue, and neither schedule() nor the worker adds to it
\* once stop_ is set.
LEMMA StopStep ==
  ASSUME NothingQueuedAfterStop, [Next]_vars
  PROVE  NothingQueuedAfterStop'
<1>1. ASSUME NEW c \in Clients, \/ \E d \in Delays, ct \in BOOLEAN : After(c, d, ct)
                               \/ InCall(c) \/ Stop(c)
      PROVE  NothingQueuedAfterStop'
  BY <1>1 DEF NothingQueuedAfterStop, InCall, After, Schedule, ScheduleRefused, Stop, Notify
<1>2. CASE Cancel \/ Tick \/ Spurious \/ UNCHANGED vars
  BY <1>2 DEF NothingQueuedAfterStop, Cancel, Tick, Spurious, idle, vars
<1>3. CASE WorkerStep
  BY <1>3 DEF NothingQueuedAfterStop, WorkerStep, WaitForEntry, ExitTop, TakeFirst, TestClock,
              ExitHolding, Swap, WaitUntil, WaitAgain, TimedOut, SkipCancelled, Dispatch, idle
<1>4. QED
  BY <1>1, <1>2, <1>3 DEF Next

places == <<seq_, q_, next, posted, skipped, dropped>>

\* The steps that move an entry.
LEMMA MovingSteps ==
  ASSUME [Next]_vars
  PROVE  \/ UNCHANGED places
         \/ \E c \in Clients : Schedule(c) \/ Stop(c)
         \/ TakeFirst \/ Swap \/ ExitHolding \/ SkipCancelled \/ Dispatch
<1>1. ASSUME NEW c \in Clients, \/ \E d \in Delays, ct \in BOOLEAN : After(c, d, ct)
                               \/ ScheduleRefused(c) \/ Notify(c)
      PROVE  UNCHANGED places
  BY <1>1 DEF After, ScheduleRefused, Notify, history, places
<1>2. CASE Cancel \/ Tick \/ Spurious \/ UNCHANGED vars
  BY <1>2 DEF Cancel, Tick, Spurious, vars, history, idle, places
<1>3. CASE WaitForEntry \/ ExitTop \/ TestClock \/ WaitUntil \/ WaitAgain \/ TimedOut
  BY <1>3 DEF WaitForEntry, ExitTop, TestClock, WaitUntil, WaitAgain, TimedOut,
              history, idle, places
<1>4. QED
  BY <1>1, <1>2, <1>3 DEF Next, InCall, WorkerStep

\* Each move takes an entry out of one place and puts it into one other.
LEMMA OnceStep ==
  ASSUME TypeOK, Holding, EachEntryOnce, [Next]_vars
  PROVE  EachEntryOnce'
<1> USE TimerAssumption, NoneAssumption
<1>1. CASE UNCHANGED places
  BY <1>1 DEF EachEntryOnce, Ids, HeldIds, PostedIds, places
<1>2. ASSUME NEW c \in Clients, Schedule(c)
      PROVE  EachEntryOnce'
  <2> DEFINE new == [when |-> call[c].when, id |-> seq_ + 1, ct |-> call[c].ct]
  <2>1. /\ q_' = q_ \cup {new} /\ new.id = seq_ + 1 /\ seq_' = seq_ + 1 /\ seq_ \in Nat
        /\ UNCHANGED <<next, posted, skipped, dropped>>
    BY <1>2 DEF Schedule, history, TypeOK
  <2> HIDE DEF new
  <2>2. Ids(q_)' = Ids(q_) \cup {seq_ + 1}
    BY <2>1 DEF Ids
  <2>3. PostedIds' = PostedIds /\ HeldIds' = HeldIds
    BY <2>1 DEF PostedIds, HeldIds
  <2>4. 1..seq_' = (1..seq_) \cup {seq_ + 1} /\ seq_ + 1 \notin 1..seq_
    BY <2>1
  <2>5. \A e \in q_ : e.id # new.id
    BY <2>1, <2>4 DEF EachEntryOnce, Ids
  <2>6. \A e, f \in q_' : e.id = f.id => e = f
    BY <2>1, <2>5 DEF EachEntryOnce
  <2>7. Ids(q_)' \cup HeldIds' \cup PostedIds' \cup skipped' \cup dropped' = 1..seq_'
    BY <2>1, <2>2, <2>3, <2>4 DEF EachEntryOnce
  <2>8. seq_ + 1 \notin HeldIds \cup PostedIds \cup skipped \cup dropped
    BY <2>4 DEF EachEntryOnce
  <2>9. /\ HeldIds' \cap Ids(q_)' = {}
        /\ PostedIds' \cap (Ids(q_)' \cup HeldIds') = {}
        /\ skipped' \cap (Ids(q_)' \cup HeldIds' \cup PostedIds') = {}
        /\ dropped' \cap (Ids(q_)' \cup HeldIds' \cup PostedIds' \cup skipped') = {}
    <3> DEFINE H == HeldIds
               P == PostedIds
               Q == Ids(q_)
    <3>1. /\ H \cap Q = {} /\ P \cap (Q \cup H) = {}
          /\ skipped \cap (Q \cup H \cup P) = {}
          /\ dropped \cap (Q \cup H \cup P \cup skipped) = {}
      BY DEF EachEntryOnce
    <3>2. /\ HeldIds' = H /\ PostedIds' = P /\ Ids(q_)' = Q \cup {seq_ + 1}
          /\ skipped' = skipped /\ dropped' = dropped
      BY <2>1, <2>2, <2>3
    <3> HIDE DEF H, P, Q
    <3>3. seq_ + 1 \notin H \cup P \cup skipped \cup dropped
      BY <2>8 DEF H, P
    <3>4. QED
      BY <3>1, <3>2, <3>3
  <2>10. \A i, j \in DOMAIN posted' : posted'[i].id = posted'[j].id => i = j
    BY <2>1 DEF EachEntryOnce
  <2>11. QED
    BY <2>6, <2>7, <2>9, <2>10 DEF EachEntryOnce
<1>3. ASSUME NEW c \in Clients, Stop(c)
      PROVE  EachEntryOnce'
  <2>1. /\ q_' = {} /\ dropped' = dropped \cup Ids(q_)
        /\ UNCHANGED <<seq_, next, posted, skipped>>
    BY <1>3 DEF Stop
  <2>2. Ids(q_)' = {} /\ PostedIds' = PostedIds /\ HeldIds' = HeldIds
    BY <2>1 DEF Ids, PostedIds, HeldIds
  <2>3. QED
    BY <2>1, <2>2 DEF EachEntryOnce
<1>4. CASE TakeFirst
  <2>1. /\ next' = First /\ q_' = q_ \ {First} /\ next = None /\ q_ # {}
        /\ UNCHANGED <<seq_, posted, skipped, dropped>>
    BY <1>4 DEF TakeFirst, Holding, idle, history
  <2>2. HeldIds = {} /\ HeldIds' = {First.id} /\ PostedIds' = PostedIds
    BY <2>1, FirstQueued DEF HeldIds, PostedIds
  <2>3. Ids(q_)' = Ids(q_) \ {First.id} /\ First.id \in Ids(q_)
    BY <2>1, FirstQueued DEF Ids, EachEntryOnce
  <2>4. Ids(q_)' \cup HeldIds' = Ids(q_) /\ Ids(q_)' \cap HeldIds' = {}
    BY <2>2, <2>3
  <2>5. QED
    BY <2>1, <2>2, <2>4 DEF EachEntryOnce
<1>5. CASE Swap
  <2>1. /\ next' = First /\ q_' = (q_ \ {First}) \cup {next} /\ next # None /\ q_ # {}
        /\ UNCHANGED <<seq_, posted, skipped, dropped>>
    BY <1>5 DEF Swap, Holding, idle, history
  <2>2. HeldIds = {next.id} /\ HeldIds' = {First.id} /\ PostedIds' = PostedIds
    BY <2>1, FirstQueued DEF HeldIds, PostedIds
  <2>3. Ids(q_)' = (Ids(q_) \ {First.id}) \cup {next.id} /\ First.id \in Ids(q_)
    BY <2>1, FirstQueued DEF Ids, EachEntryOnce
  <2>4. \A e \in q_ : e.id # next.id
    BY <2>2 DEF EachEntryOnce, Ids
  <2>5. \A e, f \in q_' : e.id = f.id => e = f
    BY <2>1, <2>4 DEF EachEntryOnce
  <2>6. next.id \notin Ids(q_)
    BY <2>4 DEF Ids
  <2>7. Ids(q_)' \cup HeldIds' = Ids(q_) \cup HeldIds /\ Ids(q_)' \cap HeldIds' = {}
    BY <2>2, <2>3, <2>6
  <2>8. QED
    BY <2>1, <2>2, <2>5, <2>7 DEF EachEntryOnce
<1>6. CASE ExitHolding \/ SkipCancelled
  <2>1. /\ next # None /\ next' = None
        /\ \/ dropped' = dropped \cup {next.id} /\ skipped' = skipped
           \/ skipped' = skipped \cup {next.id} /\ dropped' = dropped
        /\ UNCHANGED <<seq_, q_, posted>>
    BY <1>6 DEF ExitHolding, SkipCancelled, Holding, idle
  <2>2. HeldIds = {next.id} /\ HeldIds' = {} /\ PostedIds' = PostedIds /\ Ids(q_)' = Ids(q_)
    BY <2>1 DEF HeldIds, PostedIds, Ids
  <2>3. QED
    BY <2>1, <2>2 DEF EachEntryOnce
<1>7. CASE Dispatch
  <2>1. /\ next # None /\ next' = None /\ posted' = Append(posted, next)
        /\ UNCHANGED <<seq_, q_, skipped, dropped>>
    BY <1>7 DEF Dispatch, Holding, idle
  <2>2. next \in Entries
    BY <2>1 DEF TypeOK
  <2>3. HeldIds = {next.id} /\ HeldIds' = {} /\ Ids(q_)' = Ids(q_)
    BY <2>1 DEF HeldIds, Ids
  <2>4. PostedIds' = PostedIds \cup {next.id}
    BY <2>1, <2>2, AppendPosted
  <2>5. \A i, j \in DOMAIN posted' : posted'[i].id = posted'[j].id => i = j
    <3>1. \A i \in DOMAIN posted : posted[i].id # next.id
      BY <2>3 DEF EachEntryOnce, PostedIds
    <3>2. \A i \in DOMAIN posted' :
             \/ i \in DOMAIN posted /\ posted'[i] = posted[i]
             \/ i = Len(posted) + 1 /\ posted'[i] = next
      BY <2>1, <2>2, AppendPosted
    <3>3. QED
      BY <3>1, <3>2 DEF EachEntryOnce
  <2>6. QED
    BY <2>1, <2>3, <2>4, <2>5 DEF EachEntryOnce
<1>8. QED
  BY <1>1, <1>2, <1>3, <1>4, <1>5, <1>6, <1>7, MovingSteps

\* A new entry has the largest id, and an entry is only ever taken when it is
\* the least by (deadline, id): ties stay in order wherever the entries are.
LEMMA OrderStep ==
  ASSUME IInv, [Next]_vars
  PROVE  SameDeadlineInOrder' /\ HeldBeforeTies' /\ PostedBeforeTies'
<1> DEFINE Order == SameDeadlineInOrder /\ HeldBeforeTies /\ PostedBeforeTies
<1> USE TimerAssumption, NoneAssumption
<1>a. TypeOK /\ Holding /\ EachEntryOnce /\ Order
  BY DEF IInv
<1>1. CASE UNCHANGED places
  BY <1>1, <1>a DEF SameDeadlineInOrder, HeldBeforeTies, PostedBeforeTies, Held, places
<1>2. ASSUME NEW c \in Clients, Schedule(c)
      PROVE  Order'
  <2> DEFINE new == [when |-> call[c].when, id |-> seq_ + 1, ct |-> call[c].ct]
  <2>1. /\ q_' = q_ \cup {new} /\ new.id = seq_ + 1 /\ seq_ \in Nat
        /\ UNCHANGED <<next, posted>>
    BY <1>2, <1>a DEF Schedule, history, TypeOK
  <2> HIDE DEF new
  <2>2. \A h \in Held : h.id \in 1..seq_
    BY <1>a DEF Held, EachEntryOnce, HeldIds
  <2>3. \A i \in DOMAIN posted : posted[i].id \in 1..seq_
    BY <1>a DEF EachEntryOnce, PostedIds
  <2>4. Held' = Held
    BY <2>1 DEF Held
  <2>5. HeldBeforeTies'
    BY <1>a, <2>1, <2>2, <2>4 DEF HeldBeforeTies
  <2>6. PostedBeforeTies'
    BY <1>a, <2>1, <2>3, <2>4 DEF PostedBeforeTies
  <2>7. QED
    BY <1>a, <2>1, <2>5, <2>6 DEF SameDeadlineInOrder
<1>3. ASSUME NEW c \in Clients, Stop(c)
      PROVE  Order'
  BY <1>3, <1>a DEF Stop, SameDeadlineInOrder, HeldBeforeTies, PostedBeforeTies, Held
<1>4. CASE TakeFirst \/ Swap
  <2>1. /\ Held' = {First} /\ First \in q_
        /\ q_' \subseteq (q_ \ {First}) \cup Held
        /\ \A f \in q_ \ {First} : Before(First, f)
    BY <1>4, <1>a, FirstQueued DEF TakeFirst, Swap, Held, Holding
  <2>2. \A h \in Held : First.when # h.when
    <3>1. Swap \/ Held = {}
      BY <1>4, <1>a DEF Held, Holding, TakeFirst
    <3>2. First \in Entries /\ \A h \in Held : h = next /\ h \in Entries
      BY <1>4, <1>a, FirstQueued DEF Held, TypeOK, TakeFirst, Swap
    <3>3. QED
      BY <3>1, <3>2 DEF Swap, Entries
  <2>3. HeldBeforeTies'
    <3>1. \A e \in q_ : e.when \in Nat
      BY <1>a DEF TypeOK, Entries
    <3>2. QED
      BY <2>1, <2>2, <3>1 DEF HeldBeforeTies, Before
  <2>4. posted' = posted
    BY <1>4 DEF TakeFirst, Swap, history
  <2>5. PostedBeforeTies'
    BY <1>a, <2>1, <2>4 DEF PostedBeforeTies
  <2>6. QED
    BY <1>a, <2>3, <2>4, <2>5 DEF SameDeadlineInOrder
<1>5. CASE ExitHolding \/ SkipCancelled
  BY <1>5, <1>a DEF ExitHolding, SkipCancelled, SameDeadlineInOrder, HeldBeforeTies,
                    PostedBeforeTies, Held
<1>6. CASE Dispatch
  <2>1. /\ next # None /\ next' = None /\ posted' = Append(posted, next) /\ q_' = q_
        /\ next \in Entries
    BY <1>6, <1>a DEF Dispatch, Holding, TypeOK
  <2>2. Held = {next} /\ Held' = {}
    BY <2>1 DEF Held
  <2>3. /\ DOMAIN posted = 1..Len(posted) /\ Len(posted) \in Nat
        /\ DOMAIN posted' = 1..Len(posted) + 1
        /\ \A i \in DOMAIN posted : posted'[i] = posted[i]
        /\ posted'[Len(posted) + 1] = next
    BY <1>a, <2>1, AppendPosted
  <2>4. PostedBeforeTies'
    BY <1>a, <2>1, <2>2, <2>3 DEF PostedBeforeTies, HeldBeforeTies
  <2>5. SameDeadlineInOrder'
    BY <1>a, <2>2, <2>3 DEF SameDeadlineInOrder, PostedBeforeTies
  <2>6. QED
    BY <2>2, <2>4, <2>5 DEF HeldBeforeTies
<1>7. QED
  BY <1>1, <1>2, <1>3, <1>4, <1>5, <1>6, MovingSteps

\* A new timer has no entry, and its worker holds none.
LEMMA InitIInv == Init => IInv
<1> SUFFICES ASSUME Init PROVE IInv
  OBVIOUS
<1> USE TimerAssumption, NoneAssumption
<1>1. TypeOK
  <2>1. Idle \in Calls
    BY DEF Calls, Idle
  <2>2. posted \in Seq(Entries)
    BY EmptySeq DEF Init
  <2>3. call \in [Clients -> Calls]
    BY <2>1 DEF Init
  <2>4. now \in 0..MaxTime /\ seq_ \in 0..MaxEntries
    BY DEF Init
  <2>5. QED
    BY <2>2, <2>3, <2>4, Zenon DEF Init, TypeOK, WorkerStates
<1>2. DOMAIN posted = {}
  BY DEF Init
<1>3. EachEntryOnce
  BY <1>2 DEF Init, EachEntryOnce, Ids, HeldIds, PostedIds
<1>4. Holding /\ DueIsDue /\ NothingQueuedAfterStop
  BY DEF Init, Holding, DueIsDue, NothingQueuedAfterStop
<1>5. SameDeadlineInOrder /\ HeldBeforeTies /\ PostedBeforeTies
  BY <1>2 DEF Init, SameDeadlineInOrder, HeldBeforeTies, PostedBeforeTies
<1>6. QED
  BY <1>1, <1>3, <1>4, <1>5 DEF IInv

\* The invariant holds throughout.
LEMMA Inductive == Spec => []IInv
<1>1. IInv /\ [Next]_vars => IInv'
  BY TypeStep, HoldingStep, OnceStep, OrderStep, StopStep DEF IInv
<1>2. QED
  BY <1>1, InitIInv, PTL DEF Spec

-------------------------------------------------------------------------------
(* The theorems.                                                           *)

\* No interleaving of schedule(), stop(), cancellation and the worker loses an
\* entry or posts one twice, for any number of clients and entries.
THEOREM EntriesTheorem == Spec => []EachEntryOnce
  BY Inductive, PTL DEF IInv

\* Equal deadlines are served in the order of their ids, also when the worker
\* swaps the entry in its hands for an earlier one.
THEOREM OrderTheorem == Spec => []SameDeadlineInOrder
  BY Inductive, PTL DEF IInv

\* Nothing is queued on a stopped timer.
THEOREM StopTheorem == Spec => []NothingQueuedAfterStop
  BY Inductive, PTL DEF IInv

\* A job is posted at its deadline or later: the clock test made without m_ is
\* still true when the job is posted.
THEOREM NeverEarlyTheorem == Spec => NeverEarly
<1>1. IInv /\ [Next]_vars => [posted' # posted => now >= Last(posted').when]_vars
  <2> SUFFICES ASSUME IInv, [Next]_vars, posted' # posted
               PROVE  now >= Last(posted').when
    OBVIOUS
  <2>1. Dispatch
    BY MovingSteps DEF places, Schedule, Stop, TakeFirst, Swap, ExitHolding, SkipCancelled, history
  <2>2. next \in Entries /\ now >= next.when
    BY <2>1 DEF IInv, TypeOK, Holding, DueIsDue, Dispatch
  <2>3. Last(posted') = next
    <3>1. Len(posted') = Len(posted) + 1 /\ posted'[Len(posted) + 1] = next
      BY <2>1, <2>2, AppendProperties DEF Dispatch, IInv, TypeOK
    <3>2. QED
      BY <3>1 DEF Last
  <2>4. QED
    BY <2>2, <2>3
<1>2. QED
  BY <1>1, Inductive, PTL DEF Spec, NeverEarly
===============================================================================
