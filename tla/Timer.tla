-------------------------------- MODULE Timer --------------------------------
(***************************************************************************)
(* core::timer: entries ordered by (deadline, id), one worker thread that  *)
(* holds the next entry in its hands while it waits for its deadline, and  *)
(* the posting of due jobs to the io_context.                              *)
(*                                                                         *)
(* Every write of stop_ and q_ is made under m_, so testing a predicate    *)
(* and entering the wait set is one step here.                             *)
(***************************************************************************)
EXTENDS Integers, FiniteSets, Sequences, SequencesExt

CONSTANTS Clients,     \* threads that call after(), sleep_for() and stop()
          Delays,      \* durations passed to after() and sleep_for()
          MaxEntries,  \* bound: entries ever queued
          MaxTime,     \* bound: the clock stops here, and deadlines do not pass it
          None

ASSUME TimerAssumption ==
  /\ Delays \subseteq Nat
  /\ MaxEntries \in Nat /\ MaxTime \in Nat

VARIABLES
  now,        \* steady_clock
  q_,         \* a set: the multiset's keys are distinct because ids are
  stop_, seq_,
  worker,     \* where timer_loop() is (see WorkerStates)
  next,       \* the entry in the worker's hands, or None
  call,       \* call[c]: what is left of the operation c is inside
  cancelled,  \* ids of the entries whose token is cancelled
  posted,     \* history: entries whose job was posted, in order
  skipped,    \* history: ids of entries found cancelled
  dropped     \* history: ids of entries lost to stop()

vars == <<now, q_, stop_, seq_, worker, next, call, cancelled, posted,
          skipped, dropped>>
history == <<posted, skipped, dropped>>

\* top      about to lock m_ and wait for an entry
\* blocked  in the wait set, until an entry or stop_
\* test     comparing the clock with next.when, m_ not held
\* lock     not due: about to lock m_
\* timed    in the wait set, until next.when or stop_
\* woken    notified out of wait_until, before its predicate is tested again
\* due      next is due, m_ not held
\* done     left timer_loop()
WorkerStates == {"top", "blocked", "test", "lock", "timed", "woken", "due", "done"}

Entries == [when : 0..MaxTime, id : 1..MaxEntries, ct : BOOLEAN]
ASSUME NoneAssumption == None \notin Entries

Calls == [op : {"none", "schedule", "notify"}, when : 0..MaxTime, ct : BOOLEAN]
Idle == [op |-> "none", when |-> 0, ct |-> FALSE]
Notifying == [op |-> "notify", when |-> 0, ct |-> FALSE]

TypeOK ==
  /\ now \in 0..MaxTime /\ seq_ \in 0..MaxEntries /\ stop_ \in BOOLEAN
  /\ q_ \subseteq Entries /\ next \in Entries \cup {None}
  /\ worker \in WorkerStates
  /\ call \in [Clients -> Calls]
  /\ cancelled \subseteq 1..MaxEntries
  /\ posted \in Seq(Entries)
  /\ skipped \subseteq 1..MaxEntries /\ dropped \subseteq 1..MaxEntries

Init ==
  /\ now = 0 /\ q_ = {} /\ stop_ = FALSE /\ seq_ = 0
  /\ worker = "top" /\ next = None
  /\ call = [c \in Clients |-> Idle]
  /\ cancelled = {}
  /\ posted = <<>> /\ skipped = {} /\ dropped = {}

Ids(S) == {e.id : e \in S}

Mut_Before(a, b) == a.when < b.when \/ (a.when = b.when /\ a.id > b.id)

\* cmp: by deadline, then by id.
Before(a, b) == a.when < b.when \/ (a.when = b.when /\ a.id < b.id)

\* q_.begin().
First == CHOOSE e \in q_ : \A f \in q_ \ {e} : Before(e, f)

-------------------------------------------------------------------------------
(* Clients.                                                                *)

\* after(): the deadline is computed before m_ is taken.  sleep_for() comes
\* here too, with an entry that carries no token.
After(c, d, ct) ==
  /\ call[c].op = "none" /\ seq_ < MaxEntries /\ now + d <= MaxTime
  /\ call' = [call EXCEPT ![c] = [op |-> "schedule", when |-> now + d, ct |-> ct]]
  /\ UNCHANGED <<now, q_, stop_, seq_, worker, next, cancelled, history>>

Mut_ScheduleStopped(c) ==
  /\ call[c].op = "schedule" /\ seq_ < MaxEntries
  /\ seq_' = seq_ + 1
  /\ q_' = q_ \cup {[when |-> call[c].when, id |-> seq_ + 1, ct |-> call[c].ct]}
  /\ call' = [call EXCEPT ![c] = Notifying]
  /\ UNCHANGED <<now, stop_, worker, next, cancelled, history>>

Mut_ScheduleSilent(c) ==
  /\ call[c].op = "schedule" /\ ~stop_ /\ seq_ < MaxEntries
  /\ seq_' = seq_ + 1
  /\ q_' = q_ \cup {[when |-> call[c].when, id |-> seq_ + 1, ct |-> call[c].ct]}
  /\ call' = [call EXCEPT ![c] = Idle]
  /\ UNCHANGED <<now, stop_, worker, next, cancelled, history>>

\* schedule() of a running timer.
Schedule(c) ==
  /\ call[c].op = "schedule" /\ ~stop_ /\ seq_ < MaxEntries
  /\ seq_' = seq_ + 1
  /\ q_' = q_ \cup {[when |-> call[c].when, id |-> seq_ + 1, ct |-> call[c].ct]}
  /\ call' = [call EXCEPT ![c] = Notifying]
  /\ UNCHANGED <<now, stop_, worker, next, cancelled, history>>

\* A stopped timer ignores the request.
ScheduleRefused(c) ==
  /\ call[c].op = "schedule" /\ stop_
  /\ call' = [call EXCEPT ![c] = Idle]
  /\ UNCHANGED <<now, q_, stop_, seq_, worker, next, cancelled, history>>

Mut_Stop(c) ==
  /\ call[c].op = "none"
  /\ stop_' = TRUE
  /\ dropped' = dropped \cup Ids(q_) /\ q_' = {}
  /\ UNCHANGED <<now, seq_, worker, next, call, cancelled, posted, skipped>>

Stop(c) ==
  /\ call[c].op = "none"
  /\ stop_' = TRUE
  /\ dropped' = dropped \cup Ids(q_) /\ q_' = {}
  /\ call' = [call EXCEPT ![c] = Notifying]
  /\ UNCHANGED <<now, seq_, worker, next, cancelled, posted, skipped>>

\* cv_.notify_all(): the worker is the only waiter.
Notify(c) ==
  /\ call[c].op = "notify"
  /\ call' = [call EXCEPT ![c] = Idle]
  /\ worker' = CASE worker = "blocked" -> "top"
                 [] worker = "timed" -> "woken"
                 [] OTHER -> worker
  /\ UNCHANGED <<now, q_, stop_, seq_, next, cancelled, history>>

\* cancel_source::request_cancel() on the token of an entry not yet dispatched.
Cancel ==
  /\ \E e \in q_ \cup (IF next = None THEN {} ELSE {next}) :
       /\ e.ct /\ e.id \notin cancelled
       /\ cancelled' = cancelled \cup {e.id}
  /\ UNCHANGED <<now, q_, stop_, seq_, worker, next, call, history>>

Tick ==
  /\ now < MaxTime
  /\ now' = now + 1
  /\ UNCHANGED <<q_, stop_, seq_, worker, next, call, cancelled, history>>

-------------------------------------------------------------------------------
(* timer_loop().                                                           *)

idle == <<now, stop_, seq_, call, cancelled>>

WaitForEntry ==
  /\ worker = "top" /\ ~stop_ /\ q_ = {}
  /\ worker' = "blocked"
  /\ UNCHANGED <<q_, next, idle, history>>

ExitTop ==
  /\ worker = "top" /\ stop_
  /\ worker' = "done"
  /\ UNCHANGED <<q_, next, idle, history>>

TakeFirst ==
  /\ worker = "top" /\ ~stop_ /\ q_ # {}
  /\ next' = First
  /\ q_' = q_ \ {First}
  /\ worker' = "test"
  /\ UNCHANGED <<idle, history>>

Mut_TestClock ==
  /\ worker = "test"
  /\ worker' = IF now + 1 >= next.when THEN "due" ELSE "lock"
  /\ UNCHANGED <<q_, next, idle, history>>

\* The clock is read without m_.
TestClock ==
  /\ worker = "test"
  /\ worker' = IF now >= next.when THEN "due" ELSE "lock"
  /\ UNCHANGED <<q_, next, idle, history>>

\* stop_ seen before or after the timed wait: the entry in hand is abandoned.
ExitHolding ==
  /\ \/ worker \in {"lock", "woken"}
     \/ worker = "timed" /\ now >= next.when
  /\ stop_
  /\ worker' = "done"
  /\ dropped' = dropped \cup {next.id}
  /\ next' = None
  /\ UNCHANGED <<q_, idle, posted, skipped>>

Mut_Swap ==
  /\ worker = "lock" /\ ~stop_
  /\ q_ # {} /\ First.when < next.when
  /\ next' = First
  /\ q_' = q_ \ {First}
  /\ worker' = "test"
  /\ UNCHANGED <<idle, history>>

\* A queued entry is earlier: put the one in hand back and take that one.
Swap ==
  /\ worker = "lock" /\ ~stop_
  /\ q_ # {} /\ First.when < next.when
  /\ next' = First
  /\ q_' = (q_ \ {First}) \cup {next}
  /\ worker' = "test"
  /\ UNCHANGED <<idle, history>>

\* wait_until(next.when), whose predicate is stop_ alone.
WaitUntil ==
  /\ worker = "lock" /\ ~stop_
  /\ q_ # {} => First.when >= next.when
  /\ worker' = "timed"
  /\ UNCHANGED <<q_, next, idle, history>>

\* Notified before the deadline, but stop_ is not set: wait on for it.
WaitAgain ==
  /\ worker = "woken" /\ now < next.when /\ ~stop_
  /\ worker' = "timed"
  /\ UNCHANGED <<q_, next, idle, history>>

TimedOut ==
  /\ worker \in {"timed", "woken"} /\ now >= next.when /\ ~stop_
  /\ worker' = "test"
  /\ UNCHANGED <<q_, next, idle, history>>

Spurious ==
  /\ worker \in {"blocked", "timed"}
  /\ worker' = IF worker = "blocked" THEN "top" ELSE "woken"
  /\ UNCHANGED <<q_, next, idle, history>>

SkipCancelled ==
  /\ worker = "due" /\ next.ct /\ next.id \in cancelled
  /\ skipped' = skipped \cup {next.id}
  /\ next' = None
  /\ worker' = "top"
  /\ UNCHANGED <<q_, idle, posted, dropped>>

\* ctx_post of the job, whatever stop_ says by now.
Dispatch ==
  /\ worker = "due" /\ ~(next.ct /\ next.id \in cancelled)
  /\ posted' = Append(posted, next)
  /\ next' = None
  /\ worker' = "top"
  /\ UNCHANGED <<q_, idle, skipped, dropped>>

-------------------------------------------------------------------------------
InCall(c) == Schedule(c) \/ ScheduleRefused(c) \/ Notify(c)

WorkerStep ==
  \/ WaitForEntry \/ ExitTop \/ TakeFirst \/ TestClock \/ ExitHolding \/ Swap
  \/ WaitUntil \/ WaitAgain \/ TimedOut \/ SkipCancelled \/ Dispatch

Next ==
  \/ \E c \in Clients :
       \/ \E d \in Delays, ct \in BOOLEAN : After(c, d, ct)
       \/ InCall(c) \/ Stop(c)
  \/ Cancel \/ Tick \/ WorkerStep \/ Spurious

Spec == Init /\ [][Next]_vars

\* Time passes, the worker thread runs, and a call once begun goes on.
Fairness == WF_vars(Tick) /\ WF_vars(WorkerStep) /\ \A c \in Clients : WF_vars(InCall(c))

FairSpec == Spec /\ Fairness

-------------------------------------------------------------------------------
(* Properties.                                                             *)

\* No job is posted before its deadline, whatever entries are swapped in and
\* out of the worker's hands.
NeverEarly ==
  [][posted' # posted => now >= Last(posted').when]_vars

PostedIds == {posted[i].id : i \in DOMAIN posted}
HeldIds == IF next = None THEN {} ELSE {next.id}

\* Every entry ever queued is in exactly one place: still queued, in the
\* worker's hands, posted (once), skipped as cancelled, or dropped by stop().
EachEntryOnce ==
  /\ Ids(q_) \cup HeldIds \cup PostedIds \cup skipped \cup dropped = 1..seq_
  /\ HeldIds \cap Ids(q_) = {}
  /\ PostedIds \cap (Ids(q_) \cup HeldIds) = {}
  /\ skipped \cap (Ids(q_) \cup HeldIds \cup PostedIds) = {}
  /\ dropped \cap (Ids(q_) \cup HeldIds \cup PostedIds \cup skipped) = {}
  /\ \A e, f \in q_ : e.id = f.id => e = f
  /\ \A i, j \in DOMAIN posted : posted[i].id = posted[j].id => i = j

\* Entries with the same deadline are posted in the order they were queued:
\* "used to break ties for identical deadlines" (timer.hpp:240) survives swaps.
SameDeadlineInOrder ==
  \A i, j \in DOMAIN posted :
    i < j /\ posted[i].when = posted[j].when => posted[i].id < posted[j].id

\* After stop() the queue stays empty: neither a schedule() racing with it nor
\* the worker putting back the entry in its hands leaves a job behind.
NothingQueuedAfterStop == stop_ => q_ = {}

\* As long as the timer is not stopped, every entry is eventually posted or
\* skipped, also one queued while the worker waits for a later deadline.
EntriesFire ==
  \A i \in 1..MaxEntries : seq_ >= i ~> (i \in PostedIds \cup skipped \/ stop_)

\* stop() reaches the worker wherever it waits, so the destructor's join returns.
StopEndsWorker == stop_ ~> worker = "done"

\* "keeps an ordered queue of timer entries and uses a worker thread to wait for
\* the next deadline" (timer.hpp:45): once every insertion has been notified,
\* a waiting worker waits for the earliest deadline there is.
WaitsForNextDeadline ==
  worker = "timed" /\ (\A c \in Clients : call[c].op # "notify") =>
    \A e \in q_ : e.when >= next.when
===============================================================================
