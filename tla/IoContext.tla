------------------------------ MODULE IoContext ------------------------------
(***************************************************************************)
(* io_context: services made on first use, shutdown() that destroys them   *)
(* one after the other, both under lifecycle_mutex_, and the threads of    *)
(* those services, the loop and other threads, whose code calls it.        *)
(*                                                                         *)
(* What a service does is reduced to what its life depends on: whether its *)
(* thread is running user code, will end when told to, and has left jobs   *)
(* with the loop that refer to it.                                         *)
(***************************************************************************)
EXTENDS Naturals, FiniteSets

CONSTANTS Callers,   \* threads that are neither the loop nor a service's
          MaxUses,   \* bound: calls of accessors, jobs, callables, coroutines
          None

Services == {"net", "signals", "timer", "pool"}
UserThreads == Callers \cup {"loop", "net", "pool"}

ASSUME IoContextAssumption ==
  /\ MaxUses \in Nat
  /\ Callers \cap (Services \cup {"loop", "shutdown"}) = {}
  /\ None \notin UserThreads \cup Services

VARIABLES
  service,    \* service[s]: "null", "up", "dying" (in its destructor) or "gone"
  thread,     \* thread[s]: see ThreadStates
  lifecycle_mutex_,  \* the thread that holds it across steps, or None
  shutdown_done_, stop_requested_,
  call,       \* call[t]: the accessor or shutdown() t is inside, or None
  ref,        \* ref[t]: services t has got a reference to
  loop,       \* "running" or "returned"
  queued,     \* jobs in the pool's queue
  posted,     \* posted[s]: callables in the loop's queue that refer to s
  uses,       \* accessor calls, jobs, callables and coroutines so far
  returned,   \* history: threads back from shutdown()
  dangling,   \* history: threads that used a destroyed service
  overlap     \* history: shutdown() was called before run() had returned

vars == <<service, thread, lifecycle_mutex_, shutdown_done_, stop_requested_,
          call, ref, loop, queued, posted, uses, returned, dangling, overlap>>

\* none      not started
\* idle      in its loop, will end when told to
\* user      running user code: a job, or a coroutine resumed by the net thread
\* sigwait   the signal worker, until a signal comes
\* ended     left its function
\* detached  running user code, and its service destroyed by it
ThreadStates == {"none", "idle", "user", "sigwait", "ended", "detached"}

TypeOK ==
  /\ service \in [Services -> {"null", "up", "dying", "gone"}]
  /\ thread \in [Services -> ThreadStates]
  /\ lifecycle_mutex_ \in UserThreads \cup {None}
  /\ shutdown_done_ \in BOOLEAN /\ stop_requested_ \in BOOLEAN
  /\ call \in [UserThreads -> Services \cup {"shutdown", None}]
  /\ ref \in [UserThreads -> SUBSET Services]
  /\ loop \in {"running", "returned"}
  /\ queued \in 0..MaxUses /\ posted \in [{"signals", "timer"} -> 0..MaxUses]
  /\ uses \in 0..MaxUses
  /\ returned \subseteq UserThreads /\ dangling \subseteq UserThreads
  /\ overlap \in BOOLEAN

Init ==
  /\ service = [s \in Services |-> "null"] /\ thread = [s \in Services |-> "none"]
  /\ lifecycle_mutex_ = None
  /\ shutdown_done_ = FALSE /\ stop_requested_ = FALSE
  /\ call = [t \in UserThreads |-> None] /\ ref = [t \in UserThreads |-> {}]
  /\ loop = "running" /\ queued = 0 /\ posted = [s \in {"signals", "timer"} |-> 0]
  /\ uses = 0
  /\ returned = {} /\ dangling = {} /\ overlap = FALSE

lifecycle == <<lifecycle_mutex_, shutdown_done_, stop_requested_, returned, overlap>>

\* Threads that run user code, which is not inside a call of io_context.
Free(t) ==
  /\ call[t] = None
  /\ t = "loop" => loop = "running"
  /\ t \in Services => thread[t] \in {"user", "detached"}

-------------------------------------------------------------------------------
(* cpu_pool(), timers(), signals(), net().                                 *)

Call(t, s) ==
  /\ Free(t) /\ s \notin ref[t] /\ uses < MaxUses
  /\ call' = [call EXCEPT ![t] = s] /\ uses' = uses + 1
  /\ UNCHANGED <<service, thread, lifecycle, ref, loop, queued, posted, dangling>>

\* make_unique<...>: the pool, the timer and the network service start their
\* thread in the constructor, the signal set with the first async_wait().
Make(s) ==
  /\ service' = [service EXCEPT ![s] = "up"]
  /\ thread' = [thread EXCEPT ![s] = IF s = "signals" THEN "none" ELSE "idle"]

Mut_Access(t, s) ==
  /\ call[t] = s /\ lifecycle_mutex_ = None
  /\ IF service[s] # "up" THEN Make(s) ELSE UNCHANGED <<service, thread>>
  /\ ref' = [ref EXCEPT ![t] = @ \cup {s}]
  /\ call' = [call EXCEPT ![t] = None]
  /\ UNCHANGED <<lifecycle, loop, queued, posted, uses, dangling>>

\* The service, made now if it is not there.
Access(t, s) ==
  /\ call[t] = s /\ lifecycle_mutex_ = None /\ ~shutdown_done_
  /\ IF service[s] = "null" THEN Make(s) ELSE UNCHANGED <<service, thread>>
  /\ ref' = [ref EXCEPT ![t] = @ \cup {s}]
  /\ call' = [call EXCEPT ![t] = None]
  /\ UNCHANGED <<lifecycle, loop, queued, posted, uses, dangling>>

\* ensure_not_shutdown() throws.
AccessThrows(t) ==
  /\ call[t] \in Services /\ lifecycle_mutex_ = None /\ shutdown_done_
  /\ call' = [call EXCEPT ![t] = None]
  /\ UNCHANGED <<service, thread, lifecycle, ref, loop, queued, posted, uses, dangling>>

-------------------------------------------------------------------------------
(* shutdown(), also from ~io_context().                                    *)

CallShutdown(t) ==
  /\ Free(t) /\ t \notin returned
  /\ call' = [call EXCEPT ![t] = "shutdown"]
  /\ UNCHANGED <<service, thread, lifecycle, ref, loop, queued, posted, uses, dangling>>

\* The first to come stops the scheduler and keeps the mutex.
BeginShutdown(t) ==
  /\ call[t] = "shutdown" /\ lifecycle_mutex_ = None /\ ~shutdown_done_
  /\ shutdown_done_' = TRUE /\ stop_requested_' = TRUE
  /\ lifecycle_mutex_' = t
  /\ overlap' = (loop = "running")
  /\ UNCHANGED <<service, thread, call, ref, loop, queued, posted, uses, returned, dangling>>

\* shutdown_done_ was set: nothing is left to do.
ShutdownAgain(t) ==
  /\ call[t] = "shutdown" /\ lifecycle_mutex_ = None /\ shutdown_done_
  /\ call' = [call EXCEPT ![t] = None]
  /\ returned' = returned \cup {t}
  /\ UNCHANGED <<service, thread, lifecycle_mutex_, shutdown_done_, stop_requested_,
                 ref, loop, queued, posted, uses, dangling, overlap>>

\* net_, signals_, timer_, cpu_pool_, in this order.
Before(s) == CASE s = "net"     -> {}
               [] s = "signals" -> {"net"}
               [] s = "timer"   -> {"net", "signals"}
               [] s = "pool"    -> {"net", "signals", "timer"}

Mut_Reset(t, s) ==
  /\ lifecycle_mutex_ = t
  /\ service[s] = "up"
  /\ service' = [service EXCEPT ![s] = "dying"]
  /\ UNCHANGED <<thread, lifecycle, call, ref, loop, queued, posted, uses, dangling>>

\* reset() enters the destructor, which tells the service's thread to end.
Reset(t, s) ==
  /\ lifecycle_mutex_ = t
  /\ service[s] = "up" /\ \A r \in Before(s) : service[r] \in {"null", "gone"}
  /\ service' = [service EXCEPT ![s] = "dying"]
  /\ UNCHANGED <<thread, lifecycle, call, ref, loop, queued, posted, uses, dangling>>

Mut_Joined(t, s) ==
  /\ lifecycle_mutex_ = t /\ service[s] = "dying"
  /\ thread[s] \in {"none", "ended"}
  /\ service' = [service EXCEPT ![s] = "gone"]
  /\ UNCHANGED <<thread, lifecycle, call, ref, loop, queued, posted, uses, dangling>>

\* The destructor joins the thread, or detaches it if it is the calling one.
Joined(t, s) ==
  /\ lifecycle_mutex_ = t /\ service[s] = "dying"
  /\ thread[s] \in {"none", "ended"} \/ s = t
  /\ service' = [service EXCEPT ![s] = "gone"]
  /\ thread' = [thread EXCEPT ![s] = IF s = t THEN "detached" ELSE @]
  /\ UNCHANGED <<lifecycle, call, ref, loop, queued, posted, uses, dangling>>

EndShutdown(t) ==
  /\ lifecycle_mutex_ = t /\ \A s \in Services : service[s] \in {"null", "gone"}
  /\ lifecycle_mutex_' = None
  /\ call' = [call EXCEPT ![t] = None]
  /\ returned' = returned \cup {t}
  /\ UNCHANGED <<service, thread, shutdown_done_, stop_requested_, ref, loop,
                 queued, posted, uses, dangling, overlap>>

-------------------------------------------------------------------------------
(* Use of the services, and their threads.                                 *)

\* A call of a member function through a reference obtained earlier.  In a
\* service that has been told to end it changes nothing.
Use(t, s, thr, q, n) ==
  /\ Free(t) /\ s \in ref[t]
  /\ service[s] = "up"
  /\ thread' = thr /\ queued' = q /\ uses' = n
  /\ UNCHANGED <<service, lifecycle, call, ref, loop, posted, dangling>>

Submit(t) == uses < MaxUses /\ Use(t, "pool", thread, queued + 1, uses + 1)

AsyncWait(t) ==
  thread["signals"] = "none" /\ Use(t, "signals", [thread EXCEPT !["signals"] = "sigwait"], queued, uses)

\* The same call when the service is destroyed.
UseGone(t, s) ==
  /\ Free(t) /\ s \in ref[t]
  /\ service[s] = "gone" /\ t \notin dangling
  /\ dangling' = dangling \cup {t}
  /\ UNCHANGED <<service, thread, lifecycle, call, ref, loop, queued, posted, uses>>

\* A pool worker takes a job.
TakeJob ==
  /\ thread["pool"] = "idle" /\ queued > 0
  /\ thread' = [thread EXCEPT !["pool"] = "user"]
  /\ queued' = queued - 1
  /\ UNCHANGED <<service, lifecycle, call, ref, loop, posted, uses, dangling>>

\* resume_on_ctx() after a stop request: the net thread resumes a coroutine,
\* which may have references from its time on the loop.
ResumeInline ==
  /\ thread["net"] = "idle" /\ service["net"] = "up" /\ stop_requested_ /\ uses < MaxUses
  /\ thread' = [thread EXCEPT !["net"] = "user"]
  /\ ref' = [ref EXCEPT !["net"] = ref["loop"]]
  /\ uses' = uses + 1
  /\ UNCHANGED <<service, lifecycle, call, loop, queued, posted, dangling>>

\* User code on a service's thread is over.
EndUser(s) ==
  /\ s \in {"net", "pool"} /\ thread[s] = "user" /\ call[s] = None
  /\ thread' = [thread EXCEPT ![s] = "idle"]
  /\ ref' = [ref EXCEPT ![s] = {}]
  /\ UNCHANGED <<service, lifecycle, call, loop, queued, posted, uses, dangling>>

\* The timer's worker and the signal worker post callables that refer to them:
\* the sleep job's timer_self, the signal job's this.
PostJob(s) ==
  /\ \/ s = "timer" /\ thread[s] = "idle"
     \/ s = "signals" /\ thread[s] = "sigwait" /\ service[s] = "up"
  /\ uses < MaxUses
  /\ posted' = [posted EXCEPT ![s] = @ + 1] /\ uses' = uses + 1
  /\ UNCHANGED <<service, thread, lifecycle, call, ref, loop, queued, dangling>>

\* A service's thread, told to end, does; the pool's after draining its queue.
EndThread(s) ==
  /\ thread[s] = "idle" /\ service[s] = "dying"
  /\ s = "pool" => queued = 0
  /\ thread' = [thread EXCEPT ![s] = "ended"]
  /\ UNCHANGED <<service, lifecycle, call, ref, loop, queued, posted, uses, dangling>>

\* A signal comes for a worker that has been told to end.
Signal ==
  /\ thread["signals"] = "sigwait" /\ service["signals"] = "dying"
  /\ thread' = [thread EXCEPT !["signals"] = "ended"]
  /\ UNCHANGED <<service, lifecycle, call, ref, loop, queued, posted, uses, dangling>>

-------------------------------------------------------------------------------
(* The loop.                                                               *)

RunJob(s) ==
  /\ loop = "running" /\ call["loop"] = None /\ posted[s] > 0
  /\ posted' = [posted EXCEPT ![s] = @ - 1]
  /\ dangling' = IF service[s] = "gone" THEN dangling \cup {"loop"} ELSE dangling
  /\ UNCHANGED <<service, thread, lifecycle, call, ref, loop, queued, uses>>

Stop ==
  /\ ~stop_requested_ /\ stop_requested_' = TRUE
  /\ UNCHANGED <<service, thread, lifecycle_mutex_, shutdown_done_, call, ref, loop,
                 queued, posted, uses, returned, dangling, overlap>>

Return ==
  /\ loop = "running" /\ call["loop"] = None /\ stop_requested_
  /\ \A s \in {"signals", "timer"} : posted[s] = 0
  /\ loop' = "returned"
  /\ UNCHANGED <<service, thread, lifecycle, call, ref, queued, posted, uses, dangling>>

-------------------------------------------------------------------------------
InCall(t) ==
  \/ \E s \in Services : Access(t, s) \/ Reset(t, s) \/ Joined(t, s)
  \/ AccessThrows(t) \/ BeginShutdown(t) \/ ShutdownAgain(t) \/ EndShutdown(t)

ServiceStep(s) == EndUser(s) \/ EndThread(s) \/ (s = "pool" /\ TakeJob)

Next ==
  \/ \E t \in UserThreads :
       \/ InCall(t) \/ CallShutdown(t) \/ Submit(t) \/ AsyncWait(t)
       \/ \E s \in Services : Call(t, s) \/ UseGone(t, s)
  \/ \E s \in Services : ServiceStep(s)
  \/ ResumeInline \/ Signal \/ Stop \/ Return
  \/ \E s \in {"signals", "timer"} : PostJob(s) \/ RunJob(s)

Spec == Init /\ [][Next]_vars

\* Threads run, also through the calls they are inside, and user code on a
\* service's thread comes to an end.
FairSpec ==
  /\ Spec
  /\ \A t \in UserThreads : WF_vars(InCall(t))
  /\ \A s \in Services : WF_vars(ServiceStep(s))

-------------------------------------------------------------------------------
(* Properties.                                                             *)

\* "shutdown is serialized and idempotent", "services cannot be recreated after
\* shutdown" (io_context.hpp:61): once any call of shutdown() is back, also one
\* that found the flag set by another thread, there is no service and no thread
\* of one, whatever accessors were waiting.  A thread that shut the context down
\* itself is the exception.
ShutdownIsFinal ==
  returned # {} =>
    \A s \in Services : service[s] \in {"null", "gone"}
                        /\ thread[s] \in {"none", "ended", "detached"}

\* Coroutines that the net thread resumes during shutdown() find the services
\* they have references to, because the network service goes first; callables of
\* the loop find theirs if run() had returned when shutdown() was called.
UsesAreLive ==
  /\ "net" \in dangling => thread["net"] = "detached"
  /\ "loop" \in dangling => overlap

\* Two ways to hang: the thread being joined waits for the mutex that the joining
\* thread holds, or for a signal.
Stuck ==
  \E s \in Services :
    /\ service[s] = "dying"
    /\ \/ thread[s] = "sigwait"
       \/ s \in UserThreads /\ s # lifecycle_mutex_ /\ call[s] # None

\* Accessors and shutdown() return, from any thread and in any order, unless
\* shutdown() hangs in one of those two ways.
CallsReturn ==
  \A t \in UserThreads : call[t] # None ~> (call[t] = None \/ Stuck)
=============================================================================
