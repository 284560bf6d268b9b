--------------------------- MODULE IoContextProofs ---------------------------
(***************************************************************************)
(* Theorems about IoContext for any callers and any number of uses.        *)
(***************************************************************************)
EXTENDS IoContext, TLAPS

Down == {"null", "gone"}
Over == {"none", "ended", "detached"}

\* Every queued job and posted callable has been counted.
Counted == queued <= uses /\ \A s \in {"signals", "timer"} : posted[s] <= uses

\* A thread that is not over belongs to a service that is there.
ThreadsBelong == \A s \in Services : service[s] \in Down => thread[s] \in Over

\* lifecycle_mutex_ is kept across steps by the first shutdown() alone.
HolderShutsDown ==
  lifecycle_mutex_ # None => shutdown_done_ /\ returned = {}

\* Services are destroyed only in shutdown(), and when it lets go of the mutex
\* all of them are.
DownAfterShutdown ==
  /\ ~shutdown_done_ => returned = {} /\ \A s \in Services : service[s] \in {"null", "up"}
  /\ shutdown_done_ /\ lifecycle_mutex_ = None => \A s \in Services : service[s] \in Down

\* The network service is the first to go.
NetFirst ==
  \A s \in Services \ {"net"} : service[s] \in {"dying", "gone"} => service["net"] \in Down

\* Without overlap the loop is over before the first service is destroyed.
LoopBefore ==
  /\ shutdown_done_ /\ ~overlap => loop = "returned"
  /\ ~shutdown_done_ => dangling = {}

IInv ==
  /\ TypeOK /\ Counted /\ ThreadsBelong /\ HolderShutsDown /\ DownAfterShutdown /\ NetFirst
  /\ LoopBefore /\ UsesAreLive

-------------------------------------------------------------------------------
\* A new context has no service and no thread of one.
LEMMA InitIInv == Init => IInv
<1> SUFFICES ASSUME Init PROVE IInv
  OBVIOUS
<1>1. TypeOK
  <2>1. /\ call \in [UserThreads -> Services \cup {"shutdown", None}]
        /\ ref \in [UserThreads -> SUBSET Services]
    BY DEF Init
  <2>2. /\ service \in [Services -> {"null", "up", "dying", "gone"}]
        /\ thread \in [Services -> ThreadStates]
    BY DEF Init, ThreadStates
  <2>3. queued \in 0..MaxUses /\ uses \in 0..MaxUses /\ posted \in [{"signals", "timer"} -> 0..MaxUses]
    BY IoContextAssumption DEF Init
  <2>4. QED
    BY <2>1, <2>2, <2>3, Zenon DEF Init, TypeOK
<1>2. /\ Counted /\ ThreadsBelong /\ HolderShutsDown /\ DownAfterShutdown /\ NetFirst
      /\ LoopBefore /\ UsesAreLive
  BY DEF Init, Counted, ThreadsBelong, HolderShutsDown, DownAfterShutdown, NetFirst, LoopBefore,
         UsesAreLive, Services, Down, Over
<1>3. QED
  BY <1>1, <1>2 DEF IInv

\* The variables keep their types.
LEMMA TypeStep ==
  ASSUME TypeOK, Counted, [Next]_vars
  PROVE  TypeOK' /\ Counted'
<1> USE IoContextAssumption
<1>1. ASSUME NEW t \in UserThreads, NEW s \in Services, Call(t, s)
      PROVE  TypeOK' /\ Counted'
  BY <1>1 DEF TypeOK, Counted, Call, lifecycle
<1>2. ASSUME NEW t \in UserThreads, NEW s \in Services, Access(t, s)
      PROVE  TypeOK' /\ Counted'
  <2>1. /\ service' \in [Services -> {"null", "up", "dying", "gone"}]
        /\ thread' \in [Services -> ThreadStates]
    BY <1>2 DEF TypeOK, Counted, Access, Make, ThreadStates
  <2>2. /\ ref' \in [UserThreads -> SUBSET Services]
        /\ call' \in [UserThreads -> Services \cup {"shutdown", None}]
    BY <1>2 DEF TypeOK, Counted, Access
  <2>3. QED
    BY <1>2, <2>1, <2>2 DEF TypeOK, Counted, Access, lifecycle
<1>3. ASSUME NEW t \in UserThreads, AccessThrows(t) \/ CallShutdown(t)
      PROVE  TypeOK' /\ Counted'
  BY <1>3 DEF TypeOK, Counted, AccessThrows, CallShutdown, lifecycle
<1>4. ASSUME NEW t \in UserThreads, BeginShutdown(t)
      PROVE  TypeOK' /\ Counted'
  BY <1>4 DEF TypeOK, Counted, BeginShutdown
<1>5. ASSUME NEW t \in UserThreads, ShutdownAgain(t) \/ EndShutdown(t)
      PROVE  TypeOK' /\ Counted'
  BY <1>5 DEF TypeOK, Counted, ShutdownAgain, EndShutdown
<1>6. ASSUME NEW t \in UserThreads, NEW s \in Services, Reset(t, s) \/ Joined(t, s)
      PROVE  TypeOK' /\ Counted'
  BY <1>6 DEF TypeOK, Counted, Reset, Joined, lifecycle, ThreadStates
<1>7. ASSUME NEW t \in UserThreads, Submit(t) \/ AsyncWait(t)
      PROVE  TypeOK' /\ Counted'
  <2>1. CASE Submit(t)
    BY <1>7, <2>1 DEF TypeOK, Counted, Submit, Use, lifecycle
  <2>2. CASE AsyncWait(t)
    BY <1>7, <2>2 DEF TypeOK, Counted, AsyncWait, Use, lifecycle, ThreadStates
  <2>3. QED
    BY <1>7, <2>1, <2>2
<1>8. ASSUME NEW t \in UserThreads, NEW s \in Services, UseGone(t, s)
      PROVE  TypeOK' /\ Counted'
  BY <1>8 DEF TypeOK, Counted, UseGone, lifecycle
<1>9. CASE TakeJob \/ Signal
  BY <1>9 DEF TypeOK, Counted, TakeJob, Signal, lifecycle, ThreadStates
<1>10. CASE ResumeInline
  <2>1. thread' \in [Services -> ThreadStates]
    BY <1>10 DEF TypeOK, ResumeInline, ThreadStates
  <2>a. uses' \in 0..MaxUses /\ uses' = uses + 1 /\ queued' = queued /\ posted' = posted
    BY <1>10 DEF TypeOK, ResumeInline
  <2>2. ref' \in [UserThreads -> SUBSET Services]
    BY <1>10 DEF TypeOK, ResumeInline, UserThreads
  <2>3. QED
    BY <1>10, <2>1, <2>a, <2>2 DEF TypeOK, Counted, ResumeInline, lifecycle
<1>11. ASSUME NEW s \in Services, EndUser(s)
       PROVE  TypeOK' /\ Counted'
  BY <1>11 DEF TypeOK, Counted, EndUser, lifecycle, ThreadStates
<1>12. ASSUME NEW s \in Services, EndThread(s)
       PROVE  TypeOK' /\ Counted'
  BY <1>12 DEF TypeOK, Counted, EndThread, lifecycle, ThreadStates
<1>13. ASSUME NEW s \in {"signals", "timer"}, PostJob(s) \/ RunJob(s)
       PROVE  TypeOK' /\ Counted'
  <2>1. CASE PostJob(s)
    BY <2>1 DEF TypeOK, Counted, PostJob, lifecycle
  <2>2. CASE RunJob(s)
    <3>1. posted' \in [{"signals", "timer"} -> 0..MaxUses] /\ Counted'
      BY <2>2 DEF TypeOK, Counted, RunJob
    <3>2. dangling' \subseteq UserThreads
      BY <2>2 DEF TypeOK, RunJob, UserThreads
    <3>3. QED
      BY <2>2, <3>1, <3>2 DEF TypeOK, RunJob, lifecycle
  <2>3. QED
    BY <1>13, <2>1, <2>2
<1>14. CASE Stop \/ Return
  BY <1>14 DEF TypeOK, Counted, Stop, Return, lifecycle
<1>15. CASE UNCHANGED vars
  BY <1>15 DEF TypeOK, Counted, vars
<1>16. QED
  BY <1>1, <1>2, <1>3, <1>4, <1>5, <1>6, <1>7, <1>8, <1>9, <1>10, <1>11, <1>12, <1>13,
     <1>14, <1>15 DEF Next, InCall, ServiceStep

-------------------------------------------------------------------------------
life == <<service, thread, lifecycle_mutex_, shutdown_done_, returned>>

Life == ThreadsBelong /\ HolderShutsDown /\ DownAfterShutdown /\ NetFirst

\* Services are made before shutdown() and destroyed by it, the network first.
LEMMA LifeStep ==
  ASSUME TypeOK, Life, [Next]_vars
  PROVE  Life'
<1> USE IoContextAssumption DEF Down, Over
<1>a. /\ service \in [Services -> {"null", "up", "dying", "gone"}]
      /\ thread \in [Services -> ThreadStates] /\ "net" \in Services
      /\ None \notin UserThreads
  BY DEF TypeOK, Services
<1>1. CASE UNCHANGED life
  BY <1>1 DEF life, Life, ThreadsBelong, HolderShutsDown, DownAfterShutdown, NetFirst
<1>2. ASSUME NEW t \in UserThreads, NEW s \in Services, Access(t, s)
      PROVE  Life'
  <2>1. /\ ~shutdown_done_ /\ shutdown_done_' = shutdown_done_
        /\ lifecycle_mutex_' = None /\ lifecycle_mutex_ = None /\ returned' = returned
    BY <1>2 DEF Access, lifecycle
  <2>2. \A r \in Services : /\ service[r] \in {"null", "up"} /\ service'[r] \in {"null", "up"}
                            /\ service'[r] = "null" =>
                                 service[r] = "null" /\ thread'[r] = thread[r]
    BY <1>2, <1>a, <2>1 DEF Access, Make, Life, DownAfterShutdown
  <2>3. QED
    BY <2>1, <2>2 DEF Life, ThreadsBelong, HolderShutsDown, DownAfterShutdown, NetFirst
<1>3. ASSUME NEW t \in UserThreads, BeginShutdown(t)
      PROVE  Life'
  BY <1>3, <1>a DEF BeginShutdown, Life, ThreadsBelong, HolderShutsDown, DownAfterShutdown,
                    NetFirst
<1>4. ASSUME NEW t \in UserThreads, ShutdownAgain(t) \/ EndShutdown(t)
      PROVE  Life'
  BY <1>4, <1>a DEF ShutdownAgain, EndShutdown, Life, ThreadsBelong, HolderShutsDown,
                    DownAfterShutdown, NetFirst
<1>5. ASSUME NEW t \in UserThreads, NEW s \in Services, Reset(t, s)
      PROVE  Life'
  <2>1. s # "net" => "net" \in Before(s)
    BY Zenon DEF Before, Services
  <2>2. /\ service' = [service EXCEPT ![s] = "dying"] /\ thread' = thread
        /\ lifecycle_mutex_ # None
        /\ UNCHANGED <<lifecycle_mutex_, shutdown_done_, returned>>
        /\ s # "net" => service["net"] \in Down
    BY <1>5, <1>a, <2>1 DEF Reset, lifecycle
  <2>3. NetFirst'
    BY <1>a, <2>2, <1>5 DEF Life, NetFirst, Reset
  <2>4. QED
    BY <1>a, <2>2, <2>3 DEF Life, ThreadsBelong, HolderShutsDown, DownAfterShutdown
<1>6. ASSUME NEW t \in UserThreads, NEW s \in Services, Joined(t, s)
      PROVE  Life'
  <2>1. /\ service' = [service EXCEPT ![s] = "gone"] /\ service[s] = "dying"
        /\ lifecycle_mutex_ # None
        /\ UNCHANGED <<lifecycle_mutex_, shutdown_done_, returned>>
        /\ thread'[s] \in Over /\ \A r \in Services \ {s} : thread'[r] = thread[r]
    BY <1>6, <1>a DEF Joined, lifecycle
  <2>2. NetFirst'
    BY <1>a, <2>1 DEF Life, NetFirst
  <2>3. QED
    BY <1>a, <2>1, <2>2 DEF Life, ThreadsBelong, HolderShutsDown, DownAfterShutdown
<1>7. ASSUME service' = service, UNCHANGED <<lifecycle_mutex_, shutdown_done_, returned>>,
             \A s \in Services : thread'[s] = thread[s] \/ thread'[s] \in Over
                               \/ service[s] \notin Down
      PROVE  Life'
  BY <1>7 DEF Life, ThreadsBelong, HolderShutsDown, DownAfterShutdown, NetFirst
<1>8. CASE TakeJob \/ Signal \/ ResumeInline \/ (\E t \in UserThreads : AsyncWait(t))
           \/ (\E s \in Services : EndUser(s) \/ EndThread(s))
  <2>1. service' = service /\ UNCHANGED <<lifecycle_mutex_, shutdown_done_, returned>>
    BY <1>8 DEF TakeJob, Signal, ResumeInline, AsyncWait, Use, EndUser, EndThread, lifecycle
  <2>2. \A s \in Services : thread[s] \in {"idle", "user", "sigwait"} => service[s] \notin Down
    BY DEF Life, ThreadsBelong
  <2>3. \A s \in Services : thread'[s] = thread[s] \/ thread'[s] \in Over
                            \/ service[s] \notin Down
    <3>1. CASE TakeJob \/ Signal \/ ResumeInline
      BY <1>a, <2>2, <3>1 DEF TakeJob, Signal, ResumeInline
    <3>2. CASE \E t \in UserThreads : AsyncWait(t)
      BY <1>a, <3>2 DEF AsyncWait, Use
    <3>3. CASE \E s \in Services : EndUser(s) \/ EndThread(s)
      BY <1>a, <2>2, <3>3 DEF EndUser, EndThread
    <3>4. QED
      BY <1>8, <3>1, <3>2, <3>3
  <2>4. QED
    BY <1>7, <2>1, <2>3
<1>9. ASSUME \/ \E t \in UserThreads : \/ AccessThrows(t) \/ CallShutdown(t) \/ Submit(t)
                                      \/ \E s \in Services : Call(t, s) \/ UseGone(t, s)
             \/ \E s \in {"signals", "timer"} : PostJob(s) \/ RunJob(s)
             \/ Stop \/ Return \/ UNCHANGED vars
      PROVE  UNCHANGED life
  BY <1>9 DEF AccessThrows, CallShutdown, Submit, Use, Call, UseGone, PostJob, RunJob, Stop,
              Return, vars, life, lifecycle
<1>10. QED
  BY <1>1, <1>2, <1>3, <1>4, <1>5, <1>6, <1>8, <1>9 DEF Next, InCall, ServiceStep

\* A use of a destroyed service comes from a net thread that shut the context
\* down itself, or from a loop that was running when shutdown() was called.
LEMMA UseStep ==
  ASSUME TypeOK, Life, LoopBefore, UsesAreLive, [Next]_vars
  PROVE  LoopBefore' /\ UsesAreLive'
<1> USE IoContextAssumption
<1> DEFINE Goal == LoopBefore' /\ UsesAreLive'
<1>a. /\ thread \in [Services -> ThreadStates] /\ "net" \in Services
      /\ loop \in {"running", "returned"} /\ overlap \in BOOLEAN
  BY DEF TypeOK, Services
<1>b. \A s \in Services : service[s] = "gone" => shutdown_done_
  BY DEF Life, DownAfterShutdown
<1>1. ASSUME UNCHANGED <<shutdown_done_, overlap, dangling>>,
             loop' = loop \/ loop' = "returned",
             thread["net"] = "detached" /\ shutdown_done_ => thread'["net"] = "detached"
      PROVE  Goal
  BY <1>1 DEF LoopBefore, UsesAreLive
<1>2. ASSUME NEW t \in UserThreads, NEW s \in Services, UseGone(t, s)
      PROVE  Goal
  <2>1. /\ shutdown_done_ /\ dangling' = dangling \cup {t} /\ service[s] = "gone" /\ Free(t)
        /\ UNCHANGED <<shutdown_done_, overlap, loop, thread>>
    BY <1>2, <1>b DEF UseGone, lifecycle
  <2>2. t = "net" => thread["net"] = "detached"
    <3>1. service["net"] \in Down
      BY <1>2, <2>1 DEF Life, NetFirst, Down
    <3>2. thread["net"] \in Over
      BY <3>1, <1>a DEF Life, ThreadsBelong
    <3>3. QED
      BY <2>1, <3>2, <1>a DEF Free, Over
  <2>3. t = "loop" => overlap
    BY <2>1 DEF Free, LoopBefore
  <2>4. QED
    BY <2>1, <2>2, <2>3 DEF LoopBefore, UsesAreLive
<1>3. ASSUME NEW s \in {"signals", "timer"}, RunJob(s)
      PROVE  Goal
  <2>1. /\ UNCHANGED <<shutdown_done_, overlap, loop, thread>> /\ loop = "running"
        /\ dangling' = IF service[s] = "gone" THEN dangling \cup {"loop"} ELSE dangling
    BY <1>3 DEF RunJob, lifecycle
  <2>2. service[s] = "gone" => shutdown_done_ /\ overlap
    BY <1>b, <2>1 DEF LoopBefore, Services
  <2>3. QED
    BY <2>1, <2>2 DEF LoopBefore, UsesAreLive
<1>4. ASSUME NEW t \in UserThreads, BeginShutdown(t)
      PROVE  Goal
  BY <1>4, <1>a DEF BeginShutdown, LoopBefore, UsesAreLive
<1>5. ASSUME NEW t \in UserThreads, NEW s \in Services, Access(t, s) \/ Joined(t, s)
      PROVE  Goal
  <2>1. /\ UNCHANGED <<shutdown_done_, overlap, dangling, loop>>
        /\ thread["net"] = "detached" /\ shutdown_done_ => thread'["net"] = "detached"
    BY <1>5, <1>a DEF Access, Joined, lifecycle
  <2>2. QED
    BY <1>1, <2>1
<1>6. ASSUME NEW t \in UserThreads,
             \/ AccessThrows(t) \/ CallShutdown(t) \/ ShutdownAgain(t) \/ EndShutdown(t)
             \/ Submit(t) \/ (\E s \in Services : Call(t, s) \/ Reset(t, s))
      PROVE  Goal
  <2>1. UNCHANGED <<shutdown_done_, overlap, dangling, loop, thread>>
    BY <1>6 DEF AccessThrows, CallShutdown, ShutdownAgain, EndShutdown, Submit, Use, Call, Reset,
                lifecycle
  <2>2. QED
    BY <1>1, <2>1
<1>7. CASE \/ TakeJob \/ Signal \/ ResumeInline \/ (\E t \in UserThreads : AsyncWait(t))
           \/ (\E s \in Services : EndUser(s) \/ EndThread(s))
  <2>1. UNCHANGED <<shutdown_done_, overlap, dangling, loop>>
    BY <1>7 DEF TakeJob, Signal, ResumeInline, AsyncWait, Use, EndUser, EndThread, lifecycle
  <2>2. thread["net"] = "detached" => thread'["net"] = "detached"
    BY <1>7, <1>a DEF TakeJob, Signal, ResumeInline, AsyncWait, Use, EndUser, EndThread
  <2>3. QED
    BY <1>1, <2>1, <2>2
<1>8. CASE \/ Stop \/ Return \/ UNCHANGED vars \/ (\E s \in {"signals", "timer"} : PostJob(s))
  <2>1. UNCHANGED <<shutdown_done_, overlap, dangling, thread>> /\ (loop' = loop \/ loop' = "returned")
    BY <1>8 DEF Stop, Return, PostJob, vars, lifecycle
  <2>2. QED
    BY <1>1, <2>1
<1>9. QED
  BY <1>2, <1>3, <1>4, <1>5, <1>6, <1>7, <1>8 DEF Next, InCall, ServiceStep

\* Accessors, shutdown() and the services' threads keep IInv.
LEMMA Inductive == Spec => []IInv
<1>1. IInv /\ [Next]_vars => IInv'
  BY TypeStep, LifeStep, UseStep DEF IInv, Life
<1>2. QED
  BY <1>1, InitIInv, PTL DEF Spec

-------------------------------------------------------------------------------
(* The theorems.                                                           *)

\* When any call of shutdown() is back there is no service and no running thread
\* of one, for any number of threads in accessors and in shutdown().
THEOREM ShutdownTheorem == Spec => []ShutdownIsFinal
<1>1. IInv => ShutdownIsFinal
  BY DEF IInv, ShutdownIsFinal, HolderShutsDown, DownAfterShutdown, ThreadsBelong, Down, Over
<1>2. QED
  BY <1>1, Inductive, PTL

\* No coroutine on the net thread and no callable of a loop that was over before
\* shutdown() finds its service destroyed: what the order of the resets is for.
THEOREM LiveUseTheorem == Spec => []UsesAreLive
  BY Inductive, PTL DEF IInv
===============================================================================
