-------------------------------- MODULE Task --------------------------------
(***************************************************************************)
(* task<T>, detached_task and spawn_detached(): coroutine frames, who owns *)
(* them, who will resume them and who destroys them.                       *)
(*                                                                         *)
(* One thread is main() and the event loop: it sets coroutines up, is      *)
(* inside run(), and tears down.  Services (timer, pool, network) hold     *)
(* handles of suspended frames and post them from threads of their own.    *)
(* A scope, main() or the body of a coroutine, has one task object.        *)
(***************************************************************************)
EXTENDS Naturals, Sequences

CONSTANTS MaxFrames,  \* bound: coroutine frames ever created
          MaxWaits,   \* bound: waits for a service, over all frames
          Main,       \* the scope of main()
          None        \* the null handle

ASSUME TaskAssumption ==
  /\ MaxFrames \in Nat /\ MaxWaits \in Nat
  /\ Main \notin Nat /\ None \notin Nat /\ Main # None

Frames == 1..MaxFrames
Scopes == Frames \cup {Main}

VARIABLES
  frame,         \* frame[f]: see FrameStates
  continuation,  \* promise_common::continuation
  self,          \* frames that destroy themselves at final suspension
  wrapper,       \* frames of make_detached()
  h_,            \* h_[s]: handle held by the task object of scope s
  handle_q_,     \* the scheduler's handle queue
  outside,       \* frames whose handle a service holds
  main,          \* "setup", "run", "returned" or "over"
  running,       \* the frame the loop thread is executing
  stop_requested_,
  created, waits,
  cut            \* history: unfinished frames destroyed with main()'s task

vars == <<frame, continuation, self, wrapper, h_, handle_q_, outside, main,
          running, stop_requested_, created, waits, cut>>

\* none       not created
\* lazy       at its initial suspension
\* running    executing
\* suspended  in a co_await
\* final      at its final suspension
\* freed      destroyed
FrameStates == {"none", "lazy", "running", "suspended", "final", "freed"}

TypeOK ==
  /\ frame \in [Frames -> FrameStates]
  /\ continuation \in [Frames -> Frames \cup {None}]
  /\ self \subseteq Frames /\ wrapper \subseteq self
  /\ h_ \in [Scopes -> Frames \cup {None}]
  /\ handle_q_ \in Seq(Frames) /\ outside \subseteq Frames
  /\ main \in {"setup", "run", "returned", "over"} /\ running \in Frames \cup {None}
  /\ stop_requested_ \in BOOLEAN
  /\ created \in 0..MaxFrames /\ waits \in 0..MaxWaits
  /\ cut \subseteq Frames

Init ==
  /\ frame = [f \in Frames |-> "none"]
  /\ continuation = [f \in Frames |-> None]
  /\ self = {} /\ wrapper = {}
  /\ h_ = [s \in Scopes |-> None]
  /\ handle_q_ = <<>> /\ outside = {}
  /\ main = "setup" /\ running = None /\ stop_requested_ = FALSE
  /\ created = 0 /\ waits = 0 /\ cut = {}

-------------------------------------------------------------------------------
(* Frames and the objects that own them.                                   *)

\* The frames that go with frame f, whose task objects are destroyed with it: the
\* least set that holds f and, with a frame, the one its task object owns.
Chained(S) == \A x \in S : h_[x] \in S \cup {None}
Tree(f) ==
  {g \in Frames : \A S \in SUBSET Frames : (f \in S /\ Chained(S)) => g \in S}

\* destroy(): the frames freed when the object of scope s is destroyed.
Destroyed(s) == IF h_[s] = None THEN {} ELSE Tree(h_[s])

\* The states and the objects after the frames in F are destroyed.
Free(F, fr) == [f \in Frames |-> IF f \in F THEN "freed" ELSE fr[f]]
Clear(F, obj) == [s \in Scopes |-> IF s \in F THEN None ELSE obj[s]]

\* The code that may act now: main() before run(), or the running coroutine.
\* make_detached()'s body does nothing but await its parameter.
Active(s) ==
  \/ s = Main /\ main = "setup"
  \/ s \in Frames /\ running = s /\ s \notin wrapper

\* main() keeps a task whose handle it has posted.
Posted(f) == \E i \in DOMAIN handle_q_ : handle_q_[i] = f

\* A coroutine is called: a frame at its initial suspension, and the task that
\* owns it, moved into the object of s after that has destroyed what it held.
Create(s) ==
  /\ Active(s) /\ created < MaxFrames
  /\ h_[s] # None => ~Posted(h_[s])
  /\ LET f == created + 1
         F == Destroyed(s) IN
       /\ frame' = [Free(F, frame) EXCEPT ![f] = "lazy"]
       /\ h_' = [Clear(F, h_) EXCEPT ![s] = f]
  /\ created' = created + 1
  /\ UNCHANGED <<continuation, self, wrapper, handle_q_, outside, main, running,
                 stop_requested_, waits, cut>>

\* A coroutine is called with the task of s as its argument, and the task it
\* returns replaces that one.
CreateAround(s) ==
  /\ Active(s) /\ created < MaxFrames
  /\ h_[s] # None /\ frame[h_[s]] = "lazy" /\ ~Posted(h_[s])
  /\ frame' = [frame EXCEPT ![created + 1] = "lazy"]
  /\ h_' = [h_ EXCEPT ![created + 1] = h_[s], ![s] = created + 1]
  /\ created' = created + 1
  /\ UNCHANGED <<continuation, self, wrapper, handle_q_, outside, main, running,
                 stop_requested_, waits, cut>>

\* The object of s goes out of scope, after its co_await or unused.
Drop(s) ==
  /\ Active(s) /\ h_[s] # None /\ ~Posted(h_[s])
  /\ frame' = Free(Destroyed(s), frame)
  /\ h_' = Clear(Destroyed(s) \cup {s}, h_)
  /\ UNCHANGED <<continuation, self, wrapper, handle_q_, outside, main, running,
                 stop_requested_, created, waits, cut>>

Mut_Start(s) ==
  /\ Active(s) /\ h_[s] # None /\ frame[h_[s]] = "lazy" /\ ~Posted(h_[s])
  /\ self' = self \cup {h_[s]}
  /\ handle_q_' = Append(handle_q_, h_[s])
  /\ UNCHANGED <<frame, continuation, wrapper, h_, outside, main, running,
                 stop_requested_, created, waits, cut>>

Mut_StartAttached(s) ==
  /\ Active(s) /\ h_[s] # None /\ frame[h_[s]] = "lazy" /\ ~Posted(h_[s])
  /\ handle_q_' = Append(handle_q_, h_[s])
  /\ h_' = [h_ EXCEPT ![s] = None]
  /\ UNCHANGED <<frame, continuation, self, wrapper, outside, main, running,
                 stop_requested_, created, waits, cut>>

\* std::move(t).start(sched): detached, posted, and no longer owned.
Start(s) ==
  /\ Active(s) /\ h_[s] # None /\ frame[h_[s]] = "lazy" /\ ~Posted(h_[s])
  /\ self' = self \cup {h_[s]}
  /\ handle_q_' = Append(handle_q_, h_[s])
  /\ h_' = [h_ EXCEPT ![s] = None]
  /\ UNCHANGED <<frame, continuation, wrapper, outside, main, running,
                 stop_requested_, created, waits, cut>>

\* make_detached(): a frame whose final suspension destroys it, with the task as
\* its parameter.
MakeDetached(d, s) ==
  /\ frame' = [frame EXCEPT ![d] = "lazy"]
  /\ self' = self \cup {d} /\ wrapper' = wrapper \cup {d}
  /\ h_' = [h_ EXCEPT ![d] = h_[s], ![s] = None]

\* spawn_detached(): the wrapper's handle is posted; dt's destructor does nothing.
Spawn(s) ==
  /\ Active(s) /\ created < MaxFrames
  /\ h_[s] # None /\ frame[h_[s]] = "lazy" /\ ~Posted(h_[s])
  /\ MakeDetached(created + 1, s)
  /\ created' = created + 1
  /\ handle_q_' = Append(handle_q_, created + 1)
  /\ UNCHANGED <<continuation, outside, main, running, stop_requested_, waits, cut>>

\* ctx.post(t.handle()): main() posts the frame and goes on owning it.
PostHandle ==
  /\ Active(Main) /\ h_[Main] # None /\ ~Posted(h_[Main])
  /\ handle_q_' = Append(handle_q_, h_[Main])
  /\ UNCHANGED <<frame, continuation, self, wrapper, h_, outside, main, running,
                 stop_requested_, created, waits, cut>>

-------------------------------------------------------------------------------
(* Execution on the loop thread.                                           *)

\* run() resumes the next handle.
Resume ==
  /\ main = "run" /\ running = None /\ handle_q_ # <<>>
  /\ running' = Head(handle_q_)
  /\ frame' = [frame EXCEPT ![Head(handle_q_)] = "running"]
  /\ handle_q_' = Tail(handle_q_)
  /\ UNCHANGED <<continuation, self, wrapper, h_, outside, main,
                 stop_requested_, created, waits, cut>>

Mut_Await(f) ==
  /\ running = f /\ h_[f] # None /\ frame[h_[f]] = "lazy"
  /\ frame' = [frame EXCEPT ![f] = "suspended", ![h_[f]] = "running"]
  /\ running' = h_[f]
  /\ UNCHANGED <<continuation, self, wrapper, h_, handle_q_, outside, main,
                 stop_requested_, created, waits, cut>>

\* co_await t: the awaiting coroutine becomes the continuation, and control goes
\* to the task.  (A finished task is ready: nothing changes.)
Await(f) ==
  /\ running = f /\ h_[f] # None /\ frame[h_[f]] = "lazy"
  /\ continuation' = [continuation EXCEPT ![h_[f]] = f]
  /\ frame' = [frame EXCEPT ![f] = "suspended", ![h_[f]] = "running"]
  /\ running' = h_[f]
  /\ UNCHANGED <<self, wrapper, h_, handle_q_, outside, main,
                 stop_requested_, created, waits, cut>>

\* A coroutine waits for a service, which takes its handle.
Wait(f) ==
  /\ running = f /\ f \notin wrapper /\ waits < MaxWaits
  /\ frame' = [frame EXCEPT ![f] = "suspended"]
  /\ outside' = outside \cup {f}
  /\ running' = None /\ waits' = waits + 1
  /\ UNCHANGED <<continuation, self, wrapper, h_, handle_q_, main,
                 stop_requested_, created, cut>>

\* The service posts the handle, whatever has become of the loop or the frame.
Wake(f) ==
  /\ f \in outside
  /\ outside' = outside \ {f}
  /\ handle_q_' = Append(handle_q_, f)
  /\ UNCHANGED <<frame, continuation, self, wrapper, h_, main, running,
                 stop_requested_, created, waits, cut>>

Mut_FinalSuspend(f, fr) ==
  /\ frame' = [fr EXCEPT ![f] = IF f \in self THEN "freed" ELSE "final"]
  /\ running' = None

\* final_suspend() of a task: control goes to the continuation; without one a
\* detached frame is destroyed; a frame somebody owns waits for that.
FinalSuspend(f, fr) ==
  IF continuation[f] # None
  THEN /\ frame' = [fr EXCEPT ![f] = "final", ![continuation[f]] = "running"]
       /\ running' = continuation[f]
  ELSE /\ frame' = [fr EXCEPT ![f] = IF f \in self THEN "freed" ELSE "final"]
       /\ running' = None

\* final_suspend() of a detached_task: the frame is destroyed.
FinalDestroy(f, fr) ==
  /\ frame' = [fr EXCEPT ![f] = "freed"]
  /\ running' = None

\* The body returns, or throws and the promise keeps the exception (a wrapper's
\* drops it): its task object is destroyed, then comes the final suspension.
Finish(f) ==
  /\ running = f
  /\ f \in wrapper => frame[h_[f]] = "final"
  /\ h_' = Clear(Destroyed(f) \cup {f}, h_)
  /\ IF f \in wrapper THEN FinalDestroy(f, Free(Destroyed(f), frame))
                     ELSE FinalSuspend(f, Free(Destroyed(f), frame))
  /\ UNCHANGED <<continuation, self, wrapper, handle_q_, outside, main,
                 stop_requested_, created, waits, cut>>

-------------------------------------------------------------------------------
(* main().                                                                 *)

Run ==
  /\ main = "setup" /\ main' = "run"
  /\ UNCHANGED <<frame, continuation, self, wrapper, h_, handle_q_, outside,
                 running, stop_requested_, created, waits, cut>>

\* stop(), from a coroutine or from any other thread.
Stop ==
  /\ ~stop_requested_ /\ stop_requested_' = TRUE
  /\ UNCHANGED <<frame, continuation, self, wrapper, h_, handle_q_, outside,
                 main, running, created, waits, cut>>

\* run() returns when it is stopped and drained.
Return ==
  /\ main = "run" /\ running = None /\ handle_q_ = <<>> /\ stop_requested_
  /\ main' = "returned"
  /\ UNCHANGED <<frame, continuation, self, wrapper, h_, handle_q_, outside,
                 running, stop_requested_, created, waits, cut>>

\* ~task() at the end of main(), with the frame finished or not.
EndMain ==
  /\ main = "returned" /\ main' = "over"
  /\ frame' = Free(Destroyed(Main), frame)
  /\ h_' = Clear(Destroyed(Main) \cup {Main}, h_)
  /\ cut' = {f \in Destroyed(Main) : frame[f] \notin {"final", "lazy"}}
  /\ UNCHANGED <<continuation, self, wrapper, handle_q_, outside, running,
                 stop_requested_, created, waits>>

-------------------------------------------------------------------------------
Body(f) == Await(f) \/ Wait(f) \/ Finish(f)

Next ==
  \/ \E s \in Scopes : Create(s) \/ CreateAround(s) \/ Drop(s) \/ Start(s) \/ Spawn(s)
  \/ PostHandle \/ Run \/ Stop \/ Resume \/ Return \/ EndMain
  \/ \E f \in Frames : Body(f) \/ Wake(f)

Spec == Init /\ [][Next]_vars

\* The loop thread runs, coroutine bodies end, what they wait for happens, and
\* run() is entered and left.
FairSpec ==
  /\ Spec
  /\ WF_vars(Run) /\ WF_vars(Resume) /\ WF_vars(Return)
  /\ \A f \in Frames : WF_vars(Wake(f)) /\ WF_vars(Await(f)) /\ WF_vars(Finish(f))

-------------------------------------------------------------------------------
(* Properties.                                                             *)

Live == {f \in Frames : frame[f] \notin {"none", "freed"}}
LiveScopes == Live \cup {Main}

Destroyers(f) ==
  {<<"object", s>> : s \in {s \in LiveScopes : h_[s] = f}}
  \cup {<<"self", g>> : g \in self \cap {f}}

\* Every live frame has exactly one party that will destroy it: the task object
\* of a live scope, or its own final suspension.  Two would destroy it twice,
\* none would leak it, however tasks are moved, started, spawned or awaited.
OneOwner == \A f \in Live : \E d \in Destroyers(f) : Destroyers(f) = {d}

Resumers(f) ==
  {<<"queue", i>> : i \in {i \in DOMAIN handle_q_ : handle_q_[i] = f}}
  \cup {<<"service", g>> : g \in outside \cap {f}}
  \cup {<<"task", c>> : c \in {c \in Live : frame[c] # "final" /\ continuation[c] = f}}

\* A suspended frame will be resumed from exactly one place: the handle queue, a
\* service, or the task it awaits.  A lazy one is posted once if at all.  A
\* running, finished or destroyed frame has no handle left anywhere, unless
\* main() destroyed it unfinished after stop().
OneResumer ==
  \A f \in Frames \ cut :
    /\ frame[f] = "suspended" => Resumers(f) # {}
    /\ frame[f] \notin {"suspended", "lazy"} => Resumers(f) = {}
    /\ \A r, q \in Resumers(f) : r = q

\* "no leaks" (README.md:141), as far as it goes: when main() is over and no
\* coroutine was left waiting, every frame ever created has been destroyed.
NoLeak ==
  main = "over" /\ outside = {} /\ handle_q_ = <<>> => Live = {}

\* A started or spawned coroutine, with all it awaits, comes to its end and
\* destroys itself, unless run() returns first.
DetachedEnds ==
  \A f \in Frames :
    f \in self ~> (frame[f] = "freed" \/ main \in {"returned", "over"})
=============================================================================
