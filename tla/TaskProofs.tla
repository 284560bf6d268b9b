------------------------------ MODULE TaskProofs ------------------------------
(***************************************************************************)
(* Theorems about Task: the ownership, resumption and destruction of       *)
(* coroutine frames, for any number of frames and waits.                   *)
(***************************************************************************)
EXTENDS Task, TLAPS

\* The types the proofs need.
Types ==
  /\ frame \in [Frames -> FrameStates]
  /\ continuation \in [Frames -> Frames \cup {None}]
  /\ self \subseteq Frames /\ wrapper \subseteq self
  /\ h_ \in [Scopes -> Frames \cup {None}]
  /\ handle_q_ \in Seq(Frames) /\ outside \subseteq Frames
  /\ main \in {"setup", "run", "returned", "over"} /\ running \in Frames \cup {None}
  /\ created \in 0..MaxFrames /\ cut \subseteq Frames

\* A queue without duplicates; f's handle is in a queue, in the scheduler's; c
\* will hand control to f.
Once(q) == \A i, j \in 1..Len(q) : q[i] = q[j] => i = j
Holds(q, f) == \E i \in 1..Len(q) : q[i] = f
Queued(f) == Holds(handle_q_, f)
Awaits(f, c) == c \in Live /\ frame[c] # "final" /\ continuation[c] = f

\* A task object is that of a live scope and owns a live frame that does not own
\* itself; two objects never own one frame, and every other frame has an object.
Owners ==
  /\ \A s \in Scopes : h_[s] # None => /\ s \in LiveScopes /\ h_[s] \in Live \ self
  /\ \A s, t \in Scopes : h_[s] # None /\ h_[s] = h_[t] => s = t
  /\ \A f \in Live \ self : \E s \in Scopes : h_[s] = f

\* Ownership h between frames has no cycle: no set of frames is closed under it
\* and in no set does every member have its owner. (The second is what a walk from
\* a frame up to its last owner gives, without induction over that walk.)
AcyclicIn(h) ==
  \A S \in SUBSET Frames : S # {} =>
    /\ \E f \in S : h[f] \notin S
    /\ \E f \in S : \A s \in S : h[s] # f
Acyclic == AcyclicIn(h_)

\* The loop runs one coroutine, and only inside run(); frames are made in the order
\* of their numbers; only the end of main() cuts frames off.
Loop ==
  /\ \A f \in Frames : frame[f] = "running" <=> running = f
  /\ running # None => main = "run"
  /\ main = "setup" => \A f \in Frames : frame[f] \in {"none", "lazy", "freed"}
  /\ main = "over" => h_[Main] = None
  /\ main # "over" => cut = {}
  /\ \A f \in Frames : f > created <=> frame[f] = "none"
  /\ \A f \in cut : frame[f] = "freed"
  /\ \A f \in self : frame[f] \notin {"none", "final"}

\* Awaiting follows ownership: the task object of a coroutine that has not started
\* is not started either, one that has ended holds none, and what a coroutine owns
\* and has started will hand control back to it.
Nested(f) ==
  /\ frame[f] \in {"none", "lazy"} => continuation[f] = None
  /\ frame[f] = "lazy" /\ h_[f] # None => frame[h_[f]] = "lazy"
  /\ frame[f] = "final" => h_[f] = None
  /\ h_[f] # None /\ frame[h_[f]] \in {"running", "suspended"} => continuation[h_[f]] = f
Nesting == \A f \in Frames : Nested(f)

\* A suspended frame is queued, with a service, or awaiting the frame it owns, and
\* in one of these only; a lazy one is queued when it owns itself or was posted by
\* main(); other frames are nowhere, unless cut off.
Placed(f) ==
  /\ frame[f] = "suspended" => Queued(f) \/ f \in outside \/ \E c \in Frames : Awaits(f, c)
  /\ f \in outside => ~Queued(f) /\ (frame[f] = "suspended" \/ f \in cut)
  /\ Queued(f) => frame[f] \in {"lazy", "suspended"} \/ f \in cut
  /\ Queued(f) /\ frame[f] = "lazy" =>
       main \in {"setup", "run"} /\ (f \in self \/ h_[Main] = f)
  /\ f \in self /\ frame[f] = "lazy" => Queued(f)
  /\ \A c \in Frames : Awaits(f, c) =>
       h_[f] = c /\ frame[f] = "suspended" /\ f \notin outside /\ ~Queued(f)
OnePlace == Once(handle_q_) /\ \A f \in Frames : Placed(f)

\* The inductive invariant.
IInv == Types /\ Owners /\ Acyclic /\ Loop /\ Nesting /\ OnePlace

-------------------------------------------------------------------------------
(* Queues and trees.                                                       *)

\* Popping and pushing the handle queue.
LEMMA HandleQueue ==
  ASSUME NEW q \in Seq(Frames), NEW x \in Frames, Once(q)
  PROVE  /\ q # <<>> => /\ Tail(q) \in Seq(Frames) /\ Once(Tail(q))
                        /\ Head(q) \in Frames /\ Holds(q, Head(q))
                        /\ \A c : Holds(Tail(q), c) <=> Holds(q, c) /\ c # Head(q)
         /\ Append(q, x) \in Seq(Frames)
         /\ ~Holds(q, x) => Once(Append(q, x))
         /\ \A c : Holds(Append(q, x), c) <=> Holds(q, c) \/ c = x
<1>1. ASSUME q # <<>>
      PROVE  /\ Tail(q) \in Seq(Frames) /\ Once(Tail(q))
             /\ Head(q) \in Frames /\ Holds(q, Head(q))
             /\ \A c : Holds(Tail(q), c) <=> Holds(q, c) /\ c # Head(q)
  <2>1. /\ Tail(q) \in Seq(Frames) /\ Len(q) \in Nat \ {0} /\ Len(Tail(q)) = Len(q) - 1
        /\ Head(q) = q[1] /\ \A k \in 1..Len(Tail(q)) : Tail(q)[k] = q[k + 1]
        /\ Head(q) \in Frames
    BY <1>1
  <2>2. Once(Tail(q)) /\ Holds(q, Head(q))
    BY <2>1 DEF Once, Holds
  <2>3. ASSUME NEW c, Holds(Tail(q), c)
        PROVE  Holds(q, c) /\ c # Head(q)
    BY <2>1, <2>3 DEF Holds, Once
  <2>4. ASSUME NEW c, Holds(q, c), c # Head(q)
        PROVE  Holds(Tail(q), c)
    <3>1. PICK k \in 1..Len(q) : q[k] = c
      BY <2>4 DEF Holds
    <3>2. k # 1 /\ k - 1 \in 1..Len(Tail(q))
      BY <2>1, <2>4, <3>1
    <3>3. Tail(q)[k - 1] = c
      BY <2>1, <3>1, <3>2
    <3>4. QED
      BY <3>2, <3>3 DEF Holds
  <2>5. QED
    BY <2>1, <2>2, <2>3, <2>4
<1>2. /\ Len(q) \in Nat /\ Len(Append(q, x)) = Len(q) + 1 /\ Append(q, x)[Len(q) + 1] = x
      /\ \A k \in 1..Len(q) : Append(q, x)[k] = q[k]
      /\ Append(q, x) \in Seq(Frames)
  OBVIOUS
<1>3. ASSUME ~Holds(q, x)
      PROVE  Once(Append(q, x))
  BY <1>2, <1>3 DEF Holds, Once
<1>4. ASSUME NEW c
      PROVE  Holds(Append(q, x), c) <=> Holds(q, c) \/ c = x
  BY <1>2 DEF Holds
<1>5. QED
  BY <1>1, <1>2, <1>3, <1>4

\* What main() asks of a handle it may not have posted twice.
LEMMA PostedQueued ==
  ASSUME Types, NEW f
  PROVE  Posted(f) <=> Queued(f)
BY DEF Posted, Queued, Holds, Types

\* The null handle and main()'s scope are no frames.
LEMMA Distinct ==
  None \notin Frames /\ Main \notin Frames /\ Main # None
  /\ Main \in Scopes /\ Frames \subseteq Scopes
BY TaskAssumption DEF Frames, Scopes

\* Tree(f) holds f, is closed under ownership, has only f and what its members
\* own, and lies in every closed set that holds f.
LEMMA TreeFacts ==
  ASSUME Types, NEW f \in Frames
  PROVE  /\ Tree(f) \subseteq Frames /\ f \in Tree(f)
         /\ \A x \in Tree(f) : h_[x] # None => h_[x] \in Tree(f)
         /\ \A g \in Tree(f) : g = f \/ \E x \in Tree(f) : h_[x] = g
         /\ \A S \in SUBSET Frames : f \in S /\ Chained(S) => Tree(f) \subseteq S
<1>1. Tree(f) \subseteq Frames /\ f \in Tree(f)
  BY DEF Tree
<1>2. ASSUME NEW S \in SUBSET Frames, f \in S, Chained(S)
      PROVE  Tree(f) \subseteq S
  BY <1>2 DEF Tree
<1>3. ASSUME NEW x \in Tree(f), h_[x] # None
      PROVE  h_[x] \in Tree(f)
  <2>1. x \in Frames /\ h_[x] \in Frames
    BY <1>1, <1>3, Distinct DEF Types
  <2>2. ASSUME NEW S \in SUBSET Frames, f \in S, Chained(S)
        PROVE  h_[x] \in S
    BY <1>2, <1>3, <2>2 DEF Chained
  <2>3. QED
    BY <2>1, <2>2 DEF Tree
<1>4. ASSUME NEW g \in Tree(f), g # f, \A x \in Tree(f) : h_[x] # g
      PROVE  FALSE
  <2> DEFINE S == Tree(f) \ {g}
  <2>1. S \in SUBSET Frames /\ f \in S
    BY <1>1, <1>4
  <2>2. Chained(S)
    BY <1>3, <1>4 DEF Chained
  <2>3. Tree(f) \subseteq S
    BY <1>2, <2>1, <2>2
  <2>4. QED
    BY <1>4, <2>3
<1>5. QED
  BY <1>1, <1>2, <1>3, <1>4

\* What goes with the object of any scope s: nothing outside is owned from
\* inside, and nothing inside is owned from outside but by s itself.
LEMMA DestroyedFacts ==
  ASSUME IInv, NEW s \in Scopes
  PROVE  /\ Destroyed(s) \subseteq Live
         /\ h_[s] # None => h_[s] \in Destroyed(s)
         /\ h_[s] = None => Destroyed(s) = {}
         /\ \A x \in Destroyed(s) : h_[x] # None => h_[x] \in Destroyed(s)
         /\ \A t \in Scopes : h_[t] \in Destroyed(s) => t \in Destroyed(s) \cup {s}
         /\ \A g \in Destroyed(s) : \E t \in Destroyed(s) \cup {s} : h_[t] = g
         /\ s \notin Destroyed(s) \/ h_[s] # None
<1>1. CASE h_[s] = None
  BY <1>1, Distinct DEF Destroyed, IInv, Types
<1>2. CASE h_[s] # None
  <2>1. h_[s] \in Frames /\ Destroyed(s) = Tree(h_[s]) /\ h_[s] \in Live
    BY <1>2 DEF Destroyed, IInv, Types, Owners
  <2>2. Live \in SUBSET Frames /\ Chained(Live)
    BY Distinct DEF Live, Chained, IInv, Owners
  <2>3. Destroyed(s) \subseteq Live
    BY <2>1, <2>2, TreeFacts DEF IInv
  <2>4. /\ Destroyed(s) \subseteq Frames /\ h_[s] \in Destroyed(s)
        /\ \A x \in Destroyed(s) : h_[x] # None => h_[x] \in Destroyed(s)
        /\ \A g \in Destroyed(s) : g = h_[s] \/ \E x \in Destroyed(s) : h_[x] = g
    BY <2>1, TreeFacts DEF IInv
  <2>5. ASSUME NEW t \in Scopes, h_[t] \in Destroyed(s), t \notin Destroyed(s) \cup {s}
        PROVE  FALSE
    BY <2>4, <2>5, Distinct DEF IInv, Owners
  <2>6. QED
    BY <1>2, <2>3, <2>4, <2>5
<1>3. QED
  BY <1>1, <1>2

\* A scope that may act owns nothing that has begun and not ended, so what it
\* destroys is lazy or final, and nobody holds a handle of it.
LEMMA IdleFacts ==
  ASSUME IInv, NEW s \in Scopes,
         \/ s = Main /\ main = "setup" /\ (h_[s] # None => ~Queued(h_[s]))
         \/ s \in Frames /\ running = s
  PROVE  /\ s \notin Destroyed(s)
         /\ \A g \in Destroyed(s) :
              /\ frame[g] \in {"lazy", "final"} /\ g \notin self
              /\ ~Queued(g) /\ g \notin outside
<1>1. CASE h_[s] = None
  BY <1>1, DestroyedFacts
<1>2. CASE h_[s] # None
  <2>1. h_[s] \in Frames /\ h_[s] \in Live /\ Destroyed(s) = Tree(h_[s])
    BY <1>2 DEF Destroyed, IInv, Types, Owners
  <2>2. frame[h_[s]] \in {"lazy", "final"}
    <3>1. CASE s = Main /\ main = "setup"
      BY <2>1, <3>1 DEF IInv, Loop, Live
    <3>2. CASE s \in Frames /\ running = s
      <4>1. frame[s] = "running"
        BY <3>2 DEF IInv, Loop
      <4>2. continuation[h_[s]] # s \/ frame[h_[s]] = "final"
        BY <2>1, <3>2, <4>1 DEF IInv, OnePlace, Placed, Awaits
      <4>3. frame[h_[s]] \notin {"running", "suspended"}
        BY <1>2, <3>2, <4>2 DEF IInv, Nesting, Nested
      <4>4. QED
        BY <2>1, <4>3 DEF Live, IInv, Types, FrameStates
    <3>3. QED
      BY <3>1, <3>2
  <2>3. \A g \in Destroyed(s) : g \in Frames /\ frame[g] \in {"lazy", "final"}
    <3>1. CASE frame[h_[s]] = "lazy"
      <4> DEFINE S == {f \in Frames : frame[f] = "lazy"}
      <4>1. S \in SUBSET Frames /\ h_[s] \in S /\ Chained(S)
        BY <2>1, <3>1, Distinct DEF Chained, IInv, Nesting, Nested, Types
      <4>2. Tree(h_[s]) \subseteq S
        BY <2>1, <4>1, TreeFacts DEF IInv
      <4>3. QED
        BY <2>1, <4>2
    <3>2. CASE frame[h_[s]] = "final"
      <4> DEFINE S == {h_[s]}
      <4>1. S \in SUBSET Frames /\ h_[s] \in S /\ Chained(S)
        BY <2>1, <3>2 DEF Chained, IInv, Nesting, Nested
      <4>2. Tree(h_[s]) \subseteq S
        BY <2>1, <4>1, TreeFacts DEF IInv
      <4>3. QED
        BY <2>1, <3>2, <4>2
    <3>3. QED
      BY <2>2, <3>1, <3>2
  <2>4. s \notin Destroyed(s)
    BY <2>3, Distinct DEF IInv, Loop
  <2>5. ASSUME NEW g \in Destroyed(s)
        PROVE  g \notin self /\ ~Queued(g) /\ g \notin outside
    <3>1. g \in Frames /\ frame[g] \in {"lazy", "final"} /\ g \notin cut
      BY <2>3 DEF IInv, Loop
    <3>2. PICK t \in Destroyed(s) \cup {s} : h_[t] = g
      BY DestroyedFacts
    <3>3. t \in Scopes /\ g # None
      BY <2>3, <3>1, Distinct
    <3>4. g \notin self
      BY <3>2, <3>3 DEF IInv, Owners
    <3>5. h_[Main] = g => s = Main /\ t = s
      BY <2>3, <3>2, <3>3, Distinct DEF IInv, Owners
    <3>6. g \notin outside /\ (Queued(g) => h_[Main] = g)
      BY <3>1, <3>4 DEF IInv, OnePlace, Placed
    <3>7. QED
      BY <3>2, <3>3, <3>4, <3>5, <3>6, Distinct
  <2>6. QED
    BY <2>3, <2>4, <2>5
<1>3. QED
  BY <1>1, <1>2

\* Giving up edges makes no cycle.
LEMMA FewerEdges ==
  ASSUME NEW h, NEW k, AcyclicIn(h),
         \A x \in Frames : k[x] = h[x] \/ k[x] = None
  PROVE  AcyclicIn(k)
<1> SUFFICES ASSUME NEW S \in SUBSET Frames, S # {}
             PROVE  /\ \E f \in S : k[f] \notin S
                    /\ \E f \in S : \A s \in S : k[s] # f
  BY DEF AcyclicIn
<1>1. PICK f \in S : h[f] \notin S
  BY DEF AcyclicIn
<1>2. PICK g \in S : \A s \in S : h[s] # g
  BY DEF AcyclicIn
<1>3. k[f] \notin S /\ \A s \in S : k[s] # g
  BY <1>1, <1>2, Distinct
<1>4. QED
  BY <1>3

-------------------------------------------------------------------------------
(* Steps that create and destroy no frame.                                 *)

\* run(), stop() and the return of run() touch no frame.
LEMMA MainStep ==
  ASSUME IInv, Run \/ Stop \/ Return
  PROVE  IInv'
<1>1. Types' /\ Owners' /\ Acyclic' /\ Nesting'
  BY DEF IInv, Types, Owners, Acyclic, AcyclicIn, Nesting, Nested, Live, LiveScopes, Run, Stop, Return
<1>2. Loop'
  BY DEF IInv, Types, Loop, Run, Stop, Return
<1>3. OnePlace'
  <2>1. CASE Run \/ Stop
    BY <2>1 DEF IInv, OnePlace, Placed, Queued, Awaits, Live, Run, Stop
  <2>2. CASE Return
    BY <2>2 DEF IInv, OnePlace, Placed, Queued, Holds, Awaits, Live, Return
  <2>3. QED
    BY <2>1, <2>2
<1>4. QED
  BY <1>1, <1>2, <1>3 DEF IInv

\* A handle is appended to the queue, or the first one is removed.
LEMMA QueueStep ==
  ASSUME IInv
  PROVE  /\ \A x \in Frames : handle_q_' = Append(handle_q_, x) /\ ~Queued(x) =>
              /\ handle_q_' \in Seq(Frames) /\ Once(handle_q_')
              /\ \A c : Queued(c)' <=> Queued(c) \/ c = x
         /\ handle_q_ # <<>> /\ handle_q_' = Tail(handle_q_) =>
              /\ handle_q_' \in Seq(Frames) /\ Once(handle_q_')
              /\ Head(handle_q_) \in Frames /\ Queued(Head(handle_q_))
              /\ \A c : Queued(c)' <=> Queued(c) /\ c # Head(handle_q_)
<1>1. handle_q_ \in Seq(Frames) /\ Once(handle_q_)
  BY DEF IInv, Types, OnePlace
<1>2. ASSUME NEW x \in Frames, handle_q_' = Append(handle_q_, x), ~Queued(x)
      PROVE  /\ handle_q_' \in Seq(Frames) /\ Once(handle_q_')
             /\ \A c : Queued(c)' <=> Queued(c) \/ c = x
  BY <1>1, <1>2, HandleQueue DEF Queued
<1>3. ASSUME handle_q_ # <<>>, handle_q_' = Tail(handle_q_)
      PROVE  /\ handle_q_' \in Seq(Frames) /\ Once(handle_q_')
             /\ Head(handle_q_) \in Frames /\ Queued(Head(handle_q_))
             /\ \A c : Queued(c)' <=> Queued(c) /\ c # Head(handle_q_)
  <2>1. Head(handle_q_) \in Frames
    BY <1>1, <1>3
  <2>2. QED
    BY <1>1, <1>3, <2>1, HandleQueue DEF Queued
<1>4. QED
  BY <1>2, <1>3

\* main() posts the handle of its own task, which is lazy and not queued.
LEMMA PostHandleStep ==
  ASSUME IInv, PostHandle
  PROVE  IInv'
<1>1. /\ main = "setup" /\ h_[Main] \in Frames /\ h_[Main] \in Live
      /\ ~Queued(h_[Main]) /\ handle_q_' = Append(handle_q_, h_[Main])
  <2>1. h_[Main] \in Frames /\ h_[Main] \in Live
    BY Distinct DEF PostHandle, IInv, Types, Owners
  <2>2. main = "setup" /\ ~Posted(h_[Main])
    BY Distinct DEF PostHandle, Active
  <2>3. QED
    BY <2>1, <2>2, PostedQueued DEF PostHandle, IInv
<1>2. /\ handle_q_' \in Seq(Frames) /\ Once(handle_q_')
      /\ \A c : Queued(c)' <=> Queued(c) \/ c = h_[Main]
  BY <1>1, QueueStep
<1>3. Types' /\ Owners' /\ Acyclic' /\ Loop' /\ Nesting'
  BY <1>2 DEF IInv, Types, Owners, Acyclic, AcyclicIn, Loop, Nesting, Nested, Live, LiveScopes, PostHandle
<1>4. frame[h_[Main]] = "lazy" /\ h_[Main] \notin outside
  BY <1>1 DEF IInv, Loop, Live, OnePlace, Placed
<1>5. OnePlace'
  <2> SUFFICES ASSUME NEW f \in Frames
               PROVE  Placed(f)'
    BY <1>2 DEF OnePlace
  <2>1. \A c : Awaits(f, c)' <=> Awaits(f, c)
    BY DEF Awaits, Live, PostHandle
  <2>2. QED
    BY <1>1, <1>2, <1>4, <2>1 DEF IInv, OnePlace, Placed, PostHandle
<1>6. QED
  BY <1>3, <1>5 DEF IInv

\* A service gives a handle it holds to the scheduler.
LEMMA WakeStep ==
  ASSUME IInv, NEW g \in Frames, Wake(g)
  PROVE  IInv'
<1>1. /\ g \in outside /\ ~Queued(g) /\ (frame[g] = "suspended" \/ g \in cut)
      /\ handle_q_' = Append(handle_q_, g)
  BY DEF Wake, IInv, OnePlace, Placed
<1>2. /\ handle_q_' \in Seq(Frames) /\ Once(handle_q_')
      /\ \A c : Queued(c)' <=> Queued(c) \/ c = g
  BY <1>1, QueueStep
<1>3. Types' /\ Owners' /\ Acyclic' /\ Loop' /\ Nesting'
  BY <1>2 DEF IInv, Types, Owners, Acyclic, AcyclicIn, Loop, Nesting, Nested, Live, LiveScopes, Wake
<1>4. OnePlace'
  <2> SUFFICES ASSUME NEW f \in Frames
               PROVE  Placed(f)'
    BY <1>2 DEF OnePlace
  <2>1. \A c : Awaits(f, c)' <=> Awaits(f, c)
    BY DEF Awaits, Live, Wake
  <2>2. g \in cut => frame[g] = "freed"
    BY DEF IInv, Loop
  <2>3. QED
    BY <1>1, <1>2, <2>1, <2>2 DEF IInv, OnePlace, Placed, Wake
<1>5. QED
  BY <1>3, <1>4 DEF IInv

\* A coroutine suspends and leaves its handle with a service.
LEMMA WaitStep ==
  ASSUME IInv, NEW g \in Frames, Wait(g)
  PROVE  IInv'
<1>1. /\ frame[g] = "running" /\ main = "run" /\ running = g
      /\ g \notin outside /\ ~Queued(g) /\ \A c \in Frames : ~Awaits(g, c)
  BY Distinct DEF Wait, IInv, Loop, OnePlace, Placed
<1>2. /\ frame' = [frame EXCEPT ![g] = "suspended"] /\ outside' = outside \cup {g}
      /\ running' = None
      /\ UNCHANGED <<continuation, self, wrapper, h_, handle_q_, main, created, cut>>
  BY DEF Wait
<1>3. Types' /\ Owners' /\ Acyclic' /\ Live' = Live
  <2>1. Types'
    BY <1>2 DEF IInv, Types, FrameStates
  <2>2. Live' = Live
    BY <1>1, <1>2 DEF Live, IInv, Types
  <2>3. QED
    BY <1>2, <2>1, <2>2 DEF IInv, Owners, Acyclic, AcyclicIn, LiveScopes
<1>4. \A f \in Frames : frame'[f] = IF f = g THEN "suspended" ELSE frame[f]
  BY <1>2 DEF IInv, Types
<1>5. Loop'
  BY <1>1, <1>2, <1>4, Distinct DEF IInv, Loop, Types
<1>6. Nesting'
  BY <1>1, <1>2, <1>4, Distinct DEF IInv, Nesting, Nested, Types
<1>7. OnePlace'
  <2> SUFFICES ASSUME NEW f \in Frames
               PROVE  Placed(f)'
    BY <1>2 DEF OnePlace, IInv
  <2>1. \A c \in Frames : Awaits(f, c)' <=> Awaits(f, c)
    BY <1>1, <1>2, <1>3, <1>4 DEF Awaits
  <2>2. Queued(f)' <=> Queued(f)
    BY <1>2 DEF Queued
  <2>3. QED
    BY <1>1, <1>2, <1>4, <2>1, <2>2 DEF IInv, OnePlace, Placed
<1>8. QED
  BY <1>3, <1>5, <1>6, <1>7 DEF IInv

\* The loop pops a handle; it is that of a live frame, since no cut-off frame is
\* left to a loop that runs.
LEMMA ResumeStep ==
  ASSUME IInv, Resume
  PROVE  IInv'
<1> DEFINE g == Head(handle_q_)
<1>1. /\ handle_q_' \in Seq(Frames) /\ Once(handle_q_') /\ g \in Frames /\ Queued(g)
      /\ \A c : Queued(c)' <=> Queued(c) /\ c # g
  BY QueueStep DEF Resume
<1>2. /\ main = "run" /\ running = None /\ running' = g
      /\ frame' = [frame EXCEPT ![g] = "running"]
      /\ UNCHANGED <<continuation, self, wrapper, h_, outside, main, created, cut>>
  BY DEF Resume
<1> HIDE DEF g
<1>3. /\ frame[g] \in {"lazy", "suspended"} /\ g \notin outside
      /\ \A c \in Frames : ~Awaits(g, c)
      /\ frame[g] = "lazy" => g \in self \/ h_[Main] = g
  BY <1>1, <1>2 DEF IInv, OnePlace, Placed, Loop
<1>4. Types' /\ Owners' /\ Acyclic' /\ Live' = Live
  <2>1. Types'
    BY <1>1, <1>2 DEF IInv, Types, FrameStates
  <2>2. Live' = Live
    BY <1>2, <1>3 DEF Live, IInv, Types
  <2>3. QED
    BY <1>2, <2>1, <2>2 DEF IInv, Owners, Acyclic, AcyclicIn, LiveScopes
<1>5. \A f \in Frames : frame'[f] = IF f = g THEN "running" ELSE frame[f]
  BY <1>2 DEF IInv, Types
<1>6. Loop'
  BY <1>1, <1>2, <1>3, <1>5, Distinct DEF IInv, Loop, Types
<1>7. Nesting'
  <2>1. ASSUME NEW f \in Frames, h_[f] = g
        PROVE  continuation[g] = f /\ frame[f] # "lazy"
    <3>1. frame[g] # "lazy"
      BY <1>1, <1>3, <2>1, Distinct DEF IInv, Owners
    <3>2. QED
      BY <1>1, <1>3, <2>1, <3>1, Distinct DEF IInv, Nesting, Nested
  <2>2. QED
    BY <1>1, <1>2, <1>3, <1>5, <2>1, Distinct DEF IInv, Nesting, Nested, Types
<1>8. OnePlace'
  <2> SUFFICES ASSUME NEW f \in Frames
               PROVE  Placed(f)'
    BY <1>1 DEF OnePlace
  <2>1. \A c \in Frames : Awaits(f, c)' <=> Awaits(f, c)
    BY <1>2, <1>3, <1>4, <1>5 DEF Awaits
  <2>2. QED
    BY <1>1, <1>2, <1>3, <1>5, <2>1 DEF IInv, OnePlace, Placed
<1>9. QED
  BY <1>4, <1>6, <1>7, <1>8 DEF IInv

\* co_await of an owned lazy task: the awaiter becomes its continuation, which is
\* then the one place it is resumed from.
LEMMA AwaitStep ==
  ASSUME IInv, NEW a \in Frames, Await(a)
  PROVE  IInv'
<1> DEFINE g == h_[a]
<1>0. /\ running = a /\ g # None /\ frame[g] = "lazy" /\ running' = g
      /\ UNCHANGED <<self, wrapper, h_, handle_q_, outside, main, created, cut>>
  BY DEF Await
<1>1. /\ continuation' = [continuation EXCEPT ![g] = a]
      /\ frame' = [frame EXCEPT ![a] = "suspended", ![g] = "running"]
  BY DEF Await
<1>2. g \in Frames /\ h_[a] = g /\ g \notin self /\ \A t \in Scopes : h_[t] = g => t = a
  BY <1>0, Distinct DEF IInv, Types, Owners
<1> HIDE DEF g
<1>3. /\ frame[a] = "running" /\ main = "run" /\ a # g
      /\ a \notin outside /\ ~Queued(a) /\ \A c \in Frames : ~Awaits(a, c)
  BY <1>0, Distinct DEF IInv, Loop, OnePlace, Placed
<1>4. ~Queued(g) /\ g \notin outside /\ continuation[g] = None
      /\ \A c \in Frames : ~Awaits(g, c)
  <2>1. h_[Main] # g
    BY <1>2, Distinct
  <2>2. g \notin cut
    BY <1>0 DEF IInv, Loop
  <2>3. QED
    BY <1>0, <1>2, <2>1, <2>2 DEF IInv, OnePlace, Placed, Nesting, Nested
<1>5. /\ frame'[g] = "running" /\ frame'[a] = "suspended" /\ continuation'[g] = a
      /\ \A f \in Frames \ {a, g} : frame'[f] = frame[f]
      /\ \A f \in Frames \ {g} : continuation'[f] = continuation[f]
  BY <1>1, <1>2, <1>3 DEF IInv, Types
<1>6. Types' /\ Owners' /\ Acyclic' /\ Live' = Live
  <2>1. Types'
    BY <1>0, <1>1, <1>2 DEF IInv, Types, FrameStates
  <2>2. Live' = Live
    BY <1>0, <1>2, <1>3, <1>5 DEF Live
  <2>3. QED
    BY <1>0, <2>1, <2>2 DEF IInv, Owners, Acyclic, AcyclicIn, LiveScopes
<1>7. Loop'
  BY <1>0, <1>2, <1>3, <1>5, Distinct DEF IInv, Loop, Types
<1>8. Nesting'
  <2> SUFFICES ASSUME NEW f \in Frames
               PROVE  Nested(f)'
    BY DEF Nesting
  <2>1. Nested(f) /\ (h_[f] # None => h_[f] \in Frames)
    BY Distinct DEF IInv, Nesting, Types, Scopes
  <2>2. h_[f] = g => f = a
    BY <1>2, Distinct
  <2>3. h_[f] = a => continuation[a] = f
    BY <1>3, <2>1, Distinct DEF Nested
  <2>4. QED
    BY <1>0, <1>2, <1>3, <1>5, <2>1, <2>2, <2>3, Distinct DEF Nested
<1>9. OnePlace'
  <2> SUFFICES ASSUME NEW f \in Frames
               PROVE  Placed(f)'
    BY <1>0 DEF OnePlace, IInv
  <2>1. \A c \in Frames : Awaits(f, c)' <=> Awaits(f, c) \/ (f = a /\ c = g)
    BY <1>0, <1>2, <1>3, <1>4, <1>5, <1>6, Distinct DEF Awaits, Live
  <2>2. Queued(f)' <=> Queued(f)
    BY <1>0 DEF Queued
  <2>3. QED
    BY <1>0, <1>2, <1>3, <1>4, <1>5, <2>1, <2>2 DEF IInv, OnePlace, Placed
<1>10. QED
  BY <1>6, <1>7, <1>8, <1>9 DEF IInv

-------------------------------------------------------------------------------
(* Steps that create and destroy frames.                                   *)

\* A scope that may act is live, and owns nothing that is posted if it is main().
LEMMA ActiveScope ==
  ASSUME IInv, NEW s \in Scopes, Active(s)
  PROVE  /\ s \in LiveScopes
         /\ s = Main => main = "setup" /\ running = None
         /\ s # Main => s \in Frames /\ running = s /\ frame[s] = "running" /\ main = "run"
         /\ \A g \in Frames : Posted(g) <=> Queued(g)
         /\ h_[s] # None => h_[s] \in Frames /\ h_[s] \in Live \ self
                            /\ \A t \in Scopes : h_[t] = h_[s] => t = s
<1>1. s = Main \/ (s \in Frames /\ running = s)
  BY DEF Active
<1>2. h_[s] # None => h_[s] \in Frames /\ h_[s] \in Live \ self
                      /\ \A t \in Scopes : h_[t] = h_[s] => t = s
  BY DEF IInv, Types, Owners
<1>3. \A g \in Frames : Posted(g) <=> Queued(g)
  BY PostedQueued DEF IInv
<1>4. QED
  BY <1>1, <1>2, <1>3, Distinct DEF Active, IInv, Loop, LiveScopes, Live

\* start() detaches the frame from its object and queues it: it owns itself.
LEMMA StartStep ==
  ASSUME IInv, NEW s \in Scopes, Start(s)
  PROVE  IInv'
<1> DEFINE g == h_[s]
<1>1. /\ Active(s) /\ g # None /\ frame[g] = "lazy" /\ ~Posted(g)
      /\ self' = self \cup {g} /\ handle_q_' = Append(handle_q_, g)
      /\ h_' = [h_ EXCEPT ![s] = None]
      /\ UNCHANGED <<frame, continuation, wrapper, outside, main, running, created, cut>>
  BY DEF Start
<1>2. /\ g \in Frames /\ g \in Live /\ g \notin self /\ ~Queued(g) /\ h_[s] = g
      /\ main \in {"setup", "run"} /\ \A t \in Scopes : h_[t] = g => t = s
      /\ s # Main => s \in Frames /\ frame[s] = "running"
  BY <1>1, ActiveScope
<1> HIDE DEF g
<1>3. /\ handle_q_' \in Seq(Frames) /\ Once(handle_q_')
      /\ \A c : Queued(c)' <=> Queued(c) \/ c = g
  BY <1>1, <1>2, QueueStep
<1>4. \A t \in Scopes : h_'[t] = IF t = s THEN None ELSE h_[t]
  BY <1>1 DEF IInv, Types
<1>5. Types' /\ Live' = Live
  BY <1>1, <1>2, <1>3 DEF IInv, Types, Live
<1>6. Owners'
  BY <1>1, <1>2, <1>4, <1>5 DEF IInv, Owners, LiveScopes
<1>7. Acyclic'
  BY <1>4, FewerEdges, Distinct DEF IInv, Acyclic
<1>8. Loop'
  BY <1>1, <1>2, <1>4, Distinct DEF IInv, Loop
<1>9. Nesting'
  BY <1>1, <1>2, <1>4, Distinct DEF IInv, Nesting, Nested
<1>10. OnePlace'
  <2> SUFFICES ASSUME NEW f \in Frames
               PROVE  Placed(f)'
    BY <1>3 DEF OnePlace
  <2>1. \A c : Awaits(f, c)' <=> Awaits(f, c)
    BY <1>1 DEF Awaits, Live
  <2>2. ASSUME NEW c \in Frames, Awaits(f, c)
        PROVE  f # s /\ f # g
    BY <1>1, <1>2, <2>2, Distinct DEF IInv, OnePlace, Placed
  <2>3. g \notin outside
    BY <1>1, <1>2 DEF IInv, OnePlace, Placed, Loop
  <2>4. Queued(f) /\ frame[f] = "lazy" => f \in self \/ h_[Main] = f
    BY DEF IInv, OnePlace, Placed
  <2>5. h_[Main] = f => f = g \/ h_'[Main] = f
    BY <1>2, <1>4, Distinct
  <2>6. QED
    BY <1>1, <1>2, <1>3, <1>4, <2>1, <2>2, <2>3, <2>4, <2>5, Distinct DEF IInv, OnePlace, Placed
<1>11. QED
  BY <1>5, <1>6, <1>7, <1>8, <1>9, <1>10 DEF IInv

\* F are the frames that go with the object of s: what their objects own is among
\* them, and nothing else but the object of s owns one of them.
Doomed(F, s) ==
  /\ F \subseteq Frames /\ s \notin F
  /\ h_[s] # None => h_[s] \in F
  /\ \A x \in F : h_[x] # None => h_[x] \in F
  /\ \A t \in Scopes : h_[t] \in F => t \in F \cup {s}

\* Nobody will resume a frame of F.
Unheld(F) ==
  \A g \in F : /\ frame[g] \in {"lazy", "final"} /\ g \notin self
               /\ ~Queued(g) /\ g \notin outside
               /\ \A f \in Frames : ~Awaits(f, g)

\* The frames that an active scope's object or an ending coroutine takes with it
\* have not started or are at their end, and nobody holds a handle of them.
LEMMA DoomedFrames ==
  ASSUME IInv, NEW s \in Scopes,
         \/ Active(s) /\ (h_[s] # None => ~Posted(h_[s]))
         \/ s \in Frames /\ running = s
  PROVE  Doomed(Destroyed(s), s) /\ Unheld(Destroyed(s))
<1>1. \/ s = Main /\ main = "setup" /\ (h_[s] # None => ~Queued(h_[s]))
      \/ s \in Frames /\ running = s
  BY ActiveScope, Distinct
<1>2. Destroyed(s) \subseteq Frames
  BY DestroyedFacts DEF Live
<1>3. Doomed(Destroyed(s), s)
  BY <1>1, <1>2, DestroyedFacts, IdleFacts DEF Doomed
<1>4. ASSUME NEW g \in Destroyed(s), NEW f \in Frames, Awaits(f, g)
      PROVE  FALSE
  <2>1. h_[f] = g /\ frame[f] = "suspended"
    BY <1>2, <1>4 DEF IInv, OnePlace, Placed
  <2>2. f \in Destroyed(s) \/ f = s
    BY <1>3, <2>1, Distinct DEF Doomed
  <2>3. QED
    BY <1>1, <2>1, <2>2, IdleFacts, Distinct DEF IInv, Loop
<1>5. QED
  BY <1>1, <1>3, <1>4, IdleFacts DEF Unheld

\* What is left, with the frames in the states fr and the objects at h, once the
\* frames F are freed and their objects and the one of s emptied: every other
\* frame and handle is owned, nested and resumed as before.
Left(F, s, fr, h) ==
  /\ fr \in [Frames -> FrameStates] /\ h \in [Scopes -> Frames \cup {None}]
  /\ \A f \in F : fr[f] = "freed"
  /\ \A f \in Frames \ F : fr[f] = frame[f]
  /\ \A t \in F \cup {s} : h[t] = None
  /\ \A t \in Scopes \ (F \cup {s}) : h[t] = h_[t] /\ h[t] \notin F
  /\ \A t \in Scopes : h[t] # None =>
       t \in LiveScopes \ (F \cup {s}) /\ h[t] \in (Live \ self) \ F
  /\ \A t, u \in Scopes : h[t] # None /\ h[t] = h[u] => t = u
  /\ \A f \in (Live \ self) \ F : \E t \in Scopes : h[t] = f
  /\ AcyclicIn(h)
  /\ \A f, c \in Frames : Awaits(f, c) /\ c \notin F => f \notin F \cup {s} /\ h[f] = c

\* Destroying such frames keeps ownership one to one and acyclic, and every
\* coroutine that awaits still owns what it awaits.
LEMMA FreeLeaves ==
  ASSUME IInv, NEW s \in Scopes, NEW F, Doomed(F, s), s \in Frames => running = s
  PROVE  Left(F, s, Free(F, frame), Clear(F \cup {s}, h_))
<1> DEFINE fr == Free(F, frame)
           h == Clear(F \cup {s}, h_)
<1>1. fr \in [Frames -> FrameStates] /\ h \in [Scopes -> Frames \cup {None}]
  BY DEF Free, Clear, IInv, Types, FrameStates
<1>2. (\A f \in F : fr[f] = "freed") /\ \A f \in Frames \ F : fr[f] = frame[f]
  BY DEF Free, Doomed
<1>3. /\ \A t \in F \cup {s} : h[t] = None
      /\ \A t \in Scopes \ (F \cup {s}) : h[t] = h_[t]
  BY DEF Clear, Doomed, Scopes
<1> HIDE DEF fr, h
<1>4. \A t \in Scopes \ (F \cup {s}) : h[t] \notin F
  BY <1>3 DEF Doomed
<1>5. \A t \in Scopes : h[t] # None =>
        /\ t \in LiveScopes \ (F \cup {s}) /\ h[t] \in (Live \ self) \ F /\ h[t] = h_[t]
  BY <1>3, <1>4 DEF IInv, Owners
<1>6. \A t, u \in Scopes : h[t] # None /\ h[t] = h[u] => t = u
  BY <1>5 DEF IInv, Owners
<1>7. ASSUME NEW f \in (Live \ self) \ F
      PROVE  \E t \in Scopes : h[t] = f
  <2>1. PICK t \in Scopes : h_[t] = f
    BY <1>7 DEF IInv, Owners
  <2>2. t \notin F \cup {s}
    BY <1>7, <2>1, Distinct DEF Doomed, Live
  <2>3. QED
    BY <1>3, <2>1, <2>2
<1>8. AcyclicIn(h)
  <2>1. \A x \in Frames : h[x] = h_[x] \/ h[x] = None
    BY <1>3, Distinct
  <2>2. QED
    BY <2>1, FewerEdges DEF IInv, Acyclic
<1>9. ASSUME NEW f \in Frames, NEW c \in Frames, Awaits(f, c), c \notin F
      PROVE  f \notin F \cup {s} /\ h[f] = c
  <2>1. h_[f] = c /\ frame[f] = "suspended"
    BY <1>9 DEF IInv, OnePlace, Placed
  <2>2. f # s
    BY <2>1 DEF IInv, Loop
  <2>3. f \notin F
    BY <1>9, <2>1, Distinct DEF Doomed
  <2>4. QED
    BY <1>3, <2>1, <2>2, <2>3, Distinct
<1>10. Left(F, s, fr, h)
  BY <1>1, <1>2, <1>3, <1>4, <1>5, <1>6, <1>7, <1>8, <1>9, Zenon DEF Left
<1>11. QED
  BY <1>10 DEF fr, h

\* The destructor of a task object that main() did not post.
LEMMA DropStep ==
  ASSUME IInv, NEW s \in Scopes, Drop(s)
  PROVE  IInv'
<1> DEFINE F == Destroyed(s)
<1>1. /\ Active(s) /\ h_[s] # None /\ ~Posted(h_[s])
      /\ frame' = Free(F, frame) /\ h_' = Clear(F \cup {s}, h_)
  BY DEF Drop
<1>0. UNCHANGED <<continuation, self, wrapper, handle_q_, outside, main, running, created, cut>>
  BY DEF Drop
<1>2. Doomed(F, s) /\ Unheld(F)
  BY <1>1, DoomedFrames
<1> HIDE DEF F
<1>3. Left(F, s, frame', h_')
  BY <1>1, <1>2, FreeLeaves, ActiveScope, Distinct
<1>4. Types' /\ Acyclic' /\ Live' = Live \ F
  <2>1. Types' /\ Acyclic'
    BY <1>0, <1>3 DEF IInv, Types, Acyclic, Left
  <2>2. Live' = Live \ F
    BY <1>2, <1>3 DEF Live, Doomed, Left
  <2>3. QED
    BY <2>1, <2>2
<1>5. Owners'
  BY <1>0, <1>3, <1>4 DEF Owners, LiveScopes, Left
<1>6. Loop'
  <2>1. \A f \in Frames : frame'[f] = frame[f]
                           \/ (frame[f] \in {"lazy", "final"} /\ frame'[f] = "freed" /\ f \notin self)
    BY <1>2, <1>3 DEF Unheld, Left
  <2>2. main = "over" => h_'[Main] = None
    BY <1>3, Distinct DEF IInv, Loop, Left
  <2>3. \A f \in self : f \in Frames
    BY DEF IInv, Types
  <2>4. QED
    BY <1>0, <2>1, <2>2, <2>3 DEF IInv, Loop, Types
<1>7. Nesting'
  <2> SUFFICES ASSUME NEW f \in Frames
               PROVE  Nested(f)'
    BY DEF Nesting
  <2>1. Nested(f) /\ f \in Scopes /\ (h_[f] # None => h_[f] \in Frames)
    BY Distinct DEF IInv, Nesting, Types
  <2>2. CASE f \in F \cup {s}
    <3>1. h_'[f] = None /\ (frame'[f] = "freed" \/ frame'[f] = frame[f])
      BY <1>2, <1>3, <2>2 DEF Doomed, Left
    <3>2. QED
      BY <1>0, <2>1, <3>1 DEF Nested
  <2>3. CASE f \notin F \cup {s}
    <3>1. h_'[f] = h_[f] /\ frame'[f] = frame[f]
          /\ (h_[f] # None => frame'[h_[f]] = frame[h_[f]])
      BY <1>3, <2>1, <2>3 DEF Left
    <3>2. QED
      BY <1>0, <2>1, <3>1 DEF Nested
  <2>4. QED
    BY <2>2, <2>3
<1>8. OnePlace'
  <2> SUFFICES ASSUME NEW f \in Frames
               PROVE  Placed(f)'
    BY <1>0 DEF OnePlace, IInv
  <2>1. \A c \in Frames : Awaits(f, c)' <=> Awaits(f, c)
    BY <1>0, <1>2, <1>3, <1>4 DEF Awaits, Left, Live, Unheld
  <2>2. Queued(f)' <=> Queued(f)
    BY <1>0 DEF Queued
  <2>3. Queued(f) /\ h_[Main] = f => h_'[Main] = f
    BY <1>2, <1>3, Distinct DEF Doomed, Unheld, Left
  <2>4. Placed(f) /\ (f \in F => frame[f] \in {"lazy", "final"} /\ ~Queued(f)
                                  /\ f \notin outside /\ f \notin self)
    BY <1>2 DEF IInv, OnePlace, Unheld
  <2>5. \A c \in Frames : Awaits(f, c) => h_'[f] = c
    BY <1>2, <1>3 DEF Unheld, Left
  <2>6. frame'[f] = IF f \in F THEN "freed" ELSE frame[f]
    BY <1>3 DEF Left
  <2>7. QED
    BY <1>0, <2>1, <2>2, <2>3, <2>4, <2>5, <2>6 DEF Placed
<1>9. QED
  BY <1>4, <1>5, <1>6, <1>7, <1>8 DEF IInv

\* When the running frame f ends, its continuation is what runs next, if it has
\* one; f stays for its owner unless it is its own.
LEMMA FinishEnds ==
  ASSUME IInv, NEW f \in Frames, Finish(f), NEW F, F = Destroyed(f)
  PROVE  /\ frame[f] = "running" /\ main = "run" /\ running' = continuation[f]
         /\ f \notin outside /\ ~Queued(f) /\ \A c \in Frames : ~Awaits(f, c)
         /\ Doomed(F, f) /\ Unheld(F) /\ Left(F, f, Free(F, frame), h_')
         /\ \A c \in Frames : c = continuation[f] =>
              /\ c \notin F \cup {f} /\ frame[c] = "suspended" /\ h_[c] = f
              /\ c \notin outside /\ ~Queued(c) /\ f \notin self
              /\ \A d \in Frames : Awaits(c, d) => d = f
         /\ frame' \in [Frames -> FrameStates]
         /\ frame'[f] = IF f \in self THEN "freed" ELSE "final"
         /\ \A x \in F : frame'[x] = "freed"
         /\ \A x \in Frames \ (F \cup {f}) :
              frame'[x] = IF x = continuation[f] THEN "running" ELSE frame[x]
<1>1. running = f /\ f \in Scopes /\ h_' = Clear(F \cup {f}, h_)
  BY Distinct DEF Finish
<1>2. Doomed(F, f) /\ Unheld(F)
  BY <1>1, DoomedFrames
<1>3. Left(F, f, Free(F, frame), h_')
  BY <1>1, <1>2, FreeLeaves
<1>4. /\ frame[f] = "running" /\ main = "run" /\ f \notin outside /\ ~Queued(f)
      /\ \A c \in Frames : ~Awaits(f, c)
  BY <1>1, Distinct DEF IInv, Loop, OnePlace, Placed
<1>5. ASSUME NEW c \in Frames, c = continuation[f]
      PROVE  /\ c \notin F \cup {f} /\ frame[c] = "suspended" /\ h_[c] = f
             /\ c \notin outside /\ ~Queued(c) /\ f \notin self
             /\ \A d \in Frames : Awaits(c, d) => d = f
  <2>1. Awaits(c, f)
    BY <1>4, <1>5 DEF Awaits, Live
  <2>2. /\ h_[c] = f /\ frame[c] = "suspended" /\ c \notin outside /\ ~Queued(c)
        /\ \A d \in Frames : Awaits(c, d) => d = f
    BY <2>1 DEF IInv, OnePlace, Placed
  <2>3. f \notin self
    BY <2>2, Distinct DEF IInv, Owners
  <2>4. c \notin F \cup {f}
    BY <1>2, <1>4, <2>2 DEF Unheld
  <2>5. QED
    BY <2>2, <2>3, <2>4
<1> DEFINE fr == Free(F, frame)
<1>6. /\ fr \in [Frames -> FrameStates] /\ f \notin F /\ F \subseteq Frames
      /\ \A x \in F : fr[x] = "freed"
      /\ \A x \in Frames \ F : fr[x] = frame[x]
  BY <1>2, <1>3 DEF Left, Doomed
<1>7. \/ /\ continuation[f] = None /\ running' = None
         /\ frame' = [fr EXCEPT ![f] = IF f \in self THEN "freed" ELSE "final"]
      \/ /\ continuation[f] \in Frames /\ running' = continuation[f]
         /\ frame' = [fr EXCEPT ![f] = "final", ![continuation[f]] = "running"]
  <2>1. continuation[f] \in Frames \cup {None} /\ wrapper \subseteq self
    BY DEF IInv, Types
  <2>2. CASE f \in wrapper
    <3>1. continuation[f] = None
      BY <1>5, <2>1, <2>2
    <3>2. frame' = [fr EXCEPT ![f] = "freed"] /\ running' = None
      BY <2>2 DEF Finish, FinalDestroy
    <3>3. QED
      BY <2>1, <2>2, <3>1, <3>2
  <2>3. CASE f \notin wrapper
    <3>1. FinalSuspend(f, fr)
      BY <2>3 DEF Finish
    <3>2. QED
      BY <2>1, <3>1, Distinct DEF FinalSuspend
  <2>4. QED
    BY <2>2, <2>3
<1> HIDE DEF fr
<1>8. running' = continuation[f] /\ frame' \in [Frames -> FrameStates]
  BY <1>6, <1>7 DEF FrameStates
<1>9. frame'[f] = IF f \in self THEN "freed" ELSE "final"
  BY <1>5, <1>6, <1>7
<1>10. ASSUME NEW x \in Frames, x # f, x # continuation[f]
       PROVE  frame'[x] = fr[x]
  BY <1>6, <1>7, <1>10
<1>11. ASSUME NEW x \in Frames, x = continuation[f]
       PROVE  frame'[x] = "running"
  BY <1>6, <1>7, <1>11, Distinct
<1>12. \A x \in F : frame'[x] = "freed"
  BY <1>5, <1>6, <1>10
<1>13. \A x \in Frames \ (F \cup {f}) :
         frame'[x] = IF x = continuation[f] THEN "running" ELSE frame[x]
  BY <1>6, <1>10, <1>11
<1>14. QED
  BY <1>2, <1>3, <1>4, <1>5, <1>8, <1>9, <1>12, <1>13

\* A coroutine ends: its objects go, a frame that owns itself goes with them, and
\* the continuation, if there is one, runs.
LEMMA FinishStep ==
  ASSUME IInv, NEW f \in Frames, Finish(f)
  PROVE  IInv'
<1> DEFINE F == Destroyed(f)
           G == {x \in {f} : x \in self}
<1>1. /\ frame[f] = "running" /\ main = "run" /\ running' = continuation[f]
      /\ f \notin outside /\ ~Queued(f) /\ \A c \in Frames : ~Awaits(f, c)
  BY FinishEnds
<1>2. Doomed(F, f) /\ Unheld(F) /\ Left(F, f, Free(F, frame), h_')
  BY FinishEnds
<1>3. ASSUME NEW c \in Frames, c = continuation[f]
      PROVE  /\ c \notin F \cup {f} /\ frame[c] = "suspended" /\ h_[c] = f
             /\ c \notin outside /\ ~Queued(c) /\ f \notin self
             /\ \A d \in Frames : Awaits(c, d) => d = f
  BY <1>3, FinishEnds
<1>4. /\ frame' \in [Frames -> FrameStates]
      /\ frame'[f] = IF f \in self THEN "freed" ELSE "final"
      /\ \A x \in F : frame'[x] = "freed"
      /\ \A x \in Frames \ (F \cup {f}) :
           frame'[x] = IF x = continuation[f] THEN "running" ELSE frame[x]
  BY FinishEnds
<1>5. UNCHANGED <<continuation, self, wrapper, handle_q_, outside, main, created, cut>>
  BY DEF Finish
<1> HIDE DEF F
<1>6. Types' /\ Acyclic'
  BY <1>1, <1>2, <1>4, <1>5 DEF IInv, Types, Acyclic, Left
<1>7. Live' = (Live \ F) \ G
  <2> SUFFICES ASSUME NEW x \in Frames
               PROVE  x \in Live' <=> x \in (Live \ F) \ G
    BY DEF Live
  <2>1. CASE x \in F \cup {f}
    BY <1>1, <1>2, <1>4, <2>1 DEF Live, Doomed
  <2>2. CASE x \notin F \cup {f}
    BY <1>3, <1>4, <2>2 DEF Live
  <2>3. QED
    BY <2>1, <2>2
<1>8. Owners'
  BY <1>2, <1>5, <1>7 DEF Owners, LiveScopes, Left
<1>9. Loop'
  <2>1. \A x \in Frames : frame'[x] = "running" <=> running' = x
    <3> SUFFICES ASSUME NEW x \in Frames
                 PROVE  frame'[x] = "running" <=> running' = x
      OBVIOUS
    <3>1. CASE x \in F \cup {f}
      BY <1>1, <1>3, <1>4, <3>1
    <3>2. CASE x \notin F \cup {f}
      <4>1. frame[x] # "running"
        BY <1>1, <3>2 DEF IInv, Loop
      <4>2. QED
        BY <1>1, <1>4, <3>2, <4>1
    <3>3. QED
      BY <3>1, <3>2
  <2>2. ASSUME NEW x \in Frames
        PROVE  /\ frame'[x] = "none" <=> frame[x] = "none"
               /\ frame[x] = "freed" => frame'[x] = "freed"
               /\ x \in self => frame'[x] # "final"
    <3>1. CASE x \in F \cup {f}
      BY <1>1, <1>2, <1>4, <3>1 DEF Unheld
    <3>2. CASE x \notin F \cup {f}
      BY <1>3, <1>4, <3>2 DEF IInv, Loop
    <3>3. QED
      BY <3>1, <3>2
  <2>3. QED
    BY <1>1, <1>5, <2>1, <2>2 DEF IInv, Loop, Types
<1>10. Nesting'
  <2> SUFFICES ASSUME NEW x \in Frames
               PROVE  Nested(x)'
    BY DEF Nesting
  <2>1. Nested(x) /\ x \in Scopes /\ (h_[x] # None => h_[x] \in Frames)
    BY Distinct DEF IInv, Nesting, Types
  <2>2. CASE x \in F \cup {f}
    <3>1. h_'[x] = None /\ frame'[x] \in {"freed", "final"}
      BY <1>2, <1>4, <2>2 DEF Left
    <3>2. QED
      BY <3>1 DEF Nested
  <2>3. CASE x \notin F \cup {f}
    <3>1. h_'[x] = h_[x] /\ h_[x] \notin F
      BY <1>2, <2>1, <2>3 DEF Left
    <3>2. CASE h_[x] = None
      BY <1>3, <1>4, <1>5, <2>1, <2>3, <3>1, <3>2 DEF Nested
    <3>3. CASE h_[x] = f
      <4>1. continuation[f] = x
        BY <1>1, <2>1, <3>3, Distinct DEF Nested
      <4>2. frame'[x] = "running" /\ frame'[f] \in {"freed", "final"}
        BY <1>4, <2>3, <4>1
      <4>3. QED
        BY <3>1, <3>3, <4>2 DEF Nested
    <3>4. CASE h_[x] \notin {None, f}
      <4> DEFINE y == h_[x]
      <4>1. y \in Frames \ (F \cup {f})
        BY <2>1, <3>1, <3>4
      <4>2. y = continuation[f] => frame[y] = "suspended"
        BY <1>3, <4>1
      <4>3. x = continuation[f] => h_[x] = f
        BY <1>3
      <4>4. frame'[x] = frame[x]
        BY <1>4, <2>3, <3>4, <4>3
      <4>5. frame'[y] = IF y = continuation[f] THEN "running" ELSE frame[y]
        BY <1>4, <4>1
      <4>6. QED
        BY <1>5, <2>1, <3>1, <3>4, <4>2, <4>4, <4>5 DEF Nested
    <3>5. QED
      BY <3>2, <3>3, <3>4
  <2>4. QED
    BY <2>2, <2>3
<1>11. OnePlace'
  <2> SUFFICES ASSUME NEW x \in Frames
               PROVE  Placed(x)'
    BY <1>5 DEF OnePlace, IInv
  <2>1. Placed(x) /\ (Queued(x)' <=> Queued(x))
    BY <1>5 DEF IInv, OnePlace, Queued
  <2>2. \A c \in Frames : Awaits(x, c)' <=> Awaits(x, c) /\ c # f
    <3> SUFFICES ASSUME NEW c \in Frames
                 PROVE  Awaits(x, c)' <=> Awaits(x, c) /\ c # f
      OBVIOUS
    <3>1. CASE c \in F \cup {f}
      BY <1>2, <1>4, <3>1 DEF Awaits, Live, Unheld
    <3>2. CASE c \notin F \cup {f}
      BY <1>3, <1>4, <1>5, <3>2 DEF Awaits, Live
    <3>3. QED
      BY <3>1, <3>2
  <2>3. CASE x \in F
    <3>1. frame'[x] = "freed" /\ ~Queued(x) /\ x \notin outside /\ frame[x] \in {"lazy", "final"}
      BY <1>2, <1>4, <2>3 DEF Unheld
    <3>2. QED
      BY <1>5, <2>1, <2>2, <3>1 DEF Placed
  <2>4. CASE x = f
    <3>1. frame'[x] \in {"freed", "final"}
      BY <1>4, <2>4
    <3>2. QED
      BY <1>1, <1>5, <2>1, <2>2, <2>4, <3>1 DEF Placed
  <2>5. CASE x \notin F \cup {f} /\ x = continuation[f]
    <3>1. frame'[x] = "running"
      BY <1>4, <2>5
    <3>2. /\ x \notin outside /\ ~Queued(x)
          /\ \A c \in Frames : Awaits(x, c) => c = f
      BY <1>3, <2>5
    <3>3. QED
      BY <1>5, <2>1, <2>2, <3>1, <3>2 DEF Placed
  <2>6. CASE x \notin F \cup {f} /\ x # continuation[f]
    <3>1. frame'[x] = frame[x]
      BY <1>4, <2>6
    <3>2. ~Awaits(x, f)
      BY <2>6 DEF Awaits
    <3>3. h_[Main] = x => h_'[Main] = x
      BY <1>2, Distinct DEF Left, Doomed
    <3>4. \A c \in Frames : Awaits(x, c) => h_'[x] = c
      BY <1>2 DEF Left, Unheld
    <3>5. QED
      BY <1>5, <2>1, <2>2, <3>1, <3>2, <3>3, <3>4 DEF Placed
  <2>7. QED
    BY <2>3, <2>4, <2>5, <2>6
<1>12. QED
  BY <1>6, <1>8, <1>9, <1>10, <1>11 DEF IInv

\* main() ends after run() has returned and destroys its task, started or not.
LEMMA EndMainStep ==
  ASSUME IInv, EndMain
  PROVE  IInv'
<1> DEFINE F == Destroyed(Main)
<1>0. /\ main = "returned" /\ main' = "over"
      /\ cut' = {f \in F : frame[f] \notin {"final", "lazy"}}
      /\ UNCHANGED <<continuation, self, wrapper, handle_q_, outside, running, created>>
  BY DEF EndMain
<1>1. frame' = Free(F, frame) /\ h_' = Clear(F \cup {Main}, h_)
  BY DEF EndMain
<1>2. Doomed(F, Main) /\ F \subseteq Live
  BY DestroyedFacts, Distinct DEF Doomed, Live
<1> HIDE DEF F
<1>3. Left(F, Main, frame', h_')
  BY <1>1, <1>2, FreeLeaves, Distinct
<1>4. Types' /\ Acyclic' /\ Live' = Live \ F
  <2>1. Types' /\ Acyclic'
    BY <1>0, <1>2, <1>3 DEF IInv, Types, Acyclic, Left, Doomed
  <2>2. Live' = Live \ F
    BY <1>2, <1>3 DEF Live, Doomed, Left
  <2>3. QED
    BY <2>1, <2>2
<1>5. Owners'
  BY <1>0, <1>3, <1>4 DEF Owners, LiveScopes, Left
<1>6. running = None /\ cut = {}
  BY <1>0 DEF IInv, Loop
<1>7. Loop'
  <2>1. \A f \in Frames : frame'[f] = frame[f]
                           \/ (frame[f] # "none" /\ frame'[f] = "freed")
    BY <1>2, <1>3 DEF Left, Live
  <2>2. h_'[Main] = None /\ \A f \in cut' : frame'[f] = "freed"
    BY <1>0, <1>3 DEF Left
  <2>3. \A f \in self : f \in Frames
    BY DEF IInv, Types
  <2>4. \A f \in Frames : frame'[f] # "running"
    BY <1>6, <2>1, Distinct DEF IInv, Loop
  <2>5. QED
    BY <1>0, <1>6, <2>1, <2>2, <2>3, <2>4, Distinct DEF IInv, Loop, Types
<1>8. Nesting'
  <2> SUFFICES ASSUME NEW f \in Frames
               PROVE  Nested(f)'
    BY DEF Nesting
  <2>1. Nested(f) /\ f \in Scopes /\ f # Main /\ (h_[f] # None => h_[f] \in Frames)
    BY Distinct DEF IInv, Nesting, Types
  <2>2. CASE f \in F
    <3>1. h_'[f] = None /\ frame'[f] = "freed"
      BY <1>3, <2>2 DEF Left
    <3>2. QED
      BY <3>1 DEF Nested
  <2>3. CASE f \notin F
    <3>1. h_'[f] = h_[f] /\ frame'[f] = frame[f]
          /\ (h_[f] # None => frame'[h_[f]] = frame[h_[f]])
      BY <1>3, <2>1, <2>3 DEF Left
    <3>2. QED
      BY <1>0, <2>1, <3>1 DEF Nested
  <2>4. QED
    BY <2>2, <2>3
<1>9. OnePlace'
  <2> SUFFICES ASSUME NEW f \in Frames
               PROVE  Placed(f)'
    BY <1>0 DEF OnePlace, IInv
  <2>1. Placed(f) /\ f \notin cut /\ (Queued(f)' <=> Queued(f))
    BY <1>0, <1>6 DEF IInv, OnePlace, Queued
  <2>2. \A c \in Frames : Awaits(f, c)' <=> Awaits(f, c) /\ c \notin F
    BY <1>0, <1>3, <1>4 DEF Awaits, Left, Live
  <2>3. \A c \in Frames : Awaits(f, c) /\ c \notin F => h_'[f] = c /\ f \notin F
    BY <1>3 DEF Left
  <2>4. CASE f \in F
    <3>1. frame'[f] = "freed" /\ (frame[f] = "suspended" => f \in cut')
      BY <1>0, <1>3, <2>4 DEF Left
    <3>2. QED
      BY <1>0, <2>1, <2>2, <2>3, <2>4, <3>1 DEF Placed
  <2>5. CASE f \notin F
    <3>1. frame'[f] = frame[f]
      BY <1>3, <2>5 DEF Left
    <3>2. \A c \in Frames : Awaits(f, c) => c \notin F
      BY <1>2, <2>1, <2>5, Distinct DEF Placed, Doomed
    <3>3. QED
      BY <1>0, <2>1, <2>2, <2>3, <3>1, <3>2 DEF Placed
  <2>6. QED
    BY <2>4, <2>5
<1>10. QED
  BY <1>4, <1>5, <1>7, <1>8, <1>9 DEF IInv

\* The next frame to be created is known to nobody yet.
LEMMA NewFrame ==
  ASSUME IInv, created < MaxFrames, NEW n, n = created + 1
  PROVE  /\ n \in Frames /\ n \in Scopes /\ frame[n] = "none" /\ n \notin Live
         /\ h_[n] = None /\ continuation[n] = None
         /\ n \notin self /\ n \notin outside /\ ~Queued(n)
         /\ \A t \in Scopes : h_[t] # n
         /\ \A c \in Frames : ~Awaits(n, c) /\ ~Awaits(c, n)
         /\ \A f \in Frames : f > n <=> (f > created /\ f # n)
<1>1. n \in Frames /\ created \in Nat /\ \A f \in Frames : f > n <=> (f > created /\ f # n)
  BY TaskAssumption DEF IInv, Types, Frames
<1>2. frame[n] = "none"
  BY <1>1 DEF IInv, Loop
<1>3. n \notin Live /\ n \in Scopes /\ n # Main
  BY <1>1, <1>2, Distinct DEF Live
<1>4. h_[n] = None /\ \A t \in Scopes : h_[t] # n
  BY <1>1, <1>3, Distinct DEF IInv, Owners, LiveScopes
<1>5. continuation[n] = None /\ n \notin self /\ n \notin cut
  BY <1>1, <1>2 DEF IInv, Nesting, Nested, Loop
<1>6. n \notin outside /\ ~Queued(n) /\ \A c \in Frames : ~Awaits(n, c)
  BY <1>1, <1>2, <1>5 DEF IInv, OnePlace, Placed
<1>7. \A c \in Frames : ~Awaits(c, n)
  BY <1>3 DEF Awaits
<1>8. QED
  BY <1>1, <1>2, <1>3, <1>4, <1>5, <1>6, <1>7

\* A new frame put below or between others makes no cycle.
LEMMA EdgeToNew ==
  ASSUME NEW h, NEW k, NEW n \in Frames, NEW s \in Scopes, AcyclicIn(h), h[n] = None, s # n,
         \A x \in Frames : k[x] = (IF x = s THEN n ELSE h[x])
  PROVE  AcyclicIn(k)
<1> SUFFICES ASSUME NEW S \in SUBSET Frames, S # {}
             PROVE  /\ \E f \in S : k[f] \notin S
                    /\ \E f \in S : \A x \in S : k[x] # f
  BY DEF AcyclicIn
<1>1. k[n] = None
  OBVIOUS
<1>2. \E f \in S : k[f] \notin S
  <2>1. CASE n \in S
    BY <1>1, <2>1, Distinct
  <2>2. CASE n \notin S
    <3>1. PICK f \in S : h[f] \notin S
      BY DEF AcyclicIn
    <3>2. QED
      BY <2>2, <3>1
  <2>3. QED
    BY <2>1, <2>2
<1>3. \E f \in S : \A x \in S : k[x] # f
  <2> DEFINE T == S \ {n}
  <2>1. CASE T = {}
    BY <1>1, <2>1, Distinct
  <2>2. CASE T # {}
    <3>1. PICK f \in T : \A x \in T : h[x] # f
      BY <2>2, Zenon DEF AcyclicIn
    <3>2. ASSUME NEW x \in S
          PROVE  k[x] # f
      BY <1>1, <3>1, Distinct
    <3>3. QED
      BY <3>1, <3>2
  <2>3. QED
    BY <2>1, <2>2
<1>4. QED
  BY <1>2, <1>3

\* The same when the new frame takes over what its owner had.
LEMMA EdgeThroughNew ==
  ASSUME NEW h, NEW k, NEW n \in Frames, NEW s \in Scopes, AcyclicIn(h), s # n, h[s] # n,
         \A x \in Frames : h[x] # n,
         \A x \in Frames : k[x] = (IF x = s THEN n ELSE IF x = n THEN h[s] ELSE h[x])
  PROVE  AcyclicIn(k)
<1> SUFFICES ASSUME NEW S \in SUBSET Frames, S # {}
             PROVE  /\ \E f \in S : k[f] \notin S
                    /\ \E f \in S : \A x \in S : k[x] # f
  BY DEF AcyclicIn
<1> DEFINE T == S \ {n}
<1>1. /\ k[n] = h[s] /\ k[n] # n /\ \A x \in T \ {s} : k[x] = h[x] /\ k[x] # n
      /\ s \in Frames => k[s] = n
  OBVIOUS
<1>2. CASE T = {}
  BY <1>1, <1>2
<1>3. CASE T # {}
  <2>1. PICK f \in T : h[f] \notin T
    BY <1>3, Zenon DEF AcyclicIn
  <2>2. PICK g \in T : \A x \in T : h[x] # g
    BY <1>3, Zenon DEF AcyclicIn
  <2>3. \E x \in S : k[x] \notin S
    <3>1. CASE f # s
      BY <1>1, <2>1, <3>1
    <3>2. CASE f = s
      BY <1>1, <2>1, <3>2
    <3>3. QED
      BY <3>1, <3>2
  <2>4. \E x \in S : \A y \in S : k[y] # x
    <3>1. CASE n \in S /\ h[s] = g
      <4>1. s \notin S
        BY <2>2, <3>1
      <4>2. \A y \in S : k[y] # n
        BY <1>1, <4>1
      <4>3. QED
        BY <3>1, <4>2
    <3>2. CASE n \notin S \/ h[s] # g
      <4>1. ASSUME NEW y \in S
            PROVE  k[y] # g
        BY <1>1, <2>2, <3>2
      <4>2. QED
        BY <4>1
    <3>3. QED
      BY <3>1, <3>2
  <2>5. QED
    BY <2>3, <2>4
<1>4. QED
  BY <1>2, <1>3

\* A scope assigns a new task to its object, which destroys the old one.
LEMMA CreateStep ==
  ASSUME IInv, NEW s \in Scopes, Create(s)
  PROVE  IInv'
<1> DEFINE n == created + 1
           F == Destroyed(s)
           fr == Free(F, frame)
           h == Clear(F \cup {s}, h_)
<1>1. /\ Active(s) /\ created < MaxFrames /\ (h_[s] # None => ~Posted(h_[s]))
      /\ frame' = [fr EXCEPT ![n] = "lazy"]
      /\ h_' = [Clear(F, h_) EXCEPT ![s] = n]
  BY DEF Create
<1>0. created' = n /\ UNCHANGED <<continuation, self, wrapper, handle_q_, outside, main, running, cut>>
  BY DEF Create
<1>2. Doomed(F, s) /\ Unheld(F)
  BY <1>1, DoomedFrames
<1>3. Left(F, s, fr, h)
  BY <1>1, <1>2, FreeLeaves, ActiveScope, Distinct
<1>4. /\ n \in Frames /\ n \in Scopes /\ frame[n] = "none" /\ n \notin Live
      /\ h_[n] = None /\ continuation[n] = None
      /\ n \notin self /\ n \notin outside /\ ~Queued(n)
      /\ \A t \in Scopes : h_[t] # n
      /\ \A c \in Frames : ~Awaits(n, c) /\ ~Awaits(c, n)
      /\ \A f \in Frames : f > n <=> (f > created /\ f # n)
  BY <1>1, NewFrame
<1>5. /\ s \in LiveScopes /\ s # n /\ n \notin F
      /\ s \in Frames => frame[s] = "running"
      /\ main \in {"setup", "run"}
  BY <1>1, <1>2, <1>4, ActiveScope, Distinct DEF Unheld
<1>6. /\ h_' \in [Scopes -> Frames \cup {None}] /\ h_'[s] = n
      /\ \A t \in Scopes \ {s} : h_'[t] = h[t]
  BY <1>1, <1>4 DEF Clear, IInv, Types
<1> HIDE DEF n, F, fr, h
<1>7. /\ frame' \in [Frames -> FrameStates] /\ frame'[n] = "lazy"
      /\ \A f \in F : frame'[f] = "freed"
      /\ \A f \in Frames \ (F \cup {n}) : frame'[f] = frame[f]
  BY <1>1, <1>2, <1>3, <1>4, <1>5 DEF Left, FrameStates, Doomed
<1>8. Types'
  BY <1>0, <1>4, <1>6, <1>7 DEF IInv, Types, Frames
<1>9. Live' = (Live \ F) \cup {n}
  <2> SUFFICES ASSUME NEW x \in Frames
               PROVE  x \in Live' <=> x \in (Live \ F) \cup {n}
    BY <1>4 DEF Live
  <2>1. QED
    BY <1>5, <1>7 DEF Live
<1>10. h[s] = None /\ h[n] = None /\ \A t \in Scopes : h[t] # n
  BY <1>3, <1>4, <1>5, Distinct DEF Left
<1>11. Owners'
  <2>1. ASSUME NEW t \in Scopes, h_'[t] # None
        PROVE  t \in LiveScopes' /\ h_'[t] \in Live' \ self'
    <3>1. CASE t = s
      BY <1>0, <1>2, <1>4, <1>5, <1>6, <1>9, <3>1 DEF LiveScopes, Doomed
    <3>2. CASE t # s
      BY <1>0, <1>3, <1>6, <1>9, <2>1, <3>2 DEF LiveScopes, Left
    <3>3. QED
      BY <3>1, <3>2
  <2>2. \A t, u \in Scopes : h_'[t] # None /\ h_'[t] = h_'[u] => t = u
    BY <1>3, <1>6, <1>10 DEF Left
  <2>3. \A f \in Live' \ self' : \E t \in Scopes : h_'[t] = f
    <3>1. \A f \in (Live \ self) \ F : \E t \in Scopes : h[t] = f /\ f # None
      BY <1>3, Distinct DEF Left, Live
    <3>2. QED
      BY <1>0, <1>6, <1>9, <1>10, <3>1
  <2>4. QED
    BY <2>1, <2>2, <2>3 DEF Owners
<1>12. Acyclic'
  <2>1. \A x \in Frames : h_'[x] = (IF x = s THEN n ELSE h[x])
    BY <1>6, Distinct
  <2>2. QED
    BY <1>3, <1>4, <1>5, <1>10, <2>1, EdgeToNew DEF Acyclic, Left
<1>13. Loop'
  <2>1. \A f \in Frames \ {n} : frame'[f] = frame[f]
                 \/ (frame[f] \in {"lazy", "final"} /\ frame'[f] = "freed" /\ f \notin self)
    BY <1>2, <1>7 DEF Unheld
  <2>2. \A f \in self : f \in Frames /\ f # n
    BY <1>4 DEF IInv, Types
  <2>3. running # n /\ n \notin cut /\ \A f \in cut : f \in Frames
    BY <1>4 DEF IInv, Loop, Types
  <2>4. \A f \in Frames : f > created' <=> (f > created /\ f # n)
    BY <1>0, <1>4
  <2>5. ASSUME NEW f \in Frames
        PROVE  f > created' <=> frame'[f] = "none"
    BY <1>7, <2>1, <2>4 DEF IInv, Loop
  <2>6. QED
    BY <1>0, <1>5, <1>7, <2>1, <2>2, <2>3, <2>5 DEF IInv, Loop
<1>14. Nesting'
  <2> SUFFICES ASSUME NEW f \in Frames
               PROVE  Nested(f)'
    BY DEF Nesting
  <2>1. Nested(f) /\ f \in Scopes /\ (h_[f] # None => h_[f] \in Frames)
    BY Distinct DEF IInv, Nesting, Types
  <2>2. CASE f = n
    BY <1>0, <1>4, <1>5, <1>6, <1>7, <1>10, <2>2 DEF Nested
  <2>3. CASE f = s
    BY <1>0, <1>5, <1>6, <1>7, <2>1, <2>3 DEF Nested
  <2>4. CASE f \in F
    <3>1. h_'[f] = None /\ frame'[f] = "freed"
      BY <1>2, <1>3, <1>6, <1>7, <2>1, <2>4 DEF Left, Doomed
    <3>2. QED
      BY <3>1 DEF Nested
  <2>5. CASE f \notin F \cup {s, n}
    <3>1. /\ h_'[f] = h_[f] /\ frame'[f] = frame[f]
          /\ (h_[f] # None => frame'[h_[f]] = frame[h_[f]])
      BY <1>3, <1>4, <1>6, <1>7, <2>1, <2>5 DEF Left
    <3>2. QED
      BY <1>0, <2>1, <3>1 DEF Nested
  <2>6. QED
    BY <2>2, <2>3, <2>4, <2>5
<1>15. OnePlace'
  <2> SUFFICES ASSUME NEW f \in Frames
               PROVE  Placed(f)'
    BY <1>0 DEF OnePlace, IInv
  <2>1. Placed(f) /\ (Queued(f)' <=> Queued(f))
    BY <1>0 DEF IInv, OnePlace, Queued
  <2>2. \A c \in Frames : Awaits(f, c)' <=> Awaits(f, c)
    <3> SUFFICES ASSUME NEW c \in Frames
                 PROVE  Awaits(f, c)' <=> Awaits(f, c)
      OBVIOUS
    <3>1. CASE c = n
      BY <1>0, <1>4, <3>1, Distinct DEF Awaits
    <3>2. CASE c \in F
      BY <1>2, <1>7, <3>2 DEF Awaits, Unheld, Live
    <3>3. CASE c \notin F \cup {n}
      BY <1>0, <1>7, <3>3 DEF Awaits, Live
    <3>4. QED
      BY <3>1, <3>2, <3>3
  <2>3. CASE f = n
    BY <1>0, <1>4, <1>7, <2>1, <2>2, <2>3 DEF Placed
  <2>4. CASE f \in F
    <3>1. /\ frame'[f] = "freed" /\ ~Queued(f) /\ f \notin outside
          /\ frame[f] \in {"lazy", "final"}
      BY <1>2, <1>7, <2>4 DEF Unheld
    <3>2. QED
      BY <1>0, <2>1, <2>2, <3>1 DEF Placed
  <2>5. CASE f \notin F \cup {n}
    <3>1. frame'[f] = frame[f]
      BY <1>7, <2>5
    <3>2. h_[Main] = f => h_'[Main] = f
      BY <1>2, <1>3, <1>6, <2>5, Distinct DEF Left, Doomed
    <3>3. ASSUME NEW c \in Frames, Awaits(f, c)
          PROVE  h_'[f] = c
      <4>1. f # s /\ h[f] = c
        BY <1>2, <1>3, <3>3 DEF Left, Unheld
      <4>2. QED
        BY <1>6, <4>1, Distinct
    <3>4. QED
      BY <1>0, <2>1, <2>2, <3>1, <3>2, <3>3 DEF Placed
  <2>6. QED
    BY <2>3, <2>4, <2>5
<1>16. QED
  BY <1>8, <1>11, <1>12, <1>13, <1>14, <1>15 DEF IInv

\* A new task that takes the scope's task as an argument comes between the two.
LEMMA CreateAroundStep ==
  ASSUME IInv, NEW s \in Scopes, CreateAround(s)
  PROVE  IInv'
<1> DEFINE n == created + 1
           g == h_[s]
<1>0. /\ Active(s) /\ created < MaxFrames
      /\ g # None /\ frame[g] = "lazy" /\ ~Posted(g) /\ created' = n
      /\ UNCHANGED <<continuation, self, wrapper, handle_q_, outside, main, running, cut>>
  BY DEF CreateAround
<1>1. /\ frame' = [frame EXCEPT ![n] = "lazy"]
      /\ h_' = [h_ EXCEPT ![n] = g, ![s] = n]
  BY DEF CreateAround
<1>2. /\ n \in Frames /\ n \in Scopes /\ frame[n] = "none" /\ n \notin Live
      /\ h_[n] = None /\ continuation[n] = None
      /\ n \notin self /\ n \notin outside /\ ~Queued(n)
      /\ \A t \in Scopes : h_[t] # n
      /\ \A c \in Frames : ~Awaits(n, c) /\ ~Awaits(c, n)
      /\ \A f \in Frames : f > n <=> (f > created /\ f # n)
  BY <1>0, NewFrame
<1>3. /\ s \in LiveScopes /\ s # n /\ (s \in Frames => frame[s] = "running")
      /\ g \in Frames /\ g \in Live \ self /\ ~Queued(g) /\ g # n /\ h_[s] = g
      /\ \A t \in Scopes : h_[t] = g => t = s
  BY <1>0, <1>2, ActiveScope, Distinct
<1>4. /\ h_' \in [Scopes -> Frames \cup {None}] /\ h_'[s] = n /\ h_'[n] = g
      /\ \A t \in Scopes \ {s, n} : h_'[t] = h_[t]
  BY <1>1, <1>2, <1>3 DEF IInv, Types
<1> HIDE DEF n, g
<1>5. /\ frame' \in [Frames -> FrameStates] /\ frame'[n] = "lazy"
      /\ \A f \in Frames \ {n} : frame'[f] = frame[f]
  BY <1>1, <1>2 DEF IInv, Types, FrameStates
<1>6. Types'
  BY <1>0, <1>2, <1>4, <1>5 DEF IInv, Types, Frames
<1>7. Live' = Live \cup {n}
  BY <1>2, <1>5 DEF Live
<1>8. Owners'
  <2>1. ASSUME NEW t \in Scopes, h_'[t] # None
        PROVE  t \in LiveScopes' /\ h_'[t] \in Live' \ self'
    BY <1>0, <1>2, <1>3, <1>4, <1>7, <2>1 DEF LiveScopes, IInv, Owners
  <2>2. \A t, u \in Scopes : h_'[t] # None /\ h_'[t] = h_'[u] => t = u
    BY <1>2, <1>3, <1>4 DEF IInv, Owners
  <2>3. ASSUME NEW f \in Live' \ self'
        PROVE  \E t \in Scopes : h_'[t] = f
    <3>1. CASE f \in {n, g}
      BY <1>2, <1>4, <3>1
    <3>2. CASE f \notin {n, g}
      <4>1. PICK t \in Scopes : h_[t] = f
        BY <1>0, <1>7, <2>3, <3>2 DEF IInv, Owners
      <4>2. t \notin {s, n}
        BY <1>2, <1>3, <1>7, <2>3, <3>2, <4>1, Distinct DEF Live
      <4>3. QED
        BY <1>4, <4>1, <4>2
    <3>3. QED
      BY <3>1, <3>2
  <2>4. QED
    BY <2>1, <2>2, <2>3 DEF Owners
<1>9. Acyclic'
  <2>1. \A x \in Frames : h_'[x] = (IF x = s THEN n ELSE IF x = n THEN h_[s] ELSE h_[x])
    BY <1>3, <1>4, Distinct
  <2>2. QED
    BY <1>2, <1>3, <2>1, EdgeThroughNew, Distinct DEF IInv, Acyclic
<1>10. Loop'
  <2>1. running # n /\ n \notin cut /\ (\A f \in cut : f \in Frames) /\ (\A f \in self : f \in Frames)
    BY <1>2 DEF IInv, Loop, Types
  <2>2. ASSUME NEW f \in Frames
        PROVE  f > created' <=> frame'[f] = "none"
    BY <1>0, <1>2, <1>5 DEF IInv, Loop
  <2>3. main \in {"setup", "run"}
    BY <1>0, ActiveScope, Distinct
  <2>4. QED
    BY <1>0, <1>2, <1>5, <2>1, <2>2, <2>3 DEF IInv, Loop
<1>11. Nesting'
  <2> SUFFICES ASSUME NEW f \in Frames
               PROVE  Nested(f)'
    BY DEF Nesting
  <2>1. Nested(f) /\ f \in Scopes /\ (h_[f] # None => h_[f] \in Frames)
    BY Distinct DEF IInv, Nesting, Types
  <2>2. CASE f = n
    BY <1>0, <1>2, <1>3, <1>4, <1>5, <2>2 DEF Nested
  <2>3. CASE f = s
    BY <1>0, <1>3, <1>4, <1>5, <2>1, <2>3 DEF Nested
  <2>4. CASE f \notin {s, n}
    <3>1. /\ h_'[f] = h_[f] /\ frame'[f] = frame[f]
          /\ (h_[f] # None => frame'[h_[f]] = frame[h_[f]])
      BY <1>2, <1>4, <1>5, <2>1, <2>4
    <3>2. QED
      BY <1>0, <2>1, <3>1 DEF Nested
  <2>5. QED
    BY <2>2, <2>3, <2>4
<1>12. OnePlace'
  <2> SUFFICES ASSUME NEW f \in Frames
               PROVE  Placed(f)'
    BY <1>0 DEF OnePlace, IInv
  <2>1. Placed(f) /\ (Queued(f)' <=> Queued(f))
    BY <1>0 DEF IInv, OnePlace, Queued
  <2>2. \A c \in Frames : Awaits(f, c)' <=> Awaits(f, c)
    BY <1>0, <1>2, <1>5, <1>7, Distinct DEF Awaits
  <2>3. CASE f = n
    BY <1>0, <1>2, <1>5, <2>1, <2>2, <2>3 DEF Placed
  <2>4. CASE f # n
    <3>1. frame'[f] = frame[f]
      BY <1>5, <2>4
    <3>2. Queued(f) /\ h_[Main] = f => h_'[Main] = f
      BY <1>2, <1>3, <1>4, Distinct
    <3>3. ASSUME NEW c \in Frames, Awaits(f, c)
          PROVE  h_'[f] = c
      <4>1. h_[f] = c /\ frame[f] = "suspended"
        BY <2>1, <3>3 DEF Placed
      <4>2. QED
        BY <1>3, <1>4, <2>4, <4>1, Distinct
    <3>4. QED
      BY <1>0, <2>1, <2>2, <3>1, <3>2, <3>3 DEF Placed
  <2>5. QED
    BY <2>3, <2>4
<1>13. QED
  BY <1>6, <1>8, <1>9, <1>10, <1>11, <1>12 DEF IInv

\* spawn_detached() makes a wrapper that owns itself, moves the task into it and
\* queues the wrapper.
LEMMA SpawnStep ==
  ASSUME IInv, NEW s \in Scopes, Spawn(s)
  PROVE  IInv'
<1> DEFINE n == created + 1
           g == h_[s]
<1>0. /\ Active(s) /\ created < MaxFrames
      /\ g # None /\ frame[g] = "lazy" /\ ~Posted(g) /\ created' = n
      /\ self' = self \cup {n} /\ wrapper' = wrapper \cup {n}
      /\ UNCHANGED <<continuation, outside, main, running, cut>>
  BY DEF Spawn, MakeDetached
<1>1. /\ frame' = [frame EXCEPT ![n] = "lazy"]
      /\ h_' = [h_ EXCEPT ![n] = g, ![s] = None]
      /\ handle_q_' = Append(handle_q_, n)
  BY DEF Spawn, MakeDetached
<1>2. /\ n \in Frames /\ n \in Scopes /\ frame[n] = "none" /\ n \notin Live
      /\ h_[n] = None /\ continuation[n] = None
      /\ n \notin self /\ n \notin outside /\ ~Queued(n)
      /\ \A t \in Scopes : h_[t] # n
      /\ \A c \in Frames : ~Awaits(n, c) /\ ~Awaits(c, n)
      /\ \A f \in Frames : f > n <=> (f > created /\ f # n)
  BY <1>0, NewFrame
<1>3. /\ s \in LiveScopes /\ s # n /\ (s \in Frames => frame[s] = "running")
      /\ g \in Frames /\ g \in Live \ self /\ ~Queued(g) /\ g # n /\ h_[s] = g
      /\ \A t \in Scopes : h_[t] = g => t = s
  BY <1>0, <1>2, ActiveScope, Distinct
<1>4. /\ h_' \in [Scopes -> Frames \cup {None}] /\ h_'[s] = None /\ h_'[n] = g
      /\ \A t \in Scopes \ {s, n} : h_'[t] = h_[t]
  BY <1>1, <1>2, <1>3 DEF IInv, Types
<1> HIDE DEF n, g
<1>5. /\ frame' \in [Frames -> FrameStates] /\ frame'[n] = "lazy"
      /\ \A f \in Frames \ {n} : frame'[f] = frame[f]
  BY <1>1, <1>2 DEF IInv, Types, FrameStates
<1>6. /\ handle_q_' \in Seq(Frames) /\ Once(handle_q_')
       /\ \A c : Queued(c)' <=> Queued(c) \/ c = n
  BY <1>1, <1>2, QueueStep
<1>7. Types'
  <2>1. created' \in 0..MaxFrames /\ self' \subseteq Frames /\ wrapper' \subseteq self'
    BY <1>0, <1>2 DEF IInv, Types, Frames
  <2>2. QED
    BY <1>0, <1>4, <1>5, <1>6, <2>1 DEF IInv, Types
<1>8. Live' = Live \cup {n}
  BY <1>2, <1>5 DEF Live
<1>9. Owners'
  <2>1. ASSUME NEW t \in Scopes, h_'[t] # None
        PROVE  t \in LiveScopes' /\ h_'[t] \in Live' \ self'
    BY <1>0, <1>2, <1>3, <1>4, <1>8, <2>1 DEF LiveScopes, IInv, Owners
  <2>2. \A t, u \in Scopes : h_'[t] # None /\ h_'[t] = h_'[u] => t = u
    BY <1>2, <1>3, <1>4 DEF IInv, Owners
  <2>3. ASSUME NEW f \in Live' \ self'
        PROVE  \E t \in Scopes : h_'[t] = f
    <3>1. CASE f = g
      BY <1>2, <1>4, <3>1
    <3>2. CASE f # g
      <4>1. PICK t \in Scopes : h_[t] = f
        BY <1>0, <1>8, <2>3, <3>2 DEF IInv, Owners
      <4>2. t \notin {s, n}
        BY <1>2, <1>3, <1>8, <2>3, <3>2, <4>1, Distinct DEF Live
      <4>3. QED
        BY <1>4, <4>1, <4>2
    <3>3. QED
      BY <3>1, <3>2
  <2>4. QED
    BY <2>1, <2>2, <2>3 DEF Owners
<1>10. Acyclic'
  <2> DEFINE k == [x \in Frames |-> IF x = s THEN n ELSE IF x = n THEN h_[s] ELSE h_[x]]
  <2>1. \A x \in Frames : k[x] = (IF x = s THEN n ELSE IF x = n THEN h_[s] ELSE h_[x])
    OBVIOUS
  <2>2. \A x \in Frames : h_'[x] = k[x] \/ h_'[x] = None
    BY <1>3, <1>4, Distinct
  <2> HIDE DEF k
  <2>3. AcyclicIn(k)
    BY <1>2, <1>3, <2>1, EdgeThroughNew, Distinct DEF IInv, Acyclic
  <2>4. QED
    BY <2>2, <2>3, FewerEdges DEF Acyclic
<1>11. Loop'
  <2>1. running # n /\ n \notin cut /\ (\A f \in cut : f \in Frames) /\ (\A f \in self : f \in Frames)
    BY <1>2 DEF IInv, Loop, Types
  <2>2. ASSUME NEW f \in Frames
        PROVE  f > created' <=> frame'[f] = "none"
    BY <1>0, <1>2, <1>5 DEF IInv, Loop
  <2>3. main \in {"setup", "run"}
    BY <1>0, ActiveScope, Distinct
  <2>4. QED
    BY <1>0, <1>2, <1>5, <2>1, <2>2, <2>3 DEF IInv, Loop
<1>12. Nesting'
  <2> SUFFICES ASSUME NEW f \in Frames
               PROVE  Nested(f)'
    BY DEF Nesting
  <2>1. Nested(f) /\ f \in Scopes /\ (h_[f] # None => h_[f] \in Frames)
    BY Distinct DEF IInv, Nesting, Types
  <2>2. CASE f = n
    BY <1>0, <1>2, <1>3, <1>4, <1>5, <2>2 DEF Nested
  <2>3. CASE f = s
    BY <1>0, <1>3, <1>4, <1>5, <2>1, <2>3 DEF Nested
  <2>4. CASE f \notin {s, n}
    <3>1. /\ h_'[f] = h_[f] /\ frame'[f] = frame[f]
          /\ (h_[f] # None => frame'[h_[f]] = frame[h_[f]])
      BY <1>2, <1>4, <1>5, <2>1, <2>4
    <3>2. QED
      BY <1>0, <2>1, <3>1 DEF Nested
  <2>5. QED
    BY <2>2, <2>3, <2>4
<1>13. OnePlace'
  <2> SUFFICES ASSUME NEW f \in Frames
               PROVE  Placed(f)'
    BY <1>6 DEF OnePlace
  <2>1. Placed(f)
    BY DEF IInv, OnePlace
  <2>2. \A c \in Frames : Awaits(f, c)' <=> Awaits(f, c)
    BY <1>0, <1>2, <1>5, <1>8, Distinct DEF Awaits
  <2>3. main \in {"setup", "run"}
    BY <1>0, ActiveScope, Distinct
  <2>4. CASE f = n
    BY <1>0, <1>2, <1>5, <1>6, <2>1, <2>2, <2>3, <2>4 DEF Placed
  <2>5. CASE f # n
    <3>1. frame'[f] = frame[f]
      BY <1>5, <2>5
    <3>2. Queued(f) /\ h_[Main] = f => h_'[Main] = f
      BY <1>2, <1>3, <1>4, Distinct
    <3>3. ASSUME NEW c \in Frames, Awaits(f, c)
          PROVE  h_'[f] = c
      <4>1. h_[f] = c /\ frame[f] = "suspended"
        BY <2>1, <3>3 DEF Placed
      <4>2. QED
        BY <1>3, <1>4, <2>5, <4>1, Distinct
    <3>4. QED
      BY <1>0, <1>6, <2>1, <2>2, <2>5, <3>1, <3>2, <3>3 DEF Placed
  <2>6. QED
    BY <2>4, <2>5
<1>14. QED
  BY <1>7, <1>9, <1>10, <1>11, <1>12, <1>13 DEF IInv

-------------------------------------------------------------------------------
(* The theorems.                                                           *)

\* Every step keeps the invariant.
LEMMA StepIInv ==
  ASSUME IInv, [Next]_vars
  PROVE  IInv'
<1>1. CASE UNCHANGED vars
  <2>1. Types' /\ Owners' /\ Acyclic' /\ Loop' /\ Nesting'
    BY <1>1 DEF IInv, Types, Owners, Acyclic, AcyclicIn, Loop, Nesting, Nested, Live, LiveScopes, vars
  <2>2. OnePlace'
    BY <1>1 DEF IInv, OnePlace, Placed, Queued, Awaits, Live, vars
  <2>3. QED
    BY <2>1, <2>2 DEF IInv
<1>2. ASSUME NEW s \in Scopes,
             Create(s) \/ CreateAround(s) \/ Drop(s) \/ Start(s) \/ Spawn(s)
      PROVE  IInv'
  BY <1>2, CreateStep, CreateAroundStep, DropStep, StartStep, SpawnStep
<1>3. CASE PostHandle \/ Run \/ Stop \/ Resume \/ Return \/ EndMain
  BY <1>3, PostHandleStep, MainStep, ResumeStep, EndMainStep
<1>4. ASSUME NEW f \in Frames, Body(f) \/ Wake(f)
      PROVE  IInv'
  BY <1>4, AwaitStep, WaitStep, FinishStep, WakeStep DEF Body
<1>5. QED
  BY <1>1, <1>2, <1>3, <1>4 DEF Next

\* It holds before the first task is made.
LEMMA InitIInv ==
  ASSUME Init
  PROVE  IInv
<1>1. Live = {} /\ \A f : ~Queued(f)
  BY DEF Init, Live, Queued, Holds
<1>2. Types
  BY TaskAssumption DEF Init, Types, FrameStates
<1>3. Owners /\ Nesting
  BY <1>1, Distinct DEF Init, Owners, Nesting, Nested
<1>4. Acyclic
  BY Distinct DEF Init, Acyclic, AcyclicIn
<1>5. Loop
  BY Distinct DEF Init, Loop, Frames
<1>6. OnePlace
  BY <1>1 DEF Init, OnePlace, Placed, Awaits, Once
<1>7. QED
  BY <1>2, <1>3, <1>4, <1>5, <1>6 DEF IInv

\* So it always holds.
LEMMA Inductive == Spec => []IInv
<1>1. Init => IInv
  BY InitIInv
<1>2. IInv /\ [Next]_vars => IInv'
  BY StepIInv
<1>3. QED
  BY <1>1, <1>2, PTL DEF Spec

\* Whatever coroutines are created, moved, nested, started, spawned, awaited,
\* dropped or cut off, each live frame has exactly one party that destroys it.
THEOREM OneOwnerTheorem == Spec => []OneOwner
<1>1. ASSUME IInv
      PROVE  OneOwner
  <2> SUFFICES ASSUME NEW f \in Live
               PROVE  \E d \in Destroyers(f) : Destroyers(f) = {d}
    BY DEF OneOwner
  <2>1. f # None /\ LiveScopes \subseteq Scopes
    BY Distinct DEF Live, LiveScopes, Scopes
  <2>2. CASE f \in self
    <3>1. \A s \in LiveScopes : h_[s] # f
      BY <1>1, <2>1, <2>2 DEF IInv, Owners
    <3>2. Destroyers(f) = {<<"self", f>>}
      BY <2>2, <3>1 DEF Destroyers
    <3>3. QED
      BY <3>2
  <2>3. CASE f \notin self
    <3>1. PICK s \in Scopes : h_[s] = f
      BY <1>1, <2>3 DEF IInv, Owners
    <3>2. s \in LiveScopes /\ \A t \in LiveScopes : h_[t] = f => t = s
      BY <1>1, <2>1, <3>1 DEF IInv, Owners
    <3>3. Destroyers(f) = {<<"object", s>>}
      BY <2>3, <3>1, <3>2 DEF Destroyers
    <3>4. QED
      BY <3>3
  <2>4. QED
    BY <2>2, <2>3
<1>2. QED
  BY <1>1, Inductive, PTL

\* A suspended frame is resumed from exactly one place, a lazy one from at most
\* one, and no handle is left of a frame that runs, has ended or is destroyed,
\* unless main() cut it off.
THEOREM OneResumerTheorem == Spec => []OneResumer
<1>1. ASSUME IInv
      PROVE  OneResumer
  <2> SUFFICES ASSUME NEW f \in Frames, f \notin cut
               PROVE  /\ frame[f] = "suspended" => Resumers(f) # {}
                      /\ frame[f] \notin {"suspended", "lazy"} => Resumers(f) = {}
                      /\ \A r, q \in Resumers(f) : r = q
    BY DEF OneResumer
  <2> DEFINE K == {i \in DOMAIN handle_q_ : handle_q_[i] = f}
             C == {c \in Live : frame[c] # "final" /\ continuation[c] = f}
             A == \E c \in Frames : Awaits(f, c)
  <2>1. Placed(f) /\ Once(handle_q_) /\ DOMAIN handle_q_ = 1..Len(handle_q_)
    BY <1>1 DEF IInv, OnePlace, Types
  <2>2. (K # {} <=> Queued(f)) /\ \A i, j \in K : i = j
    BY <2>1 DEF Queued, Holds, Once
  <2>3. \A c : c \in C <=> c \in Frames /\ Awaits(f, c)
    BY DEF Awaits, Live
  <2>4. (C # {} <=> A) /\ \A c, d \in C : c = d
    BY <2>1, <2>3 DEF Placed
  <2>5. ~(Queued(f) /\ f \in outside) /\ ~(Queued(f) /\ A) /\ ~(f \in outside /\ A)
    BY <2>1 DEF Placed
  <2>6. Resumers(f) = {<<"queue", i>> : i \in K} \cup {<<"service", g>> : g \in outside \cap {f}}
                      \cup {<<"task", c>> : c \in C}
    BY DEF Resumers
  <2>7. /\ frame[f] = "suspended" => Queued(f) \/ f \in outside \/ A
        /\ frame[f] \notin {"suspended", "lazy"} => ~Queued(f) /\ f \notin outside /\ ~A
    BY <2>1 DEF Placed
  <2> HIDE DEF K, C, A
  <2>8. \A r, q \in Resumers(f) : r = q
    BY <2>2, <2>4, <2>5, <2>6
  <2>9. Resumers(f) # {} <=> Queued(f) \/ f \in outside \/ A
    BY <2>2, <2>4, <2>6
  <2>10. QED
    BY <2>7, <2>8, <2>9
<1>2. QED
  BY <1>1, Inductive, PTL

\* When main() is over and neither a service nor the queue holds a handle, no
\* frame is left: what is suspended awaits a suspended frame without end, what is
\* lazy is owned by a lazy frame without end, and ownership has no cycle.
THEOREM NoLeakTheorem == Spec => []NoLeak
<1>1. ASSUME IInv
      PROVE  NoLeak
  <2> SUFFICES ASSUME main = "over", outside = {}, handle_q_ = <<>>
               PROVE  Live = {}
    BY DEF NoLeak
  <2> DEFINE D == {f \in Frames : frame[f] = "suspended"}
             L == {f \in Frames : frame[f] = "lazy"}
  <2>1. h_[Main] = None /\ \A f \in Frames : frame[f] # "running"
    BY <1>1, Distinct DEF IInv, Loop
  <2>2. \A f : ~Queued(f)
    BY DEF Queued, Holds
  <2>3. \A f \in D : h_[f] \in D
    <3> SUFFICES ASSUME NEW f \in D
                 PROVE  h_[f] \in D
      OBVIOUS
    <3>1. PICK c \in Frames : Awaits(f, c)
      BY <1>1, <2>2 DEF IInv, OnePlace, Placed
    <3>2. h_[f] = c /\ frame[c] \notin {"none", "freed", "final", "running"}
      BY <1>1, <2>1, <3>1 DEF IInv, OnePlace, Placed, Awaits, Live
    <3>3. frame[c] # "lazy"
      BY <1>1, <3>1, Distinct DEF IInv, Nesting, Nested, Awaits
    <3>4. QED
      BY <1>1, <3>2, <3>3 DEF IInv, Types, FrameStates
  <2>4. D = {}
    <3>1. D \in SUBSET Frames
      OBVIOUS
    <3>2. QED
      BY <1>1, <2>3, <3>1 DEF IInv, Acyclic, AcyclicIn
  <2>5. ASSUME NEW f \in Live
        PROVE  \E s \in L : h_[s] = f
    <3>1. f \in Frames /\ frame[f] \in {"lazy", "final"}
      BY <1>1, <2>1, <2>4 DEF Live, IInv, Types, FrameStates
    <3>2. f \notin self
      BY <1>1, <2>2, <3>1 DEF IInv, Loop, OnePlace, Placed
    <3>3. PICK s \in Scopes : h_[s] = f
      BY <1>1, <3>2 DEF IInv, Owners
    <3>4. s \in Frames /\ s \in Live
      BY <1>1, <2>1, <3>1, <3>3, Distinct DEF IInv, Owners, LiveScopes, Scopes
    <3>5. frame[s] # "final"
      BY <1>1, <3>1, <3>3, <3>4, Distinct DEF IInv, Nesting, Nested
    <3>6. frame[s] = "lazy"
      BY <1>1, <2>1, <2>4, <3>4, <3>5 DEF Live, IInv, Types, FrameStates
    <3>7. QED
      BY <3>3, <3>4, <3>6
  <2>6. L = {}
    <3>1. L \in SUBSET Frames /\ L \subseteq Live
      BY DEF Live
    <3>2. \A f \in L : \E s \in L : h_[s] = f
      BY <2>5, <3>1
    <3>3. QED
      BY <1>1, <3>1, <3>2 DEF IInv, Acyclic, AcyclicIn
  <2>7. QED
    BY <2>5, <2>6
<1>2. QED
  BY <1>1, Inductive, PTL
===============================================================================
