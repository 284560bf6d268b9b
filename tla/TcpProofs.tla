------------------------------ MODULE TcpProofs ------------------------------
(***************************************************************************)
(* Theorems about Tcp and the bridge under it, for any number of           *)
(* coroutines, calls, listens and cancellations.                           *)
(***************************************************************************)
EXTENDS Tcp, FiniteSetTheorems, SequenceTheorems, TLAPS

\* A completion handler in the network thread's queue.
Handler == [co : Coros \cup {None}, ec : Outcomes]

\* The types the proofs need.
Types ==
  /\ handle_q_ \in Seq(Coros) /\ ready \in Seq(Handler)
  /\ net \in [at : NetStates, co : Coros \cup {None}]
  /\ net.at = "post" => net.co \in Coros
  /\ co \in [Coros -> {"loop", "net", "suspended", "done"}]
  /\ op \in [Coros -> Ops \cup {None}]
  /\ res \in [Coros -> Results] /\ got \in [Coros -> Gets]

\* c is in a queue of handlers, and no coroutine is in it twice.
Has(s, c) == \E i \in DOMAIN s : s[i].co = c
HandlersOnce(s) ==
  \A i, j \in DOMAIN s : s[i].co = s[j].co /\ s[i].co # None => i = j

\* The network thread is between its look at the stop flag and the post of c.
InPost(c) == net.at = "post" /\ net.co = c

\* OneResumption without counting: no queue holds a coroutine twice, and a
\* coroutine that is in one of the four places is in no other and is suspended.
OnePlace ==
  /\ IsInjective(handle_q_) /\ HandlersOnce(ready)
  /\ \A c \in Coros :
       /\ co[c] = "suspended" <=>
            op[c] # None \/ Has(ready, c) \/ InPost(c) \/ Contains(handle_q_, c)
       /\ op[c] # None => ~Has(ready, c) /\ ~InPost(c) /\ ~Contains(handle_q_, c)
       /\ Has(ready, c) => ~InPost(c) /\ ~Contains(handle_q_, c)
       /\ InPost(c) => ~Contains(handle_q_, c)

\* The coroutine that runs on the network thread is the one that thread resumed.
OnNet == \A c \in Coros : co[c] = "net" => net.at = "user" /\ net.co = c

\* An awaitable without a result belongs to a call that is cancelled or whose
\* handler is still to come; a running coroutine has none.
Stored ==
  \A c \in Coros :
    /\ Running(c) => res[c] = "none"
    /\ res[c] = "empty" => c \in cancelled \/ op[c] # None \/ Has(ready, c)
    /\ got[c] # "undefined"

IInv == Types /\ OnePlace /\ OnNet /\ Stored

-------------------------------------------------------------------------------
(* Queues.                                                                 *)

\* A set as a sequence has every element once.
LEMMA SetToSeqOnce ==
  ASSUME NEW S, IsFiniteSet(S)
  PROVE  /\ SetToSeq(S) \in Seq(S) /\ IsInjective(SetToSeq(S))
         /\ \A x \in S : \E i \in DOMAIN SetToSeq(S) : SetToSeq(S)[i] = x
<1> DEFINE n == Cardinality(S)
           s == SetToSeq(S)
<1>1. n \in Nat /\ ExistsBijection(1..n, S)
  BY FS_CardinalityType
<1>2. \E f \in [1..n -> S] : IsInjective(f)
  BY <1>1 DEF ExistsBijection, Bijection, Injection
<1>3. s \in [1..n -> S] /\ IsInjective(s)
  BY <1>2 DEF SetToSeq
<1>4. s \in Injection(1..n, S)
  BY <1>3 DEF Injection
<1>5. Cardinality(1..n) = n
  BY <1>1, FS_Interval
<1>6. s \in Surjection(1..n, S)
  BY <1>4, <1>5, FS_Injection
<1>7. s \in Seq(S)
  BY <1>1, <1>3
<1>8. QED
  BY <1>3, <1>6, <1>7 DEF Surjection

\* Popping and pushing the handle queue.
LEMMA HandleQueue ==
  ASSUME NEW q \in Seq(Coros), NEW x \in Coros, IsInjective(q)
  PROVE  /\ q # <<>> => /\ Tail(q) \in Seq(Coros) /\ IsInjective(Tail(q))
                        /\ Head(q) \in Coros /\ Contains(q, Head(q))
                        /\ \A c : Contains(Tail(q), c) <=> Contains(q, c) /\ c # Head(q)
         /\ Append(q, x) \in Seq(Coros)
         /\ ~Contains(q, x) => IsInjective(Append(q, x))
         /\ \A c : Contains(Append(q, x), c) <=> Contains(q, c) \/ c = x
<1>1. ASSUME q # <<>>
      PROVE  /\ Tail(q) \in Seq(Coros) /\ IsInjective(Tail(q))
             /\ Head(q) \in Coros /\ Contains(q, Head(q))
             /\ \A c : Contains(Tail(q), c) <=> Contains(q, c) /\ c # Head(q)
  <2>1. /\ Tail(q) \in Seq(Coros) /\ Len(q) \in Nat \ {0} /\ Len(Tail(q)) = Len(q) - 1
        /\ Head(q) = q[1] /\ \A k \in 1..Len(Tail(q)) : Tail(q)[k] = q[k + 1]
        /\ Head(q) \in Coros
    BY <1>1
  <2>2. IsInjective(Tail(q)) /\ Contains(q, Head(q))
    BY <2>1 DEF IsInjective, Contains
  <2>3. ASSUME NEW c, Contains(Tail(q), c)
        PROVE  Contains(q, c) /\ c # Head(q)
    BY <2>1, <2>3 DEF Contains, IsInjective
  <2>4. ASSUME NEW c, Contains(q, c), c # Head(q)
        PROVE  Contains(Tail(q), c)
    <3>1. PICK k \in 1..Len(q) : q[k] = c
      BY <2>4 DEF Contains
    <3>2. k # 1 /\ k - 1 \in 1..Len(Tail(q))
      BY <2>1, <2>4, <3>1
    <3>3. Tail(q)[k - 1] = c
      BY <2>1, <3>1, <3>2
    <3>4. QED
      BY <3>2, <3>3 DEF Contains
  <2>5. QED
    BY <2>1, <2>2, <2>3, <2>4
<1>2. /\ Len(q) \in Nat /\ Len(Append(q, x)) = Len(q) + 1 /\ Append(q, x)[Len(q) + 1] = x
      /\ \A k \in 1..Len(q) : Append(q, x)[k] = q[k]
      /\ Append(q, x) \in Seq(Coros)
  OBVIOUS
<1>3. ASSUME ~Contains(q, x)
      PROVE  IsInjective(Append(q, x))
  BY <1>2, <1>3 DEF Contains, IsInjective
<1>4. ASSUME NEW c
      PROVE  Contains(Append(q, x), c) <=> Contains(q, c) \/ c = x
  BY <1>2 DEF Contains
<1>5. QED
  BY <1>1, <1>2, <1>3, <1>4

\* Popping the queue of handlers.
LEMMA PopHandler ==
  ASSUME NEW s \in Seq(Handler), s # <<>>, HandlersOnce(s)
  PROVE  /\ Tail(s) \in Seq(Handler) /\ HandlersOnce(Tail(s))
         /\ Head(s) \in Handler /\ Has(s, Head(s).co)
         /\ \A c \in Coros : Has(Tail(s), c) <=> Has(s, c) /\ c # Head(s).co
         /\ Has(s, None) => Has(Tail(s), None) \/ Head(s).co = None
<1>1. /\ Tail(s) \in Seq(Handler) /\ Len(s) \in Nat \ {0} /\ Len(Tail(s)) = Len(s) - 1
      /\ DOMAIN s = 1..Len(s) /\ DOMAIN Tail(s) = 1..Len(s) - 1
      /\ Head(s) = s[1] /\ \A k \in 1..Len(s) - 1 : Tail(s)[k] = s[k + 1]
      /\ Head(s) \in Handler
  BY HeadTailProperties, LenProperties, EmptySeq
<1>2. HandlersOnce(Tail(s)) /\ Has(s, Head(s).co)
  BY <1>1 DEF HandlersOnce, Has
<1>3. ASSUME NEW c \in Coros, Has(Tail(s), c)
      PROVE  Has(s, c) /\ c # Head(s).co
  BY <1>1, <1>3, AsioAssumption DEF Has, HandlersOnce
<1>4. ASSUME NEW c, Has(s, c), c # Head(s).co
      PROVE  Has(Tail(s), c)
  <2>1. PICK k \in DOMAIN s : s[k].co = c
    BY <1>4 DEF Has
  <2>2. k - 1 \in DOMAIN Tail(s) /\ Tail(s)[k - 1] = s[k]
    BY <1>1, <1>4, <2>1
  <2>3. QED
    BY <2>1, <2>2 DEF Has
<1>5. QED
  BY <1>1, <1>2, <1>3, <1>4

\* Handlers of the coroutines in t are queued behind those in s.
LEMMA PushHandlers ==
  ASSUME NEW s \in Seq(Handler), NEW t \in Seq(Handler), HandlersOnce(s), HandlersOnce(t),
         \A c \in Coros : ~(Has(s, c) /\ Has(t, c))
  PROVE  /\ s \o t \in Seq(Handler) /\ HandlersOnce(s \o t)
         /\ \A c : Has(s \o t, c) <=> Has(s, c) \/ Has(t, c)
<1>1. /\ s \o t \in Seq(Handler) /\ DOMAIN s = 1..Len(s) /\ DOMAIN t = 1..Len(t)
      /\ DOMAIN (s \o t) = 1..Len(s) + Len(t) /\ Len(s) \in Nat /\ Len(t) \in Nat
      /\ \A i \in 1..Len(s) + Len(t) :
           (s \o t)[i] = IF i <= Len(s) THEN s[i] ELSE t[i - Len(s)]
  BY ConcatProperties, LenProperties
<1>2. ASSUME NEW c
      PROVE  Has(s \o t, c) <=> Has(s, c) \/ Has(t, c)
  <2>1. Has(s \o t, c) => Has(s, c) \/ Has(t, c)
    BY <1>1 DEF Has
  <2>2. Has(s, c) => Has(s \o t, c)
    BY <1>1 DEF Has
  <2>3. ASSUME NEW k \in DOMAIN t, t[k].co = c
        PROVE  Has(s \o t, c)
    <3>1. Len(s) + k \in DOMAIN (s \o t) /\ (s \o t)[Len(s) + k] = t[k]
      BY <1>1
    <3>2. QED
      BY <2>3, <3>1 DEF Has
  <2>4. QED
    BY <2>1, <2>2, <2>3 DEF Has
<1>3. HandlersOnce(s \o t)
  <2> SUFFICES ASSUME NEW i \in DOMAIN (s \o t), NEW j \in DOMAIN (s \o t),
                      (s \o t)[i].co = (s \o t)[j].co, (s \o t)[i].co # None, i <= j
               PROVE  i = j
    BY <1>1 DEF HandlersOnce
  <2>1. (s \o t)[i].co \in Coros
    <3>1. (s \o t)[i] \in Handler
      BY <1>1
    <3>2. QED
      BY <3>1 DEF Handler
  <2>2. CASE j <= Len(s)
    BY <1>1, <2>2 DEF HandlersOnce
  <2>3. CASE i > Len(s)
    BY <1>1, <2>3 DEF HandlersOnce
  <2>4. CASE i <= Len(s) /\ j > Len(s)
    <3>1. (s \o t)[i] = s[i] /\ i \in DOMAIN s
      BY <1>1, <2>4
    <3>2. (s \o t)[j] = t[j - Len(s)] /\ j - Len(s) \in DOMAIN t
      BY <1>1, <2>4
    <3>3. Has(s, (s \o t)[i].co) /\ Has(t, (s \o t)[i].co)
      BY <3>1, <3>2 DEF Has
    <3>4. QED
      BY <2>1, <3>3
  <2>5. QED
    BY <1>1, <2>2, <2>3, <2>4
<1>4. QED
  BY <1>1, <1>2, <1>3

\* One handler, or one posted function, as a queue.
LEMMA OneHandler ==
  ASSUME NEW x \in Coros \cup {None}, NEW e \in Outcomes
  PROVE  /\ <<[co |-> x, ec |-> e]>> \in Seq(Handler) /\ HandlersOnce(<<[co |-> x, ec |-> e]>>)
         /\ \A c : Has(<<[co |-> x, ec |-> e]>>, c) <=> c = x
<1>1. [co |-> x, ec |-> e] \in Handler
  BY DEF Handler
<1>2. QED
  BY <1>1 DEF HandlersOnce, Has

\* cancel() queues one handler for each coroutine whose operation it ends.
LEMMA HandlersOf ==
  ASSUME NEW C \in SUBSET Coros, NEW e \in Outcomes
  PROVE  /\ Handlers(C, e) \in Seq(Handler) /\ HandlersOnce(Handlers(C, e))
         /\ \A c \in Coros : Has(Handlers(C, e), c) <=> c \in C
<1> DEFINE s == SetToSeq(C)
           h == [i \in 1..Len(s) |-> [co |-> s[i], ec |-> e]]
<1>1. /\ s \in Seq(C) /\ IsInjective(s)
      /\ \A x \in C : \E i \in DOMAIN s : s[i] = x
  <2>1. IsFiniteSet(C)
    BY AsioAssumption, FS_Subset
  <2>2. QED
    BY <2>1, SetToSeqOnce
<1>2. Len(s) \in Nat /\ DOMAIN s = 1..Len(s) /\ \A i \in 1..Len(s) : s[i] \in C
  BY <1>1, LenProperties, ElementOfSeq
<1>3. Handlers(C, e) = h
  BY DEF Handlers
<1> HIDE DEF s
<1>4. h \in Seq(Handler)
  <2>1. \A i \in 1..Len(s) : [co |-> s[i], ec |-> e] \in Handler
    BY <1>2 DEF Handler
  <2>2. QED
    BY <1>2, <2>1
<1>5. HandlersOnce(h) /\ \A c \in Coros : Has(h, c) <=> c \in C
  <2>1. DOMAIN h = 1..Len(s) /\ \A i \in 1..Len(s) : h[i].co = s[i]
    OBVIOUS
  <2> HIDE DEF h
  <2>2. HandlersOnce(h)
    BY <1>1, <1>2, <2>1 DEF HandlersOnce, IsInjective
  <2>3. QED
    BY <1>1, <1>2, <2>1, <2>2 DEF Has
<1>6. QED
  BY <1>3, <1>4, <1>5

-------------------------------------------------------------------------------
(* The steps of the bridge.                                                *)

\* Operations of the coroutines in C end, their handlers s are queued behind q,
\* and nothing else of the bridge changes.
LEMMA OperationsEnd ==
  ASSUME IInv, NEW C \in SUBSET Coros, \A c \in C : op[c] # None,
         NEW s \in Seq(Handler), HandlersOnce(s), \A c \in Coros : Has(s, c) <=> c \in C,
         NEW q \in Seq(Handler), HandlersOnce(q), \A c \in Coros : Has(q, c) <=> Has(ready, c),
         ready' = q \o s, op' = [c \in Coros |-> IF c \in C THEN None ELSE op[c]],
         UNCHANGED <<handle_q_, net, co, res, got, cancelled>>
  PROVE  IInv'
<1>1. \A c \in Coros : ~(Has(q, c) /\ Has(s, c))
  BY DEF IInv, OnePlace
<1>2. /\ ready' \in Seq(Handler) /\ HandlersOnce(ready')
      /\ \A c \in Coros : Has(ready', c) <=> Has(ready, c) \/ c \in C
  BY <1>1, PushHandlers
<1>3. \A c \in Coros : op'[c] # None <=> op[c] # None /\ c \notin C
  OBVIOUS
<1>4. op' \in [Coros -> Ops \cup {None}]
  BY DEF IInv, Types
<1>5. Types'
  BY <1>2, <1>4 DEF IInv, Types
<1>6. OnePlace'
  BY <1>2, <1>3 DEF IInv, OnePlace, InPost
<1>7. OnNet' /\ Stored'
  BY <1>2, <1>3 DEF IInv, OnNet, Stored, Running
<1>8. QED
  BY <1>5, <1>6, <1>7 DEF IInv

\* await_resume() dereferences an empty result only without a cancelled token.
LEMMA ResumeValue ==
  ASSUME NEW c \in Coros, NEW r \in Results, r = "empty" => c \in cancelled
  PROVE  AwaitResume(c, r) \in Gets \ {"undefined"}
  BY DEF AwaitResume, Results, Gets

\* The thread that c runs on forgets it.
LEMMA LeaveKeeps ==
  ASSUME Types, OnNet, NEW c \in Coros, Leave(c), NEW x \in {"suspended", "done"},
         co' = [co EXCEPT ![c] = x]
  PROVE  /\ net' \in [at : NetStates, co : Coros \cup {None}]
         /\ net'.at = "post" => net'.co \in Coros
         /\ \A d \in Coros : InPost(d)' <=> InPost(d)
         /\ OnNet'
<1>0. co \in [Coros -> {"loop", "net", "suspended", "done"}]
  BY DEF Types
<1>1. CASE co[c] = "net"
  <2>1. net' = Idle /\ net.at = "user" /\ net.co = c
    BY <1>1 DEF Leave, OnNet
  <2>2. Idle \in [at : NetStates, co : Coros \cup {None}] /\ Idle.at = "idle"
    BY DEF Idle, NetStates
  <2>3. QED
    BY <1>0, <2>1, <2>2 DEF InPost, OnNet
<1>2. CASE co[c] # "net"
  <2>1. net' = net
    BY <1>2 DEF Leave
  <2>2. QED
    BY <1>0, <2>1 DEF Types, InPost, OnNet
<1>3. QED
  BY <1>1, <1>2

\* co_await asio_awaitable{...} in any of its three outcomes.
LEMMA AwaitKeeps ==
  ASSUME IInv, NEW c \in Coros, NEW o \in Ops, Await(c, o)
  PROVE  IInv'
<1> USE AsioAssumption, TcpAssumption
<1>0. /\ Types /\ OnePlace /\ OnNet /\ Stored
      /\ co \in [Coros -> {"loop", "net", "suspended", "done"}]
  BY DEF IInv, Types
<1>1. /\ Running(c) /\ co[c] # "suspended" /\ res[c] = "none"
      /\ op[c] = None /\ ~Has(ready, c) /\ ~InPost(c) /\ ~Contains(handle_q_, c)
  BY <1>0 DEF Await, AwaitCancelled, AwaitThrows, AwaitStarts, Running, OnePlace, Stored
<1>2. ASSUME Leave(c), co' = [co EXCEPT ![c] = "suspended"]
      PROVE  /\ net' \in [at : NetStates, co : Coros \cup {None}]
             /\ net'.at = "post" => net'.co \in Coros
             /\ \A d \in Coros : InPost(d)' <=> InPost(d)
             /\ OnNet'
  BY <1>0, <1>2, LeaveKeeps
<1>3. ASSUME NEW r \in {"empty", "ex"}, r = "empty" => c \in cancelled, ResumeOnCtx(c, r),
             UNCHANGED <<ready, op, cancelled>>
      PROVE  IInv'
  <2>1. CASE stop_requested_
    <3>1. got' = [got EXCEPT ![c] = AwaitResume(c, r)] /\ UNCHANGED <<handle_q_, co, net, res>>
      BY <1>3, <2>1 DEF ResumeOnCtx
    <3>2. AwaitResume(c, r) \in Gets \ {"undefined"}
      BY <1>3, ResumeValue DEF Results
    <3>3. got' \in [Coros -> Gets] /\ \A d \in Coros : got'[d] # "undefined"
      BY <1>0, <3>1, <3>2 DEF Types, Stored
    <3>4. Types' /\ OnePlace' /\ OnNet'
      BY <1>0, <1>3, <3>1, <3>3 DEF Types, OnePlace, OnNet, InPost
    <3>5. Stored'
      BY <1>0, <1>3, <3>1, <3>3 DEF Stored, Running
    <3>6. QED
      BY <3>4, <3>5 DEF IInv
  <2>2. CASE ~stop_requested_
    <3>1. /\ handle_q_' = Append(handle_q_, c) /\ co' = [co EXCEPT ![c] = "suspended"]
          /\ res' = [res EXCEPT ![c] = r] /\ Leave(c) /\ got' = got
      BY <1>3, <2>2 DEF ResumeOnCtx
    <3>2. /\ handle_q_' \in Seq(Coros) /\ IsInjective(handle_q_')
          /\ \A d : Contains(handle_q_', d) <=> Contains(handle_q_, d) \/ d = c
      BY <1>0, <1>1, <3>1, HandleQueue DEF Types, OnePlace
    <3>3. Types'
      BY <1>0, <1>2, <1>3, <3>1, <3>2 DEF Types, Results
    <3>4. OnePlace'
      BY <1>0, <1>1, <1>2, <1>3, <3>1, <3>2 DEF OnePlace
    <3>5. Stored'
      BY <1>0, <1>1, <1>3, <3>1 DEF Types, Stored, Running
    <3>6. QED
      BY <1>2, <3>1, <3>3, <3>4, <3>5 DEF IInv
  <2>3. QED
    BY <2>1, <2>2
<1>4. CASE AwaitStarts(c, o)
  <2>1. /\ co' = [co EXCEPT ![c] = "suspended"] /\ res' = [res EXCEPT ![c] = "empty"]
        /\ op' = [op EXCEPT ![c] = o] /\ Leave(c) /\ o # None
        /\ UNCHANGED <<handle_q_, ready, got, cancelled>>
    BY <1>4 DEF AwaitStarts
  <2>2. Types'
    BY <1>0, <1>2, <2>1 DEF Types, Results
  <2>3. OnePlace'
    BY <1>0, <1>1, <1>2, <2>1 DEF OnePlace, Types
  <2>4. Stored'
    BY <1>0, <1>1, <2>1 DEF Types, Stored, Running
  <2>5. QED
    BY <1>2, <2>1, <2>2, <2>3, <2>4 DEF IInv
<1>5. QED
  BY <1>3, <1>4 DEF Await, AwaitCancelled, AwaitThrows

\* The network thread runs a handler: it resumes the coroutine or goes on to post it.
LEMMA CompleteKeeps ==
  ASSUME IInv, Complete
  PROVE  IInv'
<1> USE AsioAssumption, TcpAssumption
<1> DEFINE c == Head(ready).co
           e == Head(ready).ec
<1>0. /\ Types /\ OnePlace /\ OnNet /\ Stored /\ ready # <<>> /\ net.at = "idle"
      /\ UNCHANGED <<handle_q_, op, cancelled>>
  BY DEF IInv, Complete
<1>1. /\ ready' = Tail(ready) /\ ready' \in Seq(Handler) /\ HandlersOnce(ready')
      /\ Has(ready, c) /\ \A d \in Coros : Has(ready', d) <=> Has(ready, d) /\ d # c
  BY <1>0, PopHandler DEF Complete, Types, OnePlace
<1>2. c \in Coros /\ e \in Outcomes
  <2>1. Head(ready) \in Handler /\ c # None
    BY <1>0, HeadTailProperties DEF Types, Complete
  <2>2. QED
    BY <2>1 DEF Handler
<1> HIDE DEF c, e
<1>3. /\ co[c] = "suspended" /\ op[c] = None /\ ~Contains(handle_q_, c)
      /\ \A d \in Coros : ~InPost(d) /\ co[d] # "net"
  BY <1>0, <1>1, <1>2 DEF OnePlace, InPost, OnNet
<1>4. CASE stop_requested_
  <2>1. /\ net' = [at |-> "user", co |-> c] /\ co' = [co EXCEPT ![c] = "net"]
        /\ got' = [got EXCEPT ![c] = AwaitResume(c, e)] /\ res' = [res EXCEPT ![c] = "none"]
    BY <1>4 DEF Complete, c, e
  <2>2. AwaitResume(c, e) \in Gets \ {"undefined"}
    BY <1>2, ResumeValue DEF Results, Outcomes
  <2>3. got' \in [Coros -> Gets] /\ \A d \in Coros : got'[d] # "undefined"
    BY <1>0, <1>2, <2>1, <2>2 DEF Types, Stored
  <2>4. net' \in [at : NetStates, co : Coros \cup {None}] /\ net'.at = "user" /\ net'.co = c
    BY <1>2, <2>1 DEF NetStates
  <2>5. Types'
    BY <1>0, <1>1, <2>1, <2>3, <2>4 DEF Types, Results
  <2>6. OnePlace'
    BY <1>0, <1>1, <1>2, <1>3, <2>1, <2>4 DEF OnePlace, InPost, Types
  <2>7. OnNet'
    BY <1>0, <1>2, <1>3, <2>1, <2>4 DEF OnNet, Types
  <2>8. Stored'
    BY <1>0, <1>1, <1>2, <2>1, <2>3 DEF Stored, Running, Types
  <2>9. QED
    BY <2>5, <2>6, <2>7, <2>8 DEF IInv
<1>5. CASE ~stop_requested_
  <2>1. /\ net' = [at |-> "post", co |-> c] /\ res' = [res EXCEPT ![c] = e]
        /\ UNCHANGED <<co, got>>
    BY <1>5 DEF Complete, c, e
  <2>2. net' \in [at : NetStates, co : Coros \cup {None}] /\ net'.at = "post" /\ net'.co = c
    BY <1>2, <2>1 DEF NetStates
  <2>3. Types'
    BY <1>0, <1>1, <1>2, <2>1, <2>2 DEF Types, Results, Outcomes
  <2>4. OnePlace'
    BY <1>0, <1>1, <1>2, <1>3, <2>1, <2>2 DEF OnePlace, InPost
  <2>5. OnNet'
    BY <1>3, <2>1 DEF OnNet
  <2>6. Stored'
    BY <1>0, <1>1, <1>2, <1>3, <2>1 DEF Stored, Running, Types, Outcomes
  <2>7. QED
    BY <2>3, <2>4, <2>5, <2>6 DEF IInv
<1>6. QED
  BY <1>4, <1>5

\* ctx->post() moves a coroutine from the network thread to the handle queue.
LEMMA PostKeeps ==
  ASSUME IInv, Post
  PROVE  IInv'
<1> USE AsioAssumption, TcpAssumption
<1>0. /\ Types /\ OnePlace /\ OnNet /\ Stored /\ net.at = "post" /\ net.co \in Coros
      /\ UNCHANGED <<ready, co, op, res, got, cancelled>>
  BY DEF IInv, Post, Types
<1>1. ~Contains(handle_q_, net.co) /\ \A d \in Coros : InPost(d) <=> d = net.co
  BY <1>0 DEF OnePlace, InPost
<1>2. /\ handle_q_' \in Seq(Coros) /\ IsInjective(handle_q_')
      /\ \A d : Contains(handle_q_', d) <=> Contains(handle_q_, d) \/ d = net.co
  BY <1>0, <1>1, HandleQueue DEF Types, OnePlace, Post
<1>3. /\ net' \in [at : NetStates, co : Coros \cup {None}] /\ net'.at = "idle"
      /\ \A d \in Coros : ~InPost(d)'
  BY DEF Post, Idle, NetStates, InPost
<1>4. Types'
  BY <1>0, <1>2, <1>3 DEF Types
<1>5. OnePlace'
  BY <1>0, <1>1, <1>2, <1>3 DEF OnePlace
<1>6. OnNet' /\ Stored'
  BY <1>0 DEF OnNet, Stored, Running
<1>7. QED
  BY <1>4, <1>5, <1>6 DEF IInv

\* The loop resumes the first coroutine of the handle queue.
LEMMA ResumeKeeps ==
  ASSUME IInv, Resume
  PROVE  IInv'
<1> USE AsioAssumption, TcpAssumption
<1> DEFINE c == Head(handle_q_)
<1>0. /\ Types /\ OnePlace /\ OnNet /\ Stored /\ handle_q_ # <<>>
      /\ UNCHANGED <<net, ready, op, cancelled>>
  BY DEF IInv, Resume
<1>1. /\ c \in Coros /\ Contains(handle_q_, c) /\ handle_q_' \in Seq(Coros)
      /\ IsInjective(handle_q_')
      /\ \A d : Contains(handle_q_', d) <=> Contains(handle_q_, d) /\ d # c
  <2>1. c \in Coros
    BY <1>0, HeadTailProperties DEF Types
  <2>2. QED
    BY <1>0, <2>1, HandleQueue DEF Types, OnePlace, Resume
<1>2. /\ co' = [co EXCEPT ![c] = "loop"] /\ res' = [res EXCEPT ![c] = "none"]
      /\ got' = [got EXCEPT ![c] = AwaitResume(c, res[c])]
  BY DEF Resume
<1> HIDE DEF c
<1>3. op[c] = None /\ ~Has(ready, c) /\ ~InPost(c) /\ co[c] = "suspended"
  BY <1>0, <1>1 DEF OnePlace
<1>4. AwaitResume(c, res[c]) \in Gets \ {"undefined"}
  <2>1. res[c] \in Results /\ (res[c] = "empty" => c \in cancelled)
    BY <1>0, <1>1, <1>3 DEF Types, Stored
  <2>2. QED
    BY <1>1, <2>1, ResumeValue
<1>5. got' \in [Coros -> Gets] /\ \A d \in Coros : got'[d] # "undefined"
  BY <1>0, <1>1, <1>2, <1>4 DEF Types, Stored
<1>6. Types'
  BY <1>0, <1>1, <1>2, <1>5 DEF Types, Results
<1>7. OnePlace'
  BY <1>0, <1>1, <1>2, <1>3 DEF OnePlace, InPost, Types
<1>8. OnNet' /\ Stored'
  BY <1>0, <1>1, <1>2, <1>5 DEF OnNet, Stored, Running, Types
<1>9. QED
  BY <1>6, <1>7, <1>8 DEF IInv

\* Every step of the listener, the streams, both threads and Asio keeps IInv.
LEMMA StepIInv ==
  ASSUME IInv, [Next]_vars
  PROVE  IInv'
<1> USE AsioAssumption, TcpAssumption
<1> DEFINE rest == <<handle_q_, net, co, res, got, cancelled>>
<1>1. ASSUME UNCHANGED <<rest, ready, op>>
      PROVE  IInv'
  BY <1>1 DEF IInv, Types, OnePlace, InPost, OnNet, Stored, Running
<1>2. ASSUME \/ \E a \in Coros \cup {Other} :
                  \/ ListenBind(a) \/ ListenThrows(a) \/ StoreOpen(a) \/ StoreClosing(a)
                  \/ CloseAgain(a) \/ CloseFlag(a) \/ ListenOpen(a) \/ AcceptTest(a)
             \/ Return \/ Stop \/ StopService \/ UNCHANGED vars
      PROVE  UNCHANGED <<rest, ready, op>>
  BY <1>2 DEF ListenBind, ListenThrows, StoreOpen, StoreClosing, CloseAgain, CloseFlag, ListenOpen,
     AcceptTest, Return, Stop, StopService, vars, bridge
\* Asio ends an operation of c, or a stream is closed.
<1>3. ASSUME NEW c \in Coros, NEW e \in Outcomes, op[c] # None, UNCHANGED rest,
             ready' = Append(ready, [co |-> c, ec |-> e]), op' = [op EXCEPT ![c] = None]
      PROVE  IInv'
  <2>1. ready \in Seq(Handler) /\ HandlersOnce(ready) /\ op \in [Coros -> Ops \cup {None}]
    BY DEF IInv, Types, OnePlace
  <2>2. [co |-> c, ec |-> e] \in Handler
    BY DEF Handler
  <2>3. ready' = ready \o <<[co |-> c, ec |-> e]>>
    BY <1>3, <2>1, <2>2, AppendIsConcat
  <2>4. op' = [d \in Coros |-> IF d \in {c} THEN None ELSE op[d]]
    BY <1>3, <2>1
  <2>5. /\ <<[co |-> c, ec |-> e]>> \in Seq(Handler) /\ HandlersOnce(<<[co |-> c, ec |-> e]>>)
        /\ \A d \in Coros : Has(<<[co |-> c, ec |-> e]>>, d) <=> d \in {c}
    BY OneHandler
  <2>6. QED
    BY <1>3, <2>1, <2>3, <2>4, <2>5, OperationsEnd
<1>4. ASSUME NEW c \in Coros, Succeeds(c) \/ Fails(c)
      PROVE  IInv'
  BY <1>3, <1>4 DEF Succeeds, Fails, Outcomes
<1>5. ASSUME NEW a, NEW c \in Coros, CloseStream(a, c)
      PROVE  IInv'
  <2>1. CASE op[c] \in {"connect", "transfer"}
    BY <1>3, <1>5, <2>1 DEF CloseStream, Outcomes, Ops
  <2>2. CASE op[c] \notin {"connect", "transfer"}
    BY <1>1, <1>5, <2>2 DEF CloseStream
  <2>3. QED
    BY <2>1, <2>2
\* close() posts a function.
<1>6. ASSUME NEW a, ClosePost(a)
      PROVE  IInv'
  <2>1. /\ ready \in Seq(Handler) /\ HandlersOnce(ready) /\ op \in [Coros -> Ops \cup {None}]
        /\ ready' = Append(ready, [co |-> None, ec |-> "ok"]) /\ op' = op /\ UNCHANGED rest
    BY <1>6 DEF IInv, Types, OnePlace, ClosePost
  <2>2. [co |-> None, ec |-> "ok"] \in Handler
    BY DEF Handler, Outcomes
  <2>3. ready' = ready \o <<[co |-> None, ec |-> "ok"]>>
    BY <2>1, <2>2, AppendIsConcat
  <2>4. op' = [d \in Coros |-> IF d \in {} THEN None ELSE op[d]]
    BY <2>1
  <2>5. /\ <<[co |-> None, ec |-> "ok"]>> \in Seq(Handler)
        /\ HandlersOnce(<<[co |-> None, ec |-> "ok"]>>)
        /\ \A d \in Coros : Has(<<[co |-> None, ec |-> "ok"]>>, d) <=> d \in {}
    BY OneHandler DEF Outcomes
  <2>6. ASSUME NEW C \in SUBSET Coros, C = {}
        PROVE  IInv'
    BY <2>1, <2>3, <2>4, <2>5, <2>6, OperationsEnd
  <2>7. {} \in SUBSET Coros
    OBVIOUS
  <2>8. QED
    BY <2>6, <2>7
\* The acceptor is closed, by the caller or by the posted function.
<1>7. ASSUME NEW q \in Seq(Handler), HandlersOnce(q),
             \A c \in Coros : Has(q, c) <=> Has(ready, c), CloseAcceptor(q), UNCHANGED rest
      PROVE  IInv'
  <2>1. Pending("accept") \in SUBSET Coros /\ \A c \in Pending("accept") : op[c] # None
    BY DEF Pending, Ops
  <2>2. op' = [c \in Coros |-> IF c \in Pending("accept") THEN None ELSE op[c]]
    BY <1>7 DEF CloseAcceptor, Pending
  <2>3. ready' = q \o Handlers(Pending("accept"), "error")
    BY <1>7 DEF CloseAcceptor
  <2>4. /\ Handlers(Pending("accept"), "error") \in Seq(Handler)
        /\ HandlersOnce(Handlers(Pending("accept"), "error"))
        /\ \A c \in Coros : Has(Handlers(Pending("accept"), "error"), c) <=> c \in Pending("accept")
    BY <2>1, HandlersOf DEF Outcomes
  <2>5. QED
    BY <1>7, <2>1, <2>2, <2>3, <2>4, OperationsEnd
<1>8. ASSUME NEW a, CloseHere(a)
      PROVE  IInv'
  <2>1. ready \in Seq(Handler) /\ HandlersOnce(ready) /\ CloseAcceptor(ready) /\ UNCHANGED rest
    BY <1>8 DEF IInv, Types, OnePlace, CloseHere
  <2>2. QED
    BY <1>7, <2>1
<1>9. CASE CloseJob
  <2>1. /\ ready \in Seq(Handler) /\ ready # <<>> /\ HandlersOnce(ready) /\ Head(ready).co = None
        /\ CloseAcceptor(Tail(ready)) /\ UNCHANGED rest
    BY <1>9 DEF IInv, Types, OnePlace, CloseJob
  <2>2. /\ Tail(ready) \in Seq(Handler) /\ HandlersOnce(Tail(ready))
        /\ \A c \in Coros : Has(Tail(ready), c) <=> Has(ready, c)
    BY <2>1, PopHandler
  <2>3. QED
    BY <1>7, <2>1, <2>2
\* Awaits.
<1>10. ASSUME NEW c \in Coros, Accept(c) \/ Resolve(c) \/ Connect(c) \/ Transfer(c)
       PROVE  IInv'
  <2>1. \E o \in Ops : Await(c, o)
    BY <1>10 DEF Accept, Resolve, Connect, Transfer, Ops
  <2>2. QED
    BY <2>1, AwaitKeeps
<1>11. ASSUME NEW c \in Coros, CallReturns(c)
       PROVE  IInv'
  <2>1. /\ Running(c) /\ got' = [got EXCEPT ![c] = "nothing"] /\ cancelled' = cancelled \ {c}
        /\ UNCHANGED <<handle_q_, net, ready, co, op, res>>
    BY <1>11 DEF CallReturns, GoOn
  <2>2. Types' /\ OnePlace' /\ OnNet'
    BY <2>1 DEF IInv, Types, Gets, OnePlace, InPost, OnNet
  <2>3. Stored'
    BY <2>1 DEF IInv, Types, Stored, Running
  <2>4. QED
    BY <2>2, <2>3 DEF IInv
<1>12. ASSUME NEW c \in Coros, Ends(c)
       PROVE  IInv'
  <2>1. /\ Running(c) /\ co' = [co EXCEPT ![c] = "done"] /\ Leave(c)
        /\ UNCHANGED <<handle_q_, ready, op, res, got, cancelled>>
    BY <1>12 DEF Ends, Finish
  <2>2. /\ net' \in [at : NetStates, co : Coros \cup {None}]
        /\ net'.at = "post" => net'.co \in Coros
        /\ \A d \in Coros : InPost(d)' <=> InPost(d)
        /\ OnNet'
    BY <2>1, LeaveKeeps DEF IInv
  <2>3. Types'
    BY <2>1, <2>2 DEF IInv, Types
  <2>4. OnePlace'
    BY <2>1, <2>2 DEF IInv, Types, OnePlace, Running
  <2>5. Stored'
    BY <2>1 DEF IInv, Types, Stored, Running
  <2>6. QED
    BY <2>2, <2>3, <2>4, <2>5 DEF IInv
<1>13. ASSUME NEW c \in Coros, CancelCall(c)
       PROVE  IInv'
  BY <1>13 DEF CancelCall, Cancel, IInv, Types, OnePlace, InPost, OnNet, Stored, Running
<1>14. CASE LeaveRun
  <2>1. /\ net.at = "idle" /\ net' = [at |-> "left", co |-> None]
        /\ UNCHANGED <<handle_q_, ready, co, op, res, got, cancelled>>
    BY <1>14 DEF LeaveRun
  <2>2. net' \in [at : NetStates, co : Coros \cup {None}] /\ net'.at = "left"
    BY <2>1 DEF NetStates
  <2>3. QED
    BY <2>1, <2>2 DEF IInv, Types, OnePlace, InPost, OnNet, Stored, Running
<1>15. QED
  BY <1>1, <1>2, <1>4, <1>5, <1>6, <1>8, <1>9, <1>10, <1>11, <1>12, <1>13, <1>14,
     CompleteKeeps, PostKeeps, ResumeKeeps DEF Next, InCall, NetStep, LoopStep

\* Every coroutine starts in the handle queue.
LEMMA InitIInv == Init => IInv
<1> SUFFICES ASSUME Init PROVE IInv
  OBVIOUS
<1> USE AsioAssumption, TcpAssumption
<1>1. /\ handle_q_ \in Seq(Coros) /\ IsInjective(handle_q_)
      /\ \A c \in Coros : Contains(handle_q_, c)
  <2>1. handle_q_ = SetToSeq(Coros)
    BY DEF Init, BridgeInit
  <2>2. /\ handle_q_ \in Seq(Coros) /\ IsInjective(handle_q_)
        /\ \A c \in Coros : \E i \in DOMAIN handle_q_ : handle_q_[i] = c
    BY <2>1, SetToSeqOnce
  <2>3. QED
    BY <2>2, LenProperties DEF Contains
<1>2. /\ ready = <<>> /\ net = Idle
      /\ co = [c \in Coros |-> "suspended"] /\ op = [c \in Coros |-> None]
      /\ res = [c \in Coros |-> "none"] /\ got = [c \in Coros |-> "nothing"]
  BY DEF Init, BridgeInit
<1>3. /\ ready \in Seq(Handler) /\ HandlersOnce(ready) /\ \A c \in Coros : ~Has(ready, c)
  BY <1>2 DEF HandlersOnce, Has
<1>4. net \in [at : NetStates, co : Coros \cup {None}] /\ net.at = "idle"
  BY <1>2 DEF Idle, NetStates
<1>5. Types
  BY <1>1, <1>2, <1>3, <1>4 DEF Types, Results, Gets
<1>6. OnePlace /\ OnNet /\ Stored
  BY <1>1, <1>2, <1>3, <1>4 DEF OnePlace, InPost, OnNet, Stored, Running
<1>7. QED
  BY <1>5, <1>6 DEF IInv

\* IInv holds in every reachable state.
LEMMA Inductive == Spec => []IInv
  BY InitIInv, StepIInv, PTL DEF Spec

-------------------------------------------------------------------------------
(* The theorems.                                                           *)

\* A set with at most one element.
LEMMA AtMostOne ==
  ASSUME NEW S, \A x, y \in S : x = y
  PROVE  Cardinality(S) = IF S = {} THEN 0 ELSE 1
<1>1. CASE S = {}
  BY <1>1, FS_EmptySet
<1>2. CASE S # {}
  <2>1. PICK x : S = {x}
    BY <1>2
  <2>2. QED
    BY <1>2, <2>1, FS_Singleton
<1>3. QED
  BY <1>1, <1>2

\* However completions, closes and stop requests race, a suspended coroutine will be
\* resumed from exactly one place, a running or finished one from none.
THEOREM OneResumptionTheorem == Spec => []OneResumption
<1>1. IInv => OneResumption
  <2> SUFFICES ASSUME IInv, NEW c \in Coros
               PROVE  (IF op[c] # None THEN 1 ELSE 0)
                      + Cardinality({i \in DOMAIN ready : ready[i].co = c})
                      + (IF net.at = "post" /\ net.co = c THEN 1 ELSE 0)
                      + Times(c, handle_q_)
                      = (IF co[c] = "suspended" THEN 1 ELSE 0)
    BY DEF OneResumption
  <2> DEFINE R == {i \in DOMAIN ready : ready[i].co = c}
             Q == {i \in DOMAIN handle_q_ : handle_q_[i] = c}
  <2>1. (\A i, j \in R : i = j) /\ (R = {} <=> ~Has(ready, c))
    BY AsioAssumption DEF IInv, OnePlace, HandlersOnce, Has
  <2>2. (\A i, j \in Q : i = j) /\ (Q = {} <=> ~Contains(handle_q_, c))
    BY LenProperties DEF IInv, Types, OnePlace, IsInjective, Contains
  <2>3. Cardinality(R) = IF Has(ready, c) THEN 1 ELSE 0
    BY <2>1, AtMostOne
  <2>4. Times(c, handle_q_) = IF Contains(handle_q_, c) THEN 1 ELSE 0
    BY <2>2, AtMostOne DEF Times
  <2>5. QED
    BY <2>3, <2>4 DEF IInv, OnePlace, InPost
<1>2. QED
  BY <1>1, Inductive, PTL

\* await_resume() never dereferences a result that no handler has stored.
THEOREM StoredTheorem == Spec => []ValueOnlyIfStored
<1>1. IInv => ValueOnlyIfStored
  BY DEF IInv, Stored, ValueOnlyIfStored
<1>2. QED
  BY <1>1, Inductive, PTL


\* Only coroutines listen, accept, connect, read and write.
Calls ==
  /\ call \in [Coros \cup {Other} -> Places]
  /\ call[Other] \in {"none", "exchange"}

\* A listen that ends stores closing_ = FALSE or, failing, finds no close before it or
\* counts as crossed; a close that sets closing_ closes the acceptor or posts the
\* function that does.
LEMMA CloseStep ==
  ASSUME IInv, Calls, CloseReleases, [Next]_vars
  PROVE  Calls' /\ CloseReleases'
<1> USE TcpAssumption DEF Calls
<1> DEFINE L == {"bind", "store_open", "store_closing"}
           Goes == /\ closing_' = closing_ /\ acc' = acc /\ (crossed => crossed')
                   /\ Has(ready, None) => Has(ready', None)
<1>0. /\ CloseReleases <=> (closing_ /\ ~InListen /\ ~crossed => acc = "closed" \/ Has(ready, None))
      /\ CloseReleases' <=> (closing_' /\ ~InListen' /\ ~crossed' => acc' = "closed" \/ Has(ready', None))
  BY DEF CloseReleases, Has
<1>1. ASSUME Goes, InListen => InListen'
      PROVE  CloseReleases'
  BY <1>0, <1>1
<1>2. ASSUME NEW a \in Coros \cup {Other}, NEW p \in Places, Go(a, p), call[a] \notin L,
             a = Other => p \in {"none", "exchange"}
      PROVE  Calls' /\ (InListen => InListen')
  BY <1>2 DEF Go, InListen
<1>3. ASSUME NEW a \in Coros \cup {Other}, NEW p \in Places, Go(a, p),
             a = Other => p \in {"none", "exchange"}
      PROVE  Calls' /\ call'[a] = p
  BY <1>3 DEF Go
<1>4. ASSUME NEW e \in Handler, ready' = Append(ready, e)
      PROVE  (Has(ready, None) => Has(ready', None)) /\ Has(ready', e.co)
  <2>1. /\ ready \in Seq(Handler) /\ Len(ready) \in Nat /\ DOMAIN ready = 1..Len(ready)
        /\ DOMAIN ready' = 1..Len(ready) + 1 /\ ready'[Len(ready) + 1] = e
        /\ \A i \in 1..Len(ready) : ready'[i] = ready[i]
    BY <1>4, LenProperties, AppendProperties DEF IInv, Types
  <2>2. QED
    BY <2>1 DEF Has
\* Outside listen and close.
<1>5. ASSUME UNCHANGED <<closing_, acc, crossed, call, ready>>
      PROVE  Calls' /\ CloseReleases'
  BY <1>1, <1>5 DEF InListen
<1>6. ASSUME \/ \E c \in Coros : CancelCall(c) \/ Ends(c)
             \/ ((Post \/ LeaveRun \/ Resume \/ Return \/ Stop \/ StopService) /\ UNCHANGED tcp)
             \/ UNCHANGED vars
      PROVE  UNCHANGED <<closing_, acc, crossed, call, ready>>
  BY <1>6 DEF CancelCall, Cancel, Ends, Finish, Post, LeaveRun, Resume, Return, Stop, StopService,
     tcp, vars, bridge
<1>7. ASSUME NEW c \in Coros,
             \/ AcceptTest(c) \/ Accept(c) \/ Resolve(c) \/ Connect(c) \/ Transfer(c) \/ CallReturns(c)
      PROVE  Calls' /\ CloseReleases'
  <2>1. UNCHANGED <<closing_, acc, crossed, ready>>
    BY <1>7 DEF AcceptTest, Accept, Resolve, Connect, Transfer, CallReturns, Await, AwaitCancelled,
       AwaitThrows, AwaitStarts, GoOn, bridge
  <2>2. \E p \in Places : Go(c, p)
    BY <1>7 DEF AcceptTest, Accept, Resolve, Connect, Transfer, CallReturns, Begin, Places
  <2>3. call[c] \notin L
    BY <1>7 DEF AcceptTest, Accept, Resolve, Connect, Transfer, CallReturns, At, Awaiting
  <2>4. QED
    BY <1>1, <1>2, <2>1, <2>2, <2>3
<1>8. ASSUME NEW a, NEW c \in Coros, Succeeds(c) \/ Fails(c) \/ CloseStream(a, c)
      PROVE  Calls' /\ CloseReleases'
  <2>1. UNCHANGED <<closing_, acc, crossed, call>>
    BY <1>8 DEF Succeeds, Fails, CloseStream, tcp
  <2>2. \A e \in Outcomes : [co |-> c, ec |-> e] \in Handler
    BY DEF Handler
  <2>3. ready' = ready \/ \E e \in Outcomes : ready' = Append(ready, [co |-> c, ec |-> e])
    BY <1>8 DEF Succeeds, Fails, CloseStream, Outcomes
  <2>4. Has(ready, None) => Has(ready', None)
    BY <1>4, <2>2, <2>3
  <2>5. QED
    BY <1>1, <2>1, <2>4 DEF InListen
<1>9. CASE Complete /\ UNCHANGED tcp
  <2>1. Has(ready, None) => Has(ready', None)
    BY <1>9, PopHandler DEF Complete, IInv, Types, OnePlace
  <2>2. QED
    BY <1>1, <1>9, <2>1 DEF tcp, InListen
\* async_listen().
<1>10. ASSUME NEW c \in Coros, ListenOpen(c)
       PROVE  Calls' /\ CloseReleases'
  <2>1. Calls' /\ call'[c] = "bind"
    BY <1>3, <1>10 DEF ListenOpen, Places
  <2>2. QED
    BY <1>0, <2>1 DEF InListen
<1>11. ASSUME NEW a \in Coros \cup {Other}, ListenBind(a) \/ StoreOpen(a)
       PROVE  Calls' /\ CloseReleases'
  <2>1. a \in Coros
    BY <1>11 DEF ListenBind, StoreOpen, At
  <2>2. Calls' /\ call'[a] \in {"store_open", "store_closing"}
    BY <1>3, <1>11, <2>1 DEF ListenBind, StoreOpen, Places
  <2>3. QED
    BY <1>0, <2>1, <2>2 DEF InListen
<1>12. ASSUME NEW a \in Coros \cup {Other}, ListenThrows(a)
       PROVE  Calls' /\ CloseReleases'
  <2>1. Calls' /\ closing_' = closing_ /\ crossed' = (crossed \/ closing_)
    BY <1>3, <1>12 DEF ListenThrows, Places
  <2>2. QED
    BY <1>0, <2>1
<1>13. ASSUME NEW a \in Coros \cup {Other}, StoreClosing(a)
       PROVE  Calls' /\ CloseReleases'
  <2>1. Calls' /\ closing_' = FALSE
    BY <1>3, <1>13 DEF StoreClosing, Places
  <2>2. QED
    BY <1>0, <2>1
\* close().
<1>14. ASSUME NEW a \in Coros \cup {Other}, CloseFlag(a) \/ CloseAgain(a)
       PROVE  Calls' /\ CloseReleases'
  <2>1. UNCHANGED <<closing_, acc, ready>> /\ call[a] \notin L
    BY <1>14 DEF CloseFlag, CloseAgain, At, bridge
  <2>2. crossed => crossed'
    BY <1>14 DEF CloseFlag, CloseAgain
  <2>3. Go(a, "exchange") \/ Go(a, "none")
    BY <1>14 DEF CloseFlag, CloseAgain
  <2>4. Calls' /\ (InListen => InListen')
    BY <1>2, <2>1, <2>3 DEF Places
  <2>5. QED
    BY <1>1, <2>1, <2>2, <2>4
<1>15. ASSUME NEW a \in Coros \cup {Other}, ClosePost(a)
       PROVE  Calls' /\ CloseReleases'
  <2>1. [co |-> None, ec |-> "ok"] \in Handler
    BY DEF Handler, Outcomes
  <2>2. Has(ready', None)
    BY <1>4, <1>15, <2>1 DEF ClosePost
  <2>3. Calls'
    BY <1>3, <1>15 DEF ClosePost, Places
  <2>4. QED
    BY <1>0, <2>2, <2>3
<1>16. ASSUME NEW a \in Coros \cup {Other}, CloseHere(a)
       PROVE  Calls' /\ CloseReleases'
  <2>1. acc' = "closed" /\ Calls'
    BY <1>3, <1>16 DEF CloseHere, CloseAcceptor, Places
  <2>2. QED
    BY <1>0, <2>1
<1>17. CASE CloseJob
  BY <1>0, <1>17 DEF CloseJob, CloseAcceptor
<1>18. QED
  BY <1>5, <1>6, <1>7, <1>8, <1>9, <1>10, <1>11, <1>12, <1>13, <1>14, <1>15, <1>16, <1>17
     DEF Next, InCall, NetStep, LoopStep

\* With closing_ set, nobody in listen and no overlap of the two, the acceptor is
\* closed or the function that closes it is queued.
THEOREM CloseTheorem == Spec => []CloseReleases
<1>1. Init => Calls /\ CloseReleases
  BY DEF Init, Calls, Places, CloseReleases
<1>2. IInv /\ Calls /\ CloseReleases /\ [Next]_vars => (Calls /\ CloseReleases)'
  BY CloseStep
<1>3. QED
  BY <1>1, <1>2, Inductive, PTL DEF Spec
===============================================================================
