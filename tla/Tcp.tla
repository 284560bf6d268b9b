--------------------------------- MODULE Tcp ---------------------------------
(***************************************************************************)
(* tcp_listener_asio and tcp_stream_asio on the Asio bridge: coroutines    *)
(* listen, accept, connect, read, write and close, another thread closes,  *)
(* and the network thread runs the completions and the posted close.       *)
(*                                                                         *)
(* The acceptor and the sockets are not synchronised; operations on them   *)
(* from two threads are taken to happen one after the other.               *)
(***************************************************************************)
EXTENDS AsioAwait

CONSTANTS Servers,     \* the coroutines that use the listener; the others connect
          Other,       \* a thread that is neither the loop nor the net thread
          MaxListens,  \* bound: calls of async_listen() that open the acceptor
          MaxCalls,    \* bound: calls of async_accept, _connect, _read, _write
          MaxCancels   \* bound: calls whose token is cancelled at one time

Ops == {"accept", "resolve", "connect", "transfer"}

ASSUME TcpAssumption ==
  /\ MaxListens \in Nat /\ MaxCalls \in Nat /\ MaxCancels \in Nat
  /\ Servers \subseteq Coros /\ Other \notin Coros /\ None \notin Ops

VARIABLES
  open_, closing_,
  acc,      \* the acceptor: "closed", "open" or "listening"
  sock,     \* sock[c]: c's stream has its socket "open" or "closed"
  call,     \* call[a]: where a is inside a listener or stream operation
  listens, calls,
  crossed   \* history: a close and a listen overlapped, or a listen failed after a close

tcp == <<open_, closing_, acc, sock, call, listens, calls, crossed>>
vars == <<bridge, tcp>>

\* none      outside
\* bind, store_open, store_closing   async_listen()
\* exchange  close()
\* accept    async_accept(), between the test of open_ and the await
\* accepting, resolving, connecting, transferring   in an await, or just after it
Places == {"none", "bind", "store_open", "store_closing", "exchange", "accept",
           "accepting", "resolving", "connecting", "transferring"}
Awaiting == {"accepting", "resolving", "connecting", "transferring"}

TypeOK ==
  /\ BridgeTypeOK(Ops)
  /\ open_ \in BOOLEAN /\ closing_ \in BOOLEAN
  /\ acc \in {"closed", "open", "listening"}
  /\ sock \in [Coros -> {"closed", "open"}]
  /\ call \in [Coros \cup {Other} -> Places]
  /\ listens \in 0..MaxListens /\ calls \in 0..MaxCalls /\ crossed \in BOOLEAN

Init ==
  /\ BridgeInit
  /\ open_ = FALSE /\ closing_ = FALSE /\ acc = "closed"
  /\ sock = [c \in Coros |-> "closed"]
  /\ call = [a \in Coros \cup {Other} |-> "none"]
  /\ listens = 0 /\ calls = 0 /\ crossed = FALSE

At(a, p) == call[a] = p /\ (a \in Coros => Running(a))
Go(a, p) == call' = [call EXCEPT ![a] = p]

\* a starts a call that awaits.
Begin(a, p) == calls < MaxCalls /\ calls' = calls + 1 /\ Go(a, p)

InListen == \E c \in Coros : call[c] \in {"bind", "store_open", "store_closing"}
InClose == \E a \in Coros \cup {Other} : call[a] = "exchange"
Pending(o) == {c \in Coros : op[c] = o}

-------------------------------------------------------------------------------
(* async_listen().  An acceptor that is open already makes it throw.       *)

ListenOpen(c) ==
  /\ c \in Servers /\ At(c, "none") /\ acc = "closed" /\ listens < MaxListens
  /\ acc' = "open" /\ listens' = listens + 1
  /\ crossed' = (crossed \/ InClose)
  /\ Go(c, "bind")
  /\ UNCHANGED <<bridge, open_, closing_, sock, calls>>

\* set_option(), bind() and listen() succeed.
ListenBind(c) ==
  /\ At(c, "bind") /\ acc = "open"
  /\ acc' = "listening"
  /\ Go(c, "store_open")
  /\ UNCHANGED <<bridge, open_, closing_, sock, listens, calls, crossed>>

\* One of them fails, certainly when a close has come between: throw.
ListenThrows(c) ==
  /\ At(c, "bind")
  /\ crossed' = (crossed \/ closing_)
  /\ Go(c, "none")
  /\ UNCHANGED <<bridge, open_, closing_, acc, sock, listens, calls>>

StoreOpen(c) ==
  /\ At(c, "store_open")
  /\ open_' = TRUE
  /\ Go(c, "store_closing")
  /\ UNCHANGED <<bridge, closing_, acc, sock, listens, calls, crossed>>

Mut_StoreClosing(c) ==
  /\ At(c, "store_closing")
  /\ closing_' = TRUE
  /\ Go(c, "none")
  /\ UNCHANGED <<bridge, open_, acc, sock, listens, calls, crossed>>

StoreClosing(c) ==
  /\ At(c, "store_closing")
  /\ closing_' = FALSE
  /\ Go(c, "none")
  /\ UNCHANGED <<bridge, open_, acc, sock, listens, calls, crossed>>

-------------------------------------------------------------------------------
(* close() of the listener, from a coroutine or from another thread.       *)

\* A call that would change nothing is left out.
CloseFlag(a) ==
  /\ At(a, "none") /\ (open_ \/ ~closing_ \/ InListen)
  /\ open_' = FALSE
  /\ crossed' = (crossed \/ InListen)
  /\ Go(a, "exchange")
  /\ UNCHANGED <<bridge, closing_, acc, sock, listens, calls>>

\* The exchange finds closing_ set: the other call does the rest.
CloseAgain(a) ==
  /\ At(a, "exchange") /\ closing_
  /\ Go(a, "none")
  /\ UNCHANGED <<bridge, open_, closing_, acc, sock, listens, calls, crossed>>

\* An open acceptor is cancelled, which ends the pending accepts with an error,
\* and closed; q is what else is in the queue of handlers.
CloseAcceptor(q) ==
  /\ acc' = "closed"
  /\ ready' = q \o Handlers(Pending("accept"), "error")
  /\ op' = [c \in Coros |-> IF op[c] = "accept" THEN None ELSE op[c]]

\* asio::post of the function that closes the acceptor.
ClosePost(a) ==
  /\ At(a, "exchange") /\ ~closing_
  /\ closing_' = TRUE
  /\ ready' = Append(ready, [co |-> None, ec |-> "ok"])
  /\ Go(a, "none")
  /\ UNCHANGED <<handle_q_, stop_requested_, loop, net, stopped_, co, op, res, got,
                 cancelled, open_, acc, sock, listens, calls, crossed>>

\* asio::post throws: close() closes the acceptor itself.
CloseHere(a) ==
  /\ At(a, "exchange") /\ ~closing_
  /\ closing_' = TRUE
  /\ CloseAcceptor(ready)
  /\ Go(a, "none")
  /\ UNCHANGED <<handle_q_, stop_requested_, loop, net, stopped_, co, res, got,
                 cancelled, open_, sock, listens, calls, crossed>>

Mut_CloseJob ==
  /\ net.at = "idle" /\ ~stopped_ /\ ready # <<>> /\ Head(ready).co = None
  /\ IF acc = "closed" THEN CloseAcceptor(Tail(ready))
     ELSE ready' = Tail(ready) /\ UNCHANGED <<acc, op>>
  /\ UNCHANGED <<handle_q_, stop_requested_, loop, net, stopped_, co, res, got,
                 cancelled, open_, closing_, sock, call, listens, calls, crossed>>

\* The posted function.
CloseJob ==
  /\ net.at = "idle" /\ ~stopped_ /\ ready # <<>> /\ Head(ready).co = None
  /\ CloseAcceptor(Tail(ready))
  /\ UNCHANGED <<handle_q_, stop_requested_, loop, net, stopped_, co, res, got,
                 cancelled, open_, closing_, sock, call, listens, calls, crossed>>

-------------------------------------------------------------------------------
(* async_accept(), async_connect(), async_read(), async_write().           *)

\* A cancelled token or a closed listener makes it throw.  A coroutine has one
\* stream at a time.
AcceptTest(c) ==
  /\ c \in Servers /\ At(c, "none") /\ c \notin cancelled /\ open_ /\ sock[c] = "closed"
  /\ Begin(c, "accept")
  /\ UNCHANGED <<bridge, open_, closing_, acc, sock, listens, crossed>>

Accept(c) ==
  /\ At(c, "accept")
  /\ Await(c, "accept")
  /\ Go(c, "accepting")
  /\ UNCHANGED <<open_, closing_, acc, sock, listens, calls, crossed>>

\* async_connect(): resolve, and with the results connect, under one token.
Resolve(c) ==
  /\ c \notin Servers /\ At(c, "none")
  /\ Await(c, "resolve")
  /\ Begin(c, "resolving")
  /\ UNCHANGED <<open_, closing_, acc, sock, listens, crossed>>

\* asio::async_connect() opens the socket and leaves it open when it fails.
Connect(c) ==
  /\ At(c, "resolving") /\ got[c] = "value"
  /\ Await(c, "connect")
  /\ sock' = [sock EXCEPT ![c] = IF op'[c] = "connect" THEN "open" ELSE @]
  /\ Go(c, "connecting")
  /\ UNCHANGED <<open_, closing_, acc, listens, calls, crossed>>

\* async_read() and async_write(); on a closed socket they fail as any may.
Transfer(c) ==
  /\ At(c, "none") /\ sock[c] = "open"
  /\ Await(c, "transfer")
  /\ Begin(c, "transferring")
  /\ UNCHANGED <<open_, closing_, acc, sock, listens, crossed>>

\* The call returns or throws what await_resume() threw; a stream that could not
\* be accepted is destroyed with the exception.
CallReturns(c) ==
  /\ call[c] \in Awaiting /\ Running(c)
  /\ call[c] = "resolving" => got[c] # "value"
  /\ sock' = [sock EXCEPT ![c] =
                IF call[c] = "accepting" /\ got[c] # "value" THEN "closed" ELSE @]
  /\ Go(c, "none")
  /\ GoOn(c)
  /\ UNCHANGED <<open_, closing_, acc, listens, calls, crossed>>

\* close() of c's stream, by c or from another thread: an open socket is cancelled, shut
\* down and closed by the calling thread.
CloseStream(a, c) ==
  /\ a \in {c, Other} /\ At(a, "none") /\ sock[c] = "open" /\ call[c] # "accepting"
  /\ sock' = [sock EXCEPT ![c] = "closed"]
  /\ IF op[c] \in {"connect", "transfer"}
     THEN /\ ready' = Append(ready, [co |-> c, ec |-> "error"])
          /\ op' = [op EXCEPT ![c] = None]
     ELSE UNCHANGED <<ready, op>>
  /\ UNCHANGED <<handle_q_, stop_requested_, loop, net, stopped_, co, res, got,
                 cancelled, open_, closing_, acc, call, listens, calls, crossed>>

-------------------------------------------------------------------------------
(* Asio: an operation ends, and its handler is queued.                     *)

\* An accept on a listening acceptor opens the socket of the new stream.
Succeeds(c) ==
  /\ op[c] # None
  /\ op[c] = "accept" => acc = "listening"
  /\ ready' = Append(ready, [co |-> c, ec |-> "ok"])
  /\ sock' = [sock EXCEPT ![c] = IF op[c] = "accept" THEN "open" ELSE @]
  /\ op' = [op EXCEPT ![c] = None]
  /\ UNCHANGED <<handle_q_, stop_requested_, loop, net, stopped_, co, res, got,
                 cancelled, open_, closing_, acc, call, listens, calls, crossed>>

Fails(c) ==
  /\ op[c] # None
  /\ ready' = Append(ready, [co |-> c, ec |-> "error"])
  /\ op' = [op EXCEPT ![c] = None]
  /\ UNCHANGED <<handle_q_, stop_requested_, loop, net, stopped_, co, res, got,
                 cancelled, tcp>>

-------------------------------------------------------------------------------
\* What a coroutine goes on with once it is in a call.
InCall(a) ==
  \/ ListenBind(a) \/ ListenThrows(a) \/ StoreOpen(a) \/ StoreClosing(a)
  \/ CloseAgain(a) \/ ClosePost(a) \/ CloseHere(a)
  \/ /\ a \in Coros
     /\ Accept(a) \/ Connect(a) \/ CallReturns(a)

\* c ends, and its stream with it.
Ends(c) ==
  /\ call[c] = "none" /\ Finish(c)
  /\ sock' = [sock EXCEPT ![c] = "closed"]
  /\ UNCHANGED <<open_, closing_, acc, call, listens, calls, crossed>>

CancelCall(c) ==
  /\ call[c] \in Awaiting \cup {"accept"} /\ Cardinality(cancelled) < MaxCancels
  /\ Cancel(c)
  /\ UNCHANGED tcp

NetStep == ((Complete \/ Post \/ LeaveRun) /\ UNCHANGED tcp) \/ CloseJob
LoopStep == (Resume \/ Return) /\ UNCHANGED tcp

Next ==
  \/ \E a \in Coros \cup {Other} :
       InCall(a) \/ \E c \in Coros : CloseStream(a, c)
  \/ \E a \in Servers \cup {Other} : CloseFlag(a)
  \/ \E c \in Coros :
       \/ ListenOpen(c) \/ AcceptTest(c) \/ Resolve(c) \/ Transfer(c)
       \/ Succeeds(c) \/ Fails(c) \/ Ends(c) \/ CancelCall(c)
  \/ NetStep \/ LoopStep \/ ((Stop \/ StopService) /\ UNCHANGED tcp)

Spec == Init /\ [][Next]_vars

\* Both threads run, calls go on, and coroutines come to their end.  No operation
\* has to end by itself: a peer may never connect or send.
FairSpec ==
  /\ Spec
  /\ WF_vars(NetStep) /\ WF_vars(LoopStep) /\ WF_vars(InCall(Other))
  /\ \A c \in Coros : WF_vars(InCall(c) \/ Ends(c))
  /\ \A c \in Servers : WF_vars(op[c] = "accept" /\ acc # "listening" /\ Fails(c))

-------------------------------------------------------------------------------
(* Properties.                                                             *)

Times(c, s) == Cardinality({i \in DOMAIN s : s[i] = c})

\* A suspended coroutine will be resumed from exactly one place: an operation, a
\* handler, the net thread about to post it, or the handle queue; a running or
\* finished one from none.  So no coroutine is on two threads or resumed twice,
\* although completions, closes and stop requests race.
OneResumption ==
  \A c \in Coros :
    (IF op[c] # None THEN 1 ELSE 0)
    + Cardinality({i \in DOMAIN ready : ready[i].co = c})
    + (IF net.at = "post" /\ net.co = c THEN 1 ELSE 0)
    + Times(c, handle_q_)
    = (IF co[c] = "suspended" THEN 1 ELSE 0)

\* await_resume() never dereferences a value that no handler has stored: resumed
\* without one, it finds the token still cancelled, an exception or an error.
ValueOnlyIfStored == \A c \in Coros : got[c] # "undefined"

\* A coroutine whose operation is over is resumed, unless the loop returns or the
\* service is stopped before that.
CompletionResumes ==
  \A c \in Coros :
    co[c] = "suspended" /\ op[c] = None
      ~> (co[c] # "suspended" \/ loop = "returned" \/ stopped_)

\* "stops accepting new connections and releases the underlying socket"
\* (tcp.hpp:197), also when it is listened on again after a close, as long as the
\* two do not overlap: with closing_ set and nobody inside listen, the acceptor is
\* closed or will be.
CloseReleases ==
  closing_ /\ ~InListen /\ ~crossed =>
    acc = "closed" \/ \E i \in DOMAIN ready : ready[i].co = None

\* close() from any thread ends the accepts under way, whose coroutines would
\* otherwise wait for a connection that may never come.
AcceptEndsOnClose ==
  \A c \in Servers :
    op[c] = "accept" /\ ~open_ ~> (op[c] # "accept" \/ open_ \/ crossed \/ stopped_)
=============================================================================
