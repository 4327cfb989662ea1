--------------------------- MODULE SocketChannel ---------------------------
(***************************************************************************)
(* A socket channel in order mode with authentication, as the redis driver *)
(* uses it (lualib/skynet/socketchannel.lua): requests share a connection, *)
(* responses are matched to them by order, a request without a connection  *)
(* makes one, and a broken connection fails the requests on it.            *)
(*                                                                         *)
(* Callers are coroutines of one service, so a slice between two yields is *)
(* one step, and coroutines that were woken run before the next message    *)
(* (LuaScheduler): ready is wakeup_queue, and dispatch is the coroutine    *)
(* that connect_once forks.  The server answers the commands of a          *)
(* connection in order, some of them with an error.  A broken connection   *)
(* answers no more: writing to it fails, and the message that reports it   *)
(* comes behind the responses that did arrive, and before another          *)
(* connection opens, because the socket thread closed the old one first.   *)
(*                                                                         *)
(* A response of two parts may arrive in two messages; its reader waits    *)
(* twice.  A caller that closes the socket in between removes it under the *)
(* reader, which then waits for ever (cut).                                *)
(*                                                                         *)
(* Left out: session mode, backup hosts, changehost and close, requests    *)
(* without response, padding, overload warnings, and malformed responses.  *)
(***************************************************************************)
EXTENDS Integers, Sequences, FiniteSets

CONSTANTS
  Callers,     \* the coroutines that call channel:request
  Conns,       \* ids for connections; one can be used again after its close
  MaxFault,    \* bound on connections that break, connections and commands refused
  None

ASSUME ChannelAssumption ==
  /\ None \notin Callers \cup Conns \cup {"dispatch", "signal"}
  /\ {"dispatch", "signal"} \cap Callers = {}
  /\ \E j, k \in Conns : j # k   \* one closes while the next one opens
  /\ MaxFault \in Nat

VARIABLES
  sock,           \* self.__sock
  thread,         \* self.__thread, with self.__request: callers and close signals
  connecting,     \* self.__connecting, the first one connects
  authcoroutine,  \* self.__authcoroutine
  result,         \* self.__result and __result_data
  dispatch,       \* self.__dispatch_thread: where it is, and for whom it reads
  ready,          \* coroutines that run: the first one does, the others were woken
  at,             \* per caller: where it is in channel:request
  request,        \* per caller: its command
  conn,           \* per connection: its state as the Lua socket sees it
  broken,         \* connections that the socket thread has closed
  closer,         \* per connection: the caller in socket.close
  written,        \* per connection: commands the server has not executed
  replies,        \* per connection: responses on their way
  arrived,        \* per connection: responses in the read buffer
  begun,          \* connections with the first part of a response in the buffer
  faults,         \* connections that broke, connections and commands refused so far
  cut             \* a response came in part while somebody closed (history)

chan == <<sock, thread, connecting, authcoroutine, result>>
net == <<conn, broken, closer, written, replies, arrived, begun, faults, cut>>
svars == <<chan, dispatch, ready, at, request, net>>

\* What a caller has got: a response or an error reply of the server, which name the
\* command they answer; nothing yet; or socket_error.
Response(c, v) == [is |-> "ok", to |-> c, value |-> v]
Refusal(c) == [is |-> "refused", to |-> c, value |-> None]
NoResult == [is |-> "nil", to |-> None, value |-> None]
Error == [is |-> "error", to |-> None, value |-> None]
NoDispatch == [at |-> "none", for |-> None, conn |-> None]
Yields == {"idle", "connecting", "open", "reply", "close", "auth_close", "await", "done"}
Steps == {"check", "connect", "opened", "write", "failed", "connected", "check_again"}

ChannelTypeOK ==
  /\ sock \in Conns \cup {None}
  /\ thread \in Seq(Callers \cup {"signal"}) /\ connecting \in Seq(Callers)
  /\ authcoroutine \in Callers \cup {None}
  /\ dispatch \in [at : {"none", "new", "loop", "pop", "wait", "read", "wait_data"},
                   for : Callers \cup {None}, conn : Conns \cup {None}]
  /\ ready \in Seq(Callers \cup {"dispatch"})
  /\ at \in [Callers -> Yields \cup Steps]
  /\ conn \in [Conns -> {"none", "opening", "open", "lost"}]
  /\ broken \subseteq Conns /\ closer \in [Conns -> Callers \cup {None}]
  /\ faults \in 0 .. MaxFault

ChannelInit ==
  /\ sock = None /\ thread = <<>> /\ connecting = <<>> /\ authcoroutine = None
  /\ result = [a \in Callers |-> NoResult]
  /\ dispatch = NoDispatch /\ ready = <<>>
  /\ at = [a \in Callers |-> "idle"] /\ request = [a \in Callers |-> None]
  /\ conn = [k \in Conns |-> "none"] /\ broken = {}
  /\ closer = [k \in Conns |-> None]
  /\ written = [k \in Conns |-> <<>>]
  /\ replies = [k \in Conns |-> <<>>] /\ arrived = [k \in Conns |-> <<>>]
  /\ begun = {} /\ faults = 0 /\ cut = FALSE

-----------------------------------------------------------------------------
(* Coroutines.                                                             *)

Runs(a, s) == ready # <<>> /\ Head(ready) = a /\ at[a] = s
Go(a, s) == at' = [at EXCEPT ![a] = s]
\* a goes on at s, and these were woken by it; or a yields at s.
GoOn(a, s, woken) == Go(a, s) /\ ready' = ready \o woken
Yield(a, s, woken) == Go(a, s) /\ ready' = Tail(ready) \o woken
\* The next message is handled when nothing is left to run.
Quiet == ready = <<>> /\ dispatch.at # "new"

\* The callers in thread: all but the close signal, which can only be the last.
Signalled == thread # <<>> /\ thread[Len(thread)] = "signal"
Waiting == IF Signalled THEN SubSeq(thread, 1, Len(thread) - 1) ELSE thread
\* wakeup_all, for the callers C and all in thread: they are failed and woken.
WokenAll(C) == C \o Waiting
WakeAll(C) ==
  /\ thread' = <<>>
  /\ result' = [a \in Callers |-> IF \E i \in DOMAIN WokenAll(C) : WokenAll(C)[i] = a
                                  THEN Error ELSE result[a]]

\* socket.close of a connection that is lost: its id is free again.
Free(k) ==
  /\ conn' = [conn EXCEPT ![k] = "none"]
  /\ broken' = broken \ {k} /\ closer' = [closer EXCEPT ![k] = None]
  /\ written' = [written EXCEPT ![k] = <<>>]
  /\ replies' = [replies EXCEPT ![k] = <<>>] /\ arrived' = [arrived EXCEPT ![k] = <<>>]
  /\ begun' = begun \ {k}
  /\ UNCHANGED <<faults, cut>>

\* push_response: the dispatch thread that waits for one is woken.
Push(x) == thread' = Append(thread, x)
Pushed == IF dispatch.at = "wait" THEN <<"dispatch">> ELSE <<>>
PushedDispatch == dispatch' = IF dispatch.at = "wait" THEN [dispatch EXCEPT !.at = "pop"]
                              ELSE dispatch

-----------------------------------------------------------------------------
(* channel:request, one action per step between yields and calls.          *)

\* A message to the service: somebody calls with command c.
Request(a, c) ==
  /\ Quiet /\ at[a] = "idle"
  /\ request' = [request EXCEPT ![a] = c]
  /\ Go(a, "check") /\ ready' = <<a>>
  /\ UNCHANGED <<chan, dispatch, net>>

Usable(a) == sock # None /\ conn[sock] = "open" /\ authcoroutine \in {None, a}
\* check_connection closes a connection that the peer has closed.
CloseLost ==
  IF sock # None /\ conn[sock] = "lost"
  THEN sock' = None /\ Free(sock)
  ELSE UNCHANGED <<sock, net>>

\* Somebody connects already.
BusyNever == FALSE
Busy == connecting # <<>>
\* block_connect: the connection is there, is being made by somebody, or is made
\* now.
Check(a) ==
  /\ Runs(a, "check")
  /\ CloseLost
  /\ \/ Usable(a) /\ GoOn(a, "write", <<>>) /\ UNCHANGED connecting
     \/ /\ ~Usable(a) /\ Busy
        /\ connecting' = Append(connecting, a)
        /\ Yield(a, "connecting", <<>>)
     \/ /\ ~Usable(a) /\ ~Busy
        /\ connecting' = <<a>>
        /\ GoOn(a, "connect", <<>>)
  /\ UNCHANGED <<thread, authcoroutine, result, dispatch, request>>

\* Its second check, after the attempt.
CheckAgain(a) ==
  /\ Runs(a, "check_again")
  /\ CloseLost
  /\ GoOn(a, IF Usable(a) THEN "write" ELSE "failed", <<>>)
  /\ UNCHANGED <<thread, connecting, authcoroutine, result, dispatch, request>>

\* connect_once up to socket.open: the dispatch thread is told to end.
Signal == IF dispatch.at = "none"
          THEN UNCHANGED <<thread, dispatch>>
          ELSE Push("signal") /\ PushedDispatch
ConnectOnce(a) ==
  /\ Runs(a, "connect")
  /\ Signal
  /\ \E k \in Conns :
       /\ k = CHOOSE j \in Conns : conn[j] = "none"
       /\ conn' = [conn EXCEPT ![k] = "opening"]
  /\ Yield(a, "open", Pushed)
  /\ UNCHANGED <<sock, connecting, authcoroutine, result, request, broken, closer, written,
                 replies, arrived, begun, faults, cut>>

\* The message that ends socket.open.
Opened(a, ok) ==
  /\ Quiet /\ at[a] = "open"
  /\ \A k \in broken : conn[k] # "open"
  /\ LET k == CHOOSE j \in Conns : conn[j] = "opening"
     IN conn' = [conn EXCEPT ![k] = IF ok THEN "open" ELSE "none"]
  /\ ok \/ faults < MaxFault
  /\ faults' = IF ok THEN faults ELSE faults + 1
  /\ Go(a, IF ok THEN "opened" ELSE "connected") /\ ready' = <<a>>
  /\ UNCHANGED <<chan, dispatch, request, broken, closer, written, replies, arrived, begun, cut>>

Opening(a) == Opened(a, TRUE) \/ Opened(a, FALSE)

\* connect_once after it: it yields, by a message to itself, until the old dispatch
\* thread has ended; then it starts a new one, and authenticates.
AwaitDispatch(a) ==
  /\ Runs(a, "opened") /\ dispatch.at # "none"
  /\ Yield(a, "await", <<>>)
  /\ UNCHANGED <<chan, dispatch, request, net>>
Awaited(a) ==
  /\ Quiet /\ at[a] = "await"
  /\ Go(a, "opened") /\ ready' = <<a>>
  /\ UNCHANGED <<chan, dispatch, request, net>>
Authenticate(a) ==
  /\ Runs(a, "opened") /\ dispatch.at = "none"
  /\ sock' = CHOOSE k \in Conns : conn[k] \in {"open", "lost"} /\ closer[k] = None
  /\ dispatch' = [NoDispatch EXCEPT !.at = "new"]
  /\ authcoroutine' = a
  /\ GoOn(a, "check", <<>>)
  /\ UNCHANGED <<thread, connecting, result, request, net>>

\* The command written now: SELECT while a authenticates.
Select == [op |-> "select"]
Command(a) == [by |-> a, cmd |-> IF authcoroutine = a THEN Select ELSE request[a]]
\* socket_write and push_response, or sock_err up to the yield of socket.close.
Write(a) ==
  /\ Runs(a, "write")
  /\ IF sock \in broken
     THEN /\ sock' = None
          /\ closer' = [closer EXCEPT ![sock] = a]
          /\ Yield(a, "close", <<>>)
          /\ UNCHANGED <<thread, dispatch, written>>
     ELSE /\ written' = [written EXCEPT ![sock] = Append(@, Command(a))]
          /\ Push(a) /\ PushedDispatch
          /\ Yield(a, "reply", Pushed)
          /\ UNCHANGED <<sock, closer>>
  /\ UNCHANGED <<connecting, authcoroutine, result, request, conn, broken, replies, arrived,
                 begun, faults, cut>>

\* The dispatch thread waits for data of k.
Reads(k) == dispatch.at = "wait_data" /\ dispatch.conn = k
\* The rest of sock_err: the socket is removed, also when it is read again.
Closed(a) ==
  LET k == CHOOSE j \in Conns : closer[j] = a IN
  /\ Runs(a, "close")
  /\ Free(k)
  /\ dispatch' = IF Reads(k) THEN [dispatch EXCEPT !.conn = None] ELSE dispatch
  /\ WakeAll(<<>>)
  /\ GoOn(a, "failed", WokenAll(<<>>))
  /\ UNCHANGED <<sock, connecting, authcoroutine, request>>

\* wait_for_response returns, or raises an error: socket_error or that of the reply.
Replied(a) ==
  /\ Runs(a, "reply")
  /\ IF result[a].is # "ok"
     THEN GoOn(a, "failed", <<>>) /\ UNCHANGED <<authcoroutine, result>>
     ELSE IF authcoroutine = a
     THEN /\ authcoroutine' = None
          /\ result' = [result EXCEPT ![a] = NoResult]
          /\ GoOn(a, IF sock = None THEN "connect" ELSE "connected", <<>>)
     ELSE Yield(a, "done", <<>>) /\ UNCHANGED <<authcoroutine, result>>
  /\ UNCHANGED <<sock, thread, connecting, dispatch, request, net>>

\* Authentication has failed on a connection that is still there: connect_once
\* closes it, without an error for anybody else.
AuthClose(a) ==
  /\ Runs(a, "failed") /\ authcoroutine = a /\ sock # None
  /\ IF conn[sock] = "lost"
     THEN CloseLost /\ UNCHANGED <<at, ready>>
     ELSE /\ sock' = None
          /\ broken' = broken \cup {sock} /\ closer' = [closer EXCEPT ![sock] = a]
          /\ Yield(a, "auth_close", <<>>)
          /\ UNCHANGED <<conn, written, replies, arrived, begun, faults, cut>>
  /\ UNCHANGED <<thread, connecting, authcoroutine, result, dispatch, request>>
AuthClosed(a) ==
  /\ Runs(a, "auth_close")
  /\ Free(CHOOSE k \in Conns : closer[k] = a)
  /\ GoOn(a, "failed", <<>>)
  /\ UNCHANGED <<chan, dispatch, request>>

\* An error: it ends the authentication, or the request.
Failed(a) ==
  /\ Runs(a, "failed") /\ ~(authcoroutine = a /\ sock # None)
  /\ IF authcoroutine = a
     THEN /\ authcoroutine' = None
          /\ result' = [result EXCEPT ![a] = NoResult]
          /\ GoOn(a, "connected", <<>>)
     ELSE /\ result' = [result EXCEPT ![a] = Error]
          /\ Yield(a, "done", <<>>)
          /\ UNCHANGED authcoroutine
  /\ UNCHANGED <<sock, thread, connecting, dispatch, request, net>>

WaitersNone == <<>>
Waiters == Tail(connecting)
\* block_connect after try_connect: wake the callers that wait for it.
ConnectEnds(a) ==
  /\ Runs(a, "connected")
  /\ connecting' = <<>>
  /\ GoOn(a, "check_again", Waiters)
  /\ UNCHANGED <<sock, thread, authcoroutine, result, dispatch, request, net>>
Joined(a) ==
  /\ Runs(a, "connecting")
  /\ GoOn(a, "check_again", <<>>)
  /\ UNCHANGED <<chan, dispatch, request, net>>

\* The caller has taken its response.
Taken(a) ==
  /\ Go(a, "idle")
  /\ request' = [request EXCEPT ![a] = None]
  /\ result' = [result EXCEPT ![a] = NoResult]
  /\ UNCHANGED <<sock, thread, connecting, authcoroutine, dispatch, ready, net>>

Caller(a) ==
  \/ Check(a) \/ CheckAgain(a) \/ ConnectOnce(a) \/ AwaitDispatch(a)
  \/ Authenticate(a) \/ Write(a) \/ Closed(a) \/ Replied(a) \/ AuthClose(a)
  \/ AuthClosed(a) \/ Failed(a) \/ ConnectEnds(a) \/ Joined(a)

-----------------------------------------------------------------------------
(* dispatch_by_order.                                                      *)

DispatchRuns(s) == ready # <<>> /\ Head(ready) = "dispatch" /\ dispatch.at = s
DispatchGo(s) == dispatch' = [dispatch EXCEPT !.at = s]
DispatchNext == dispatch' = [NoDispatch EXCEPT !.at = "loop"]
DispatchEnds(woken) == dispatch' = NoDispatch /\ ready' = Tail(ready) \o woken

DispatchStart ==
  /\ ready = <<>> /\ dispatch.at = "new"
  /\ ready' = <<"dispatch">> /\ DispatchGo("loop")
  /\ UNCHANGED <<chan, at, request, net>>

DispatchLoop ==
  /\ DispatchRuns("loop")
  /\ IF sock = None THEN DispatchEnds(<<>>) ELSE DispatchGo("pop") /\ UNCHANGED ready
  /\ UNCHANGED <<chan, at, request, net>>

Popped == [co |-> Head(thread), rest |-> Tail(thread)]
\* pop_response: the next caller, the close signal, or wait.
PopResponse ==
  /\ DispatchRuns("pop")
  /\ \/ /\ thread = <<>>
        /\ DispatchGo("wait") /\ ready' = Tail(ready)
        /\ UNCHANGED <<thread, result>>
     \/ /\ thread # <<>> /\ Popped.co = "signal"
        /\ WakeAll(<<>>) /\ DispatchEnds(WokenAll(<<>>))
     \/ /\ thread # <<>> /\ Popped.co # "signal"
        /\ thread' = Popped.rest
        /\ dispatch' = [at |-> "read", for |-> Popped.co, conn |-> sock]
        /\ UNCHANGED <<ready, result>>
  /\ UNCHANGED <<sock, connecting, authcoroutine, at, request, net>>

Buffered(k) == IF k = None THEN <<>> ELSE arrived[k]
Connected(k) == k # None /\ conn[k] = "open"
\* get_response: a response is there, the connection is lost, or wait: for the
\* response, or once more for its second part.
LosesOne(a) ==
  /\ result' = [result EXCEPT ![a] = Error] /\ UNCHANGED thread
  /\ ready' = Append(ready, a)
Loses(a) == WakeAll(<<a>>) /\ ready' = ready \o WokenAll(<<a>>)
GetResponse ==
  LET k == dispatch.conn
      a == dispatch.for
  IN
  /\ DispatchRuns("read")
  /\ \/ /\ Buffered(k) # <<>>
        /\ result' = [result EXCEPT ![a] = Head(arrived[k])]
        /\ arrived' = [arrived EXCEPT ![k] = Tail(@)]
        /\ DispatchNext
        /\ ready' = Append(ready, a)
        /\ UNCHANGED <<sock, thread, conn, broken, closer, written, replies, begun,
                       faults, cut>>
     \/ /\ Buffered(k) = <<>> /\ ~Connected(k)
        /\ CloseLost
        /\ Loses(a)
        /\ DispatchNext
     \/ /\ Buffered(k) = <<>> /\ Connected(k)
        /\ DispatchGo("wait_data") /\ ready' = Tail(ready)
        /\ UNCHANGED <<sock, thread, result, net>>
  /\ UNCHANGED <<connecting, authcoroutine, at, request>>

Dispatch == DispatchStart \/ DispatchLoop \/ PopResponse \/ GetResponse

-----------------------------------------------------------------------------
(* The server and the socket thread.                                       *)

\* The server takes a command and answers r.
Responds(k, r) ==
  /\ conn[k] = "open" /\ k \notin broken /\ written[k] # <<>>
  /\ written' = [written EXCEPT ![k] = Tail(@)]
  /\ replies' = [replies EXCEPT ![k] = Append(@, r)]
  /\ UNCHANGED <<chan, dispatch, ready, at, request, conn, broken, closer, arrived, begun,
                 cut>>
\* It executes it, with the value v; or it does not, and answers an error.
Serve(k, v) == Responds(k, Response(Head(written[k]), v)) /\ UNCHANGED faults
Refuse(k) ==
  /\ faults < MaxFault
  /\ Responds(k, Refusal(Head(written[k]))) /\ faults' = faults + 1

\* The connection breaks, and with it what is on its way from some point on.
Break(k) ==
  /\ conn[k] = "open" /\ k \notin broken /\ faults < MaxFault
  /\ broken' = broken \cup {k} /\ faults' = faults + 1
  /\ written' = [written EXCEPT ![k] = <<>>]
  /\ \E n \in 0 .. Len(replies[k]) :
       replies' = [replies EXCEPT ![k] = SubSeq(@, 1, n)]
  /\ UNCHANGED <<chan, dispatch, ready, at, request, conn, closer, arrived, begun, cut>>

\* SKYNET_SOCKET_TYPE_DATA and CLOSE messages wake who reads; after CLOSE also
\* the caller in socket.close.
WakeReader(k) == dispatch' = IF Reads(k) THEN [dispatch EXCEPT !.at = "read"] ELSE dispatch
\* The reader wakes the caller in socket.close.
Closer(k) == IF closer[k] # None THEN <<closer[k]>> ELSE <<>>
Reader(k) == IF Reads(k) THEN <<"dispatch">> \o Closer(k) ELSE <<>>
\* The first part of a response, or a response or what is missing of it.
Part(k) ==
  /\ Quiet /\ conn[k] = "open" /\ replies[k] # <<>> /\ k \notin begun
  /\ begun' = begun \cup {k}
  /\ cut' = (cut \/ (Reads(k) /\ closer[k] # None))
  /\ WakeReader(k) /\ ready' = Reader(k)
  /\ UNCHANGED <<chan, at, request, conn, broken, closer, written, replies, arrived, faults>>
Data(k) ==
  /\ Quiet /\ conn[k] = "open" /\ replies[k] # <<>>
  /\ replies' = [replies EXCEPT ![k] = Tail(@)]
  /\ arrived' = [arrived EXCEPT ![k] = Append(@, Head(replies[k]))]
  /\ begun' = begun \ {k}
  /\ WakeReader(k) /\ ready' = Reader(k)
  /\ UNCHANGED <<chan, at, request, conn, broken, closer, written, faults, cut>>
CloseMessage(k) ==
  /\ Quiet /\ conn[k] = "open" /\ k \in broken /\ replies[k] = <<>>
  /\ conn' = [conn EXCEPT ![k] = "lost"]
  /\ WakeReader(k)
  /\ ready' = IF Reads(k) THEN Reader(k) ELSE Closer(k)
  /\ UNCHANGED <<chan, at, request, broken, closer, written, replies, arrived, begun, faults,
                 cut>>

-----------------------------------------------------------------------------
\* A caller that gets a response gets the one to its own command, although
\* responses are matched by order only, and connections break and are replaced
\* with requests under way.
Matched ==
  \A a \in Callers :
    at[a] = "done" =>
      \/ result[a] = Error
      \/ result[a].is = "ok" /\ result[a].to = [by |-> a, cmd |-> request[a]]

\* assert(not self.__sock and not self.__authcoroutine) in connect_once.  A caller
\* that connects finds the dispatch thread of the last connection ended, and a close
\* signal has no request behind it, unless a response was cut in two by a close.  A
\* caller that fails to authenticate closes a connection on which nobody reads and
\* nobody else has a request, because it fails none.  It is not made to wait for
\* itself by a connection that is lost in its authentication, and there is one
\* connection that works.
ConnectAlone ==
  /\ \A a \in Callers : at[a] = "connect" => sock = None /\ authcoroutine = None
  /\ \A a \in Callers : at[a] \in {"opened", "await"} => cut \/ dispatch.at = "none"
  /\ \A a \in Callers : at[a] = "failed" /\ authcoroutine = a /\ sock # None =>
                          thread = <<>> /\ ~Reads(sock)
  /\ authcoroutine # None => connecting # <<>> /\ Head(connecting) = authcoroutine
  /\ \A i, j \in DOMAIN connecting : connecting[i] = connecting[j] => i = j
  /\ \A j, k \in {k \in Conns : conn[k] \in {"opening", "open"} /\ k \notin broken} : j = k
  /\ \A i \in DOMAIN thread : thread[i] = "signal" => cut \/ i = Len(thread)

\* "socket.close() will wait last socket buffer operation before clear the buffer"
\* (socket.lua:35): nobody waits for data of a socket that was closed and removed.
BufferKept == ~(dispatch.at = "wait_data" /\ dispatch.conn = None)
=============================================================================
