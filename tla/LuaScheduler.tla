---------------------------- MODULE LuaScheduler ----------------------------
(***************************************************************************)
(* The coroutines of one Lua service, skynet.lua: dispatch_message, the    *)
(* tables that bind sessions to coroutines, call, sleep, wait, wakeup,     *)
(* timeout and fork, the error queue, responses and exit.                  *)
(*                                                                         *)
(* The code runs on one thread.  mode says where its main thread is: idle, *)
(* inside a coroutine (run), in suspend before dispatch_wakeup (wakeup) or *)
(* before dispatch_error_queue (error), or in the fork loop of             *)
(* dispatch_message (fork).  suspend is recursive: each wake-up leaves a   *)
(* call of it behind that still has dispatch_error_queue to do (depth).    *)
(* When one of them finds that queue empty so do the ones around it, and   *)
(* all return to dispatch_message.  What application code does between two *)
(* yields is any sequence of the actions of a running coroutine.           *)
(*                                                                         *)
(* skynet.exit retires the service, but its Lua state lives on: outer      *)
(* suspends go on, and so do the messages of the same batch of             *)
(* skynet_context_message_dispatch.                                        *)
(*                                                                         *)
(* The other services answer calls with a response or an error and may go  *)
(* down.  Tokens are the coroutines themselves, as in skynet.queue; trace  *)
(* tags, debug and the packing of messages are left out.                   *)
(***************************************************************************)
EXTENDS Integers, Sequences, FiniteSets, SequencesExt

CONSTANTS
  Coroutines,   \* the coroutines, running or in coroutine_pool
  Services,     \* the services this one talks to
  MaxSession,   \* bound on the sessions it allocates
  MaxRequest,   \* bound on the requests it receives
  MaxWakeup,    \* bound on the length of wakeup_queue
  None

ASSUME SchedulerAssumption ==
  /\ MaxSession \in Nat /\ MaxRequest \in Nat /\ MaxWakeup \in Nat
  /\ None \notin Coroutines \cup Services \cup {"BREAK", "EMPTY", "timer"}
  /\ {"BREAK", "EMPTY"} \cap Coroutines = {} /\ "timer" \notin Services

VARIABLES
  mode, run,             \* the main thread (see above); the running coroutine
  depth,                 \* suspends that still have dispatch_error_queue to do
  exited,                \* 0; after skynet.exit 1 + the last session before it
  co,                    \* per coroutine: what it waits for, and its session
  session,               \* the last session allocated
  session_id_coroutine, sleep_session, watching_session,
  wakeup_queue, error_queue, fork_queue,
  coming,                \* per session: who will send a message for it
  session_coroutine_id,  \* per coroutine: the request it serves and must answer
  unresponse,            \* requests whose response function was not called yet
  source,                \* per request: the service that sent it
  answers,               \* per request: how many answers were sent
  forgot,                \* requests whose coroutine ended without an answer
  down,                  \* services that reported that they are down
  doubled,               \* some coroutine was in wakeup_queue twice
  failed                 \* "no" or the error in the scheduler itself

tables == <<session_id_coroutine, sleep_session, watching_session>>
stack == <<depth, exited>>
queues == <<wakeup_queue, error_queue, fork_queue>>
serving == <<session_coroutine_id, unresponse, source, answers, forgot>>
svars == <<mode, run, stack, co, session, tables, queues, coming, serving, down, doubled,
           failed>>

Sessions == 1 .. MaxSession
Requests == 1 .. MaxRequest
Free == [at |-> "free", session |-> 0]

SchedulerTypeOK ==
  /\ mode \in {"idle", "run", "wakeup", "error", "fork"}
  /\ run \in Coroutines \cup {None}
  /\ co \in [Coroutines -> [at : {"free", "ready", "run", "call", "sleep", "wait", "dead"},
                            session : 0 .. MaxSession]]
  /\ session \in 0 .. MaxSession
  /\ session_id_coroutine \in [Sessions -> Coroutines \cup {None, "BREAK"}]
  /\ sleep_session \in [Coroutines -> 0 .. MaxSession]
  /\ watching_session \in [Sessions -> Services \cup {None}]
  /\ wakeup_queue \in Seq(Coroutines) /\ error_queue \in Seq(Sessions)
  /\ fork_queue \in Seq(Coroutines \cup {"EMPTY"})
  /\ coming \in [Sessions -> Services \cup {None, "timer"}]
  /\ session_coroutine_id \in [Coroutines -> 0 .. MaxRequest]
  /\ unresponse \subseteq Requests /\ forgot \subseteq Requests /\ down \subseteq Services
  /\ source \in [Requests -> Services \cup {None}]
  /\ answers \in [Requests -> Nat]
  /\ doubled \in BOOLEAN
  /\ failed \in {"no", "resume"}

StackTypeOK == depth \in Nat /\ exited \in 0 .. MaxSession + 1

SchedulerInit ==
  /\ mode = "idle" /\ run = None
  /\ depth = 0 /\ exited = 0
  /\ co = [c \in Coroutines |-> Free]
  /\ session = 0
  /\ session_id_coroutine = [s \in Sessions |-> None]
  /\ sleep_session = [c \in Coroutines |-> 0]
  /\ watching_session = [s \in Sessions |-> None]
  /\ wakeup_queue = <<>> /\ error_queue = <<>> /\ fork_queue = <<>>
  /\ coming = [s \in Sessions |-> None]
  /\ session_coroutine_id = [c \in Coroutines |-> 0]
  /\ unresponse = {} /\ forgot = {} /\ down = {}
  /\ source = [r \in Requests |-> None]
  /\ answers = [r \in Requests |-> 0]
  /\ doubled = FALSE
  /\ failed = "no"

-----------------------------------------------------------------------------
(* Resuming and suspending.                                                *)

\* coroutine_resume(c): the coroutine first clears what it had noted before it
\* yielded: its token, the session it watched, and after skynet.wait also the
\* session itself.
Forget(c, w) == [s \in Sessions |-> IF co[c].at = "call" /\ s = co[c].session
                                    THEN None ELSE w[s]]
Resume(c, sic) ==
  /\ mode' = "run" /\ run' = c
  /\ co' = [co EXCEPT ![c] = [at |-> "run", session |-> 0]]
  /\ sleep_session' = [sleep_session EXCEPT ![c] = 0]
  /\ watching_session' = Forget(c, watching_session)
  /\ session_id_coroutine' = [s \in Sessions |-> IF co[c].at = "wait" /\ s = co[c].session
                                                 THEN None ELSE sic[s]]

Suspended(c) == c \in Coroutines /\ co[c].at \in {"ready", "call", "sleep", "wait"}

\* Resume what a table holds for a session; anything but a suspended
\* coroutine is an error of the scheduler.
ResumeEntry(c, sic) ==
  IF Suspended(c)
  THEN Resume(c, sic) /\ UNCHANGED failed
  ELSE /\ failed' = "resume"
       /\ UNCHANGED <<mode, run, co, tables>>

\* dispatch_wakeup in suspend.
DispatchWakeup ==
  /\ mode = "wakeup"
  /\ IF wakeup_queue = <<>> \/ sleep_session[Head(wakeup_queue)] = 0
     THEN /\ mode' = "error"
          /\ UNCHANGED <<run, depth, co, tables, failed>>
     ELSE LET s == sleep_session[Head(wakeup_queue)]
          IN /\ ResumeEntry(session_id_coroutine[s],
                            [session_id_coroutine EXCEPT ![s] = "BREAK"])
             /\ depth' = depth + 1
  /\ wakeup_queue' = IF wakeup_queue = <<>> THEN <<>> ELSE Tail(wakeup_queue)
  /\ UNCHANGED <<exited, session, error_queue, fork_queue, coming, serving, down, doubled>>

\* dispatch_error_queue in suspend, and the return from all suspends.
DispatchErrorQueue ==
  /\ mode = "error"
  /\ IF error_queue = <<>>
     THEN /\ mode' = "fork" /\ depth' = 0
          /\ UNCHANGED <<run, co, tables, error_queue, failed>>
     ELSE LET s == Head(error_queue)
          IN /\ error_queue' = Tail(error_queue)
             /\ ResumeEntry(session_id_coroutine[s],
                            [session_id_coroutine EXCEPT ![s] = None])
             /\ UNCHANGED depth
  /\ UNCHANGED <<exited, session, wakeup_queue, fork_queue, coming, serving, down, doubled>>

\* The loop of dispatch_message over fork_queue, and its end.
DispatchFork ==
  /\ mode = "fork"
  /\ IF fork_queue = <<>>
     THEN /\ mode' = "idle"
          /\ UNCHANGED <<run, co, tables, fork_queue, failed>>
     ELSE /\ fork_queue' = Tail(fork_queue)
          /\ IF Head(fork_queue) = "EMPTY"
             THEN mode' = "wakeup" /\ UNCHANGED <<run, co, tables, failed>>
             ELSE ResumeEntry(Head(fork_queue), session_id_coroutine)
  /\ UNCHANGED <<stack, session, wakeup_queue, error_queue, coming, serving, down,
                 doubled>>

Machine == DispatchWakeup \/ DispatchErrorQueue \/ DispatchFork

-----------------------------------------------------------------------------
(* What a running coroutine can do.                                        *)

Running(c) == mode = "run" /\ run = c
NewSession == session + 1

\* yield_call after a successful send.
Call(c, d) ==
  /\ Running(c) /\ d \notin down /\ session < MaxSession
  /\ session' = NewSession
  /\ watching_session' = [watching_session EXCEPT ![NewSession] = d]
  /\ session_id_coroutine' = [session_id_coroutine EXCEPT ![NewSession] = c]
  /\ coming' = [coming EXCEPT ![NewSession] = d]
  /\ co' = [co EXCEPT ![c] = [at |-> "call", session |-> NewSession]]
  /\ mode' = "wakeup" /\ run' = None
  /\ UNCHANGED <<stack, sleep_session, queues, serving, down, doubled, failed>>

\* suspend_sleep for skynet.sleep (timer) and skynet.wait.
SuspendSleep(c, at, message) ==
  /\ Running(c) /\ session < MaxSession
  /\ session' = NewSession
  /\ session_id_coroutine' = [session_id_coroutine EXCEPT ![NewSession] = c]
  /\ sleep_session' = [sleep_session EXCEPT ![c] = NewSession]
  /\ coming' = [coming EXCEPT ![NewSession] = message]
  /\ co' = [co EXCEPT ![c] = [at |-> at, session |-> NewSession]]
  /\ mode' = "wakeup" /\ run' = None
  /\ UNCHANGED <<stack, watching_session, queues, serving, down, doubled, failed>>

Sleep(c) == SuspendSleep(c, "sleep", "timer")
Wait(c) == SuspendSleep(c, "wait", None)

\* skynet.wakeup.
WakeupNever(t) == UNCHANGED <<wakeup_queue, doubled>>
WakeupEffect(t) ==
  IF sleep_session[t] # 0
  THEN /\ wakeup_queue' = Append(wakeup_queue, t)
       /\ doubled' = (doubled \/ t \in ToSet(wakeup_queue))
  ELSE UNCHANGED <<wakeup_queue, doubled>>

Wakeup(c, t) ==
  /\ Running(c) /\ sleep_session[t] # 0 /\ Len(wakeup_queue) < MaxWakeup
  /\ WakeupEffect(t)
  /\ UNCHANGED <<mode, run, stack, co, session, tables, error_queue, fork_queue, coming,
                 serving, down, failed>>

\* co_create: a coroutine of the pool, or a new one.
co_create == CHOOSE c \in Coroutines : co[c].at = "free"
CanCreate == \E c \in Coroutines : co[c].at = "free"
Created == [co EXCEPT ![co_create] = [at |-> "ready", session |-> 0]]

\* skynet.fork.
Fork(c) ==
  /\ Running(c) /\ CanCreate
  /\ co' = Created
  /\ fork_queue' = Append(fork_queue, co_create)
  /\ UNCHANGED <<mode, run, stack, session, tables, wakeup_queue, error_queue, coming,
                 serving, down, doubled, failed>>

\* skynet.timeout.
Timeout(c) ==
  /\ Running(c) /\ CanCreate /\ session < MaxSession
  /\ session' = NewSession
  /\ co' = Created
  /\ session_id_coroutine' = [session_id_coroutine EXCEPT ![NewSession] = co_create]
  /\ coming' = [coming EXCEPT ![NewSession] = "timer"]
  /\ UNCHANGED <<mode, run, stack, sleep_session, watching_session, queues, serving, down,
                 doubled, failed>>

\* The answers after one was sent for each request of R, 0 being no request.
Answered(R) == [r \in Requests |-> IF r \in R THEN answers[r] + 1 ELSE answers[r]]

\* skynet.ret.
RetWith(c, left) ==
  /\ Running(c) /\ session_coroutine_id[c] # 0
  /\ answers' = Answered({session_coroutine_id[c]})
  /\ session_coroutine_id' = [session_coroutine_id EXCEPT ![c] = left]
  /\ UNCHANGED <<mode, run, stack, co, session, tables, queues, coming, unresponse, source,
                 forgot, down, doubled, failed>>

RetKeepsSession(c) == RetWith(c, session_coroutine_id[c])
Ret(c) == RetWith(c, 0)

\* skynet.response: the answer is left to the function it returns.
TakeResponse(c) ==
  /\ Running(c) /\ session_coroutine_id[c] # 0
  /\ unresponse' = unresponse \cup {session_coroutine_id[c]}
  /\ session_coroutine_id' = [session_coroutine_id EXCEPT ![c] = 0]
  /\ UNCHANGED <<mode, run, stack, co, session, tables, queues, coming, source, answers,
                 forgot, down, doubled, failed>>

\* That function, called by any coroutine.
CallResponse(c, r) ==
  /\ Running(c) /\ r \in unresponse
  /\ answers' = Answered({r})
  /\ unresponse' = unresponse \ {r}
  /\ UNCHANGED <<mode, run, stack, co, session, tables, queues, coming,
                 session_coroutine_id, source, forgot, down, doubled, failed>>

\* The function of the coroutine returns; it goes back to the pool.
Return(c) ==
  /\ Running(c)
  /\ co' = [co EXCEPT ![c] = Free]
  /\ forgot' = forgot \cup ({session_coroutine_id[c]} \ {0})
  /\ session_coroutine_id' = [session_coroutine_id EXCEPT ![c] = 0]
  /\ mode' = "wakeup" /\ run' = None
  /\ UNCHANGED <<stack, session, tables, queues, coming, unresponse, source, answers,
                 down, doubled, failed>>

\* suspend for a coroutine that died: error to the caller, an empty fork to
\* get "SUSPEND" again, and an error that leaves all the suspends around it.
RaiseWith(c, forks) ==
  /\ Running(c)
  /\ co' = [co EXCEPT ![c].at = "dead"]
  /\ answers' = Answered({session_coroutine_id[c]} \ {0})
  /\ session_coroutine_id' = [session_coroutine_id EXCEPT ![c] = 0]
  /\ fork_queue' = fork_queue \o forks
  /\ mode' = "fork" /\ run' = None /\ depth' = 0
  /\ UNCHANGED <<exited, session, tables, wakeup_queue, error_queue, coming,
                 unresponse, source, forgot, down, doubled, failed>>
RaiseNoFork(c) == RaiseWith(c, <<>>)
Raise(c) == RaiseWith(c, <<"EMPTY">>)

\* skynet.exit: everyone who waits for an answer gets an error, the handle is
\* retired, and the coroutine yields for good.  suspend returns to the next one
\* around it, which goes on with dispatch_error_queue.  The requests stay in
\* session_coroutine_id.
ExitWith(c, asked) ==
  /\ Running(c)
  /\ fork_queue' = <<>>
  /\ answers' = Answered(asked \cup unresponse)
  /\ unresponse' = {}
  /\ exited' = IF exited = 0 THEN session + 1 ELSE exited
  /\ co' = [co EXCEPT ![c].at = "dead"]
  /\ IF depth > 0 THEN mode' = "error" /\ depth' = depth - 1
                  ELSE mode' = "fork" /\ UNCHANGED depth
  /\ run' = None
  /\ UNCHANGED <<session, tables, wakeup_queue, error_queue, coming,
                 session_coroutine_id, source, forgot, down, doubled, failed>>
ExitForgets(c) == ExitWith(c, {})
Exit(c) == ExitWith(c, {session_coroutine_id[d] : d \in Coroutines})

-----------------------------------------------------------------------------
(* Messages: raw_dispatch_message.                                         *)

\* A request: a coroutine of the pool serves it.
Request(r, d) ==
  /\ mode = "idle" /\ CanCreate /\ d \notin down
  /\ source[r] = None /\ \A q \in 1 .. r - 1 : source[q] # None
  /\ source' = [source EXCEPT ![r] = d]
  /\ session_coroutine_id' = [session_coroutine_id EXCEPT ![co_create] = r]
  /\ mode' = "run" /\ run' = co_create
  /\ co' = [co EXCEPT ![co_create] = [at |-> "run", session |-> 0]]
  /\ UNCHANGED <<stack, session, tables, queues, coming, unresponse, answers, forgot, down,
                 doubled, failed>>

\* What is sent after the handle was retired does not arrive.
Arrives(s) == exited = 0 \/ s < exited

\* A response or a timer message for session s.  A session without an entry
\* would be an unknown response.
Response(s) ==
  /\ mode = "idle" /\ coming[s] \notin down \cup {None} /\ Arrives(s)
  /\ coming' = [coming EXCEPT ![s] = None]
  /\ LET c == session_id_coroutine[s]
         cleared == [session_id_coroutine EXCEPT ![s] = None]
     IN IF c = "BREAK"
        THEN /\ session_id_coroutine' = cleared
             /\ UNCHANGED <<mode, run, co, sleep_session, watching_session, failed>>
        ELSE ResumeEntry(c, cleared)
  /\ UNCHANGED <<stack, session, queues, serving, down, doubled>>

\* _error_dispatch for session s: only a call that still waits is failed.
Capture(s) == IF watching_session[s] # None THEN Append(error_queue, s) ELSE error_queue

\* PTYPE_ERROR for session s: the call failed.
ErrorSession(s) ==
  /\ mode = "idle" /\ coming[s] \in Services /\ Arrives(s)
  /\ coming' = [coming EXCEPT ![s] = None]
  /\ error_queue' = Capture(s)
  /\ mode' = "wakeup"
  /\ UNCHANGED <<run, stack, co, session, tables, wakeup_queue, fork_queue, serving, down,
                 doubled, failed>>

\* PTYPE_ERROR with session 0: the service d is down.  Calls that were still
\* in its queue are answered with an error as well.
ErrorSource(d) ==
  /\ mode = "idle" /\ d \notin down
  /\ down' = down \cup {d}
  /\ unresponse' = {r \in unresponse : source[r] # d}
  /\ \E calls \in SetToSeqs({s \in Sessions : watching_session[s] = d}) :
       error_queue' = error_queue \o calls
  /\ mode' = "wakeup"
  /\ UNCHANGED <<run, stack, co, session, tables, wakeup_queue, fork_queue, coming,
                 session_coroutine_id, source, answers, forgot, doubled, failed>>

Message ==
  \/ \E r \in Requests, d \in Services : Request(r, d)
  \/ \E s \in Sessions : Response(s) \/ ErrorSession(s)
  \/ \E d \in Services : ErrorSource(d)

-----------------------------------------------------------------------------
\* Every suspended coroutine can be reached, and nothing else is in the
\* tables: a call has its watched session, a sleep its token, and "BREAK" stays
\* only until the timer that was cut short has come.
TablesAgree ==
  /\ \A c \in Coroutines :
       /\ co[c].at \in {"call", "sleep", "wait"} => session_id_coroutine[co[c].session] = c
       /\ sleep_session[c] = IF co[c].at \in {"sleep", "wait"} THEN co[c].session ELSE 0
  /\ \A s \in Sessions :
       /\ watching_session[s] # None =>
            \E c \in Coroutines : co[c] = [at |-> "call", session |-> s]
       /\ session_id_coroutine[s] \in Coroutines => Suspended(session_id_coroutine[s])
       /\ session_id_coroutine[s] = "BREAK" => coming[s] = "timer"

\* The scheduler resumes only coroutines that are suspended, and no answer
\* meets a session that it has forgotten: error queue, wake-ups, timers that
\* come late and the errors of a service that is down never collide.  (After
\* skynet.exit they may: what was left in the error queue can be put there again.)
ResumeSound == exited = 0 => failed = "no"

\* When a message is dispatched completely no failed call and no wake-up is
\* left over, whatever the coroutines did in between, errors included.  The
\* exceptions: a coroutine woken twice leaves a token behind that has no
\* session, and dispatch_wakeup stops there; and skynet.exit leaves the suspend
\* it was called in.
QuietIsDrained ==
  mode = "idle" /\ exited = 0 => error_queue = <<>> /\ (wakeup_queue = <<>> \/ doubled)

\* A caller gets at most one answer until the service exits; and skynet.exit sees
\* to it that everyone has one then, unless the handler returned without one or
\* the caller is down.  (After it a coroutine that is resumed once more may
\* answer a second time.)
AnsweredOnce ==
  /\ [](exited = 0 => \A r \in Requests : answers[r] <= 1)
  /\ [][exited = 0 /\ exited' # 0 =>
          \A r \in Requests : source[r] \notin down \cup {None} =>
                                answers'[r] = 1 \/ r \in forgot]_svars

\* "no fork coroutine can be execute after skynet.exit": the fork loop of
\* dispatch_message finds none.
NoForkAfterExit ==
  exited # 0 /\ mode = "fork" => ToSet(fork_queue) \subseteq {"EMPTY"}
=============================================================================
