----------------------------- MODULE WorkerPool -----------------------------
(***************************************************************************)
(* The threads of skynet_start.c: workers that sleep on a condition        *)
(* variable when the global queue is empty, the timer and socket threads   *)
(* that wake them, and the end of the process when no service is left.     *)
(* Services are abstracted to the number of runnable queues (work) and the *)
(* number of contexts (total, skynet_context_total).                       *)
(*                                                                         *)
(* m->sleep and m->quit are written under the mutex but read without it by *)
(* wakeup() and by the worker loop, so every access is a step of its own.  *)
(***************************************************************************)
EXTENDS Integers, FiniteSets

CONSTANTS
  Workers,   \* m->count is their number
  Services,  \* contexts at the start
  MaxPush,   \* bound on the queues that become runnable
  Nobody     \* the mutex is free

ASSUME PoolAssumption ==
  /\ IsFiniteSet(Workers) /\ Workers # {}
  /\ Services \in Nat \ {0} /\ MaxPush \in Nat
  /\ Workers \cap {"timer", "socket", "monitor"} = {}
  /\ Nobody \notin Workers

Threads == Workers \cup {"timer", "socket", "monitor"}

VARIABLES
  work,    \* runnable queues in the global queue
  pushed,  \* runnable queues so far (bound)
  total,   \* G_NODE.total
  mutex, sleep, quit,  \* of struct monitor
  sockExit,  \* skynet_socket_exit was called
  pc

vars == <<work, pushed, total, mutex, sleep, quit, sockExit, pc>>

WorkerPC == {"check", "dispatch", "busy", "lock", "sleep", "test", "wait",
             "relock", "unsleep", "exit"}
TimerPC == {"update", "abort", "wakeup", "signal", "sockexit", "lock", "exit"}
SocketPC == {"poll", "abort", "wakeup", "signal", "exit"}

TypeOK ==
  /\ work \in 0 .. Services + MaxPush /\ pushed \in 0 .. MaxPush
  /\ total \in 0 .. Services + MaxPush
  /\ mutex \in Workers \cup {Nobody}
  /\ sleep \in 0 .. Cardinality(Workers)
  /\ quit \in BOOLEAN /\ sockExit \in BOOLEAN
  /\ \A w \in Workers : pc[w] \in WorkerPC
  /\ pc["timer"] \in TimerPC /\ pc["socket"] \in SocketPC
  /\ pc["monitor"] \in {"abort", "exit"}

\* The main thread launched the services, whose queues are listed, before it
\* starts the threads.
Init ==
  /\ work = Services /\ pushed = 0
  /\ total = Services
  /\ mutex = Nobody /\ sleep = 0 /\ quit = FALSE
  /\ sockExit = FALSE
  /\ pc = [t \in Threads |->
             CASE t \in Workers -> "check" [] t = "timer" -> "update"
               [] t = "socket" -> "poll" [] t = "monitor" -> "abort"]

Goto(t, l) == pc' = [pc EXCEPT ![t] = l]
At(t, l) == pc[t] = l

\* A message reaches a sleeping queue: skynet_globalmq_push.
PushWork ==
  /\ total > 0 /\ pushed < MaxPush
  /\ work' = work + 1 /\ pushed' = pushed + 1

-----------------------------------------------------------------------------
(* thread_worker.                                                          *)

CheckQuit(w) ==
  /\ At(w, "check")
  /\ Goto(w, IF quit THEN "exit" ELSE "dispatch")
  /\ UNCHANGED <<work, pushed, total, mutex, sleep, quit, sockExit>>

\* skynet_context_message_dispatch finds a queue, or returns NULL.
DispatchQueue(w) ==
  /\ At(w, "dispatch")
  /\ \/ work > 0 /\ work' = work - 1 /\ Goto(w, "busy")
     \/ work = 0 /\ Goto(w, "lock") /\ UNCHANGED work
  /\ UNCHANGED <<pushed, total, mutex, sleep, quit, sockExit>>

\* A callback sends to a service, launches one, or a service exits.
CallbackSends(w) ==
  /\ At(w, "busy") /\ PushWork
  /\ UNCHANGED <<total, mutex, sleep, quit, sockExit, pc>>

CallbackLaunches(w) ==
  /\ At(w, "busy") /\ PushWork
  /\ total' = total + 1
  /\ UNCHANGED <<mutex, sleep, quit, sockExit, pc>>

CallbackExits(w) ==
  /\ At(w, "busy") /\ total > 0
  /\ total' = total - 1
  /\ UNCHANGED <<work, pushed, mutex, sleep, quit, sockExit, pc>>

EndDispatch(w) ==
  /\ At(w, "busy") /\ Goto(w, "check")
  /\ UNCHANGED <<work, pushed, total, mutex, sleep, quit, sockExit>>

LockToSleep(w) ==
  /\ At(w, "lock") /\ mutex = Nobody
  /\ mutex' = w /\ Goto(w, "sleep")
  /\ UNCHANGED <<work, pushed, total, sleep, quit, sockExit>>

IncSleep(w) ==
  /\ At(w, "sleep")
  /\ sleep' = sleep + 1 /\ Goto(w, "test")
  /\ UNCHANGED <<work, pushed, total, mutex, quit, sockExit>>

WaitUnchecked(w) ==
  /\ At(w, "test")
  /\ mutex' = Nobody /\ Goto(w, "wait")
  /\ UNCHANGED <<work, pushed, total, sleep, quit, sockExit>>

\* if (!m->quit) pthread_cond_wait: unlock and wait in one step.
TestQuitAndWait(w) ==
  /\ At(w, "test")
  /\ \/ ~quit /\ mutex' = Nobody /\ Goto(w, "wait")
     \/ quit /\ Goto(w, "unsleep") /\ UNCHANGED mutex
  /\ UNCHANGED <<work, pushed, total, sleep, quit, sockExit>>

\* A spurious return of pthread_cond_wait.
SpuriousWakeup(w) ==
  /\ At(w, "wait") /\ Goto(w, "relock")
  /\ UNCHANGED <<work, pushed, total, mutex, sleep, quit, sockExit>>

Relock(w) ==
  /\ At(w, "relock") /\ mutex = Nobody
  /\ mutex' = w /\ Goto(w, "unsleep")
  /\ UNCHANGED <<work, pushed, total, sleep, quit, sockExit>>

\* -- m->sleep, pthread_mutex_unlock.
UnsleepForgotten(w) ==
  /\ At(w, "unsleep")
  /\ mutex' = Nobody /\ Goto(w, "check")
  /\ UNCHANGED <<work, pushed, total, sleep, quit, sockExit>>
Unsleep(w) ==
  /\ At(w, "unsleep")
  /\ sleep' = sleep - 1 /\ mutex' = Nobody /\ Goto(w, "check")
  /\ UNCHANGED <<work, pushed, total, quit, sockExit>>

-----------------------------------------------------------------------------
(* wakeup(m, busy), called by the timer and socket threads t.              *)

TestSleep(t, busy, next) ==
  /\ At(t, "wakeup")
  /\ Goto(t, IF sleep >= Cardinality(Workers) - busy THEN "signal" ELSE next)
  /\ UNCHANGED <<work, pushed, total, mutex, sleep, quit, sockExit>>

\* pthread_cond_signal, without the mutex: one waiting worker, if any.
Signal(t, next) ==
  /\ At(t, "signal")
  /\ \/ \E w \in Workers : At(w, "wait")
                            /\ pc' = [pc EXCEPT ![w] = "relock", ![t] = next]
     \/ (\A w \in Workers : ~At(w, "wait")) /\ Goto(t, next)
  /\ UNCHANGED <<work, pushed, total, mutex, sleep, quit, sockExit>>

-----------------------------------------------------------------------------
(* thread_timer.                                                           *)

\* skynet_updatetime may push responses to services (and SIGHUP to logger).
UpdateTime ==
  /\ At("timer", "update") /\ Goto("timer", "abort")
  /\ PushWork \/ UNCHANGED <<work, pushed>>
  /\ UNCHANGED <<total, mutex, sleep, quit, sockExit>>

TimerAbort ==
  /\ At("timer", "abort")
  /\ Goto("timer", IF total = 0 THEN "sockexit" ELSE "wakeup")
  /\ UNCHANGED <<work, pushed, total, mutex, sleep, quit, sockExit>>

WakeupStrict == TestSleep("timer", -1, "update")
TimerWakeup == TestSleep("timer", Cardinality(Workers) - 1, "update")

TimerSignal == Signal("timer", "update")

SocketExit ==
  /\ At("timer", "sockexit") /\ Goto("timer", "lock")
  /\ sockExit' = TRUE
  /\ UNCHANGED <<work, pushed, total, mutex, sleep, quit>>

SetQuitNoBroadcast ==
  /\ At("timer", "lock") /\ mutex = Nobody
  /\ quit' = TRUE
  /\ pc' = [pc EXCEPT !["timer"] = "exit"]
  /\ UNCHANGED <<work, pushed, total, mutex, sleep, sockExit>>

\* Lock, m->quit = 1, pthread_cond_broadcast, unlock.
SetQuit ==
  /\ At("timer", "lock") /\ mutex = Nobody
  /\ quit' = TRUE
  /\ pc' = [t \in Threads |-> IF t = "timer" THEN "exit"
                              ELSE IF t \in Workers /\ At(t, "wait") THEN "relock"
                              ELSE pc[t]]
  /\ UNCHANGED <<work, pushed, total, mutex, sleep, sockExit>>

-----------------------------------------------------------------------------
(* thread_socket and thread_monitor.                                       *)

\* skynet_socket_poll takes one event, which may list a queue (forward_message)
\* or not.  It returns 1 for the first event after a wait, when socket_server_poll
\* has cleared more, and the thread calls wakeup; for the other events of the same
\* batch (and for an unknown type) it returns -1, and the queue is left to the
\* workers that are awake and to the timer's wakeup.  The rest of a batch comes
\* before the exit command is read from the pipe.
PollEvent ==
  /\ At("socket", "poll")
  /\ PushWork \/ UNCHANGED <<work, pushed>>
  /\ \E l \in {"wakeup", "abort"} : Goto("socket", l)
  /\ UNCHANGED <<total, mutex, sleep, quit, sockExit>>

\* SOCKET_EXIT: r = 0.
PollExit ==
  /\ At("socket", "poll") /\ sockExit
  /\ Goto("socket", "exit")
  /\ UNCHANGED <<work, pushed, total, mutex, sleep, quit, sockExit>>

SocketAbort ==
  /\ At("socket", "abort")
  /\ Goto("socket", IF total = 0 THEN "exit" ELSE "poll")
  /\ UNCHANGED <<work, pushed, total, mutex, sleep, quit, sockExit>>

SocketWakeup == TestSleep("socket", 0, "poll")

SocketSignal == Signal("socket", "poll")

MonitorAbort ==
  /\ At("monitor", "abort") /\ total = 0
  /\ Goto("monitor", "exit")
  /\ UNCHANGED <<work, pushed, total, mutex, sleep, quit, sockExit>>

\* start() joined every thread.
Joined ==
  /\ \A t \in Threads : pc[t] = "exit"
  /\ UNCHANGED vars

-----------------------------------------------------------------------------
WorkerStep(w) == \/ CheckQuit(w) \/ DispatchQueue(w) \/ EndDispatch(w)
                 \/ LockToSleep(w) \/ IncSleep(w) \/ TestQuitAndWait(w)
                 \/ Relock(w) \/ Unsleep(w)

ServiceCode(w) == CallbackSends(w) \/ CallbackLaunches(w) \/ CallbackExits(w)

TimerStep == \/ UpdateTime \/ TimerAbort \/ TimerWakeup \/ TimerSignal
             \/ SocketExit \/ SetQuit

SocketStep == PollEvent \/ PollExit \/ SocketAbort \/ SocketWakeup \/ SocketSignal

Next == \/ \E w \in Workers : WorkerStep(w) \/ ServiceCode(w) \/ SpuriousWakeup(w)
        \/ TimerStep \/ SocketStep \/ MonitorAbort \/ Joined

Spec == Init /\ [][Next]_vars

\* Threads are scheduled, dispatches end, and a thread that wants the mutex
\* gets it when it is free again and again.  The socket thread may block in
\* poll: only the exit command is certain to wake it, and since a batch of events
\* is finite the command is read after finitely many of them.
Fairness ==
  /\ \A w \in Workers : SF_vars(WorkerStep(w))
  /\ SF_vars(TimerStep)
  /\ WF_vars(SocketAbort \/ SocketWakeup \/ SocketSignal)
  /\ SF_vars(PollExit)
  /\ WF_vars(MonitorAbort)

FairSpec == Spec /\ Fairness

-----------------------------------------------------------------------------
\* m->sleep counts the workers between ++ and --, so wakeup() and the test of
\* "all are asleep" are right whenever they are not stale.
SleepCount ==
  /\ TypeOK
  /\ sleep = Cardinality({w \in Workers : pc[w] \in {"test", "wait", "relock", "unsleep"}})

\* When the timer thread has broadcast and left, no worker is left asleep:
\* nobody would ever wake it and start() would wait for it for ever.
NoneAsleepAfterQuit ==
  pc["timer"] = "exit" => \A w \in Workers : pc[w] # "wait"

\* A runnable queue is taken although wakeup() reads m->sleep without the
\* mutex, its signal may come before the wait, and the socket thread does not
\* call it for every event it forwards: the next tick repeats it.
WorkIsTaken == work > 0 ~> work = 0 \/ total = 0

\* When no service is left every thread ends and start() returns.
AllThreadsEnd == total = 0 ~> \A t \in Threads : pc[t] = "exit"
=============================================================================
