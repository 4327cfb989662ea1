------------------------------ MODULE LuaQueue ------------------------------
(***************************************************************************)
(* skynet.queue (lualib/skynet/queue.lua), a critical section for the      *)
(* coroutines of one service, on top of LuaScheduler: the section is held  *)
(* across yields and handed to the first waiter with skynet.wakeup.        *)
(***************************************************************************)
EXTENDS LuaScheduler

CONSTANTS MaxRef  \* bound on how often the holder enters

ASSUME QueueAssumption == MaxRef \in Nat \ {0}

VARIABLES
  current_thread, ref, thread_queue,   \* the upvalues of skynet.queue
  inside,    \* per coroutine: calls of the section on its stack
  waiting,   \* per coroutine: it is in the skynet.wait of the section
  broken     \* coroutines that met assert(ref == 0) false

qvars == <<current_thread, ref, thread_queue, inside, waiting, broken>>
vars == <<svars, qvars>>

TypeOK ==
  /\ SchedulerTypeOK /\ StackTypeOK
  /\ current_thread \in Coroutines \cup {None} /\ ref \in 0 .. MaxRef
  /\ thread_queue \in Seq(Coroutines)
  /\ inside \in [Coroutines -> Nat]
  /\ waiting \in [Coroutines -> BOOLEAN] /\ broken \subseteq Coroutines

Init ==
  /\ SchedulerInit
  /\ current_thread = None /\ ref = 0 /\ thread_queue = <<>>
  /\ inside = [c \in Coroutines |-> 0]
  /\ waiting = [c \in Coroutines |-> FALSE]
  /\ broken = {}

-----------------------------------------------------------------------------
\* The section is free, or held by this coroutine: go on.
Enter(c) ==
  /\ Running(c) /\ ~waiting[c] /\ current_thread \in {None, c} /\ ref < MaxRef
  /\ current_thread' = c
  /\ ref' = ref + 1
  /\ inside' = [inside EXCEPT ![c] = @ + 1]
  /\ UNCHANGED <<svars, thread_queue, waiting, broken>>

\* Held by another: queue up and skynet.wait.
EnterWait(c) ==
  /\ ~waiting[c] /\ current_thread \notin {None, c}
  /\ Wait(c)
  /\ thread_queue' = Append(thread_queue, c)
  /\ waiting' = [waiting EXCEPT ![c] = TRUE]
  /\ UNCHANGED <<current_thread, ref, inside, broken>>

\* The waiter runs again: assert(ref == 0), then it is the holder.
EnterWoken(c) ==
  /\ Running(c) /\ waiting[c]
  /\ waiting' = [waiting EXCEPT ![c] = FALSE]
  /\ IF ref = 0
     THEN /\ current_thread' = c /\ ref' = 1
          /\ inside' = [inside EXCEPT ![c] = @ + 1]
          /\ UNCHANGED <<svars, broken>>
     ELSE /\ broken' = broken \cup {c}
          /\ Raise(c)
          /\ UNCHANGED <<current_thread, ref, inside>>
  /\ UNCHANGED thread_queue

\* xpcall_ret: the last call leaves and hands the section to the next.
HandOverOpen(next) == current_thread' = None
HandOver(next) == current_thread' = next

Leave(c) ==
  /\ Running(c) /\ ~waiting[c] /\ inside[c] > 0
  /\ inside' = [inside EXCEPT ![c] = @ - 1]
  /\ ref' = ref - 1
  /\ IF ref = 1
     THEN IF thread_queue = <<>>
          THEN HandOver(None) /\ UNCHANGED <<wakeup_queue, doubled, thread_queue>>
          ELSE /\ HandOver(Head(thread_queue))
               /\ WakeupEffect(Head(thread_queue))
               /\ thread_queue' = Tail(thread_queue)
     ELSE UNCHANGED <<current_thread, thread_queue, wakeup_queue, doubled>>
  /\ UNCHANGED <<mode, run, stack, co, session, tables, error_queue, fork_queue, coming,
                 serving, down, failed, waiting, broken>>

\* Application code outside of the queue functions.  It does not wake the
\* coroutines that wait in the queue.
Application(c) ==
  /\ ~waiting[c]
  /\ \/ \E d \in Services : Call(c, d)
     \/ Sleep(c) \/ Wait(c)
     \/ \E t \in Coroutines : ~waiting[t] /\ Wakeup(c, t)
     \/ Fork(c) \/ Timeout(c)
     \/ Ret(c) \/ TakeResponse(c) \/ (\E r \in Requests : CallResponse(c, r))
     \/ inside[c] = 0 /\ (Return(c) \/ Raise(c))
  /\ UNCHANGED qvars

ExitService(c) ==
  /\ ~waiting[c] /\ Exit(c)
  /\ UNCHANGED qvars

Section(c) == Enter(c) \/ EnterWait(c) \/ EnterWoken(c) \/ Leave(c)

Next ==
  /\ failed = "no"
  /\ \/ (Machine \/ Message) /\ UNCHANGED qvars
     \/ \E c \in Coroutines : Application(c) \/ Section(c) \/ ExitService(c)

Spec == Init /\ [][Next]_vars

-----------------------------------------------------------------------------
\* The scheduler is sound under the section: its tables agree, it resumes only
\* what is suspended, and it leaves nothing over.
SchedulerSound == TypeOK /\ TablesAgree /\ ResumeSound /\ QuietIsDrained

\* The section is held by one coroutine at a time, across its yields, and
\* ref counts its calls, after skynet.exit too; assert(ref == 0) after the wait
\* never fails before it, unless a coroutine was woken twice.
OneInside ==
  /\ \A c, d \in Coroutines : inside[c] > 0 /\ inside[d] > 0 => c = d
  /\ \A c \in Coroutines : inside[c] > 0 => inside[c] = ref /\ current_thread = c
  /\ exited = 0 => broken = {} \/ doubled

\* No hand-over is lost: when a message is dispatched completely and coroutines
\* still wait for the section, another one is inside and has yielded there.
\* Whoever was handed the section has it, although others arrived between the
\* hand-over and its wake-up, or died.  (Until the service exits.)
HandedOver ==
  mode = "idle" /\ exited = 0 /\ ~doubled /\ (\E c \in Coroutines : waiting[c]) =>
    \E d \in Coroutines : inside[d] > 0 /\ Suspended(d)
=============================================================================
