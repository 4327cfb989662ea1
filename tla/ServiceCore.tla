---------------------------- MODULE ServiceCore ----------------------------
(***************************************************************************)
(* Life of a service: its reference-counted context, its message queue,    *)
(* the global queue of runnable queues, and the threads that launch,       *)
(* send to, dispatch and kill services (skynet_server.c, skynet_mq.c).     *)
(*                                                                         *)
(* A thread runs nested calls, each with its own locals:                   *)
(*   the worker loop      wpc, left        ctx = hold[t,"worker"]          *)
(*                                         q, nq = have[t,"q"], have[t,"nq"]*)
(*   skynet_context_new   lnch             ctx = hold[t,"launch"]          *)
(*                                         queue = have[t,"launch"]        *)
(*   _drop_queue                           q = have[t,"drain"]             *)
(*   a push or a release  op               ctx = hold[t,"op"]              *)
(* hold is a ctx pointer that owns one count of ctx->ref; have is a queue  *)
(* pointer that is the queue's only way back to the global queue.  A frame *)
(* moves only when the frames it called are finished.                      *)
(*                                                                         *)
(* A critical section under a spinlock or the rwlock, and a __sync         *)
(* operation, is one step.  A service stands for its handle: handles are   *)
(* not reused (HandleStorage studies the table that allocates them).       *)
(***************************************************************************)
EXTENDS Integers, Sequences, FiniteSets

CONSTANTS
  Services,   \* handles that can be launched, each at most once
  Threads,    \* worker threads and the main, timer and socket threads
  Workers,    \* the threads that run thread_worker
  Greedy,     \* the workers of weight >= 0: they dispatch a batch
  NoService,  \* NULL, handle 0
  MaxSend     \* bound on the messages sent by callbacks and by threads

ASSUME ConstantsAssumption ==
  /\ IsFiniteSet(Threads) /\ IsFiniteSet(Services)
  /\ Workers \subseteq Threads
  /\ Greedy \subseteq Workers
  /\ NoService \notin Services
  /\ MaxSend \in Nat

VARIABLES
  reg,       \* services in the handle table (H->slot)
  ctx,       \* memory of the context: "none", "live", "freed"
  ref,       \* ctx->ref
  inited,    \* ctx->init
  queue,     \* memory of the queue: "none", "live", "freed"
  msgs,      \* the messages of the queue, each named by its source
  inGlobal,  \* q->in_global
  release,   \* q->release
  global,    \* Q, the global queue
  total,     \* G_NODE.total
  reserved,  \* contexts kept by skynet_context_reserve
  sent,      \* messages sent so far (bound)
  hold, have, wpc, left, lnch, op

heap == <<ctx, ref, inited, queue>>
mq == <<msgs, inGlobal, release, global>>
node == <<reg, total, reserved, sent>>
vars == <<heap, mq, node, hold, have, wpc, left, lnch, op>>

HoldFrames == Threads \X {"worker", "launch", "op"}
HaveFrames == Threads \X {"q", "nq", "launch", "drain"}
MaybeService == Services \cup {NoService}

WorkerPC == {"idle", "grab", "pop", "len", "run", "callback", "next",
             "back", "unref", "unrefidle"}
LaunchPC == {"none", "init", "setinit", "pushq", "pushnull", "log",
             "retire", "mqrelease"}
OpPC == {"none", "grab", "push", "unref", "mark", "free"}

NoOp == [pc |-> "none", svc |-> NoService, src |-> NoService]
NoLaunch == [pc |-> "none", svc |-> NoService]

\* The message queue is somewhere in the global list.
Listed(s) == \E i \in DOMAIN global : global[i] = s

TypeOK ==
  /\ reg \subseteq Services
  /\ ctx \in [Services -> {"none", "live", "freed"}]
  /\ ref \in [Services -> Int]
  /\ inited \in [Services -> BOOLEAN]
  /\ queue \in [Services -> {"none", "live", "freed"}]
  /\ msgs \in [Services -> Seq(MaybeService)]
  /\ inGlobal \in [Services -> BOOLEAN]
  /\ release \in [Services -> BOOLEAN]
  /\ global \in Seq(Services)
  /\ total \in Int
  /\ reserved \subseteq Services
  /\ sent \in Nat
  /\ hold \in [HoldFrames -> MaybeService]
  /\ have \in [HaveFrames -> MaybeService]
  /\ wpc \in [Threads -> WorkerPC]
  /\ left \in [Threads -> Nat]
  /\ lnch \in [Threads -> [pc : LaunchPC, svc : MaybeService]]
  /\ op \in [Threads -> [pc : OpPC, svc : MaybeService, src : MaybeService]]

Init ==
  /\ reg = {}
  /\ ctx = [s \in Services |-> "none"]
  /\ ref = [s \in Services |-> 0]
  /\ inited = [s \in Services |-> FALSE]
  /\ queue = [s \in Services |-> "none"]
  /\ msgs = [s \in Services |-> <<>>]
  /\ inGlobal = [s \in Services |-> FALSE]
  /\ release = [s \in Services |-> FALSE]
  /\ global = <<>>
  /\ total = 0
  /\ reserved = {}
  /\ sent = 0
  /\ hold = [x \in HoldFrames |-> NoService]
  /\ have = [x \in HaveFrames |-> NoService]
  /\ wpc = [t \in Threads |-> IF t \in Workers THEN "idle" ELSE "callback"]
  /\ left = [t \in Threads |-> 0]
  /\ lnch = [t \in Threads |-> NoLaunch]
  /\ op = [t \in Threads |-> NoOp]

-----------------------------------------------------------------------------
(* Which frame of a thread may move.  A thread that is not a worker (main, *)
(* timer, socket) calls the same functions from its own loop: it is always *)
(* in "callback".                                                          *)

OpIdle(t) == op[t].pc = "none"
Returned(t) == OpIdle(t) /\ have[<<t, "drain">>] = NoService
LaunchIdle(t) == Returned(t) /\ lnch[t].pc = "none"

\* Service code runs: a callback, or the init function of a module.
InService(t) ==
  /\ Returned(t)
  /\ \/ lnch[t].pc = "init"
     \/ lnch[t].pc = "none" /\ wpc[t] = "callback"

\* The context on whose behalf the thread calls (0 for the other threads).
Self(t) == IF lnch[t].pc = "init" THEN lnch[t].svc ELSE hold[<<t, "worker">>]

-----------------------------------------------------------------------------
(* Steps shared by several callers.                                        *)

\* skynet_context_grab: ATOM_INC(&ctx->ref).
Grabbed(s) == [ref EXCEPT ![s] = @ + 1]

\* ATOM_DEC(&ctx->ref) == 0: the caller deletes the context.
LastRef(s) == ref[s] = 1

\* The global list after a push or a mark of queue d, under the lock of d:
\* a sleeping queue is listed.
EnlistNever(d) == global
Enlist(d) == IF inGlobal[d] THEN global ELSE Append(global, d)

-----------------------------------------------------------------------------
(* Sending: skynet_send to a local handle is skynet_context_push.          *)

Send(t, d) ==
  /\ InService(t)
  /\ sent < MaxSend
  /\ sent' = sent + 1
  /\ op' = [op EXCEPT ![t] = [pc |-> "grab", svc |-> d, src |-> Self(t)]]
  /\ UNCHANGED <<heap, mq, reg, total, reserved, hold, have, wpc, left, lnch>>

\* skynet_handle_grab of the destination; a dead one ends the push.
PushGrab(t) ==
  LET d == op[t].svc IN
  /\ op[t].pc = "grab"
  /\ \/ /\ d \in reg
        /\ ref' = Grabbed(d)
        /\ hold' = [hold EXCEPT ![<<t, "op">>] = d]
        /\ op' = [op EXCEPT ![t].pc = "push"]
     \/ /\ d \notin reg
        /\ op' = [op EXCEPT ![t] = NoOp]
        /\ UNCHANGED <<ref, hold>>
  /\ UNCHANGED <<ctx, inited, queue, mq, node, have, wpc, left, lnch>>

\* skynet_mq_push, which also puts a sleeping queue on the global list.
MqPush(t) ==
  LET d == hold[<<t, "op">>] IN
  /\ op[t].pc = "push"
  /\ msgs' = [msgs EXCEPT ![d] = Append(@, op[t].src)]
  /\ inGlobal' = [inGlobal EXCEPT ![d] = TRUE]
  /\ global' = Enlist(d)
  /\ op' = [op EXCEPT ![t].pc = "unref"]
  /\ UNCHANGED <<heap, release, node, hold, have, wpc, left, lnch>>

\* skynet_harbor_send: skynet_context_send pushes to the reserved context
\* through the pointer REMOTE, with no lookup and no grab.
HarborSend(t, d) ==
  /\ InService(t)
  /\ d \in reserved
  /\ sent < MaxSend
  /\ sent' = sent + 1
  /\ msgs' = [msgs EXCEPT ![d] = Append(@, Self(t))]
  /\ inGlobal' = [inGlobal EXCEPT ![d] = TRUE]
  /\ global' = Enlist(d)
  /\ UNCHANGED <<heap, release, reg, total, reserved, hold, have, wpc, left, lnch, op>>

-----------------------------------------------------------------------------
(* Releasing a context.                                                    *)

\* ATOM_DEC(&ctx->ref) by frame f of thread t; at zero delete_context runs.
DecRef(t, f, s) ==
  /\ ref' = [ref EXCEPT ![s] = @ - 1]
  /\ hold' = [hold EXCEPT ![<<t, f>>] = NoService]
  /\ op' = [op EXCEPT ![t] =
              IF LastRef(s) THEN [pc |-> "mark", svc |-> s, src |-> NoService]
                              ELSE NoOp]

OpUnref(t) ==
  /\ op[t].pc = "unref"
  /\ DecRef(t, "op", hold[<<t, "op">>])
  /\ UNCHANGED <<ctx, inited, queue, mq, node, have, wpc, left, lnch>>

\* delete_context up to skynet_mq_mark_release, which lists a sleeping queue
\* without setting in_global.
MarkRelease(t) ==
  LET s == op[t].svc IN
  /\ op[t].pc = "mark"
  /\ release' = [release EXCEPT ![s] = TRUE]
  /\ global' = Enlist(s)
  /\ op' = [op EXCEPT ![t].pc = "free"]
  /\ UNCHANGED <<heap, msgs, inGlobal, node, hold, have, wpc, left, lnch>>

\* The end of delete_context: skynet_free(ctx), context_dec().
FreeContext(t) ==
  /\ op[t].pc = "free"
  /\ ctx' = [ctx EXCEPT ![op[t].svc] = "freed"]
  /\ total' = total - 1
  /\ op' = [op EXCEPT ![t] = NoOp]
  /\ UNCHANGED <<ref, inited, queue, mq, reg, reserved, sent, hold, have, wpc,
                 left, lnch>>

-----------------------------------------------------------------------------
(* Killing: skynet_handle_retire moves the reference of the handle table   *)
(* to the caller, which releases it outside the lock.                      *)

Retire(t, s) ==
  /\ reg' = reg \ {s}
  /\ hold' = [hold EXCEPT ![<<t, "op">>] = s]
  /\ op' = [op EXCEPT ![t] = [pc |-> "unref", svc |-> s, src |-> NoService]]

Kill(t, s) ==
  /\ InService(t)
  /\ s \in reg
  /\ Retire(t, s)
  /\ UNCHANGED <<heap, mq, total, reserved, sent, have, wpc, left, lnch>>

-----------------------------------------------------------------------------
(* Launching: skynet_context_new.                                          *)

\* Up to the call of the module's init, with r references and in_global = g.
\* Nothing but the new service knows the handle before init runs.
LaunchWith(t, s, r, g) ==
  /\ InService(t) /\ lnch[t].pc = "none"
  /\ ctx[s] = "none"
  /\ ctx' = [ctx EXCEPT ![s] = "live"]
  /\ ref' = [ref EXCEPT ![s] = r]
  /\ queue' = [queue EXCEPT ![s] = "live"]
  /\ inGlobal' = [inGlobal EXCEPT ![s] = g]
  /\ reg' = reg \cup {s}
  /\ total' = total + 1
  /\ hold' = [hold EXCEPT ![<<t, "launch">>] = s]
  /\ have' = [have EXCEPT ![<<t, "launch">>] = s]
  /\ lnch' = [lnch EXCEPT ![t] = [pc |-> "init", svc |-> s]]
  /\ UNCHANGED <<inited, msgs, release, global, reserved, sent, wpc, left, op>>

LaunchSleeping(t, s) == LaunchWith(t, s, 2, FALSE)
LaunchOneRef(t, s) == LaunchWith(t, s, 1, TRUE)

\* The handle table and this call own the two references; the queue has
\* in_global set but is not on the list, so that no push can list it.
Launch(t, s) == LaunchWith(t, s, 2, TRUE)

\* The harbor service reserves itself in its init (skynet_harbor_start).
ReserveWith(t, k) ==
  LET s == lnch[t].svc IN
  /\ Returned(t) /\ lnch[t].pc = "init"
  /\ reserved = {}
  /\ reserved' = {s}
  /\ ref' = Grabbed(s)
  /\ total' = total - k
  /\ UNCHANGED <<ctx, inited, queue, mq, reg, sent, hold, have, wpc, left, lnch, op>>

ReserveCounted(t) == ReserveWith(t, 0)
Reserve(t) == ReserveWith(t, 1)

\* init returned 0: skynet_context_release; NULL when the service is gone.
InitOk(t) ==
  LET s == lnch[t].svc IN
  /\ Returned(t) /\ lnch[t].pc = "init"
  /\ DecRef(t, "launch", s)
  /\ lnch' = [lnch EXCEPT ![t].pc = IF LastRef(s) THEN "pushnull" ELSE "setinit"]
  /\ UNCHANGED <<ctx, inited, queue, mq, node, have, wpc, left>>

\* ctx->init = true, through a pointer that owns no reference any more.
SetInit(t) ==
  /\ Returned(t) /\ lnch[t].pc = "setinit"
  /\ inited' = [inited EXCEPT ![lnch[t].svc] = TRUE]
  /\ lnch' = [lnch EXCEPT ![t].pc = "pushq"]
  /\ UNCHANGED <<ctx, ref, queue, mq, node, hold, have, wpc, left, op>>

\* skynet_globalmq_push(queue): the service becomes runnable.
LaunchPushQueue(t) ==
  /\ Returned(t) /\ lnch[t].pc \in {"pushq", "pushnull"}
  /\ global' = Append(global, have[<<t, "launch">>])
  /\ have' = [have EXCEPT ![<<t, "launch">>] = NoService]
  /\ lnch' = [lnch EXCEPT ![t] =
                IF @.pc = "pushq" THEN [@ EXCEPT !.pc = "log"] ELSE NoLaunch]
  /\ UNCHANGED <<heap, msgs, inGlobal, release, node, hold, wpc, left, op>>

\* skynet_error(ret, "LAUNCH") and the caller's use of the returned context.
LaunchReturn(t) ==
  /\ Returned(t) /\ lnch[t].pc = "log"
  /\ lnch' = [lnch EXCEPT ![t] = NoLaunch]
  /\ UNCHANGED <<heap, mq, node, hold, have, wpc, left, op>>

\* init failed: release, then retire the handle, then release the queue.
InitFail(t) ==
  /\ Returned(t) /\ lnch[t].pc = "init"
  /\ DecRef(t, "launch", lnch[t].svc)
  /\ lnch' = [lnch EXCEPT ![t].pc = "retire"]
  /\ UNCHANGED <<ctx, inited, queue, mq, node, have, wpc, left>>

FailRetire(t) ==
  LET s == lnch[t].svc IN
  /\ Returned(t) /\ lnch[t].pc = "retire"
  /\ lnch' = [lnch EXCEPT ![t].pc = "mqrelease"]
  /\ IF s \in reg THEN Retire(t, s) ELSE UNCHANGED <<reg, hold, op>>
  /\ UNCHANGED <<heap, mq, total, reserved, sent, have, wpc, left>>

-----------------------------------------------------------------------------
(* Releasing a queue: skynet_mq_release and _drop_queue.                   *)

\* A queue not yet marked goes back on the list, a marked one is drained.
MqRelease(t, f, s) ==
  \/ /\ release[s]
     /\ have' = [have EXCEPT ![<<t, f>>] = NoService, ![<<t, "drain">>] = s]
     /\ UNCHANGED global
  \/ /\ ~release[s]
     /\ have' = [have EXCEPT ![<<t, f>>] = NoService]
     /\ global' = Append(global, s)

FailMqRelease(t) ==
  /\ Returned(t) /\ lnch[t].pc = "mqrelease"
  /\ MqRelease(t, "launch", lnch[t].svc)
  /\ lnch' = [lnch EXCEPT ![t] = NoLaunch]
  /\ UNCHANGED <<heap, msgs, inGlobal, release, node, hold, wpc, left, op>>

\* One round of _drop_queue: pop a message, drop_message sends PTYPE_ERROR to
\* its source (nothing to send for source 0).
DrainPop(t) ==
  LET s == have[<<t, "drain">>] IN
  /\ OpIdle(t) /\ s # NoService
  /\ msgs[s] # <<>>
  /\ msgs' = [msgs EXCEPT ![s] = Tail(@)]
  /\ op' = [op EXCEPT ![t] =
              IF Head(msgs[s]) = NoService THEN NoOp
              ELSE [pc |-> "grab", svc |-> Head(msgs[s]), src |-> s]]
  /\ UNCHANGED <<heap, inGlobal, release, global, node, hold, have, wpc, left, lnch>>

\* The last, empty pop clears in_global; _release frees the queue.
DrainFree(t) ==
  LET s == have[<<t, "drain">>] IN
  /\ OpIdle(t) /\ s # NoService
  /\ msgs[s] = <<>>
  /\ inGlobal' = [inGlobal EXCEPT ![s] = FALSE]
  /\ queue' = [queue EXCEPT ![s] = "freed"]
  /\ have' = [have EXCEPT ![<<t, "drain">>] = NoService]
  /\ UNCHANGED <<ctx, ref, inited, msgs, release, global, node, hold, wpc, left,
                 lnch, op>>

-----------------------------------------------------------------------------
(* The worker: skynet_context_message_dispatch.                            *)

WorkerAt(t, pc) == t \in Workers /\ LaunchIdle(t) /\ wpc[t] = pc

\* q = skynet_globalmq_pop() by a worker that has no queue.
GlobalPop(t) ==
  /\ WorkerAt(t, "idle") /\ global # <<>>
  /\ global' = Tail(global)
  /\ have' = [have EXCEPT ![<<t, "q">>] = Head(global)]
  /\ wpc' = [wpc EXCEPT ![t] = "grab"]
  /\ UNCHANGED <<heap, msgs, inGlobal, release, node, hold, left, lnch, op>>

\* skynet_handle_grab(handle) of the service whose queue this is.
WorkerGrab(t) ==
  LET s == have[<<t, "q">>] IN
  /\ WorkerAt(t, "grab") /\ s \in reg
  /\ ref' = Grabbed(s)
  /\ hold' = [hold EXCEPT ![<<t, "worker">>] = s]
  /\ wpc' = [wpc EXCEPT ![t] = "pop"]
  /\ left' = [left EXCEPT ![t] = 0]
  /\ UNCHANGED <<ctx, inited, queue, mq, node, have, lnch, op>>

\* The service is gone: skynet_mq_release the queue, then look for another.
WorkerDead(t) ==
  LET s == have[<<t, "q">>] IN
  /\ WorkerAt(t, "grab") /\ s \notin reg
  /\ MqRelease(t, "q", s)
  /\ wpc' = [wpc EXCEPT ![t] = "idle"]
  /\ UNCHANGED <<heap, msgs, inGlobal, release, node, hold, left, lnch, op>>

\* skynet_mq_pop of an empty queue leaves in_global = g.
PopEmptyWith(t, g) ==
  LET s == have[<<t, "q">>] IN
  /\ WorkerAt(t, "pop") /\ msgs[s] = <<>>
  /\ inGlobal' = [inGlobal EXCEPT ![s] = g]
  /\ have' = [have EXCEPT ![<<t, "q">>] = NoService]
  /\ wpc' = [wpc EXCEPT ![t] = "unrefidle"]
  /\ UNCHANGED <<heap, msgs, release, global, node, hold, left, lnch, op>>

PopEmptyKeepFlag(t) == PopEmptyWith(t, TRUE)

\* The queue sleeps until the next push.
PopEmpty(t) == PopEmptyWith(t, FALSE)

\* skynet_mq_pop of a message.  left is n - i, the rounds left in the batch,
\* and is 0 exactly on the first round of a dispatch.
PopMessage(t) ==
  LET s == have[<<t, "q">>] IN
  /\ WorkerAt(t, "pop") /\ msgs[s] # <<>>
  /\ msgs' = [msgs EXCEPT ![s] = Tail(@)]
  /\ wpc' = [wpc EXCEPT ![t] =
               IF left[t] = 0 /\ t \in Greedy THEN "len" ELSE "run"]
  /\ UNCHANGED <<heap, inGlobal, release, global, node, hold, have, left, lnch, op>>

\* n = skynet_mq_length(q): the batch of a worker of weight >= 0.
BatchLength(t) ==
  /\ WorkerAt(t, "len")
  /\ left' = [left EXCEPT ![t] = Len(msgs[have[<<t, "q">>]])]
  /\ wpc' = [wpc EXCEPT ![t] = "run"]
  /\ UNCHANGED <<heap, mq, node, hold, have, lnch, op>>

\* dispatch_message calls the service, which may send, kill and launch.
Dispatch(t) ==
  /\ WorkerAt(t, "run")
  /\ wpc' = [wpc EXCEPT ![t] = "callback"]
  /\ UNCHANGED <<heap, mq, node, hold, have, left, lnch, op>>

\* The rounds left after one more, never below 0.
RoundsAfter(n) == IF n > 1 THEN n - 1 ELSE 0

\* The round ends: the callback returned, or there was none (cb == NULL) and
\* the message was freed.
EndRound(t) ==
  /\ t \in Workers /\ LaunchIdle(t) /\ wpc[t] \in {"run", "callback"}
  /\ wpc' = [wpc EXCEPT ![t] = IF left[t] > 1 THEN "pop" ELSE "next"]
  /\ left' = [left EXCEPT ![t] = RoundsAfter(@)]
  /\ UNCHANGED <<heap, mq, node, hold, have, lnch, op>>

\* nq = skynet_globalmq_pop() at the end of the batch; with no other queue
\* the worker keeps q.
NextQueue(t) ==
  /\ WorkerAt(t, "next")
  /\ \/ /\ global = <<>>
        /\ wpc' = [wpc EXCEPT ![t] = "unref"]
        /\ UNCHANGED <<global, have>>
     \/ /\ global # <<>>
        /\ global' = Tail(global)
        /\ have' = [have EXCEPT ![<<t, "nq">>] = Head(global)]
        /\ wpc' = [wpc EXCEPT ![t] = "back"]
  /\ UNCHANGED <<heap, msgs, inGlobal, release, node, hold, left, lnch, op>>

\* skynet_globalmq_push(q); q = nq.
PushBack(t) ==
  /\ WorkerAt(t, "back")
  /\ global' = Append(global, have[<<t, "q">>])
  /\ have' = [have EXCEPT ![<<t, "q">>] = have[<<t, "nq">>],
                          ![<<t, "nq">>] = NoService]
  /\ wpc' = [wpc EXCEPT ![t] = "unref"]
  /\ UNCHANGED <<heap, msgs, inGlobal, release, node, hold, left, lnch, op>>

\* skynet_context_release(ctx) at the end of the dispatch.
WorkerUnref(t) ==
  /\ t \in Workers /\ LaunchIdle(t) /\ wpc[t] \in {"unref", "unrefidle"}
  /\ DecRef(t, "worker", hold[<<t, "worker">>])
  /\ wpc' = [wpc EXCEPT ![t] = IF @ = "unref" THEN "grab" ELSE "idle"]
  /\ UNCHANGED <<ctx, inited, queue, mq, node, have, left, lnch>>

-----------------------------------------------------------------------------
OpStep(t) == PushGrab(t) \/ MqPush(t) \/ OpUnref(t) \/ MarkRelease(t) \/ FreeContext(t)

DrainStep(t) == DrainPop(t) \/ DrainFree(t)

LaunchStep(t) == \/ InitOk(t) \/ InitFail(t) \/ SetInit(t) \/ LaunchPushQueue(t)
                 \/ LaunchReturn(t) \/ FailRetire(t) \/ FailMqRelease(t)

WorkerStep(t) == \/ GlobalPop(t) \/ WorkerGrab(t) \/ WorkerDead(t) \/ PopEmpty(t)
                 \/ PopMessage(t) \/ BatchLength(t) \/ Dispatch(t) \/ EndRound(t)
                 \/ NextQueue(t) \/ PushBack(t) \/ WorkerUnref(t)

\* What service code, or the loop of another thread, chooses to call.
Call(t) == \/ \E s \in Services : Send(t, s) \/ HarborSend(t, s) \/ Kill(t, s) \/ Launch(t, s)
           \/ Reserve(t)

Next == \E t \in Threads : OpStep(t) \/ DrainStep(t) \/ LaunchStep(t)
                             \/ WorkerStep(t) \/ Call(t)

Spec == Init /\ [][Next]_vars

\* Threads are scheduled, callbacks and init functions return; nothing makes
\* service code call anything.
Fairness == \A t \in Threads : /\ WF_vars(OpStep(t)) /\ WF_vars(DrainStep(t))
                               /\ WF_vars(LaunchStep(t)) /\ WF_vars(WorkerStep(t))

FairSpec == Spec /\ Fairness

-----------------------------------------------------------------------------
(* Properties.                                                             *)

\* The references to s that threads hold.
HeldBy(s) == {x \in HoldFrames : hold[x] = s}

Bit(b) == IF b THEN 1 ELSE 0

\* ctx->ref of a context counts the handle table, the harbor reservation and
\* every local ctx pointer of a thread, and nothing else.
RefCount ==
  \A s \in Services :
    ctx[s] = "live" =>
      ref[s] = Cardinality(HeldBy(s)) + Bit(s \in reg) + Bit(s \in reserved)

\* No thread reaches freed memory through a pointer it is entitled to: a
\* counted ctx, a queue it took, a queue on the global list, or the queue of
\* the context a push holds (skynet_context_push, message_dispatch).
NoUseAfterFree ==
  /\ \A x \in HoldFrames : hold[x] # NoService =>
       ctx[hold[x]] = "live" /\ queue[hold[x]] = "live"
  /\ \A x \in HaveFrames : have[x] # NoService => queue[have[x]] = "live"
  /\ \A i \in DOMAIN global : queue[global[i]] = "live"
  /\ \A t \in Threads : op[t].pc \in {"mark", "free"} => ctx[op[t].svc] = "live"

\* A queue is in one place: once on the global list or in the hands of one
\* thread.  It is what assert(queue->next == NULL) of skynet_globalmq_push and
\* of _release rely on.
QueueOnce ==
  /\ \A i, j \in DOMAIN global : global[i] = global[j] => i = j
  /\ \A x \in HaveFrames : have[x] # NoService => ~Listed(have[x])
  /\ \A x, y \in HaveFrames : have[x] # NoService /\ have[x] = have[y] => x = y

\* A thread runs the code of s: its init function or its callback.
Executes(t, s) ==
  \/ lnch[t].pc = "init" /\ lnch[t].svc = s
  \/ wpc[t] = "callback" /\ hold[<<t, "worker">>] = s

\* The code of a service never runs on two threads at once, init included
\* (CALLING_CHECK), and dispatch_message finds ctx->init set.
SerialDispatch ==
  /\ \A t, u \in Threads, s \in Services :
       Executes(t, s) /\ Executes(u, s) => t = u
  /\ \A t \in Workers : wpc[t] \in {"run", "callback"} => inited[hold[<<t, "worker">>]]

Owned(s) == Listed(s) \/ \E x \in HaveFrames : have[x] = s

\* A queue with work to do (messages to dispatch, or messages and memory to
\* drop) is always on its way to a worker, so no wake-up of a queue is lost
\* between the empty pop, the push and mark_release.
NoLostQueue ==
  \A s \in Services :
    queue[s] = "live" /\ (msgs[s] # <<>> \/ release[s]) => Owned(s)

\* mark_release happens once (its assert), when no thread can push any more.
ReleaseOnce ==
  \A t \in Threads : op[t].pc = "mark" =>
    /\ ~release[op[t].svc]
    /\ HeldBy(op[t].svc) = {} /\ op[t].svc \notin reg
    /\ \A u \in Threads : op[u].pc \in {"mark", "free"} /\ op[u].svc = op[t].svc => u = t

\* G_NODE.total counts the contexts that are not yet deleted, less the
\* reserved one: at 0 the threads may stop (CHECK_ABORT).
TotalCounts ==
  total = Cardinality({s \in Services : ctx[s] = "live"}) - Cardinality(reserved)

\* Both counts are exact: ref, which decides when a context is deleted, and
\* total, which decides when the process may end.
CountsExact == RefCount /\ TotalCounts

\* The life of a queue: it is in one place only, always somewhere while it has
\* work, and marked for release once, when nobody can push to it any more.
QueueOwned == QueueOnce /\ NoLostQueue /\ ReleaseOnce

\* Once its context is freed a service receives nothing, even from a sender
\* that found its handle alive before.
NoPushToDead ==
  [][\A s \in Services : ctx[s] = "freed" => Len(msgs'[s]) <= Len(msgs[s])]_vars

\* Every message is dispatched, or dropped with its queue; only the queue of
\* the reserved (harbor) context may be left behind when that is killed.
EveryMessageHandled ==
  \A s \in Services : msgs[s] # <<>> ~> msgs[s] = <<>> \/ (s \in reserved /\ s \notin reg)

\* A killed service is reclaimed: context, then queue, whatever the senders,
\* dispatchers and launchers that still hold it do meanwhile.
KilledIsReclaimed ==
  \A s \in Services :
    ctx[s] # "none" /\ s \notin reg
      ~> s \in reserved \/ (ctx[s] = "freed" /\ queue[s] = "freed")

\* skynet_context_new tests ret before it writes ctx->init and before its
\* caller uses the context: the test should mean that the context is alive.
LaunchUsesLiveContext ==
  \A t \in Threads : lnch[t].pc \in {"setinit", "log"} => ctx[lnch[t].svc] = "live"
=============================================================================
