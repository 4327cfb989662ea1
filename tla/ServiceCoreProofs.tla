------------------------- MODULE ServiceCoreProofs -------------------------
(* Proofs about ServiceCore, for all finite sets of services and threads. *)
EXTENDS ServiceCore, FiniteSetTheorems, TLAPS

(***************************************************************************)
(* First layer: types, and which locals are set at which point of each     *)
(* function.                                                               *)
(***************************************************************************)

\* message_dispatch: ctx is set from the grab to the release, q from the pop
\* to the end, and they are the same service while messages are dispatched.
WorkerControl ==
  \A t \in Threads :
    /\ t \notin Workers => /\ wpc[t] = "callback"
                           /\ hold[<<t, "worker">>] = NoService
                           /\ have[<<t, "q">>] = NoService
    /\ t \in Workers =>
         /\ hold[<<t, "worker">>] # NoService <=> wpc[t] \notin {"idle", "grab"}
         /\ have[<<t, "q">>] # NoService <=> wpc[t] \notin {"idle", "unrefidle"}
         /\ wpc[t] \in {"pop", "len", "run", "callback", "next", "back"} =>
              hold[<<t, "worker">>] = have[<<t, "q">>]
    /\ have[<<t, "nq">>] # NoService <=> wpc[t] = "back"

\* skynet_context_new: ctx is owned until init returns, queue until it is
\* handed over.
LaunchControl ==
  \A t \in Threads :
    /\ lnch[t].pc # "none" => lnch[t].svc \in Services
    /\ hold[<<t, "launch">>] = IF lnch[t].pc = "init" THEN lnch[t].svc ELSE NoService
    /\ have[<<t, "launch">>] =
         IF lnch[t].pc \in {"none", "log"} THEN NoService ELSE lnch[t].svc

\* skynet_context_push and skynet_context_release.
OpControl ==
  \A t \in Threads :
    /\ op[t].pc # "none" => op[t].svc \in Services
    /\ hold[<<t, "op">>] =
         IF op[t].pc \in {"push", "unref"} THEN op[t].svc ELSE NoService

Control == WorkerControl /\ LaunchControl /\ OpControl

\* The frames of a thread are frames.
LEMMA Frames ==
  ASSUME NEW t \in Threads
  PROVE  /\ <<t, "worker">> \in HoldFrames /\ <<t, "launch">> \in HoldFrames
         /\ <<t, "op">> \in HoldFrames
         /\ <<t, "q">> \in HaveFrames /\ <<t, "nq">> \in HaveFrames
         /\ <<t, "launch">> \in HaveFrames /\ <<t, "drain">> \in HaveFrames
BY DEF HoldFrames, HaveFrames

\* The strengthened invariant holds before the bootstrap.
LEMMA ControlInit == Init => TypeOK /\ Control
<1> SUFFICES ASSUME Init PROVE TypeOK /\ Control
  OBVIOUS
<1>1. TypeOK
  BY ConstantsAssumption DEF Init, TypeOK, MaybeService, NoOp, NoLaunch, WorkerPC,
     LaunchPC, OpPC
<1>2. Control
  BY Frames, ConstantsAssumption
  DEF Init, Control, WorkerControl, LaunchControl, OpControl, NoOp, NoLaunch
<1> QED BY <1>1, <1>2

\* What ATOM_DEC does to the types.
LEMMA DecRefType ==
  ASSUME TypeOK, NEW t \in Threads, NEW f \in {"worker", "launch", "op"},
         NEW s \in Services, DecRef(t, f, s)
  PROVE  /\ ref' \in [Services -> Int]
         /\ hold' \in [HoldFrames -> MaybeService]
         /\ op' \in [Threads -> [pc : OpPC, svc : MaybeService, src : MaybeService]]
<1>1. ref' \in [Services -> Int]
  BY DEF DecRef, TypeOK
<1>2. hold' \in [HoldFrames -> MaybeService]
  BY DEF DecRef, TypeOK, MaybeService
<1>3. op' \in [Threads -> [pc : OpPC, svc : MaybeService, src : MaybeService]]
  BY DEF DecRef, TypeOK, MaybeService, OpPC, NoOp
<1> QED BY <1>1, <1>2, <1>3

\* After ATOM_DEC thread t is in delete_context or has no operation.
LEMMA DecRefOp ==
  ASSUME TypeOK, NEW t \in Threads, NEW f \in {"worker", "launch", "op"},
         NEW s \in Services, DecRef(t, f, s)
  PROVE  /\ op'[t].pc \in {"none", "mark"}
         /\ op'[t].pc = "mark" => op'[t].svc = s
         /\ \A u \in Threads : u # t => op'[u] = op[u]
BY DEF DecRef, TypeOK, NoOp

\* The steps of a push, a release and a delete keep types and local pointers.
LEMMA ControlOp ==
  ASSUME TypeOK, Control, NEW t \in Threads, OpStep(t)
  PROVE  (TypeOK /\ Control)'
<1> USE DEF heap, mq, node
<1>0. op \in [Threads -> [pc : OpPC, svc : MaybeService, src : MaybeService]]
  BY DEF TypeOK
<1>1. CASE PushGrab(t)
  <2>1. CASE op[t].svc \in reg
    <3>1. op[t].svc \in Services
      BY <2>1 DEF TypeOK
    <3>2. ref' \in [Services -> Int]
      BY <1>1, <2>1, <3>1 DEF PushGrab, TypeOK, Grabbed
    <3>9. hold' \in [HoldFrames -> MaybeService]
      BY <1>1, <2>1, <3>1 DEF PushGrab, TypeOK, MaybeService
    <3>3. op' = [op EXCEPT ![t].pc = "push"]
      BY <1>1, <2>1 DEF PushGrab
    <3>4. op' \in [Threads -> [pc : OpPC, svc : MaybeService, src : MaybeService]]
      BY <3>3 DEF TypeOK, OpPC
    <3>5. TypeOK'
      BY <1>1, <3>2, <3>4, <3>9 DEF PushGrab, TypeOK
    <3>6. hold' = [hold EXCEPT ![<<t, "op">>] = op[t].svc]
      BY <1>1, <2>1 DEF PushGrab
    <3>7. WorkerControl' /\ LaunchControl'
      BY <1>1, <3>6, Frames DEF PushGrab, TypeOK, Control, WorkerControl, LaunchControl
    <3>8. OpControl'
      BY ZenonT(60), <1>0, <3>1, <3>3, <3>6, Frames DEF TypeOK, Control, OpControl
    <3> QED BY <3>5, <3>7, <3>8 DEF Control
  <2>2. CASE op[t].svc \notin reg
    <3>1. op' = [op EXCEPT ![t] = NoOp] /\ ref' = ref /\ hold' = hold
      BY <1>1, <2>2 DEF PushGrab
    <3>2. op' \in [Threads -> [pc : OpPC, svc : MaybeService, src : MaybeService]]
      BY <3>1 DEF TypeOK, OpPC, NoOp, MaybeService
    <3>3. TypeOK'
      BY <1>1, <3>1, <3>2 DEF PushGrab, TypeOK
    <3>4. WorkerControl' /\ LaunchControl'
      BY <1>1, <3>1 DEF PushGrab, Control, WorkerControl, LaunchControl
    <3>5. OpControl'
      BY <1>0, <1>1, <3>1 DEF PushGrab, Control, OpControl, NoOp
    <3> QED BY <3>3, <3>4, <3>5 DEF Control
  <2> QED BY <2>1, <2>2
<1>2. CASE MqPush(t)
  <2>1. op[t].pc = "push" /\ op' = [op EXCEPT ![t].pc = "unref"] /\ hold' = hold
    BY <1>2 DEF MqPush
  <2>2. hold[<<t, "op">>] \in Services
    BY <2>1 DEF Control, OpControl
  <2>3. op' \in [Threads -> [pc : OpPC, svc : MaybeService, src : MaybeService]]
    BY <2>1 DEF TypeOK, OpPC
  <2>4. msgs' \in [Services -> Seq(MaybeService)]
    BY <1>2, <2>2 DEF MqPush, TypeOK
  <2>5. inGlobal' \in [Services -> BOOLEAN] /\ global' \in Seq(Services)
    BY <1>2, <2>2 DEF MqPush, TypeOK, Enlist
  <2>6. TypeOK'
    BY <1>2, <2>3, <2>4, <2>5 DEF MqPush, TypeOK
  <2>7. WorkerControl' /\ LaunchControl'
    BY <1>2 DEF MqPush, Control, WorkerControl, LaunchControl
  <2>8. OpControl'
    BY <1>0, <2>1 DEF Control, OpControl
  <2> QED BY <2>6, <2>7, <2>8 DEF Control
<1>3. CASE OpUnref(t)
  <2> DEFINE s == hold[<<t, "op">>]
  <2>1. op[t].pc = "unref" /\ s = op[t].svc /\ s \in Services /\ DecRef(t, "op", s)
    BY <1>3 DEF OpUnref, Control, OpControl
  <2>2. TypeOK'
    BY <1>3, <2>1, DecRefType DEF OpUnref, TypeOK
  <2>3. hold' = [hold EXCEPT ![<<t, "op">>] = NoService]
    BY <2>1 DEF DecRef
  <2>4. WorkerControl' /\ LaunchControl'
    BY <1>3, <2>3, Frames DEF OpUnref, TypeOK, Control, WorkerControl, LaunchControl
  <2>5. OpControl'
    <3>1. hold'[<<t, "op">>] = NoService
      BY <2>3, Frames DEF TypeOK
    <3>2. \A u \in Threads : u # t => hold'[<<u, "op">>] = hold[<<u, "op">>]
      BY <2>3, Frames DEF TypeOK
    <3>3. /\ op'[t].pc \in {"none", "mark"}
          /\ op'[t].pc = "mark" => op'[t].svc = s
          /\ \A u \in Threads : u # t => op'[u] = op[u]
      BY <2>1, DecRefOp
    <3> QED BY <2>1, <3>1, <3>2, <3>3 DEF Control, OpControl
  <2> QED BY <2>2, <2>4, <2>5 DEF Control
<1>4. CASE MarkRelease(t)
  <2>1. op[t].pc = "mark" /\ op' = [op EXCEPT ![t].pc = "free"] /\ hold' = hold
    BY <1>4 DEF MarkRelease
  <2>2. op[t].svc \in Services
    BY <2>1 DEF Control, OpControl
  <2>3. op' \in [Threads -> [pc : OpPC, svc : MaybeService, src : MaybeService]]
    BY <2>1 DEF TypeOK, OpPC
  <2>4. release' \in [Services -> BOOLEAN] /\ global' \in Seq(Services)
    BY <1>4, <2>2 DEF MarkRelease, TypeOK, Enlist
  <2>5. TypeOK'
    BY <1>4, <2>3, <2>4 DEF MarkRelease, TypeOK
  <2>6. WorkerControl' /\ LaunchControl'
    BY <1>4 DEF MarkRelease, Control, WorkerControl, LaunchControl
  <2>7. OpControl'
    BY <1>0, <2>1 DEF Control, OpControl
  <2> QED BY <2>5, <2>6, <2>7 DEF Control
<1>5. CASE FreeContext(t)
  <2>1. op[t].pc = "free" /\ op' = [op EXCEPT ![t] = NoOp] /\ hold' = hold
    BY <1>5 DEF FreeContext
  <2>2. op' \in [Threads -> [pc : OpPC, svc : MaybeService, src : MaybeService]]
    BY <2>1 DEF TypeOK, OpPC, NoOp, MaybeService
  <2>3. ctx' \in [Services -> {"none", "live", "freed"}]
    BY <1>5 DEF FreeContext, TypeOK
  <2>7. total' \in Int
    BY <1>5 DEF FreeContext, TypeOK
  <2>4. TypeOK'
    BY <1>5, <2>2, <2>3, <2>7 DEF FreeContext, TypeOK
  <2>5. WorkerControl' /\ LaunchControl'
    BY <1>5 DEF FreeContext, Control, WorkerControl, LaunchControl
  <2>6. OpControl'
    BY <1>0, <2>1 DEF Control, OpControl, NoOp
  <2> QED BY <2>4, <2>5, <2>6 DEF Control
<1> QED BY <1>1, <1>2, <1>3, <1>4, <1>5 DEF OpStep

\* The operation that ends a frame other than "op" leaves OpControl true.
LEMMA DecRefOpControl ==
  ASSUME TypeOK, OpControl, NEW t \in Threads, NEW f \in {"worker", "launch"},
         NEW s \in Services, DecRef(t, f, s), OpIdle(t)
  PROVE  OpControl'
<1>1. \A u \in Threads : hold'[<<u, "op">>] = hold[<<u, "op">>]
  BY Frames DEF DecRef, TypeOK
<1>2. hold[<<t, "op">>] = NoService
  BY DEF OpControl, OpIdle
<1>3. /\ op'[t].pc \in {"none", "mark"}
      /\ op'[t].pc = "mark" => op'[t].svc = s
      /\ \A u \in Threads : u # t => op'[u] = op[u]
  BY DecRefOp
<1> SUFFICES ASSUME NEW u \in Threads
             PROVE  /\ op'[u].pc # "none" => op'[u].svc \in Services
                    /\ hold'[<<u, "op">>] =
                         IF op'[u].pc \in {"push", "unref"} THEN op'[u].svc ELSE NoService
  BY DEF OpControl
<1>4. CASE u = t
  BY <1>1, <1>2, <1>3, <1>4
<1>5. CASE u # t
  BY <1>1, <1>3, <1>5 DEF OpControl
<1> QED BY <1>4, <1>5

\* Unregistering a handle moves the table's reference into a local pointer.
LEMMA RetireControl ==
  ASSUME TypeOK, OpControl, NEW t \in Threads, NEW s \in Services, Retire(t, s)
  PROVE  /\ reg' \subseteq Services
         /\ hold' \in [HoldFrames -> MaybeService]
         /\ op' \in [Threads -> [pc : OpPC, svc : MaybeService, src : MaybeService]]
         /\ OpControl'
         /\ \A u \in Threads : /\ hold'[<<u, "worker">>] = hold[<<u, "worker">>]
                              /\ hold'[<<u, "launch">>] = hold[<<u, "launch">>]
<1>1. reg' \subseteq Services
  BY DEF Retire, TypeOK
<1>2. hold' \in [HoldFrames -> MaybeService]
  BY DEF Retire, TypeOK, MaybeService
<1>3. op' \in [Threads -> [pc : OpPC, svc : MaybeService, src : MaybeService]]
  BY DEF Retire, TypeOK, OpPC, MaybeService
<1>4. /\ hold'[<<t, "op">>] = s
      /\ \A u \in Threads : u # t => hold'[<<u, "op">>] = hold[<<u, "op">>]
  BY Frames DEF Retire, TypeOK
<1>5. /\ op'[t].pc = "unref" /\ op'[t].svc = s
      /\ \A u \in Threads : u # t => op'[u] = op[u]
  BY DEF Retire, TypeOK
<1>6. OpControl'
  BY <1>4, <1>5 DEF OpControl
<1>7. \A u \in Threads : /\ hold'[<<u, "worker">>] = hold[<<u, "worker">>]
                       /\ hold'[<<u, "launch">>] = hold[<<u, "launch">>]
  BY Frames DEF Retire, TypeOK
<1> QED BY <1>1, <1>2, <1>3, <1>6, <1>7

\* The service on whose behalf a thread calls.
LEMMA SelfType ==
  ASSUME TypeOK, NEW t \in Threads
  PROVE  Self(t) \in MaybeService
<1>1. lnch[t].svc \in MaybeService /\ hold[<<t, "worker">>] \in MaybeService
  BY Frames DEF TypeOK
<1> QED BY <1>1 DEF Self

\* The calls a service makes (send, harbor send, kill, launch, reserve)
\* keep types and local pointers.
LEMMA ControlCall ==
  ASSUME TypeOK, Control, NEW t \in Threads, Call(t)
  PROVE  (TypeOK /\ Control)'
<1> USE DEF heap, mq, node
<1>0. /\ op \in [Threads -> [pc : OpPC, svc : MaybeService, src : MaybeService]]
      /\ lnch \in [Threads -> [pc : LaunchPC, svc : MaybeService]]
  BY DEF TypeOK
<1>1. ASSUME NEW d \in Services, Send(t, d)
      PROVE  (TypeOK /\ Control)'
  <2>1. op' = [op EXCEPT ![t] = [pc |-> "grab", svc |-> d, src |-> Self(t)]]
        /\ hold' = hold /\ op[t].pc = "none"
    BY <1>1 DEF Send, InService, Returned, OpIdle
  <2>2. op' \in [Threads -> [pc : OpPC, svc : MaybeService, src : MaybeService]]
    BY <1>0, <2>1, SelfType DEF OpPC, MaybeService
  <2>3. sent' \in Nat
    BY <1>1 DEF Send, TypeOK
  <2>4. TypeOK'
    BY <1>1, <2>2, <2>3 DEF Send, TypeOK
  <2>5. WorkerControl' /\ LaunchControl'
    BY <1>1 DEF Send, Control, WorkerControl, LaunchControl
  <2>6. OpControl'
    BY <1>0, <2>1 DEF Control, OpControl
  <2> QED BY <2>4, <2>5, <2>6 DEF Control
<1>2. ASSUME NEW d \in Services, HarborSend(t, d)
      PROVE  (TypeOK /\ Control)'
  <2>1. msgs' \in [Services -> Seq(MaybeService)]
    BY <1>2, SelfType DEF HarborSend, TypeOK
  <2>2. inGlobal' \in [Services -> BOOLEAN] /\ global' \in Seq(Services)
    BY <1>2 DEF HarborSend, TypeOK, Enlist
  <2>3. sent' \in Nat
    BY <1>2 DEF HarborSend, TypeOK
  <2>4. TypeOK'
    BY <1>2, <2>1, <2>2, <2>3 DEF HarborSend, TypeOK
  <2>5. Control'
    BY <1>2 DEF HarborSend, Control, WorkerControl, LaunchControl, OpControl
  <2> QED BY <2>4, <2>5
<1>3. ASSUME NEW s \in Services, Kill(t, s)
      PROVE  (TypeOK /\ Control)'
  <2>1. Retire(t, s)
    BY <1>3 DEF Kill
  <2>2. TypeOK'
    BY <1>3, <2>1, RetireControl DEF Kill, TypeOK, Control
  <2>3. WorkerControl' /\ LaunchControl'
    BY ZenonT(60), <1>3, <2>1, RetireControl DEF Kill, Control, WorkerControl, LaunchControl
  <2> QED BY <2>1, <2>2, <2>3, RetireControl DEF Control
<1>4. ASSUME NEW s \in Services, Launch(t, s)
      PROVE  (TypeOK /\ Control)'
  <2>1. /\ lnch' = [lnch EXCEPT ![t] = [pc |-> "init", svc |-> s]]
        /\ hold' = [hold EXCEPT ![<<t, "launch">>] = s]
        /\ have' = [have EXCEPT ![<<t, "launch">>] = s]
        /\ UNCHANGED <<wpc, op>>
    BY <1>4 DEF Launch, LaunchWith
  <2>2. lnch' \in [Threads -> [pc : LaunchPC, svc : MaybeService]]
    BY <1>0, <2>1 DEF LaunchPC, MaybeService
  <2>3. hold' \in [HoldFrames -> MaybeService]
    BY <2>1 DEF TypeOK, MaybeService
  <2>4. have' \in [HaveFrames -> MaybeService]
    BY <2>1 DEF TypeOK, MaybeService
  <2>5. ctx' \in [Services -> {"none", "live", "freed"}]
        /\ queue' \in [Services -> {"none", "live", "freed"}]
    BY <1>4 DEF Launch, LaunchWith, TypeOK
  <2>6. ref' \in [Services -> Int]
    BY <1>4 DEF Launch, LaunchWith, TypeOK
  <2>7. inGlobal' \in [Services -> BOOLEAN] /\ reg' \subseteq Services
    BY <1>4 DEF Launch, LaunchWith, TypeOK
  <2>8. total' \in Int
    BY <1>4 DEF Launch, LaunchWith, TypeOK
  <2>9. TypeOK'
    BY <1>4, <2>2, <2>3, <2>4, <2>5, <2>6, <2>7, <2>8 DEF Launch, LaunchWith, TypeOK
  <2>10. /\ hold'[<<t, "launch">>] = s /\ have'[<<t, "launch">>] = s
         /\ \A u \in Threads : u # t =>
              /\ hold'[<<u, "launch">>] = hold[<<u, "launch">>]
              /\ have'[<<u, "launch">>] = have[<<u, "launch">>]
         /\ \A u \in Threads : hold'[<<u, "worker">>] = hold[<<u, "worker">>]
         /\ \A u \in Threads : hold'[<<u, "op">>] = hold[<<u, "op">>]
         /\ \A u \in Threads : have'[<<u, "q">>] = have[<<u, "q">>]
         /\ \A u \in Threads : have'[<<u, "nq">>] = have[<<u, "nq">>]
    BY <2>1, Frames DEF TypeOK
  <2>11. WorkerControl' /\ OpControl'
    BY <2>1, <2>10 DEF Control, WorkerControl, OpControl
  <2>12. LaunchControl'
    BY ZenonT(60), <1>0, <2>1, <2>10 DEF Control, LaunchControl
  <2> QED BY <2>9, <2>11, <2>12 DEF Control
<1>5. CASE Reserve(t)
  <2>1. lnch[t].svc \in Services
    BY <1>5 DEF Reserve, ReserveWith, Control, LaunchControl
  <2>2. ref' \in [Services -> Int]
    BY <1>5, <2>1 DEF Reserve, ReserveWith, TypeOK, Grabbed
  <2>3. total' \in Int /\ reserved' \subseteq Services
    BY <1>5, <2>1 DEF Reserve, ReserveWith, TypeOK
  <2>4. TypeOK'
    BY <1>5, <2>2, <2>3 DEF Reserve, ReserveWith, TypeOK
  <2>5. Control'
    BY <1>5 DEF Reserve, ReserveWith, Control, WorkerControl, LaunchControl, OpControl
  <2> QED BY <2>4, <2>5
<1> QED BY <1>1, <1>2, <1>3, <1>4, <1>5 DEF Call

\* The steps of skynet_mq_release and _drop_queue keep types and local pointers.
LEMMA ControlDrain ==
  ASSUME TypeOK, Control, NEW t \in Threads, DrainStep(t)
  PROVE  (TypeOK /\ Control)'
<1> USE DEF heap, mq, node
<1> DEFINE s == have[<<t, "drain">>]
<1>0. /\ op \in [Threads -> [pc : OpPC, svc : MaybeService, src : MaybeService]]
      /\ s \in MaybeService
  BY Frames DEF TypeOK
<1>1. CASE DrainPop(t)
  <2>1. s \in Services /\ msgs[s] \in Seq(MaybeService) /\ msgs[s] # <<>> /\ op[t].pc = "none"
    BY <1>0, <1>1 DEF DrainPop, OpIdle, TypeOK, MaybeService
  <2>2. Head(msgs[s]) \in MaybeService
    BY <2>1
  <2>3. op' = [op EXCEPT ![t] = IF Head(msgs[s]) = NoService THEN NoOp
                                ELSE [pc |-> "grab", svc |-> Head(msgs[s]), src |-> s]]
        /\ hold' = hold
    BY <1>1 DEF DrainPop
  <2>4. op' \in [Threads -> [pc : OpPC, svc : MaybeService, src : MaybeService]]
    BY <1>0, <2>2, <2>3 DEF OpPC, MaybeService, NoOp
  <2>5. msgs' \in [Services -> Seq(MaybeService)]
    BY <1>1, <2>1 DEF DrainPop, TypeOK
  <2>6. TypeOK'
    BY <1>1, <2>4, <2>5 DEF DrainPop, TypeOK
  <2>7. WorkerControl' /\ LaunchControl'
    BY <1>1 DEF DrainPop, Control, WorkerControl, LaunchControl
  <2>8. /\ op'[t].pc \in {"none", "grab"}
        /\ op'[t].pc = "grab" => op'[t].svc \in Services
        /\ \A u \in Threads : u # t => op'[u] = op[u]
    BY <1>0, <2>2, <2>3 DEF MaybeService, NoOp
  <2>9. OpControl'
    BY <2>1, <2>3, <2>8 DEF Control, OpControl
  <2> QED BY <2>6, <2>7, <2>9 DEF Control
<1>2. CASE DrainFree(t)
  <2>1. inGlobal' \in [Services -> BOOLEAN]
    BY <1>2 DEF DrainFree, TypeOK
  <2>2. queue' \in [Services -> {"none", "live", "freed"}]
    BY <1>2 DEF DrainFree, TypeOK
  <2>3. have' \in [HaveFrames -> MaybeService]
    BY <1>2 DEF DrainFree, TypeOK, MaybeService
  <2>4. TypeOK'
    BY <1>2, <2>1, <2>2, <2>3 DEF DrainFree, TypeOK
  <2>5. \A u \in Threads : /\ have'[<<u, "launch">>] = have[<<u, "launch">>]
                           /\ have'[<<u, "q">>] = have[<<u, "q">>]
                           /\ have'[<<u, "nq">>] = have[<<u, "nq">>]
    BY <1>2, Frames DEF DrainFree, TypeOK
  <2>6. Control'
    BY <1>2, <2>5 DEF DrainFree, Control, WorkerControl, LaunchControl, OpControl
  <2> QED BY <2>4, <2>6
<1> QED BY <1>1, <1>2 DEF DrainStep

\* What skynet_mq_release by frame f does to the types.
LEMMA MqReleaseType ==
  ASSUME TypeOK, NEW t \in Threads, NEW f \in {"q", "launch"},
         NEW s \in Services, MqRelease(t, f, s)
  PROVE  /\ have' \in [HaveFrames -> MaybeService]
         /\ global' \in Seq(Services)
         /\ have'[<<t, f>>] = NoService
         /\ \A u \in Threads, g \in {"q", "nq", "launch"} :
              <<u, g>> # <<t, f>> => have'[<<u, g>>] = have[<<u, g>>]
<1>0. s \in MaybeService /\ NoService \in MaybeService
  BY DEF MaybeService
<1>1. CASE release[s]
  <2>1. /\ have' = [have EXCEPT ![<<t, f>>] = NoService, ![<<t, "drain">>] = s]
        /\ global' = global
    BY <1>1 DEF MqRelease
  <2>2. have' \in [HaveFrames -> MaybeService]
    BY <1>0, <2>1 DEF TypeOK
  <2>3. /\ have'[<<t, f>>] = NoService
        /\ \A u \in Threads, g \in {"q", "nq", "launch"} :
             <<u, g>> # <<t, f>> => have'[<<u, g>>] = have[<<u, g>>]
    BY <2>1 DEF TypeOK, HaveFrames
  <2> QED BY <2>1, <2>2, <2>3 DEF TypeOK
<1>2. CASE ~release[s]
  <2>1. /\ have' = [have EXCEPT ![<<t, f>>] = NoService]
        /\ global' = Append(global, s)
    BY <1>2 DEF MqRelease
  <2>2. have' \in [HaveFrames -> MaybeService]
    BY <1>0, <2>1 DEF TypeOK
  <2>3. /\ have'[<<t, f>>] = NoService
        /\ \A u \in Threads, g \in {"q", "nq", "launch"} :
             <<u, g>> # <<t, f>> => have'[<<u, g>>] = have[<<u, g>>]
    BY <2>1 DEF TypeOK, HaveFrames
  <2>4. global' \in Seq(Services)
    BY <2>1 DEF TypeOK
  <2> QED BY <2>2, <2>3, <2>4
<1> QED BY <1>1, <1>2

\* How ATOM_DEC changes the ctx pointers of the threads.
LEMMA DecRefHold ==
  ASSUME TypeOK, NEW t \in Threads, NEW f \in {"worker", "launch", "op"},
         NEW s \in Services, DecRef(t, f, s)
  PROVE  /\ hold'[<<t, f>>] = NoService
         /\ \A u \in Threads, g \in {"worker", "launch", "op"} :
              <<u, g>> # <<t, f>> => hold'[<<u, g>>] = hold[<<u, g>>]
<1>1. hold' = [hold EXCEPT ![<<t, f>>] = NoService]
  BY DEF DecRef
<1> QED BY <1>1 DEF TypeOK, HoldFrames

\* The steps of skynet_context_new keep types and local pointers.
LEMMA ControlLaunch ==
  ASSUME TypeOK, Control, NEW t \in Threads, LaunchStep(t)
  PROVE  (TypeOK /\ Control)'
<1> USE DEF heap, mq, node
<1> DEFINE s == lnch[t].svc
<1>0. /\ op \in [Threads -> [pc : OpPC, svc : MaybeService, src : MaybeService]]
      /\ lnch \in [Threads -> [pc : LaunchPC, svc : MaybeService]]
  BY DEF TypeOK
<1>s. s \in Services /\ OpIdle(t)
  BY DEF LaunchStep, InitOk, InitFail, SetInit, LaunchPushQueue, LaunchReturn, FailRetire,
     FailMqRelease, Returned, Control, LaunchControl
<1>1. CASE InitOk(t) \/ InitFail(t)
  <2>1. PICK p \in {"pushnull", "setinit", "retire"} : lnch' = [lnch EXCEPT ![t].pc = p]
    BY <1>1 DEF InitOk, InitFail
  <2>2. DecRef(t, "launch", s) /\ lnch[t].pc = "init"
    BY <1>1 DEF InitOk, InitFail
  <2>3. lnch' \in [Threads -> [pc : LaunchPC, svc : MaybeService]]
    BY <1>0, <2>1 DEF LaunchPC
  <2>4. UNCHANGED <<ctx, inited, queue, mq, node, have, wpc, left>>
    BY <1>1 DEF InitOk, InitFail
  <2>5. TypeOK'
    BY <1>s, <2>2, <2>3, <2>4, DecRefType DEF TypeOK
  <2>6. OpControl'
    BY <1>s, <2>2, DecRefOpControl DEF Control
  <2>7. /\ hold'[<<t, "launch">>] = NoService
        /\ \A u \in Threads, g \in {"worker", "launch"} :
             <<u, g>> # <<t, "launch">> => hold'[<<u, g>>] = hold[<<u, g>>]
    BY <1>s, <2>2, DecRefHold
  <2>8. WorkerControl'
    BY <2>4, <2>7 DEF Control, WorkerControl
  <2>9. /\ lnch'[t].pc = p /\ lnch'[t].svc = s
        /\ \A u \in Threads : u # t => lnch'[u] = lnch[u]
    BY <1>0, <2>1
  <2>10. LaunchControl'
    BY ZenonT(60), <1>s, <2>2, <2>4, <2>7, <2>9 DEF Control, LaunchControl
  <2> QED BY <2>5, <2>6, <2>8, <2>10 DEF Control
<1>2. CASE SetInit(t)
  <2>1. inited' \in [Services -> BOOLEAN]
    BY <1>2 DEF SetInit, TypeOK
  <2>2. lnch' = [lnch EXCEPT ![t].pc = "pushq"] /\ lnch[t].pc = "setinit"
    BY <1>2 DEF SetInit
  <2>3. lnch' \in [Threads -> [pc : LaunchPC, svc : MaybeService]]
    BY <1>0, <2>2 DEF LaunchPC
  <2>4. TypeOK'
    BY <1>2, <2>1, <2>3 DEF SetInit, TypeOK
  <2>5. WorkerControl' /\ OpControl'
    BY <1>2 DEF SetInit, Control, WorkerControl, OpControl
  <2>6. UNCHANGED <<hold, have>>
    BY <1>2 DEF SetInit
  <2>7. LaunchControl'
    BY ZenonT(60), <1>0, <2>2, <2>6 DEF Control, LaunchControl
  <2> QED BY <2>4, <2>5, <2>7 DEF Control
<1>3. CASE LaunchPushQueue(t)
  <2>1. lnch[t].pc \in {"pushq", "pushnull"} /\ have[<<t, "launch">>] = s
    BY <1>3 DEF LaunchPushQueue, Control, LaunchControl
  <2>2. global' \in Seq(Services)
    BY <1>s, <1>3, <2>1 DEF LaunchPushQueue, TypeOK
  <2>3. have' = [have EXCEPT ![<<t, "launch">>] = NoService]
    BY <1>3 DEF LaunchPushQueue
  <2>4. have' \in [HaveFrames -> MaybeService]
    BY <2>3 DEF TypeOK, MaybeService
  <2>5. lnch' = [lnch EXCEPT ![t] = IF lnch[t].pc = "pushq" THEN [lnch[t] EXCEPT !.pc = "log"]
                                    ELSE NoLaunch]
    BY <1>0, <1>3 DEF LaunchPushQueue
  <2>6. lnch' \in [Threads -> [pc : LaunchPC, svc : MaybeService]]
    BY <1>0, <2>5 DEF LaunchPC, NoLaunch, MaybeService
  <2>7. TypeOK'
    BY <1>3, <2>2, <2>4, <2>6 DEF LaunchPushQueue, TypeOK
  <2>8. /\ have'[<<t, "launch">>] = NoService
        /\ \A u \in Threads : u # t => have'[<<u, "launch">>] = have[<<u, "launch">>]
        /\ \A u \in Threads : have'[<<u, "q">>] = have[<<u, "q">>]
        /\ \A u \in Threads : have'[<<u, "nq">>] = have[<<u, "nq">>]
    BY <2>3, Frames DEF TypeOK
  <2>9. UNCHANGED <<hold, wpc, op>>
    BY <1>3 DEF LaunchPushQueue
  <2>10. WorkerControl' /\ OpControl'
    BY <2>8, <2>9 DEF Control, WorkerControl, OpControl
  <2>11. /\ lnch'[t].pc \in {"none", "log"}
         /\ lnch'[t].pc = "log" => lnch'[t].svc = s
         /\ \A u \in Threads : u # t => lnch'[u] = lnch[u]
    BY <1>0, <2>5 DEF NoLaunch
  <2>12. LaunchControl'
    <3>1. hold'[<<t, "launch">>] = NoService
      BY <2>1, <2>9 DEF Control, LaunchControl
    <3>2. \A u \in Threads : u # t => hold'[<<u, "launch">>] = hold[<<u, "launch">>]
      BY <2>9
    <3> SUFFICES ASSUME NEW u \in Threads
                 PROVE  /\ lnch'[u].pc # "none" => lnch'[u].svc \in Services
                        /\ hold'[<<u, "launch">>] =
                             IF lnch'[u].pc = "init" THEN lnch'[u].svc ELSE NoService
                        /\ have'[<<u, "launch">>] =
                             IF lnch'[u].pc \in {"none", "log"} THEN NoService ELSE lnch'[u].svc
      BY DEF LaunchControl
    <3>3. CASE u = t
      BY <1>s, <2>8, <2>11, <3>1, <3>3
    <3>4. CASE u # t
      BY <2>8, <2>11, <3>2, <3>4 DEF Control, LaunchControl
    <3> QED BY <3>3, <3>4
  <2> QED BY <2>7, <2>10, <2>12 DEF Control
<1>4. CASE LaunchReturn(t)
  <2>1. lnch' = [lnch EXCEPT ![t] = NoLaunch] /\ lnch[t].pc = "log"
    BY <1>4 DEF LaunchReturn
  <2>2. lnch' \in [Threads -> [pc : LaunchPC, svc : MaybeService]]
    BY <1>0, <2>1 DEF LaunchPC, NoLaunch, MaybeService
  <2>3. TypeOK'
    BY <1>4, <2>2 DEF LaunchReturn, TypeOK
  <2>4. UNCHANGED <<hold, have, wpc, op>>
    BY <1>4 DEF LaunchReturn
  <2>5. WorkerControl' /\ OpControl'
    BY <2>4 DEF Control, WorkerControl, OpControl
  <2>6. LaunchControl'
    BY <1>0, <2>1, <2>4 DEF Control, LaunchControl, NoLaunch
  <2> QED BY <2>3, <2>5, <2>6 DEF Control
<1>5. CASE FailRetire(t)
  <2>1. lnch' = [lnch EXCEPT ![t].pc = "mqrelease"] /\ lnch[t].pc = "retire"
    BY <1>5 DEF FailRetire
  <2>2. lnch' \in [Threads -> [pc : LaunchPC, svc : MaybeService]]
    BY <1>0, <2>1 DEF LaunchPC
  <2>3. /\ reg' \subseteq Services
        /\ hold' \in [HoldFrames -> MaybeService]
        /\ op' \in [Threads -> [pc : OpPC, svc : MaybeService, src : MaybeService]]
        /\ OpControl'
        /\ \A u \in Threads : /\ hold'[<<u, "worker">>] = hold[<<u, "worker">>]
                              /\ hold'[<<u, "launch">>] = hold[<<u, "launch">>]
    <3>1. CASE s \in reg
      BY <1>s, <1>5, <3>1, RetireControl DEF FailRetire, Control
    <3>2. CASE s \notin reg
      BY <1>0, <1>5, <3>2 DEF FailRetire, TypeOK, Control, OpControl
    <3> QED BY <3>1, <3>2
  <2>4. TypeOK'
    BY <1>5, <2>2, <2>3 DEF FailRetire, TypeOK
  <2>5. UNCHANGED <<have, wpc>>
    BY <1>5 DEF FailRetire
  <2>6. WorkerControl'
    BY <2>3, <2>5 DEF Control, WorkerControl
  <2>7. LaunchControl'
    BY ZenonT(60), <1>0, <2>1, <2>3, <2>5 DEF Control, LaunchControl
  <2> QED BY <2>3, <2>4, <2>6, <2>7 DEF Control
<1>6. CASE FailMqRelease(t)
  <2>1. lnch' = [lnch EXCEPT ![t] = NoLaunch] /\ lnch[t].pc = "mqrelease"
        /\ MqRelease(t, "launch", s) /\ UNCHANGED <<hold, wpc, op>>
    BY <1>6 DEF FailMqRelease
  <2>2. lnch' \in [Threads -> [pc : LaunchPC, svc : MaybeService]]
    BY <1>0, <2>1 DEF LaunchPC, NoLaunch, MaybeService
  <2>3. /\ have' \in [HaveFrames -> MaybeService]
        /\ global' \in Seq(Services)
        /\ have'[<<t, "launch">>] = NoService
        /\ \A u \in Threads, g \in {"q", "nq", "launch"} :
             <<u, g>> # <<t, "launch">> => have'[<<u, g>>] = have[<<u, g>>]
    BY <1>s, <2>1, MqReleaseType
  <2>4. TypeOK'
    BY <1>6, <2>2, <2>3 DEF FailMqRelease, TypeOK
  <2>5. WorkerControl' /\ OpControl'
    BY ZenonT(60), <2>1, <2>3 DEF Control, WorkerControl, OpControl
  <2>6. LaunchControl'
    BY <1>0, <2>1, <2>3 DEF Control, LaunchControl, NoLaunch
  <2> QED BY <2>4, <2>5, <2>6 DEF Control
<1> QED BY <1>1, <1>2, <1>3, <1>4, <1>5, <1>6 DEF LaunchStep

\* The steps of skynet_context_message_dispatch keep types and local pointers.
LEMMA ControlWorker ==
  ASSUME TypeOK, Control, NEW t \in Threads, WorkerStep(t)
  PROVE  (TypeOK /\ Control)'
<1> USE DEF heap, mq, node
<1> DEFINE q == have[<<t, "q">>]
<1>0. /\ wpc \in [Threads -> WorkerPC] /\ left \in [Threads -> Nat]
      /\ hold \in [HoldFrames -> MaybeService] /\ have \in [HaveFrames -> MaybeService]
  BY DEF TypeOK
<1>w. t \in Workers /\ OpIdle(t)
  BY DEF WorkerStep, WorkerAt, GlobalPop, WorkerGrab, WorkerDead, PopEmpty, PopEmptyWith,
     PopMessage, BatchLength, Dispatch, EndRound, NextQueue, PushBack, WorkerUnref,
     LaunchIdle, Returned
<1>q. wpc[t] \notin {"idle", "unrefidle"} => q \in Services
  BY <1>0, <1>w, Frames DEF Control, WorkerControl, MaybeService
<1>1. CASE GlobalPop(t)
  <2>1. /\ wpc[t] = "idle" /\ global # <<>> /\ global' = Tail(global)
        /\ have' = [have EXCEPT ![<<t, "q">>] = Head(global)]
        /\ wpc' = [wpc EXCEPT ![t] = "grab"]
        /\ UNCHANGED <<hold, lnch, op>>
    BY <1>1 DEF GlobalPop, WorkerAt
  <2>2. Head(global) \in Services /\ global' \in Seq(Services)
    BY <2>1 DEF TypeOK
  <2>3. wpc' \in [Threads -> WorkerPC]
    BY <1>0, <2>1 DEF WorkerPC
  <2>4. have' \in [HaveFrames -> MaybeService]
    BY <1>0, <2>1, <2>2 DEF MaybeService
  <2>5. TypeOK'
    BY <1>1, <2>2, <2>3, <2>4 DEF GlobalPop, TypeOK
  <2>6. /\ have'[<<t, "q">>] = Head(global) /\ Head(global) # NoService
        /\ \A u \in Threads : u # t => have'[<<u, "q">>] = have[<<u, "q">>]
        /\ \A u \in Threads : have'[<<u, "nq">>] = have[<<u, "nq">>]
        /\ \A u \in Threads : have'[<<u, "launch">>] = have[<<u, "launch">>]
    BY <1>0, <2>1, <2>2, Frames, ConstantsAssumption
  <2>7. WorkerControl'
    BY ZenonT(60), <1>0, <1>w, <2>1, <2>6 DEF Control, WorkerControl
  <2>8. LaunchControl' /\ OpControl'
    BY <2>1, <2>6 DEF Control, LaunchControl, OpControl
  <2> QED BY <2>5, <2>7, <2>8 DEF Control
<1>2. CASE WorkerGrab(t)
  <2>1. /\ wpc[t] = "grab" /\ q \in reg
        /\ hold' = [hold EXCEPT ![<<t, "worker">>] = q]
        /\ wpc' = [wpc EXCEPT ![t] = "pop"]
        /\ UNCHANGED <<have, lnch, op>>
    BY <1>2 DEF WorkerGrab, WorkerAt
  <2>2. ref' \in [Services -> Int]
    BY <1>2 DEF WorkerGrab, TypeOK, Grabbed
  <2>3. wpc' \in [Threads -> WorkerPC]
    BY <1>0, <2>1 DEF WorkerPC
  <2>4. hold' \in [HoldFrames -> MaybeService]
    BY <1>0, <1>q, <2>1 DEF MaybeService
  <2>5. left' \in [Threads -> Nat]
    BY <1>0, <1>2 DEF WorkerGrab
  <2>6. TypeOK'
    BY <1>2, <2>2, <2>3, <2>4, <2>5 DEF WorkerGrab, TypeOK
  <2>7. /\ hold'[<<t, "worker">>] = q /\ q # NoService
        /\ \A u \in Threads : u # t => hold'[<<u, "worker">>] = hold[<<u, "worker">>]
        /\ \A u \in Threads : hold'[<<u, "launch">>] = hold[<<u, "launch">>]
        /\ \A u \in Threads : hold'[<<u, "op">>] = hold[<<u, "op">>]
    BY <1>0, <1>q, <2>1, Frames, ConstantsAssumption
  <2>8. WorkerControl'
    BY <1>0, <1>w, <2>1, <2>7 DEF Control, WorkerControl
  <2>9. LaunchControl' /\ OpControl'
    BY <2>1, <2>7 DEF Control, LaunchControl, OpControl
  <2> QED BY <2>6, <2>8, <2>9 DEF Control
<1>3. CASE WorkerDead(t)
  <2>1. /\ wpc[t] = "grab" /\ MqRelease(t, "q", q)
        /\ wpc' = [wpc EXCEPT ![t] = "idle"]
        /\ UNCHANGED <<hold, lnch, op>>
    BY <1>3 DEF WorkerDead, WorkerAt
  <2>2. wpc' \in [Threads -> WorkerPC]
    BY <1>0, <2>1 DEF WorkerPC
  <2>3. /\ have' \in [HaveFrames -> MaybeService]
        /\ global' \in Seq(Services)
        /\ have'[<<t, "q">>] = NoService
        /\ \A u \in Threads, g \in {"q", "nq", "launch"} :
             <<u, g>> # <<t, "q">> => have'[<<u, g>>] = have[<<u, g>>]
    BY <1>q, <2>1, MqReleaseType
  <2>4. TypeOK'
    BY <1>3, <2>2, <2>3 DEF WorkerDead, TypeOK
  <2>7. /\ have'[<<t, "q">>] = NoService /\ wpc'[t] = "idle"
        /\ \A u \in Threads : u # t => have'[<<u, "q">>] = have[<<u, "q">>]
        /\ \A u \in Threads : u # t => wpc'[u] = wpc[u]
        /\ \A u \in Threads : have'[<<u, "nq">>] = have[<<u, "nq">>]
        /\ hold' = hold
    BY <1>0, <2>1, <2>3
  <2>5. WorkerControl'
    <3>1. wpc[t] = "grab" /\ WorkerControl
      BY <2>1 DEF Control
    <3>2. hold[<<t, "worker">>] = NoService /\ have[<<t, "nq">>] = NoService
      BY <1>w, <3>1 DEF WorkerControl
    <3> QED BY ZenonT(60), <1>w, <2>7, <3>1, <3>2 DEF WorkerControl
  <2>6. LaunchControl' /\ OpControl'
    BY <2>1, <2>3 DEF Control, LaunchControl, OpControl
  <2> QED BY <2>4, <2>5, <2>6 DEF Control
<1>4. CASE PopEmpty(t)
  <2>1. /\ wpc[t] = "pop"
        /\ inGlobal' = [inGlobal EXCEPT ![q] = FALSE]
        /\ have' = [have EXCEPT ![<<t, "q">>] = NoService]
        /\ wpc' = [wpc EXCEPT ![t] = "unrefidle"]
        /\ UNCHANGED <<hold, lnch, op>>
    BY <1>4 DEF PopEmpty, PopEmptyWith, WorkerAt
  <2>2. wpc' \in [Threads -> WorkerPC]
    BY <1>0, <2>1 DEF WorkerPC
  <2>3. have' \in [HaveFrames -> MaybeService]
    BY <1>0, <2>1 DEF MaybeService
  <2>4. inGlobal' \in [Services -> BOOLEAN]
    BY <2>1 DEF TypeOK
  <2>5. TypeOK'
    BY <1>4, <2>2, <2>3, <2>4 DEF PopEmpty, PopEmptyWith, TypeOK
  <2>6. /\ have'[<<t, "q">>] = NoService
        /\ \A u \in Threads : u # t => have'[<<u, "q">>] = have[<<u, "q">>]
        /\ \A u \in Threads : have'[<<u, "nq">>] = have[<<u, "nq">>]
        /\ \A u \in Threads : have'[<<u, "launch">>] = have[<<u, "launch">>]
    BY <1>0, <2>1, Frames
  <2>7. WorkerControl'
    BY <1>0, <1>w, <2>1, <2>6 DEF Control, WorkerControl
  <2>8. LaunchControl' /\ OpControl'
    BY <2>1, <2>6 DEF Control, LaunchControl, OpControl
  <2> QED BY <2>5, <2>7, <2>8 DEF Control
<1>5. CASE PopMessage(t)
  <2>1. wpc[t] = "pop" /\ UNCHANGED <<hold, have, lnch, op>>
    BY <1>5 DEF PopMessage, WorkerAt
  <2>2. PICK p \in {"len", "run"} : wpc' = [wpc EXCEPT ![t] = p]
    BY <1>5 DEF PopMessage
  <2>3. wpc' \in [Threads -> WorkerPC]
    BY <1>0, <2>2 DEF WorkerPC
  <2>4. msgs' \in [Services -> Seq(MaybeService)]
    <3>1. msgs[q] \in Seq(MaybeService) /\ msgs[q] # <<>>
      BY <1>5, <1>q, <2>1 DEF PopMessage, TypeOK
    <3>2. Tail(msgs[q]) \in Seq(MaybeService)
      BY <3>1
    <3> QED BY <1>5, <3>2 DEF PopMessage, TypeOK
  <2>5. TypeOK'
    BY <1>5, <2>3, <2>4 DEF PopMessage, TypeOK
  <2>6. WorkerControl'
    BY <1>0, <1>w, <2>1, <2>2 DEF Control, WorkerControl
  <2>7. LaunchControl' /\ OpControl'
    BY <2>1 DEF Control, LaunchControl, OpControl
  <2> QED BY <2>5, <2>6, <2>7 DEF Control
<1>6. CASE BatchLength(t)
  <2>1. wpc[t] = "len" /\ wpc' = [wpc EXCEPT ![t] = "run"] /\ UNCHANGED <<hold, have, lnch, op>>
    BY <1>6 DEF BatchLength, WorkerAt
  <2>2. Len(msgs[q]) \in Nat
    BY <1>q, <2>1 DEF TypeOK
  <2>3. left' \in [Threads -> Nat]
    BY <1>0, <1>6, <2>2 DEF BatchLength
  <2>4. wpc' \in [Threads -> WorkerPC]
    BY <1>0, <2>1 DEF WorkerPC
  <2>5. TypeOK'
    BY <1>6, <2>3, <2>4 DEF BatchLength, TypeOK
  <2>6. WorkerControl'
    BY <1>0, <1>w, <2>1 DEF Control, WorkerControl
  <2>7. LaunchControl' /\ OpControl'
    BY <2>1 DEF Control, LaunchControl, OpControl
  <2> QED BY <2>5, <2>6, <2>7 DEF Control
<1>7. CASE Dispatch(t)
  <2>1. wpc[t] = "run" /\ wpc' = [wpc EXCEPT ![t] = "callback"]
        /\ UNCHANGED <<hold, have, lnch, op>>
    BY <1>7 DEF Dispatch, WorkerAt
  <2>2. wpc' \in [Threads -> WorkerPC]
    BY <1>0, <2>1 DEF WorkerPC
  <2>3. TypeOK'
    BY <1>7, <2>2 DEF Dispatch, TypeOK
  <2>4. WorkerControl'
    BY <1>0, <1>w, <2>1 DEF Control, WorkerControl
  <2>5. LaunchControl' /\ OpControl'
    BY <2>1 DEF Control, LaunchControl, OpControl
  <2> QED BY <2>3, <2>4, <2>5 DEF Control
<1>8. CASE EndRound(t)
  <2>1. wpc[t] \in {"run", "callback"} /\ UNCHANGED <<hold, have, lnch, op>>
    BY <1>8 DEF EndRound
  <2>2. PICK p \in {"pop", "next"} : wpc' = [wpc EXCEPT ![t] = p]
    BY <1>8 DEF EndRound
  <2>3. wpc' \in [Threads -> WorkerPC]
    BY <1>0, <2>2 DEF WorkerPC
  <2>4. left' \in [Threads -> Nat]
    BY <1>0, <1>8 DEF EndRound, RoundsAfter
  <2>5. TypeOK'
    BY <1>8, <2>3, <2>4 DEF EndRound, TypeOK
  <2>6. WorkerControl'
    BY <1>0, <1>w, <2>1, <2>2 DEF Control, WorkerControl
  <2>7. LaunchControl' /\ OpControl'
    BY <2>1 DEF Control, LaunchControl, OpControl
  <2> QED BY <2>5, <2>6, <2>7 DEF Control
<1>9. CASE NextQueue(t)
  <2>1. wpc[t] = "next" /\ UNCHANGED <<hold, lnch, op>>
    BY <1>9 DEF NextQueue, WorkerAt
  <2>2. CASE global = <<>>
    <3>1. wpc' = [wpc EXCEPT ![t] = "unref"] /\ UNCHANGED <<global, have>>
      BY <1>9, <2>2 DEF NextQueue
    <3>2. wpc' \in [Threads -> WorkerPC]
      BY <1>0, <3>1 DEF WorkerPC
    <3>3. TypeOK'
      BY <1>9, <3>1, <3>2 DEF NextQueue, TypeOK
    <3>4. WorkerControl'
      BY <1>0, <1>w, <2>1, <3>1 DEF Control, WorkerControl
    <3>5. LaunchControl' /\ OpControl'
      BY <2>1, <3>1 DEF Control, LaunchControl, OpControl
    <3> QED BY <3>3, <3>4, <3>5 DEF Control
  <2>3. CASE global # <<>>
    <3>1. /\ wpc' = [wpc EXCEPT ![t] = "back"] /\ global' = Tail(global)
          /\ have' = [have EXCEPT ![<<t, "nq">>] = Head(global)]
      BY <1>9, <2>3 DEF NextQueue
    <3>2. wpc' \in [Threads -> WorkerPC]
      BY <1>0, <3>1 DEF WorkerPC
    <3>3. Head(global) \in Services /\ global' \in Seq(Services)
      BY <2>3, <3>1 DEF TypeOK
    <3>4. have' \in [HaveFrames -> MaybeService]
      BY <1>0, <3>1, <3>3 DEF MaybeService
    <3>5. TypeOK'
      BY <1>9, <3>2, <3>3, <3>4 DEF NextQueue, TypeOK
    <3>6. /\ have'[<<t, "nq">>] = Head(global) /\ Head(global) # NoService
          /\ \A u \in Threads : u # t => have'[<<u, "nq">>] = have[<<u, "nq">>]
          /\ \A u \in Threads : have'[<<u, "q">>] = have[<<u, "q">>]
          /\ \A u \in Threads : have'[<<u, "launch">>] = have[<<u, "launch">>]
      BY <1>0, <3>1, <3>3, Frames, ConstantsAssumption
    <3>7. WorkerControl'
      BY <1>0, <1>w, <2>1, <3>1, <3>6 DEF Control, WorkerControl
    <3>8. LaunchControl' /\ OpControl'
      BY <2>1, <3>6 DEF Control, LaunchControl, OpControl
    <3> QED BY <3>5, <3>7, <3>8 DEF Control
  <2> QED BY <2>2, <2>3
<1>10. CASE PushBack(t)
  <2>1. /\ wpc[t] = "back" /\ global' = Append(global, q)
        /\ have' = [have EXCEPT ![<<t, "q">>] = have[<<t, "nq">>], ![<<t, "nq">>] = NoService]
        /\ wpc' = [wpc EXCEPT ![t] = "unref"]
        /\ UNCHANGED <<hold, lnch, op>>
    BY <1>10 DEF PushBack, WorkerAt
  <2>2. wpc' \in [Threads -> WorkerPC]
    BY <1>0, <2>1 DEF WorkerPC
  <2>3. global' \in Seq(Services)
    BY <1>q, <2>1 DEF TypeOK
  <2>4. have[<<t, "nq">>] \in MaybeService /\ have[<<t, "nq">>] # NoService
    BY <1>0, <2>1, Frames DEF Control, WorkerControl
  <2>5. have' \in [HaveFrames -> MaybeService]
    BY <1>0, <2>1, <2>4 DEF MaybeService
  <2>6. TypeOK'
    BY <1>10, <2>2, <2>3, <2>5 DEF PushBack, TypeOK
  <2>7. /\ have'[<<t, "q">>] # NoService /\ have'[<<t, "nq">>] = NoService
        /\ \A u \in Threads : u # t => have'[<<u, "nq">>] = have[<<u, "nq">>]
        /\ \A u \in Threads : u # t => have'[<<u, "q">>] = have[<<u, "q">>]
        /\ \A u \in Threads : have'[<<u, "launch">>] = have[<<u, "launch">>]
    BY <1>0, <2>1, <2>4, Frames
  <2>8. WorkerControl'
    BY ZenonT(60), <1>0, <1>w, <2>1, <2>7 DEF Control, WorkerControl
  <2>9. LaunchControl' /\ OpControl'
    BY <2>1, <2>7 DEF Control, LaunchControl, OpControl
  <2> QED BY <2>6, <2>8, <2>9 DEF Control
<1>11. CASE WorkerUnref(t)
  <2> DEFINE s == hold[<<t, "worker">>]
  <2>1. wpc[t] \in {"unref", "unrefidle"} /\ DecRef(t, "worker", s) /\ UNCHANGED <<have, lnch>>
        /\ wpc' = [wpc EXCEPT ![t] = IF wpc[t] = "unref" THEN "grab" ELSE "idle"]
    BY <1>0, <1>11 DEF WorkerUnref
  <2>2. s \in Services
    BY <1>0, <1>w, <2>1, Frames DEF Control, WorkerControl, MaybeService
  <2>3. wpc' \in [Threads -> WorkerPC]
    BY <1>0, <2>1 DEF WorkerPC
  <2>4. TypeOK'
    BY <1>11, <2>1, <2>2, <2>3, DecRefType DEF WorkerUnref, TypeOK
  <2>5. OpControl'
    BY <1>w, <2>1, <2>2, DecRefOpControl DEF Control
  <2>6. /\ hold'[<<t, "worker">>] = NoService
        /\ \A u \in Threads, g \in {"worker", "launch"} :
             <<u, g>> # <<t, "worker">> => hold'[<<u, g>>] = hold[<<u, g>>]
    BY <2>1, <2>2, DecRefHold
  <2>7. WorkerControl'
    BY <1>0, <1>w, <2>1, <2>6 DEF Control, WorkerControl
  <2>8. LaunchControl'
    BY <2>1, <2>6 DEF Control, LaunchControl
  <2> QED BY <2>4, <2>5, <2>7, <2>8 DEF Control
<1> QED BY <1>1, <1>2, <1>3, <1>4, <1>5, <1>6, <1>7, <1>8, <1>9, <1>10, <1>11 DEF WorkerStep

\* Types and control together are inductive.
LEMMA ControlStep == TypeOK /\ Control /\ [Next]_vars => (TypeOK /\ Control)'
<1> SUFFICES ASSUME TypeOK, Control, [Next]_vars PROVE (TypeOK /\ Control)'
  OBVIOUS
<1>1. ASSUME NEW t \in Threads, OpStep(t) PROVE (TypeOK /\ Control)'
  BY <1>1, ControlOp
<1>2. ASSUME NEW t \in Threads, DrainStep(t) PROVE (TypeOK /\ Control)'
  BY <1>2, ControlDrain
<1>3. ASSUME NEW t \in Threads, LaunchStep(t) PROVE (TypeOK /\ Control)'
  BY <1>3, ControlLaunch
<1>4. ASSUME NEW t \in Threads, WorkerStep(t) PROVE (TypeOK /\ Control)'
  BY <1>4, ControlWorker
<1>5. ASSUME NEW t \in Threads, Call(t) PROVE (TypeOK /\ Control)'
  BY <1>5, ControlCall
<1>6. CASE UNCHANGED vars
  BY <1>6 DEF vars, heap, mq, node, TypeOK, Control, WorkerControl, LaunchControl, OpControl
<1> QED BY <1>1, <1>2, <1>3, <1>4, <1>5, <1>6 DEF Next

\* Every variable keeps its type, and every local pointer is set exactly
\* where its function has it set.
THEOREM TypeAndControl == Spec => [](TypeOK /\ Control)
<1>1. Init => TypeOK /\ Control
  BY ControlInit
<1>2. TypeOK /\ Control /\ [Next]_vars => (TypeOK /\ Control)'
  BY ControlStep
<1> QED BY <1>1, <1>2, PTL DEF Spec

\* ServiceCore keeps its type invariant: in particular a push, a retirement or
\* a dispatch is never started on handle 0 or on a queue that is not there.
THEOREM TypeCorrect == Spec => []TypeOK
BY TypeAndControl, PTL

-----------------------------------------------------------------------------
(***************************************************************************)
(* Second layer of the proofs: reference counts.                           *)
(* A step has one of seven effects on the references; there is one lemma   *)
(* per effect, and then each action is shown to have one of them.          *)
(***************************************************************************)

Deletes(t, s) == op[t].pc \in {"mark", "free"} /\ op[t].svc = s

\* Whatever counts a reference to a context finds it allocated.
HoldsLive ==
  /\ \A x \in HoldFrames : hold[x] # NoService => ctx[hold[x]] = "live"
  /\ \A s \in Services : s \in reg \/ s \in reserved => ctx[s] = "live"

\* delete_context runs for a context that nobody refers to, and only once.
DeletesLast ==
  \A t \in Threads, s \in Services : Deletes(t, s) =>
    /\ ctx[s] = "live"
    /\ HeldBy(s) = {} /\ s \notin reg /\ s \notin reserved
    /\ \A u \in Threads : Deletes(u, s) => u = t

RefInv == RefCount /\ HoldsLive /\ DeletesLast

\* Finitely many frames refer to a context.
LEMMA HeldFinite ==
  ASSUME NEW s
  PROVE  IsFiniteSet(HeldBy(s)) /\ Cardinality(HeldBy(s)) \in Nat
<1>1. IsFiniteSet({"worker", "launch", "op"})
  <2>1. IsFiniteSet({}) BY FS_EmptySet
  <2>2. IsFiniteSet({} \cup {"worker"}) BY <2>1, FS_AddElement
  <2>3. IsFiniteSet(({} \cup {"worker"}) \cup {"launch"}) BY <2>2, FS_AddElement
  <2>4. IsFiniteSet((({} \cup {"worker"}) \cup {"launch"}) \cup {"op"}) BY <2>3, FS_AddElement
  <2>5. {"worker", "launch", "op"} = (({} \cup {"worker"}) \cup {"launch"}) \cup {"op"}
    OBVIOUS
  <2> QED BY <2>4, <2>5
<1>2. IsFiniteSet(HoldFrames)
  BY <1>1, FS_Product, ConstantsAssumption DEF HoldFrames
<1>3. HeldBy(s) \in SUBSET HoldFrames
  BY DEF HeldBy
<1>4. IsFiniteSet(HeldBy(s))
  BY <1>2, <1>3, FS_Subset
<1> QED BY <1>4, FS_CardinalityType

\* A frame that held nothing takes a reference to s.
LEMMA HeldAdd ==
  ASSUME hold \in [HoldFrames -> MaybeService], NEW x \in HoldFrames,
         NEW s \in Services, hold[x] = NoService, hold' = [hold EXCEPT ![x] = s]
  PROVE  /\ Cardinality(HeldBy(s))' = Cardinality(HeldBy(s)) + 1
         /\ x \in HeldBy(s)'
         /\ \A r \in Services : r # s => HeldBy(r)' = HeldBy(r)
<1>1. s # NoService
  BY ConstantsAssumption
<1>2. HeldBy(s)' = HeldBy(s) \cup {x} /\ x \notin HeldBy(s)
  BY <1>1 DEF HeldBy
<1>3. Cardinality(HeldBy(s)') = Cardinality(HeldBy(s)) + 1
  BY <1>2, HeldFinite, FS_AddElement
<1>4. \A r \in Services : r # s => HeldBy(r)' = HeldBy(r)
  BY ConstantsAssumption DEF HeldBy
<1> QED BY <1>2, <1>3, <1>4

\* A frame gives up its reference to s.
LEMMA HeldRemove ==
  ASSUME hold \in [HoldFrames -> MaybeService], NEW x \in HoldFrames,
         NEW s \in Services, hold[x] = s, hold' = [hold EXCEPT ![x] = NoService]
  PROVE  /\ Cardinality(HeldBy(s))' = Cardinality(HeldBy(s)) - 1
         /\ HeldBy(s)' = HeldBy(s) \ {x}
         /\ x \in HeldBy(s)
         /\ \A r \in Services : r # s => HeldBy(r)' = HeldBy(r)
<1>1. s # NoService
  BY ConstantsAssumption
<1>2. HeldBy(s)' = HeldBy(s) \ {x} /\ x \in HeldBy(s)
  BY <1>1 DEF HeldBy
<1>3. Cardinality(HeldBy(s)') = Cardinality(HeldBy(s)) - 1
  BY ZenonT(60), <1>2, HeldFinite, FS_RemoveElement
<1>4. \A r \in Services : r # s => HeldBy(r)' = HeldBy(r)
  BY ConstantsAssumption DEF HeldBy
<1> QED BY <1>2, <1>3, <1>4

\* An empty set of holders is the one of cardinality 0.
LEMMA HeldNone ==
  ASSUME NEW s
  PROVE  Cardinality(HeldBy(s)) = 0 <=> HeldBy(s) = {}
BY HeldFinite, FS_EmptySet

-----------------------------------------------------------------------------
(* The effects. *)

\* Nobody starts to delete.
NoNewDelete ==
  \A u \in Threads, s \in Services : Deletes(u, s)' => Deletes(u, s)

\* A step that touches no reference keeps the counts.
LEMMA QuietEffect ==
  ASSUME TypeOK, RefInv, NoNewDelete, UNCHANGED <<ctx, ref, hold, reg, reserved>>
  PROVE  RefInv'
<1>1. \A s : HeldBy(s)' = HeldBy(s)
  BY DEF HeldBy
<1>2. RefCount'
  BY <1>1 DEF RefInv, RefCount
<1>3. HoldsLive'
  BY DEF RefInv, HoldsLive
<1>4. DeletesLast'
  BY <1>1 DEF RefInv, DeletesLast, NoNewDelete
<1> QED BY <1>2, <1>3, <1>4 DEF RefInv

\* skynet_handle_grab.
LEMMA GrabEffect ==
  ASSUME TypeOK, RefInv, NoNewDelete, NEW x \in HoldFrames, NEW s \in Services,
         s \in reg, hold[x] = NoService, ref' = Grabbed(s),
         hold' = [hold EXCEPT ![x] = s], UNCHANGED <<ctx, reg, reserved>>
  PROVE  RefInv'
<1>1. hold \in [HoldFrames -> MaybeService] /\ ref \in [Services -> Int]
  BY DEF TypeOK
<1>2. /\ Cardinality(HeldBy(s))' = Cardinality(HeldBy(s)) + 1
      /\ \A r \in Services : r # s => HeldBy(r)' = HeldBy(r)
  BY <1>1, HeldAdd
<1>3. RefCount'
  <2> SUFFICES ASSUME NEW r \in Services, ctx'[r] = "live"
               PROVE  ref'[r] = Cardinality(HeldBy(r)') + Bit(r \in reg') + Bit(r \in reserved')
    BY DEF RefCount
  <2>1. ref[r] = Cardinality(HeldBy(r)) + Bit(r \in reg) + Bit(r \in reserved)
    BY DEF RefInv, RefCount
  <2>2. CASE r = s
    <3>1. ref'[s] = ref[s] + 1
      BY <1>1 DEF Grabbed
    <3> QED BY <1>2, <2>1, <2>2, <3>1, HeldFinite DEF Bit
  <2>3. CASE r # s
    <3>1. ref'[r] = ref[r]
      BY <1>1, <2>3 DEF Grabbed
    <3> QED BY <1>2, <2>1, <2>3, <3>1
  <2> QED BY <2>2, <2>3
<1>4. HoldsLive'
  BY <1>1 DEF RefInv, HoldsLive
<1>5. DeletesLast'
  <2>1. \A u \in Threads : ~Deletes(u, s)
    BY DEF RefInv, DeletesLast
  <2> QED BY <1>2, <2>1 DEF RefInv, DeletesLast, NoNewDelete
<1> QED BY <1>3, <1>4, <1>5 DEF RefInv

\* skynet_context_release.
LEMMA ReleaseEffect ==
  ASSUME TypeOK, RefInv, NEW t \in Threads, NEW f \in {"worker", "launch", "op"},
         NEW s \in Services, hold[<<t, f>>] = s, op[t].pc \notin {"mark", "free"},
         DecRef(t, f, s), UNCHANGED <<ctx, reg, reserved>>
  PROVE  RefInv'
<1>1. /\ hold \in [HoldFrames -> MaybeService] /\ ref \in [Services -> Int]
      /\ <<t, f>> \in HoldFrames
  BY DEF TypeOK, HoldFrames
<1>2. /\ hold' = [hold EXCEPT ![<<t, f>>] = NoService]
      /\ ref' = [ref EXCEPT ![s] = @ - 1]
  BY DEF DecRef
<1>3. /\ Cardinality(HeldBy(s))' = Cardinality(HeldBy(s)) - 1
      /\ <<t, f>> \in HeldBy(s)
      /\ HeldBy(s)' = HeldBy(s) \ {<<t, f>>}
      /\ \A r \in Services : r # s => HeldBy(r)' = HeldBy(r)
  BY <1>1, <1>2, HeldRemove
<1>4. RefCount'
  <2> SUFFICES ASSUME NEW r \in Services, ctx'[r] = "live"
               PROVE  ref'[r] = Cardinality(HeldBy(r)') + Bit(r \in reg') + Bit(r \in reserved')
    BY DEF RefCount
  <2>1. ref[r] = Cardinality(HeldBy(r)) + Bit(r \in reg) + Bit(r \in reserved)
    BY DEF RefInv, RefCount
  <2>2. CASE r = s
    <3>1. ref'[s] = ref[s] - 1
      BY <1>1, <1>2
    <3>2. Cardinality(HeldBy(s)') = Cardinality(HeldBy(s)) - 1
      BY <1>3
    <3>3. Cardinality(HeldBy(s)) \in Nat
      BY HeldFinite
    <3> QED BY <2>1, <2>2, <3>1, <3>2, <3>3 DEF Bit
  <2>3. CASE r # s
    <3>1. ref'[r] = ref[r]
      BY <1>1, <1>2, <2>3
    <3> QED BY <1>3, <2>1, <2>3, <3>1
  <2> QED BY <2>2, <2>3
<1>5. HoldsLive'
  BY <1>1, <1>2 DEF RefInv, HoldsLive
<1>6. ctx[s] = "live" /\ \A u \in Threads : ~Deletes(u, s)
  <2>1. s # NoService
    BY ConstantsAssumption
  <2>2. ctx[s] = "live"
    BY <1>1, <2>1 DEF RefInv, HoldsLive
  <2>3. HeldBy(s) # {}
    BY <1>3
  <2> QED BY <2>2, <2>3 DEF RefInv, DeletesLast
<1>7. /\ op'[t].pc \in {"none", "mark"}
      /\ op'[t].pc = "mark" => op'[t].svc = s /\ ref[s] = 1
      /\ \A u \in Threads : u # t => op'[u] = op[u]
  BY DEF DecRef, TypeOK, NoOp, LastRef
<1>8. ASSUME op'[t].pc = "mark"
      PROVE  HeldBy(s)' = {} /\ s \notin reg /\ s \notin reserved
  <2>1. ref[s] = Cardinality(HeldBy(s)) + Bit(s \in reg) + Bit(s \in reserved)
    BY <1>6 DEF RefInv, RefCount
  <2>2. ref[s] = 1 /\ Cardinality(HeldBy(s)) \in Nat /\ Cardinality(HeldBy(s)) # 0
    BY <1>3, <1>7, <1>8, HeldFinite, HeldNone
  <2>3. Cardinality(HeldBy(s)) = 1 /\ s \notin reg /\ s \notin reserved
    BY <2>1, <2>2 DEF Bit
  <2>4. Cardinality(HeldBy(s) \ {<<t, f>>}) = 0
    BY <1>3, <2>3, HeldFinite, FS_RemoveElement
  <2>5. HeldBy(s) \ {<<t, f>>} = {}
    BY <2>4, HeldFinite, FS_RemoveElement, FS_EmptySet
  <2> QED BY <1>3, <2>3, <2>5
<1>9. DeletesLast'
  <2> SUFFICES ASSUME NEW u \in Threads, NEW r \in Services, Deletes(u, r)'
               PROVE  /\ ctx'[r] = "live"
                      /\ HeldBy(r)' = {} /\ r \notin reg' /\ r \notin reserved'
                      /\ \A v \in Threads : Deletes(v, r)' => v = u
    BY DEF DeletesLast
  <2>1. CASE r = s
    <3>1. \A v \in Threads : Deletes(v, s)' => v = t
      BY <1>6, <1>7 DEF Deletes
    <3>2. op'[t].pc = "mark"
      BY <1>7, <2>1, <3>1 DEF Deletes
    <3> QED BY <1>6, <1>8, <2>1, <3>1, <3>2
  <2>2. CASE r # s
    <3>1. \A v \in Threads : Deletes(v, r)' => Deletes(v, r)
      BY <1>7, <2>2 DEF Deletes
    <3> QED BY <1>3, <2>2, <3>1 DEF RefInv, DeletesLast
  <2> QED BY <2>1, <2>2
<1> QED BY <1>4, <1>5, <1>9 DEF RefInv

\* skynet_handle_retire: the table's reference moves to the caller.
LEMMA RetireEffect ==
  ASSUME TypeOK, RefInv, NEW t \in Threads, NEW s \in Services, s \in reg,
         hold[<<t, "op">>] = NoService, Retire(t, s), UNCHANGED <<ctx, ref, reserved>>
  PROVE  RefInv'
<1>1. /\ hold \in [HoldFrames -> MaybeService] /\ ref \in [Services -> Int]
      /\ <<t, "op">> \in HoldFrames
  BY DEF TypeOK, HoldFrames
<1>2. hold' = [hold EXCEPT ![<<t, "op">>] = s] /\ reg' = reg \ {s}
  BY DEF Retire
<1>3. /\ Cardinality(HeldBy(s))' = Cardinality(HeldBy(s)) + 1
      /\ \A r \in Services : r # s => HeldBy(r)' = HeldBy(r)
  BY <1>1, <1>2, HeldAdd
<1>4. RefCount'
  <2> SUFFICES ASSUME NEW r \in Services, ctx'[r] = "live"
               PROVE  ref'[r] = Cardinality(HeldBy(r)') + Bit(r \in reg') + Bit(r \in reserved')
    BY DEF RefCount
  <2>1. ref[r] = Cardinality(HeldBy(r)) + Bit(r \in reg) + Bit(r \in reserved)
    BY DEF RefInv, RefCount
  <2>2. CASE r = s
    BY <1>2, <1>3, <2>1, <2>2, HeldFinite DEF Bit
  <2>3. CASE r # s
    BY <1>2, <1>3, <2>1, <2>3 DEF Bit
  <2> QED BY <2>2, <2>3
<1>5. HoldsLive'
  BY <1>1, <1>2 DEF RefInv, HoldsLive
<1>6. DeletesLast'
  <2>1. \A u \in Threads : ~Deletes(u, s)
    BY DEF RefInv, DeletesLast
  <2>2. \A u \in Threads, r \in Services : Deletes(u, r)' => Deletes(u, r)
    BY DEF Retire, TypeOK, Deletes
  <2> QED BY <1>2, <1>3, <2>1, <2>2 DEF RefInv, DeletesLast
<1> QED BY <1>4, <1>5, <1>6 DEF RefInv

\* skynet_context_new: the table and the caller get the two references.
LEMMA LaunchEffect ==
  ASSUME TypeOK, RefInv, NEW t \in Threads, NEW s \in Services,
         hold[<<t, "launch">>] = NoService, Launch(t, s)
  PROVE  RefInv'
<1>1. /\ hold \in [HoldFrames -> MaybeService] /\ ref \in [Services -> Int]
      /\ ctx \in [Services -> {"none", "live", "freed"}]
      /\ <<t, "launch">> \in HoldFrames
  BY DEF TypeOK, HoldFrames
<1>2. /\ hold' = [hold EXCEPT ![<<t, "launch">>] = s] /\ reg' = reg \cup {s}
      /\ ctx[s] = "none" /\ ctx' = [ctx EXCEPT ![s] = "live"]
      /\ ref' = [ref EXCEPT ![s] = 2] /\ UNCHANGED <<reserved, op>>
  BY DEF Launch, LaunchWith
<1>3. /\ Cardinality(HeldBy(s))' = Cardinality(HeldBy(s)) + 1
      /\ \A r \in Services : r # s => HeldBy(r)' = HeldBy(r)
  BY <1>1, <1>2, HeldAdd
<1>4. HeldBy(s) = {} /\ s \notin reg /\ s \notin reserved
  BY <1>2, ConstantsAssumption DEF RefInv, HoldsLive, HeldBy
<1>5. Cardinality(HeldBy(s)) = 0
  BY <1>4, HeldNone
<1>6. RefCount'
  <2> SUFFICES ASSUME NEW r \in Services, ctx'[r] = "live"
               PROVE  ref'[r] = Cardinality(HeldBy(r)') + Bit(r \in reg') + Bit(r \in reserved')
    BY DEF RefCount
  <2>1. CASE r = s
    <3>1. ref'[s] = 2
      BY <1>1, <1>2
    <3> QED BY <1>2, <1>3, <1>4, <1>5, <2>1, <3>1 DEF Bit
  <2>2. CASE r # s
    <3>1. ref'[r] = ref[r] /\ ctx[r] = "live"
      BY <1>1, <1>2, <2>2
    <3> QED BY <1>2, <1>3, <2>2, <3>1 DEF RefInv, RefCount, Bit
  <2> QED BY <2>1, <2>2
<1>7. HoldsLive'
  BY <1>1, <1>2 DEF RefInv, HoldsLive
<1>8. DeletesLast'
  <2>1. \A u \in Threads : ~Deletes(u, s)
    BY <1>2 DEF RefInv, DeletesLast
  <2>2. \A u \in Threads, r \in Services : Deletes(u, r)' <=> Deletes(u, r)
    BY <1>2 DEF Deletes
  <2> QED BY <1>1, <1>2, <1>3, <2>1, <2>2 DEF RefInv, DeletesLast
<1> QED BY <1>6, <1>7, <1>8 DEF RefInv

\* skynet_context_reserve by the init function of the service.
LEMMA ReserveEffect ==
  ASSUME TypeOK, RefInv, NEW t \in Threads, NEW s \in Services,
         hold[<<t, "launch">>] = s, reserved = {}, reserved' = {s}, ref' = Grabbed(s),
         UNCHANGED <<ctx, reg, hold, op>>
  PROVE  RefInv'
<1>1. /\ hold \in [HoldFrames -> MaybeService] /\ ref \in [Services -> Int]
      /\ <<t, "launch">> \in HoldFrames /\ s # NoService
  BY ConstantsAssumption DEF TypeOK, HoldFrames
<1>2. \A r : HeldBy(r)' = HeldBy(r)
  BY DEF HeldBy
<1>3. ctx[s] = "live" /\ HeldBy(s) # {}
  BY <1>1 DEF RefInv, HoldsLive, HeldBy
<1>4. RefCount'
  <2> SUFFICES ASSUME NEW r \in Services, ctx'[r] = "live"
               PROVE  ref'[r] = Cardinality(HeldBy(r)') + Bit(r \in reg') + Bit(r \in reserved')
    BY DEF RefCount
  <2>1. ref[r] = Cardinality(HeldBy(r)) + Bit(r \in reg) + Bit(r \in reserved)
    BY DEF RefInv, RefCount
  <2>2. CASE r = s
    <3>1. ref'[s] = ref[s] + 1
      BY <1>1 DEF Grabbed
    <3> QED BY <1>2, <2>1, <2>2, <3>1, HeldFinite DEF Bit
  <2>3. CASE r # s
    <3>1. ref'[r] = ref[r]
      BY <1>1, <2>3 DEF Grabbed
    <3> QED BY <1>2, <2>1, <2>3, <3>1 DEF Bit
  <2> QED BY <2>2, <2>3
<1>5. HoldsLive'
  BY <1>3 DEF RefInv, HoldsLive
<1>6. DeletesLast'
  BY <1>2, <1>3 DEF RefInv, DeletesLast, Deletes
<1> QED BY <1>4, <1>5, <1>6 DEF RefInv

\* The end of delete_context.
LEMMA FreeEffect ==
  ASSUME TypeOK, RefInv, OpControl, NEW t \in Threads, FreeContext(t)
  PROVE  RefInv'
<1> DEFINE s == op[t].svc
<1>1. /\ op[t].pc = "free" /\ op' = [op EXCEPT ![t] = NoOp]
      /\ ctx' = [ctx EXCEPT ![s] = "freed"]
      /\ UNCHANGED <<ref, hold, reg, reserved>>
  BY DEF FreeContext
<1>2. s \in Services /\ Deletes(t, s) /\ ctx \in [Services -> {"none", "live", "freed"}]
  BY <1>1 DEF OpControl, Deletes, TypeOK
<1>3. /\ HeldBy(s) = {} /\ s \notin reg /\ s \notin reserved
      /\ \A u \in Threads : Deletes(u, s) => u = t
  BY <1>2 DEF RefInv, DeletesLast
<1>4. \A r : HeldBy(r)' = HeldBy(r)
  BY <1>1 DEF HeldBy
<1>5. RefCount'
  BY <1>1, <1>2, <1>4 DEF RefInv, RefCount
<1>6. HoldsLive'
  BY <1>1, <1>2, <1>3 DEF RefInv, HoldsLive, HeldBy
<1>7. \A u \in Threads, r \in Services : Deletes(u, r)' => Deletes(u, r) /\ r # s
  <2>1. op \in [Threads -> [pc : OpPC, svc : MaybeService, src : MaybeService]]
    BY DEF TypeOK
  <2>2. op'[t].pc = "none" /\ \A u \in Threads : u # t => op'[u] = op[u]
    BY <1>1, <2>1 DEF NoOp
  <2> QED BY <1>3, <2>2 DEF Deletes
<1>8. DeletesLast'
  BY <1>1, <1>2, <1>4, <1>7 DEF RefInv, DeletesLast
<1> QED BY <1>5, <1>6, <1>8 DEF RefInv

-----------------------------------------------------------------------------
(* The actions. *)

\* A push, a release and a delete keep the counts.
LEMMA RefOp ==
  ASSUME TypeOK, Control, RefInv, NEW t \in Threads, OpStep(t)
  PROVE  RefInv'
<1> USE DEF heap, mq, node
<1>0. op \in [Threads -> [pc : OpPC, svc : MaybeService, src : MaybeService]]
  BY DEF TypeOK
<1>1. CASE PushGrab(t)
  <2>1. op[t].pc = "grab" /\ UNCHANGED <<ctx, reg, reserved>>
    BY <1>1 DEF PushGrab
  <2>2. CASE op[t].svc \in reg
    <3>1. /\ ref' = Grabbed(op[t].svc) /\ hold' = [hold EXCEPT ![<<t, "op">>] = op[t].svc]
          /\ op' = [op EXCEPT ![t].pc = "push"]
      BY <1>1, <2>2 DEF PushGrab
    <3>2. NoNewDelete
      BY <1>0, <3>1 DEF NoNewDelete, Deletes
    <3>3. hold[<<t, "op">>] = NoService /\ op[t].svc \in Services
      BY <2>1 DEF Control, OpControl
    <3> QED BY <2>1, <2>2, <3>1, <3>2, <3>3, Frames, GrabEffect
  <2>3. CASE op[t].svc \notin reg
    <3>1. op' = [op EXCEPT ![t] = NoOp] /\ UNCHANGED <<ref, hold>>
      BY <1>1, <2>3 DEF PushGrab
    <3>2. NoNewDelete
      BY <1>0, <3>1 DEF NoNewDelete, Deletes, NoOp
    <3> QED BY <2>1, <3>1, <3>2, QuietEffect
  <2> QED BY <2>2, <2>3
<1>2. CASE MqPush(t)
  <2>1. op' = [op EXCEPT ![t].pc = "unref"] /\ UNCHANGED <<ctx, ref, hold, reg, reserved>>
    BY <1>2 DEF MqPush
  <2>2. NoNewDelete
    BY <1>0, <2>1 DEF NoNewDelete, Deletes
  <2> QED BY <2>1, <2>2, QuietEffect
<1>3. CASE OpUnref(t)
  <2> DEFINE s == hold[<<t, "op">>]
  <2>1. op[t].pc = "unref" /\ s \in Services /\ DecRef(t, "op", s)
    BY <1>3 DEF OpUnref, Control, OpControl
  <2>2. UNCHANGED <<ctx, reg, reserved>>
    BY <1>3 DEF OpUnref
  <2> QED BY <2>1, <2>2, ReleaseEffect
<1>4. CASE MarkRelease(t)
  <2>1. /\ op[t].pc = "mark" /\ op' = [op EXCEPT ![t].pc = "free"]
        /\ UNCHANGED <<ctx, ref, hold, reg, reserved>>
    BY <1>4 DEF MarkRelease
  <2>2. NoNewDelete
    BY <1>0, <2>1 DEF NoNewDelete, Deletes
  <2> QED BY <2>1, <2>2, QuietEffect
<1>5. CASE FreeContext(t)
  BY <1>5, FreeEffect DEF Control
<1> QED BY <1>1, <1>2, <1>3, <1>4, <1>5 DEF OpStep

\* Draining a queue keeps the counts: it only drops messages.
LEMMA RefDrain ==
  ASSUME TypeOK, RefInv, NEW t \in Threads, DrainStep(t)
  PROVE  RefInv'
<1> USE DEF heap, mq, node
<1>0. op \in [Threads -> [pc : OpPC, svc : MaybeService, src : MaybeService]]
  BY DEF TypeOK
<1>1. UNCHANGED <<ctx, ref, hold, reg, reserved>>
  BY DEF DrainStep, DrainPop, DrainFree
<1>2. (\A u \in Threads : u # t => op'[u] = op[u]) /\ (op'[t] = op[t] \/ op'[t].pc \in {"none", "grab"})
  BY <1>0 DEF DrainStep, DrainPop, DrainFree, NoOp
<1>3. NoNewDelete
  BY <1>2 DEF NoNewDelete, Deletes
<1> QED BY <1>1, <1>3, QuietEffect

\* The steps of skynet_context_new keep the counts.
LEMMA RefLaunch ==
  ASSUME TypeOK, Control, RefInv, NEW t \in Threads, LaunchStep(t)
  PROVE  RefInv'
<1> USE DEF heap, mq, node
<1> DEFINE s == lnch[t].svc
<1>s. s \in Services /\ op[t].pc = "none"
  BY DEF LaunchStep, InitOk, InitFail, SetInit, LaunchPushQueue, LaunchReturn, FailRetire,
     FailMqRelease, Returned, OpIdle, Control, LaunchControl
<1>1. CASE InitOk(t) \/ InitFail(t)
  <2>1. lnch[t].pc = "init" /\ DecRef(t, "launch", s) /\ UNCHANGED <<ctx, reg, reserved>>
    BY <1>1 DEF InitOk, InitFail
  <2>2. hold[<<t, "launch">>] = s
    BY <2>1 DEF Control, LaunchControl
  <2> QED BY <1>s, <2>1, <2>2, ReleaseEffect
<1>2. CASE SetInit(t) \/ LaunchPushQueue(t) \/ LaunchReturn(t) \/ FailMqRelease(t)
  <2>1. UNCHANGED <<ctx, ref, hold, reg, reserved, op>>
    BY <1>2 DEF SetInit, LaunchPushQueue, LaunchReturn, FailMqRelease
  <2>2. NoNewDelete
    BY <2>1 DEF NoNewDelete, Deletes
  <2> QED BY <2>1, <2>2, QuietEffect
<1>3. CASE FailRetire(t)
  <2>1. UNCHANGED <<ctx, ref, reserved>>
    BY <1>3 DEF FailRetire
  <2>2. CASE s \in reg
    <3>1. Retire(t, s) /\ hold[<<t, "op">>] = NoService
      BY <1>s, <1>3, <2>2 DEF FailRetire, Control, OpControl
    <3> QED BY <1>s, <2>1, <2>2, <3>1, RetireEffect
  <2>3. CASE s \notin reg
    <3>1. UNCHANGED <<reg, hold, op>>
      BY <1>3, <2>3 DEF FailRetire
    <3>2. NoNewDelete
      BY <3>1 DEF NoNewDelete, Deletes
    <3> QED BY <2>1, <3>1, <3>2, QuietEffect
  <2> QED BY <2>2, <2>3
<1> QED BY <1>1, <1>2, <1>3 DEF LaunchStep

\* The steps of a worker's dispatch keep the counts.
LEMMA RefWorker ==
  ASSUME TypeOK, Control, RefInv, NEW t \in Threads, WorkerStep(t)
  PROVE  RefInv'
<1> USE DEF heap, mq, node
<1>1. CASE WorkerGrab(t)
  <2> DEFINE s == have[<<t, "q">>]
  <2>1. /\ wpc[t] = "grab" /\ t \in Workers /\ s \in reg /\ ref' = Grabbed(s)
        /\ hold' = [hold EXCEPT ![<<t, "worker">>] = s]
        /\ UNCHANGED <<ctx, reg, reserved, op>>
    BY <1>1 DEF WorkerGrab, WorkerAt
  <2>2. s \in Services /\ hold[<<t, "worker">>] = NoService
    BY <2>1 DEF TypeOK, Control, WorkerControl
  <2>3. NoNewDelete
    BY <2>1 DEF NoNewDelete, Deletes
  <2> QED BY <2>1, <2>2, <2>3, Frames, GrabEffect
<1>2. CASE WorkerUnref(t)
  <2> DEFINE s == hold[<<t, "worker">>]
  <2>1. /\ t \in Workers /\ op[t].pc = "none" /\ wpc[t] \in {"unref", "unrefidle"}
        /\ DecRef(t, "worker", s) /\ UNCHANGED <<ctx, reg, reserved>>
    BY <1>2 DEF WorkerUnref, LaunchIdle, Returned, OpIdle
  <2>2. s \in Services
    BY <2>1, Frames DEF TypeOK, MaybeService, Control, WorkerControl
  <2> QED BY <2>1, <2>2, ReleaseEffect
<1>3. CASE \/ GlobalPop(t) \/ WorkerDead(t) \/ PopEmpty(t) \/ PopMessage(t) \/ BatchLength(t)
           \/ Dispatch(t) \/ EndRound(t) \/ NextQueue(t) \/ PushBack(t)
  <2>1. UNCHANGED <<ctx, ref, hold, reg, reserved, op>>
    BY <1>3 DEF GlobalPop, WorkerDead, PopEmpty, PopEmptyWith, PopMessage, BatchLength,
       Dispatch, EndRound, NextQueue, PushBack
  <2>2. NoNewDelete
    BY <2>1 DEF NoNewDelete, Deletes
  <2> QED BY <2>1, <2>2, QuietEffect
<1> QED BY <1>1, <1>2, <1>3 DEF WorkerStep

\* The calls a service makes keep the counts.
LEMMA RefCall ==
  ASSUME TypeOK, Control, RefInv, NEW t \in Threads, Call(t)
  PROVE  RefInv'
<1> USE DEF heap, mq, node
<1>0. op \in [Threads -> [pc : OpPC, svc : MaybeService, src : MaybeService]]
  BY DEF TypeOK
<1>1. ASSUME NEW d \in Services, Send(t, d)
      PROVE  RefInv'
  <2>1. /\ op' = [op EXCEPT ![t] = [pc |-> "grab", svc |-> d, src |-> Self(t)]]
        /\ UNCHANGED <<ctx, ref, hold, reg, reserved>>
    BY <1>1 DEF Send
  <2>2. NoNewDelete
    BY <1>0, <2>1 DEF NoNewDelete, Deletes
  <2> QED BY <2>1, <2>2, QuietEffect
<1>2. ASSUME NEW d \in Services, HarborSend(t, d)
      PROVE  RefInv'
  <2>1. UNCHANGED <<ctx, ref, hold, reg, reserved, op>>
    BY <1>2 DEF HarborSend
  <2>2. NoNewDelete
    BY <2>1 DEF NoNewDelete, Deletes
  <2> QED BY <2>1, <2>2, QuietEffect
<1>3. ASSUME NEW s \in Services, Kill(t, s)
      PROVE  RefInv'
  <2>1. s \in reg /\ Retire(t, s) /\ op[t].pc = "none" /\ UNCHANGED <<ctx, ref, reserved>>
    BY <1>3 DEF Kill, InService, Returned, OpIdle
  <2>2. hold[<<t, "op">>] = NoService
    BY <2>1 DEF Control, OpControl
  <2> QED BY <2>1, <2>2, RetireEffect
<1>4. ASSUME NEW s \in Services, Launch(t, s)
      PROVE  RefInv'
  <2>1. hold[<<t, "launch">>] = NoService
    BY <1>4 DEF Launch, LaunchWith, Control, LaunchControl
  <2> QED BY <1>4, <2>1, LaunchEffect
<1>5. CASE Reserve(t)
  <2> DEFINE s == lnch[t].svc
  <2>1. /\ lnch[t].pc = "init" /\ reserved = {} /\ reserved' = {s} /\ ref' = Grabbed(s)
        /\ UNCHANGED <<ctx, reg, hold, op>>
    BY <1>5 DEF Reserve, ReserveWith
  <2>2. s \in Services /\ hold[<<t, "launch">>] = s
    BY <2>1 DEF Control, LaunchControl
  <2> QED BY <2>1, <2>2, ReserveEffect
<1> QED BY <1>1, <1>2, <1>3, <1>4, <1>5 DEF Call

\* No reference exists before the bootstrap.
LEMMA RefInit == Init => RefInv
<1> SUFFICES ASSUME Init PROVE RefInv
  OBVIOUS
<1>1. RefCount /\ HoldsLive
  BY DEF Init, RefCount, HoldsLive
<1>2. DeletesLast
  BY DEF Init, DeletesLast, Deletes, NoOp
<1> QED BY <1>1, <1>2 DEF RefInv

\* The counts are inductive on top of types and control.
LEMMA RefStep == TypeOK /\ Control /\ RefInv /\ [Next]_vars => RefInv'
<1> SUFFICES ASSUME TypeOK, Control, RefInv, [Next]_vars PROVE RefInv'
  OBVIOUS
<1>1. ASSUME NEW t \in Threads, OpStep(t) PROVE RefInv'
  BY <1>1, RefOp
<1>2. ASSUME NEW t \in Threads, DrainStep(t) PROVE RefInv'
  BY <1>2, RefDrain
<1>3. ASSUME NEW t \in Threads, LaunchStep(t) PROVE RefInv'
  BY <1>3, RefLaunch
<1>4. ASSUME NEW t \in Threads, WorkerStep(t) PROVE RefInv'
  BY <1>4, RefWorker
<1>5. ASSUME NEW t \in Threads, Call(t) PROVE RefInv'
  BY <1>5, RefCall
<1>6. CASE UNCHANGED vars
  <2>1. UNCHANGED <<ctx, ref, hold, reg, reserved, op>>
    BY <1>6 DEF vars, heap, mq, node
  <2>2. NoNewDelete
    BY <2>1 DEF NoNewDelete, Deletes
  <2> QED BY <2>1, <2>2, QuietEffect
<1> QED BY <1>1, <1>2, <1>3, <1>4, <1>5, <1>6 DEF Next

\* References are counted exactly, what they refer to is allocated, and a
\* context is deleted once, when nothing refers to it.
THEOREM References == Spec => [](TypeOK /\ Control /\ RefInv)
<1>1. Init => TypeOK /\ Control /\ RefInv
  BY ControlInit, RefInit
<1>2. (TypeOK /\ Control /\ RefInv) /\ [Next]_vars => (TypeOK /\ Control /\ RefInv)'
  BY ControlStep, RefStep
<1> QED BY <1>1, <1>2, PTL DEF Spec

\* ctx->ref is the number of references to the context that exist: the handle
\* table, the harbor reservation and the local pointers of all threads.
THEOREM RefCountExact == Spec => []RefCount
<1>1. TypeOK /\ Control /\ RefInv => RefCount
  BY DEF RefInv
<1> QED BY <1>1, References, PTL

-----------------------------------------------------------------------------
(***************************************************************************)
(* Third layer of the proofs: message queues.  A step                      *)
(* pushes to a queue, pops from it, marks or frees it, puts it to sleep,   *)
(* or hands it from one owner (the global list, a thread) to another.      *)
(***************************************************************************)

Frees(t, s) == op[t].pc = "free" /\ op[t].svc = s

\* The queue is allocated with its context, and freed after it: release is
\* set by the thread that frees the context, just before.
QueueLife ==
  \A s \in Services :
    /\ queue[s] = "none" <=> ctx[s] = "none"
    /\ ctx[s] = "none" => msgs[s] = <<>> /\ ~release[s] /\ ~Owned(s)
    /\ queue[s] = "freed" => release[s] /\ ~Owned(s)
    /\ release[s] <=> ctx[s] = "freed" \/ \E t \in Threads : Frees(t, s)

\* in_global and release tell exactly which queues have an owner, and a queue
\* that has none is empty.
QueueFlags ==
  \A s \in Services :
    /\ queue[s] = "live" => (inGlobal[s] \/ release[s] <=> Owned(s))
    /\ ~inGlobal[s] => msgs[s] = <<>>

\* Only a marked queue is drained.
DrainsMarked ==
  \A t \in Threads, s \in Services : have[<<t, "drain">>] = s => release[s]

QueueInv == QueueLife /\ QueueFlags /\ QueueOnce /\ DrainsMarked

\* All that the steps of the queues rely on.
Sound == TypeOK /\ Control /\ RefInv /\ QueueInv

-----------------------------------------------------------------------------
(* The global list.                                                        *)

Distinct == \A i, j \in DOMAIN global : global[i] = global[j] => i = j

\* skynet_globalmq_push of a queue that is not listed.
LEMMA ListedAppend ==
  ASSUME global \in Seq(Services), NEW d \in Services, global' = Append(global, d)
  PROVE  /\ \A s \in Services : Listed(s)' <=> Listed(s) \/ s = d
         /\ Distinct /\ ~Listed(d) => Distinct'
<1>1. /\ DOMAIN global = 1 .. Len(global) /\ Len(global) \in Nat
      /\ DOMAIN global' = 1 .. Len(global) + 1
      /\ \A i \in DOMAIN global : global'[i] = global[i]
      /\ global'[Len(global) + 1] = d
  OBVIOUS
<1>2. \A i \in DOMAIN global' : i \in DOMAIN global \/ i = Len(global) + 1
  BY <1>1
<1>3. Len(global) + 1 \in DOMAIN global' /\ DOMAIN global \subseteq DOMAIN global'
  BY <1>1
<1>4. \A s \in Services : Listed(s)' <=> Listed(s) \/ s = d
  BY <1>1, <1>2, <1>3 DEF Listed
<1>5. ASSUME Distinct, ~Listed(d) PROVE Distinct'
  BY <1>1, <1>2, <1>5 DEF Distinct, Listed
<1> QED BY <1>4, <1>5

\* skynet_globalmq_pop of a list without repetition.
LEMMA ListedTail ==
  ASSUME global \in Seq(Services), global # <<>>, global' = Tail(global), Distinct
  PROVE  /\ Head(global) \in Services /\ Listed(Head(global))
         /\ \A s \in Services : Listed(s)' <=> Listed(s) /\ s # Head(global)
         /\ Distinct'
<1>1. /\ DOMAIN global = 1 .. Len(global) /\ Len(global) \in Nat /\ Len(global) > 0
      /\ DOMAIN global' = 1 .. Len(global) - 1
      /\ \A i \in DOMAIN global' : global'[i] = global[i + 1]
      /\ Head(global) = global[1] /\ global[1] \in Services
  OBVIOUS
<1>2. 1 \in DOMAIN global /\ \A i \in DOMAIN global' : i + 1 \in DOMAIN global /\ i + 1 # 1
  BY <1>1
<1>3. \A i \in DOMAIN global : i # 1 => i - 1 \in DOMAIN global' /\ (i - 1) + 1 = i
  BY <1>1
<1>4. ASSUME NEW s \in Services
      PROVE  Listed(s)' <=> Listed(s) /\ s # Head(global)
  <2>1. ASSUME Listed(s)' PROVE Listed(s) /\ s # Head(global)
    BY <1>1, <1>2, <2>1 DEF Listed, Distinct
  <2>2. ASSUME Listed(s), s # Head(global) PROVE Listed(s)'
    <3>1. PICK i \in DOMAIN global : global[i] = s
      BY <2>2 DEF Listed
    <3>2. i # 1
      BY <1>1, <2>2, <3>1
    <3> QED BY <1>1, <1>3, <3>1, <3>2 DEF Listed
  <2> QED BY <2>1, <2>2
<1>5. Distinct'
  <2> SUFFICES ASSUME NEW i \in DOMAIN global', NEW j \in DOMAIN global',
                      global'[i] = global'[j]
               PROVE  i = j
    BY DEF Distinct
  <2>1. i + 1 = j + 1
    BY <1>1, <1>2 DEF Distinct
  <2> QED BY <1>1, <2>1
<1>6. Listed(Head(global))
  BY <1>1, <1>2 DEF Listed
<1> QED BY <1>1, <1>4, <1>5, <1>6

-----------------------------------------------------------------------------
(* What the invariant says of a queue that a step is about to use.         *)

\* A context that is referred to has its queue, and is not being deleted.
LEMMA HeldQueue ==
  ASSUME Sound, NEW s \in Services,
         HeldBy(s) # {} \/ s \in reserved \/ s \in reg
  PROVE  queue[s] = "live" /\ ~release[s] /\ ctx[s] = "live"
<1>1. ctx[s] = "live"
  <2>1. CASE s \in reserved \/ s \in reg
    BY <2>1 DEF Sound, RefInv, HoldsLive
  <2>2. CASE HeldBy(s) # {}
    <3>1. PICK x \in HoldFrames : hold[x] = s
      BY <2>2 DEF HeldBy
    <3> QED BY <3>1, ConstantsAssumption DEF Sound, RefInv, HoldsLive
  <2> QED BY <2>1, <2>2
<1>2. \A t \in Threads : ~Frees(t, s)
  BY DEF Sound, RefInv, DeletesLast, Deletes, Frees
<1>3. ~release[s]
  BY <1>1, <1>2 DEF Sound, QueueInv, QueueLife
<1> QED BY <1>1, <1>3 DEF Sound, QueueInv, QueueLife, TypeOK

\* delete_context finds a queue that is not yet marked.
LEMMA MarkedQueue ==
  ASSUME Sound, NEW t \in Threads, op[t].pc = "mark"
  PROVE  /\ op[t].svc \in Services /\ ctx[op[t].svc] = "live"
         /\ queue[op[t].svc] = "live" /\ ~release[op[t].svc]
<1> DEFINE s == op[t].svc
<1>1. s \in Services
  BY DEF Sound, Control, OpControl
<1>2. Deletes(t, s)
  BY DEF Deletes
<1>3. ctx[s] = "live" /\ \A u \in Threads : Deletes(u, s) => u = t
  BY <1>1, <1>2 DEF Sound, RefInv, DeletesLast
<1>4. \A u \in Threads : ~Frees(u, s)
  BY <1>3 DEF Deletes, Frees
<1>5. ~release[s]
  BY <1>1, <1>3, <1>4 DEF Sound, QueueInv, QueueLife
<1> QED BY <1>1, <1>3, <1>5 DEF Sound, QueueInv, QueueLife, TypeOK

-----------------------------------------------------------------------------
(* The effects of a step on the queues.                                    *)

SameFrees == \A t \in Threads, s \in Services : Frees(t, s)' <=> Frees(t, s)

\* A step that leaves queues and owners alone.
LEMMA QuietQueue ==
  ASSUME QueueInv, SameFrees, UNCHANGED <<ctx, queue, mq, have>>
  PROVE  QueueInv'
<1>1. \A s \in Services : Owned(s)' <=> Owned(s)
  BY DEF Owned, Listed, mq
<1>2. QueueLife'
  BY <1>1 DEF mq, QueueInv, QueueLife, SameFrees
<1>3. QueueFlags' /\ QueueOnce' /\ DrainsMarked'
  BY <1>1 DEF mq, QueueInv, QueueFlags, QueueOnce, DrainsMarked, Listed
<1> QED BY <1>2, <1>3 DEF QueueInv

\* A queue changes hands.
LEMMA HandOver ==
  ASSUME QueueInv, SameFrees, UNCHANGED <<ctx, queue, msgs, inGlobal, release>>,
         \A s \in Services : Owned(s)' <=> Owned(s), QueueOnce', DrainsMarked'
  PROVE  QueueInv'
<1>1. QueueLife'
  BY DEF QueueInv, QueueLife, SameFrees
<1>2. QueueFlags'
  BY DEF QueueInv, QueueFlags
<1> QED BY <1>1, <1>2 DEF QueueInv

\* A thread puts the queue of frame x on the global list.
LEMMA GiveBack ==
  ASSUME TypeOK, QueueInv, SameFrees, UNCHANGED <<ctx, queue, msgs, inGlobal, release>>,
         NEW x \in HaveFrames, have[x] \in Services,
         global' = Append(global, have[x]),
         have' = [have EXCEPT ![x] = NoService]
  PROVE  QueueInv'
<1>1. /\ \A s \in Services : Listed(s)' <=> Listed(s) \/ s = have[x]
      /\ Distinct /\ ~Listed(have[x]) => Distinct'
  BY ListedAppend DEF TypeOK
<1>2. have'[x] = NoService /\ \A y \in HaveFrames : y # x => have'[y] = have[y]
  BY DEF TypeOK
<1>3. have[x] # NoService /\ \A y \in HaveFrames : have[y] # NoService => have[y] \in Services
  BY ConstantsAssumption DEF TypeOK, MaybeService
<1>4. \A s \in Services : Owned(s)' <=> Owned(s)
  BY <1>1, <1>2, ConstantsAssumption DEF Owned
<1>5. QueueOnce'
  <2>1. Distinct'
    BY <1>1, <1>3 DEF QueueInv, QueueOnce, Distinct
  <2>2. \A y \in HaveFrames : (have[y] # NoService => ~Listed(have[y]))'
    BY <1>1, <1>2, <1>3 DEF QueueInv, QueueOnce
  <2>3. \A y, z \in HaveFrames : have'[y] # NoService /\ have'[y] = have'[z] => y = z
    BY <1>2 DEF QueueInv, QueueOnce
  <2> QED BY <2>1, <2>2, <2>3 DEF QueueOnce, Distinct, Listed
<1>6. DrainsMarked'
  BY <1>2, Frames, ConstantsAssumption DEF QueueInv, DrainsMarked
<1> QED BY <1>4, <1>5, <1>6, HandOver

\* A thread takes the first queue of the list into the empty frame x.
LEMMA Take ==
  ASSUME TypeOK, QueueInv, SameFrees, UNCHANGED <<ctx, queue, msgs, inGlobal, release>>,
         NEW x \in HaveFrames, have[x] = NoService, global # <<>>,
         \A t \in Threads : x # <<t, "drain">>,
         global' = Tail(global),
         have' = [have EXCEPT ![x] = Head(global)]
  PROVE  QueueInv'
<1>0. Distinct
  BY DEF QueueInv, QueueOnce, Distinct
<1>1. /\ Head(global) \in Services /\ Listed(Head(global))
      /\ \A s \in Services : Listed(s)' <=> Listed(s) /\ s # Head(global)
      /\ Distinct'
  BY <1>0, ListedTail DEF TypeOK
<1>2. have'[x] = Head(global) /\ \A y \in HaveFrames : y # x => have'[y] = have[y]
  BY DEF TypeOK
<1>3. \A y \in HaveFrames : have[y] # NoService => have[y] \in Services
  BY ConstantsAssumption DEF TypeOK, MaybeService
<1>4. \A s \in Services : Owned(s)' <=> Owned(s)
  BY <1>1, <1>2, ConstantsAssumption DEF Owned
<1>5. QueueOnce'
  <2>1. \A y \in HaveFrames : have[y] # Head(global)
    BY <1>1, ConstantsAssumption DEF QueueInv, QueueOnce
  <2>2. \A y \in HaveFrames : (have[y] # NoService => ~Listed(have[y]))'
    BY <1>1, <1>2, <1>3 DEF QueueInv, QueueOnce
  <2>3. \A y, z \in HaveFrames : have'[y] # NoService /\ have'[y] = have'[z] => y = z
    BY <1>2, <2>1 DEF QueueInv, QueueOnce
  <2> QED BY <1>1, <2>2, <2>3 DEF QueueOnce, Distinct, Listed
<1>6. DrainsMarked'
  BY <1>2, Frames DEF QueueInv, DrainsMarked
<1> QED BY <1>4, <1>5, <1>6, HandOver

\* skynet_globalmq_push(q) and q = nq of a worker.
LEMMA Swap ==
  ASSUME TypeOK, QueueInv, SameFrees, UNCHANGED <<ctx, queue, msgs, inGlobal, release>>,
         NEW x \in HaveFrames, NEW z \in HaveFrames, x # z,
         have[x] \in Services, have[z] \in Services,
         \A t \in Threads : x # <<t, "drain">> /\ z # <<t, "drain">>,
         global' = Append(global, have[x]),
         have' = [have EXCEPT ![x] = have[z], ![z] = NoService]
  PROVE  QueueInv'
<1>1. /\ \A s \in Services : Listed(s)' <=> Listed(s) \/ s = have[x]
      /\ Distinct /\ ~Listed(have[x]) => Distinct'
  BY ListedAppend DEF TypeOK
<1>2. /\ have'[x] = have[z] /\ have'[z] = NoService
      /\ \A y \in HaveFrames : y # x /\ y # z => have'[y] = have[y]
  BY DEF TypeOK
<1>3. /\ have[x] # NoService /\ have[z] # NoService
      /\ \A y \in HaveFrames : have[y] # NoService => have[y] \in Services
  BY ConstantsAssumption DEF TypeOK, MaybeService
<1>4. \A s \in Services : Owned(s)' <=> Owned(s)
  BY <1>1, <1>2, ConstantsAssumption DEF Owned
<1>5. QueueOnce'
  <2>1. Distinct'
    BY <1>1, <1>3 DEF QueueInv, QueueOnce, Distinct
  <2>2. \A y \in HaveFrames : (have[y] # NoService => ~Listed(have[y]))'
    BY <1>1, <1>2, <1>3 DEF QueueInv, QueueOnce
  <2>3. ASSUME NEW y \in HaveFrames, NEW w \in HaveFrames,
               have'[y] # NoService, have'[y] = have'[w]
        PROVE  y = w
    <3>1. y # z /\ w # z
      BY <1>2, <2>3
    <3>2. \A v, u \in HaveFrames : have[v] # NoService /\ have[v] = have[u] => v = u
      BY DEF QueueInv, QueueOnce
    <3>3. CASE y = x
      BY <1>2, <1>3, <2>3, <3>1, <3>2, <3>3
    <3>4. CASE w = x
      BY <1>2, <1>3, <2>3, <3>1, <3>2, <3>4
    <3>5. CASE y # x /\ w # x
      BY <1>2, <2>3, <3>1, <3>2, <3>5
    <3> QED BY <3>3, <3>4, <3>5
  <2> QED BY <2>1, <2>2, <2>3 DEF QueueOnce, Distinct, Listed
<1>6. DrainsMarked'
  BY <1>2, Frames DEF QueueInv, DrainsMarked
<1> QED BY <1>4, <1>5, <1>6, HandOver

\* skynet_mq_release of a marked queue: _drop_queue gets it.
LEMMA ToDrain ==
  ASSUME TypeOK, QueueInv, SameFrees, UNCHANGED <<ctx, queue, mq>>,
         NEW x \in HaveFrames, NEW t \in Threads, x # <<t, "drain">>,
         have[x] \in Services, release[have[x]], have[<<t, "drain">>] = NoService,
         have' = [have EXCEPT ![x] = NoService, ![<<t, "drain">>] = have[x]]
  PROVE  QueueInv'
<1> DEFINE z == <<t, "drain">>
<1>1. z \in HaveFrames
  BY Frames
<1>2. /\ have'[z] = have[x] /\ have'[x] = NoService
      /\ \A y \in HaveFrames : y # x /\ y # z => have'[y] = have[y]
  BY <1>1 DEF TypeOK
<1>3. have[x] # NoService
  BY ConstantsAssumption
<1>4. \A s \in Services : Listed(s)' <=> Listed(s)
  BY DEF Listed, mq
<1>5. \A s \in Services : Owned(s)' <=> Owned(s)
  BY <1>1, <1>2, <1>4, ConstantsAssumption DEF Owned
<1>6. QueueOnce'
  <2>1. \A y \in HaveFrames : have[y] # NoService => have[y] \in Services
    BY ConstantsAssumption DEF TypeOK, MaybeService
  <2>2. \A y \in HaveFrames : (have[y] # NoService => ~Listed(have[y]))'
    BY ZenonT(60), <1>1, <1>2, <1>3, <1>4, <2>1 DEF QueueInv, QueueOnce
  <2>3. \A y, w \in HaveFrames : have'[y] # NoService /\ have'[y] = have'[w] => y = w
    BY <1>1, <1>2, <1>3 DEF QueueInv, QueueOnce
  <2> QED BY <2>2, <2>3 DEF QueueInv, QueueOnce, Listed, mq
<1>7. DrainsMarked'
  <2> SUFFICES ASSUME NEW u \in Threads, NEW s \in Services, have'[<<u, "drain">>] = s
               PROVE  release[s]
    BY DEF DrainsMarked, mq
  <2>1. CASE <<u, "drain">> = z
    BY <1>2, <2>1
  <2>2. CASE <<u, "drain">> # z
    <3>1. have[<<u, "drain">>] = s
      BY <1>2, <2>2, Frames, ConstantsAssumption
    <3> QED BY <3>1 DEF QueueInv, DrainsMarked
  <2> QED BY <2>1, <2>2
<1> QED BY <1>5, <1>6, <1>7, HandOver DEF mq

\* A push or a mark leaves the queue with an owner, and with one only.
LEMMA EnlistOwned ==
  ASSUME TypeOK, QueueInv, NEW d \in Services, queue[d] = "live", ~release[d],
         global' = Enlist(d), have' = have
  PROVE  (\A s \in Services : Owned(s)' <=> Owned(s) \/ s = d) /\ QueueOnce'
<1>1. CASE inGlobal[d]
  <2>1. global' = global /\ Owned(d)
    BY <1>1 DEF Enlist, QueueInv, QueueFlags
  <2> QED BY <2>1 DEF Owned, Listed, QueueInv, QueueOnce
<1>2. CASE ~inGlobal[d]
  <2>1. global' = Append(global, d) /\ ~Owned(d)
    BY <1>2 DEF Enlist, QueueInv, QueueFlags
  <2>2. /\ \A s \in Services : Listed(s)' <=> Listed(s) \/ s = d
        /\ Distinct /\ ~Listed(d) => Distinct'
    BY <2>1, ListedAppend DEF TypeOK
  <2>3. Distinct'
    BY <2>1, <2>2 DEF Owned, QueueInv, QueueOnce, Distinct
  <2>4. \A y \in HaveFrames : have[y] # NoService => have[y] \in Services
    BY DEF TypeOK, MaybeService
  <2>5. \A y \in HaveFrames : (have[y] # NoService => ~Listed(have[y]))'
    BY <2>1, <2>2, <2>4 DEF Owned, QueueInv, QueueOnce
  <2>6. QueueOnce'
    BY <2>3, <2>5 DEF QueueInv, QueueOnce, Distinct, Listed
  <2> QED BY <2>2, <2>6 DEF Owned
<1> QED BY <1>1, <1>2

\* skynet_mq_push to an allocated queue.
LEMMA Push ==
  ASSUME TypeOK, QueueInv, SameFrees, UNCHANGED <<ctx, queue, release, have>>,
         NEW d \in Services, queue[d] = "live", ~release[d], NEW m \in MaybeService,
         msgs' = [msgs EXCEPT ![d] = Append(@, m)],
         inGlobal' = [inGlobal EXCEPT ![d] = TRUE],
         global' = Enlist(d)
  PROVE  QueueInv'
<1>1. (\A s \in Services : Owned(s)' <=> Owned(s) \/ s = d) /\ QueueOnce'
  BY EnlistOwned
<1>2. ctx[d] # "none"
  BY DEF QueueInv, QueueLife
<1>3. \A s \in Services : s # d => msgs'[s] = msgs[s] /\ inGlobal'[s] = inGlobal[s]
  BY DEF TypeOK
<1>4. inGlobal'[d]
  BY DEF TypeOK
<1>5. QueueLife'
  BY <1>1, <1>2, <1>3 DEF QueueInv, QueueLife, SameFrees
<1>6. QueueFlags'
  BY <1>1, <1>3, <1>4 DEF QueueInv, QueueFlags
<1>7. DrainsMarked'
  BY DEF QueueInv, DrainsMarked
<1> QED BY <1>1, <1>5, <1>6, <1>7 DEF QueueInv

\* skynet_mq_pop of a message.
LEMMA Pop ==
  ASSUME TypeOK, QueueInv, SameFrees,
         UNCHANGED <<ctx, queue, inGlobal, release, global, have>>,
         NEW d \in Services, msgs[d] # <<>>,
         msgs' = [msgs EXCEPT ![d] = Tail(@)]
  PROVE  QueueInv'
<1>1. \A s \in Services : Owned(s)' <=> Owned(s)
  BY DEF Owned, Listed
<1>2. \A s \in Services : s # d => msgs'[s] = msgs[s]
  BY DEF TypeOK
<1>3. ctx[d] # "none" /\ inGlobal[d]
  BY DEF QueueInv, QueueLife, QueueFlags
<1>4. QueueLife'
  BY <1>1, <1>2, <1>3 DEF QueueInv, QueueLife, SameFrees
<1>5. QueueFlags'
  BY <1>1, <1>2, <1>3 DEF QueueInv, QueueFlags
<1>6. QueueOnce' /\ DrainsMarked'
  BY DEF QueueInv, QueueOnce, DrainsMarked, Listed
<1> QED BY <1>4, <1>5, <1>6 DEF QueueInv

\* skynet_mq_mark_release.
LEMMA Mark ==
  ASSUME Sound, NEW t \in Threads, MarkRelease(t)
  PROVE  QueueInv'
<1> DEFINE d == op[t].svc
<1>0. TypeOK /\ QueueInv /\ op[t].pc = "mark"
  BY DEF Sound, MarkRelease
<1>1. d \in Services /\ ctx[d] = "live" /\ queue[d] = "live" /\ ~release[d]
  BY <1>0, MarkedQueue
<1>2. UNCHANGED <<ctx, queue, msgs, inGlobal, have>> /\ global' = Enlist(d)
  BY DEF MarkRelease, heap
<1>3. (\A s \in Services : Owned(s)' <=> Owned(s) \/ s = d) /\ QueueOnce'
  BY <1>0, <1>1, <1>2, EnlistOwned
<1>4. release'[d] /\ \A s \in Services : s # d => release'[s] = release[s]
  BY <1>0, <1>1 DEF MarkRelease, TypeOK
<1>5. /\ op'[t].pc = "free" /\ op'[t].svc = d
      /\ \A u \in Threads : u # t => op'[u] = op[u]
  BY <1>0 DEF MarkRelease, TypeOK
<1>6. \A s \in Services :
        IF s = d THEN Frees(t, s)'
                 ELSE \A u \in Threads : Frees(u, s)' <=> Frees(u, s)
  BY <1>0, <1>5 DEF Frees
<1>7. ASSUME NEW s \in Services
      PROVE  (/\ queue[s] = "none" <=> ctx[s] = "none"
              /\ ctx[s] = "none" => msgs[s] = <<>> /\ ~release[s] /\ ~Owned(s)
              /\ queue[s] = "freed" => release[s] /\ ~Owned(s)
              /\ release[s] <=> ctx[s] = "freed" \/ \E u \in Threads : Frees(u, s))'
  <2>1. CASE s = d
    BY <1>1, <1>2, <1>4, <1>6, <2>1
  <2>2. CASE s # d
    BY <1>0, <1>2, <1>3, <1>4, <1>6, <2>2 DEF QueueInv, QueueLife
  <2> QED BY <2>1, <2>2
<1>8. QueueFlags'
  BY <1>0, <1>2, <1>3, <1>4 DEF QueueInv, QueueFlags
<1>9. DrainsMarked'
  BY <1>0, <1>2, <1>4 DEF QueueInv, DrainsMarked
<1>10. QueueLife'
  BY <1>7 DEF QueueLife
<1> QED BY <1>3, <1>8, <1>9, <1>10 DEF QueueInv

\* skynet_free(ctx), after the queue was marked.
LEMMA Free ==
  ASSUME Sound, NEW t \in Threads, FreeContext(t)
  PROVE  QueueInv'
<1> DEFINE d == op[t].svc
<1>0. TypeOK /\ QueueInv /\ op[t].pc = "free"
  BY DEF Sound, FreeContext
<1>1. d \in Services /\ Frees(t, d)
  BY <1>0 DEF Sound, Control, OpControl, Frees
<1>2. Deletes(t, d)
  BY <1>0 DEF Deletes
<1>3. ctx[d] = "live"
  BY <1>1, <1>2 DEF Sound, RefInv, DeletesLast
<1>4. release[d] /\ queue[d] # "none"
  BY <1>0, <1>1, <1>3 DEF QueueInv, QueueLife
<1>5. UNCHANGED <<queue, msgs, inGlobal, release, global, have>>
  BY DEF FreeContext, mq
<1>6. ctx'[d] = "freed" /\ \A s \in Services : s # d => ctx'[s] = ctx[s]
  BY <1>0, <1>1 DEF FreeContext, TypeOK
<1>7. \A s \in Services : s # d => \A u \in Threads : Frees(u, s)' <=> Frees(u, s)
  <2>1. op'[t].pc = "none" /\ \A u \in Threads : u # t => op'[u] = op[u]
    BY <1>0 DEF FreeContext, TypeOK, NoOp
  <2> QED BY <2>1, <1>0 DEF Frees
<1>8. \A s \in Services : Owned(s)' <=> Owned(s)
  BY <1>5 DEF Owned, Listed
<1>9. QueueLife'
  BY <1>0, <1>4, <1>5, <1>6, <1>7, <1>8 DEF QueueInv, QueueLife
<1>10. QueueFlags' /\ QueueOnce' /\ DrainsMarked'
  BY <1>0, <1>5, <1>8 DEF QueueInv, QueueFlags, QueueOnce, DrainsMarked, Listed
<1> QED BY <1>9, <1>10 DEF QueueInv

\* skynet_mq_create: the new queue belongs to skynet_context_new.
LEMMA Create ==
  ASSUME Sound, NEW t \in Threads, NEW d \in Services, Launch(t, d)
  PROVE  QueueInv'
<1>0. TypeOK /\ QueueInv /\ ctx[d] = "none" /\ lnch[t].pc = "none"
  BY DEF Sound, Launch, LaunchWith
<1> DEFINE x == <<t, "launch">>
<1>1. x \in HaveFrames /\ have[x] = NoService
  BY <1>0, Frames DEF Sound, Control, LaunchControl
<1>2. UNCHANGED <<msgs, release, global, op>>
  BY DEF Launch, LaunchWith
<1>3. /\ ctx'[d] = "live" /\ queue'[d] = "live" /\ inGlobal'[d]
      /\ \A s \in Services : s # d => /\ ctx'[s] = ctx[s] /\ queue'[s] = queue[s]
                                     /\ inGlobal'[s] = inGlobal[s]
  BY <1>0 DEF Launch, LaunchWith, TypeOK
<1>4. have'[x] = d /\ \A y \in HaveFrames : y # x => have'[y] = have[y]
  BY <1>0, <1>1 DEF Launch, LaunchWith, TypeOK
<1>5. ~Owned(d) /\ ~release[d]
  BY <1>0 DEF QueueInv, QueueLife
<1>6. \A s \in Services : Listed(s)' <=> Listed(s)
  BY <1>2 DEF Listed
<1>7. \A s \in Services : Owned(s)' <=> Owned(s) \/ s = d
  BY <1>1, <1>4, <1>6, ConstantsAssumption DEF Owned
<1>8. \A u \in Threads, s \in Services : Frees(u, s)' <=> Frees(u, s)
  BY <1>2 DEF Frees
<1>9. QueueLife'
  BY <1>0, <1>2, <1>3, <1>5, <1>7, <1>8 DEF QueueInv, QueueLife
<1>10. QueueFlags'
  BY <1>0, <1>2, <1>3, <1>7 DEF QueueInv, QueueFlags
<1>11. QueueOnce'
  <2>1. \A y \in HaveFrames : have[y] # NoService => have[y] \in Services
    BY <1>0 DEF TypeOK, MaybeService
  <2>2. \A y \in HaveFrames : (have[y] # NoService => ~Listed(have[y]))'
    BY <1>0, <1>4, <1>5, <1>6, <2>1 DEF QueueInv, QueueOnce, Owned
  <2>3. \A y \in HaveFrames : have[y] # d
    BY <1>5 DEF Owned
  <2>4. \A y, w \in HaveFrames : have'[y] # NoService /\ have'[y] = have'[w] => y = w
    BY <1>0, <1>4, <2>3 DEF QueueInv, QueueOnce
  <2> QED BY <1>0, <1>2, <2>2, <2>4 DEF QueueInv, QueueOnce, Listed
<1>12. DrainsMarked'
  <2>1. \A u \in Threads : <<u, "drain">> # x
    OBVIOUS
  <2> QED BY <1>0, <1>2, <1>4, <2>1, Frames DEF QueueInv, DrainsMarked
<1> QED BY <1>9, <1>10, <1>11, <1>12 DEF QueueInv

\* A thread drops the only pointer to a queue.
LEMMA Dropped ==
  ASSUME TypeOK, QueueInv, NEW x \in HaveFrames, have[x] \in Services,
         global' = global, have' = [have EXCEPT ![x] = NoService]
  PROVE  /\ \A s \in Services : Owned(s)' <=> Owned(s) /\ s # have[x]
         /\ QueueOnce'
         /\ \A y \in HaveFrames : have'[y] # NoService => have'[y] = have[y]
<1>1. have'[x] = NoService /\ \A y \in HaveFrames : y # x => have'[y] = have[y]
  BY DEF TypeOK
<1>2. have[x] # NoService
  BY ConstantsAssumption
<1>3. \A s \in Services : Listed(s)' <=> Listed(s)
  BY DEF Listed
<1>4. ~Listed(have[x]) /\ \A y \in HaveFrames : have[y] = have[x] => y = x
  BY <1>2 DEF QueueInv, QueueOnce
<1>5. \A s \in Services : Owned(s)' <=> Owned(s) /\ s # have[x]
  BY <1>1, <1>3, <1>4, ConstantsAssumption DEF Owned
<1>6. QueueOnce'
  BY <1>1 DEF QueueInv, QueueOnce, Listed
<1> QED BY <1>1, <1>5, <1>6

\* The empty pop: the queue sleeps.
LEMMA Sleep ==
  ASSUME Sound, NEW t \in Threads, PopEmpty(t)
  PROVE  QueueInv'
<1> DEFINE x == <<t, "q">>  d == have[x]
<1>0. TypeOK /\ QueueInv /\ t \in Workers /\ wpc[t] = "pop" /\ msgs[d] = <<>>
  BY DEF Sound, PopEmpty, PopEmptyWith, WorkerAt
<1>1. x \in HaveFrames /\ d \in Services /\ <<t, "worker">> \in HoldFrames
      /\ hold[<<t, "worker">>] = d
  BY <1>0, Frames DEF Sound, TypeOK, Control, WorkerControl, MaybeService
<1>2. queue[d] = "live" /\ ~release[d] /\ ctx[d] = "live"
  BY <1>1, HeldQueue DEF HeldBy
<1>3. /\ UNCHANGED <<ctx, queue, msgs, release, global, op>>
      /\ have' = [have EXCEPT ![x] = NoService]
  BY DEF PopEmpty, PopEmptyWith, heap
<1>4. /\ \A s \in Services : Owned(s)' <=> Owned(s) /\ s # d
      /\ QueueOnce'
      /\ \A y \in HaveFrames : have'[y] # NoService => have'[y] = have[y]
  BY <1>0, <1>1, <1>3, Dropped
<1>5. ~inGlobal'[d] /\ \A s \in Services : s # d => inGlobal'[s] = inGlobal[s]
  BY <1>0, <1>1 DEF PopEmpty, PopEmptyWith, TypeOK
<1>6. QueueLife'
  BY <1>0, <1>2, <1>3, <1>4 DEF QueueInv, QueueLife, Frees
<1>7. QueueFlags'
  BY <1>0, <1>2, <1>3, <1>4, <1>5 DEF QueueInv, QueueFlags
<1>8. DrainsMarked'
  BY <1>0, <1>3, <1>4, Frames, ConstantsAssumption DEF QueueInv, DrainsMarked
<1> QED BY <1>4, <1>6, <1>7, <1>8 DEF QueueInv

\* _release: a marked, empty queue is freed by the thread that drained it.
LEMMA Release ==
  ASSUME Sound, NEW t \in Threads, DrainFree(t)
  PROVE  QueueInv'
<1> DEFINE x == <<t, "drain">>  d == have[x]
<1>0. TypeOK /\ QueueInv /\ d # NoService /\ msgs[d] = <<>>
  BY DEF Sound, DrainFree
<1>1. x \in HaveFrames /\ d \in Services
  BY <1>0, Frames DEF TypeOK, MaybeService
<1>2. release[d] /\ ctx[d] # "none"
  BY <1>0, <1>1 DEF QueueInv, DrainsMarked, QueueLife
<1>3. /\ UNCHANGED <<ctx, msgs, release, global, op>>
      /\ have' = [have EXCEPT ![x] = NoService]
  BY DEF DrainFree
<1>4. /\ \A s \in Services : Owned(s)' <=> Owned(s) /\ s # d
      /\ QueueOnce'
      /\ \A y \in HaveFrames : have'[y] # NoService => have'[y] = have[y]
  BY <1>0, <1>1, <1>3, Dropped
<1>5. /\ queue'[d] = "freed"
      /\ \A s \in Services : s # d => queue'[s] = queue[s] /\ inGlobal'[s] = inGlobal[s]
  BY <1>0, <1>1 DEF DrainFree, TypeOK
<1>6. QueueLife'
  BY <1>0, <1>2, <1>3, <1>4, <1>5 DEF QueueInv, QueueLife, Frees
<1>7. QueueFlags'
  BY <1>0, <1>3, <1>4, <1>5 DEF QueueInv, QueueFlags
<1>8. DrainsMarked'
  BY <1>0, <1>3, <1>4, Frames, ConstantsAssumption DEF QueueInv, DrainsMarked
<1> QED BY <1>4, <1>6, <1>7, <1>8 DEF QueueInv

-----------------------------------------------------------------------------
(* The actions.                                                            *)

\* skynet_mq_release by a thread that owns the queue of service s in frame f.
LEMMA MqReleaseQueue ==
  ASSUME TypeOK, QueueInv, SameFrees, UNCHANGED <<ctx, queue, msgs, inGlobal, release>>,
         NEW t \in Threads, NEW f \in {"q", "launch"}, NEW s \in Services,
         have[<<t, f>>] = s, have[<<t, "drain">>] = NoService, MqRelease(t, f, s)
  PROVE  QueueInv'
<1>1. <<t, f>> \in HaveFrames /\ <<t, f>> # <<t, "drain">>
  BY DEF HaveFrames
<1>2. CASE release[s]
  BY <1>1, <1>2, ToDrain DEF MqRelease, mq
<1>3. CASE ~release[s]
  BY <1>1, <1>3, GiveBack DEF MqRelease
<1> QED BY <1>2, <1>3

\* The steps of a push, a release and a delete keep the queues sound.
LEMMA QueueOp ==
  ASSUME Sound, NEW t \in Threads, OpStep(t)
  PROVE  QueueInv'
<1>0. TypeOK /\ QueueInv /\ op \in [Threads -> [pc : OpPC, svc : MaybeService, src : MaybeService]]
  BY DEF Sound, TypeOK
<1>1. CASE PushGrab(t)
  <2>1. SameFrees
    BY <1>0, <1>1 DEF PushGrab, SameFrees, Frees, NoOp
  <2> QED BY <1>0, <1>1, <2>1, QuietQueue DEF PushGrab
<1>2. CASE MqPush(t)
  <2>1. SameFrees
    BY <1>0, <1>2 DEF MqPush, SameFrees, Frees
  <2> DEFINE d == hold[<<t, "op">>]
  <2>2. d \in Services /\ <<t, "op">> \in HoldFrames
    BY <1>2, Frames DEF MqPush, Sound, Control, OpControl
  <2>3. queue[d] = "live" /\ ~release[d]
    BY <2>2, HeldQueue DEF HeldBy
  <2>4. op[t].src \in MaybeService
    BY <1>0
  <2> QED BY <1>0, <1>2, <2>1, <2>2, <2>3, <2>4, Push DEF MqPush, heap
<1>3. CASE OpUnref(t)
  <2>1. SameFrees
    BY <1>0, <1>3 DEF OpUnref, DecRef, SameFrees, Frees, NoOp
  <2> QED BY <1>0, <1>3, <2>1, QuietQueue DEF OpUnref
<1>4. CASE MarkRelease(t)
  BY <1>4, Mark
<1>5. CASE FreeContext(t)
  BY <1>5, Free
<1> QED BY <1>1, <1>2, <1>3, <1>4, <1>5 DEF OpStep

\* Draining keeps the queues sound.
LEMMA QueueDrain ==
  ASSUME Sound, NEW t \in Threads, DrainStep(t)
  PROVE  QueueInv'
<1>0. TypeOK /\ QueueInv /\ op \in [Threads -> [pc : OpPC, svc : MaybeService, src : MaybeService]]
  BY DEF Sound, TypeOK
<1>1. CASE DrainPop(t)
  <2>1. SameFrees
    BY <1>0, <1>1 DEF DrainPop, SameFrees, Frees, NoOp, OpIdle
  <2>2. have[<<t, "drain">>] \in Services
    BY <1>0, <1>1, Frames DEF DrainPop, TypeOK, MaybeService
  <2> QED BY <1>0, <1>1, <2>1, <2>2, Pop DEF DrainPop, heap
<1>2. CASE DrainFree(t)
  BY <1>2, Release
<1> QED BY <1>1, <1>2 DEF DrainStep

\* The steps of skynet_context_new keep the queues sound.
LEMMA QueueLaunch ==
  ASSUME Sound, NEW t \in Threads, LaunchStep(t)
  PROVE  QueueInv'
<1>0. TypeOK /\ QueueInv /\ op \in [Threads -> [pc : OpPC, svc : MaybeService, src : MaybeService]]
  BY DEF Sound, TypeOK
<1>1. CASE InitOk(t) \/ InitFail(t)
  <2>1. SameFrees
    BY <1>0, <1>1 DEF InitOk, InitFail, Returned, OpIdle, DecRef, SameFrees, Frees, NoOp
  <2> QED BY <1>0, <1>1, <2>1, QuietQueue DEF InitOk, InitFail
<1>2. CASE SetInit(t) \/ LaunchReturn(t)
  <2>1. SameFrees
    BY <1>2 DEF SetInit, LaunchReturn, SameFrees, Frees
  <2> QED BY <1>0, <1>2, <2>1, QuietQueue DEF SetInit, LaunchReturn, heap
<1>3. CASE FailRetire(t)
  <2>1. SameFrees
    BY <1>0, <1>3 DEF FailRetire, Retire, Returned, OpIdle, SameFrees, Frees
  <2> QED BY <1>0, <1>3, <2>1, QuietQueue DEF FailRetire, heap
<1>4. CASE LaunchPushQueue(t)
  <2>1. SameFrees
    BY <1>4 DEF LaunchPushQueue, SameFrees, Frees
  <2>2. <<t, "launch">> \in HaveFrames /\ have[<<t, "launch">>] \in Services
    BY <1>4, Frames DEF LaunchPushQueue, Sound, Control, LaunchControl
  <2> QED BY <1>0, <1>4, <2>1, <2>2, GiveBack DEF LaunchPushQueue, heap
<1>5. CASE FailMqRelease(t)
  <2>1. SameFrees
    BY <1>5 DEF FailMqRelease, SameFrees, Frees
  <2>2. have[<<t, "launch">>] = lnch[t].svc /\ lnch[t].svc \in Services
    BY <1>5 DEF FailMqRelease, Sound, Control, LaunchControl
  <2>3. have[<<t, "drain">>] = NoService
    BY <1>5 DEF FailMqRelease, Returned
  <2> QED BY <1>0, <1>5, <2>1, <2>2, <2>3, MqReleaseQueue DEF FailMqRelease, heap
<1> QED BY <1>1, <1>2, <1>3, <1>4, <1>5 DEF LaunchStep

\* The steps of a worker keep the queues sound.
LEMMA QueueWorker ==
  ASSUME Sound, NEW t \in Threads, WorkerStep(t)
  PROVE  QueueInv'
<1>0. TypeOK /\ QueueInv /\ op \in [Threads -> [pc : OpPC, svc : MaybeService, src : MaybeService]]
  BY DEF Sound, TypeOK
<1>w. WorkerControl
  BY DEF Sound, Control
<1>q. /\ <<t, "q">> \in HaveFrames /\ <<t, "nq">> \in HaveFrames /\ <<t, "q">> # <<t, "nq">>
      /\ \A u \in Threads : <<t, "q">> # <<u, "drain">> /\ <<t, "nq">> # <<u, "drain">>
  BY Frames
<1>1. CASE GlobalPop(t)
  <2>1. have[<<t, "q">>] = NoService
    BY <1>w, <1>1 DEF WorkerControl, GlobalPop, WorkerAt
  <2>2. SameFrees
    BY <1>1 DEF GlobalPop, SameFrees, Frees
  <2> QED BY <1>0, <1>q, <1>1, <2>1, <2>2, Take DEF GlobalPop, WorkerAt, heap
<1>2. CASE WorkerGrab(t) \/ BatchLength(t) \/ Dispatch(t) \/ EndRound(t)
  <2>1. SameFrees
    BY <1>2 DEF WorkerGrab, BatchLength, Dispatch, EndRound, SameFrees, Frees
  <2> QED BY <1>0, <1>2, <2>1, QuietQueue DEF WorkerGrab, BatchLength, Dispatch, EndRound, heap
<1>3. CASE WorkerDead(t)
  <2>1. SameFrees
    BY <1>3 DEF WorkerDead, SameFrees, Frees
  <2>2. have[<<t, "q">>] \in Services
    BY <1>0, <1>w, <1>q, <1>3 DEF WorkerDead, WorkerAt, WorkerControl, TypeOK, MaybeService
  <2>3. have[<<t, "drain">>] = NoService
    BY <1>3 DEF WorkerDead, WorkerAt, LaunchIdle, Returned
  <2> QED BY <1>0, <1>3, <2>1, <2>2, <2>3, MqReleaseQueue DEF WorkerDead, heap
<1>4. CASE PopEmpty(t)
  BY <1>4, Sleep
<1>5. CASE PopMessage(t)
  <2>1. SameFrees
    BY <1>5 DEF PopMessage, SameFrees, Frees
  <2>2. have[<<t, "q">>] \in Services
    BY <1>0, <1>w, <1>q, <1>5 DEF PopMessage, WorkerAt, WorkerControl, TypeOK, MaybeService
  <2> QED BY <1>0, <1>5, <2>1, <2>2, Pop DEF PopMessage, heap
<1>6. CASE NextQueue(t)
  <2>1. SameFrees
    BY <1>6 DEF NextQueue, SameFrees, Frees
  <2>2. have[<<t, "nq">>] = NoService
    BY <1>w, <1>6 DEF WorkerControl, NextQueue, WorkerAt
  <2>3. CASE global = <<>>
    BY <1>0, <1>6, <2>1, <2>3, QuietQueue DEF NextQueue, heap, mq
  <2>4. CASE global # <<>>
    BY <1>0, <1>q, <1>6, <2>1, <2>2, <2>4, Take DEF NextQueue, heap
  <2> QED BY <2>3, <2>4
<1>7. CASE PushBack(t)
  <2>1. SameFrees
    BY <1>7 DEF PushBack, SameFrees, Frees
  <2>2. t \in Workers /\ wpc[t] = "back"
    BY <1>7 DEF PushBack, WorkerAt
  <2>3. have[<<t, "q">>] # NoService /\ have[<<t, "nq">>] # NoService
    BY <1>w, <2>2 DEF WorkerControl
  <2>4. have[<<t, "q">>] \in Services /\ have[<<t, "nq">>] \in Services
    BY <1>0, <1>q, <2>3 DEF TypeOK, MaybeService
  <2> QED BY <1>0, <1>q, <1>7, <2>1, <2>4, Swap DEF PushBack, heap
<1>8. CASE WorkerUnref(t)
  <2>1. SameFrees
    BY <1>0, <1>8 DEF WorkerUnref, LaunchIdle, Returned, OpIdle, DecRef, SameFrees, Frees, NoOp
  <2> QED BY <1>0, <1>8, <2>1, QuietQueue DEF WorkerUnref
<1> QED BY <1>1, <1>2, <1>3, <1>4, <1>5, <1>6, <1>7, <1>8 DEF WorkerStep

\* The calls a service makes keep the queues sound.
LEMMA QueueCall ==
  ASSUME Sound, NEW t \in Threads, Call(t)
  PROVE  QueueInv'
<1>0. TypeOK /\ QueueInv /\ op \in [Threads -> [pc : OpPC, svc : MaybeService, src : MaybeService]]
  BY DEF Sound, TypeOK
<1>1. ASSUME NEW d \in Services, Send(t, d) PROVE QueueInv'
  <2>1. SameFrees
    BY <1>0, <1>1 DEF Send, InService, Returned, OpIdle, SameFrees, Frees
  <2> QED BY <1>0, <1>1, <2>1, QuietQueue DEF Send, heap
<1>2. ASSUME NEW d \in Services, HarborSend(t, d) PROVE QueueInv'
  <2>1. SameFrees
    BY <1>2 DEF HarborSend, SameFrees, Frees
  <2>2. queue[d] = "live" /\ ~release[d]
    BY <1>2, HeldQueue DEF HarborSend
  <2> QED BY <1>0, <1>2, <2>1, <2>2, SelfType, Push DEF HarborSend, heap
<1>3. ASSUME NEW d \in Services, Kill(t, d) PROVE QueueInv'
  <2>1. SameFrees
    BY <1>0, <1>3 DEF Kill, Retire, InService, Returned, OpIdle, SameFrees, Frees
  <2> QED BY <1>0, <1>3, <2>1, QuietQueue DEF Kill, heap
<1>4. ASSUME NEW d \in Services, Launch(t, d) PROVE QueueInv'
  BY <1>4, Create
<1>5. CASE Reserve(t)
  <2>1. SameFrees
    BY <1>5 DEF Reserve, ReserveWith, SameFrees, Frees
  <2> QED BY <1>0, <1>5, <2>1, QuietQueue DEF Reserve, ReserveWith
<1> QED BY <1>1, <1>2, <1>3, <1>4, <1>5 DEF Call

\* There is no queue before the bootstrap.
LEMMA QueueInit == Init => QueueInv
<1> SUFFICES ASSUME Init PROVE QueueInv
  OBVIOUS
<1>1. \A s \in Services : ~Owned(s)
  BY ConstantsAssumption DEF Init, Owned, Listed
<1>2. QueueLife
  BY <1>1 DEF Init, QueueLife, Frees, NoOp
<1>3. QueueFlags
  BY <1>1 DEF Init, QueueFlags
<1>4. QueueOnce
  BY DEF Init, QueueOnce
<1>5. DrainsMarked
  BY Frames, ConstantsAssumption DEF Init, DrainsMarked
<1> QED BY <1>2, <1>3, <1>4, <1>5 DEF QueueInv

\* The queues are sound on top of types, control and references.
LEMMA QueueStep == Sound /\ [Next]_vars => QueueInv'
<1> SUFFICES ASSUME Sound, [Next]_vars PROVE QueueInv'
  OBVIOUS
<1>1. CASE UNCHANGED vars
  <2>1. UNCHANGED <<ctx, queue, mq, have, op>>
    BY <1>1 DEF vars, heap
  <2>2. SameFrees
    BY <2>1 DEF SameFrees, Frees
  <2> QED BY <2>1, <2>2, QuietQueue DEF Sound
<1>2. CASE Next
  BY <1>2, QueueOp, QueueDrain, QueueLaunch, QueueWorker, QueueCall DEF Next
<1> QED BY <1>1, <1>2

\* Types, control, references and queues together are an invariant.
THEOREM Queues == Spec => []Sound
<1>1. Init => Sound
  BY ControlInit, RefInit, QueueInit DEF Sound
<1>2. Sound /\ [Next]_vars => Sound'
  BY ControlStep, RefStep, QueueStep DEF Sound
<1> QED BY <1>1, <1>2, PTL DEF Spec

\* No pointer that a thread is entitled to use, and no entry of the global
\* queue, refers to memory that skynet_free released.
THEOREM MemorySafe == Spec => []NoUseAfterFree
<1>1. Sound => NoUseAfterFree
  <2> SUFFICES ASSUME Sound PROVE NoUseAfterFree
    OBVIOUS
  <2>0. TypeOK /\ QueueInv
    BY DEF Sound
  <2>1. ASSUME NEW x \in HoldFrames, hold[x] # NoService
        PROVE  ctx[hold[x]] = "live" /\ queue[hold[x]] = "live"
    <3>1. hold[x] \in Services /\ x \in HeldBy(hold[x])
      BY <2>0, <2>1 DEF TypeOK, MaybeService, HeldBy
    <3> QED BY <3>1, HeldQueue
  <2>2. \A s \in Services : Owned(s) => queue[s] = "live"
    BY <2>0 DEF TypeOK, QueueInv, QueueLife
  <2>3. \A x \in HaveFrames : have[x] # NoService => have[x] \in Services /\ Owned(have[x])
    BY <2>0 DEF TypeOK, MaybeService, Owned
  <2>4. \A i \in DOMAIN global : global[i] \in Services /\ Owned(global[i])
    BY <2>0 DEF TypeOK, Owned, Listed
  <2>5. ASSUME NEW t \in Threads, op[t].pc \in {"mark", "free"}
        PROVE  ctx[op[t].svc] = "live"
    BY <2>5 DEF Sound, Control, OpControl, RefInv, DeletesLast, Deletes
  <2> QED BY <2>1, <2>2, <2>3, <2>4, <2>5 DEF NoUseAfterFree
<1> QED BY <1>1, Queues, PTL

\* A queue is listed once or in the hands of one thread, never both: the
\* asserts of skynet_globalmq_push and _release hold.
THEOREM QueueInOnePlace == Spec => []QueueOnce
<1>1. Sound => QueueOnce
  BY DEF Sound, QueueInv
<1> QED BY <1>1, Queues, PTL

\* A queue with messages, or with memory to give back, is never forgotten
\* between skynet_mq_pop, skynet_mq_push and skynet_mq_mark_release.
THEOREM NoQueueLost == Spec => []NoLostQueue
<1>1. Sound => NoLostQueue
  BY DEF Sound, QueueInv, QueueFlags, NoLostQueue
<1> QED BY <1>1, Queues, PTL

\* The assert of skynet_mq_mark_release holds, and nobody can push to the
\* queue it marks.
THEOREM MarkedOnce == Spec => []ReleaseOnce
<1>1. Sound => ReleaseOnce
  <2> SUFFICES ASSUME Sound, NEW t \in Threads, op[t].pc = "mark"
               PROVE  /\ ~release[op[t].svc]
                      /\ HeldBy(op[t].svc) = {} /\ op[t].svc \notin reg
                      /\ \A u \in Threads :
                           op[u].pc \in {"mark", "free"} /\ op[u].svc = op[t].svc => u = t
    BY DEF ReleaseOnce
  <2>1. op[t].svc \in Services /\ ~release[op[t].svc]
    BY MarkedQueue
  <2>2. Deletes(t, op[t].svc)
    BY DEF Deletes
  <2> QED BY <2>1, <2>2 DEF Sound, RefInv, DeletesLast, Deletes
<1> QED BY <1>1, Queues, PTL

-----------------------------------------------------------------------------
(***************************************************************************)
(* Fourth layer: what the launch and the workers know of ctx->init, and    *)
(* the count of contexts.                                                  *)
(***************************************************************************)

\* Where a worker is between its grab of a service and the end of its batch.
Dispatching == {"pop", "len", "run", "callback", "next", "back"}

\* A registered context without init is still being launched; the queue of a
\* launch is handed over with init set, or when the handle is gone; a worker
\* dispatches only contexts with init.
InitKnown ==
  /\ \A s \in reg : inited[s] \/ \E t \in Threads : have[<<t, "launch">>] = s
  /\ \A t \in Threads :
       /\ lnch[t].pc = "pushq" => inited[lnch[t].svc]
       /\ lnch[t].pc \in {"pushnull", "mqrelease"} => lnch[t].svc \notin reg
       /\ wpc[t] \in Dispatching /\ t \in Workers
            => inited[hold[<<t, "worker">>]]

\* A step that leaves init, the launches and the handle table as they are, and
\* takes no worker to a new dispatch.
LEMMA QuietInit ==
  ASSUME InitKnown, UNCHANGED <<inited, lnch>>, reg' \subseteq reg,
         \A t \in Threads : have'[<<t, "launch">>] = have[<<t, "launch">>],
         \A t \in Threads :
           wpc'[t] \in Dispatching /\ t \in Workers
             => /\ wpc[t] \in Dispatching
                /\ hold'[<<t, "worker">>] = hold[<<t, "worker">>]
  PROVE  InitKnown'
<1>1. \A s \in reg' : inited'[s] \/ \E t \in Threads : have'[<<t, "launch">>] = s
  BY DEF InitKnown
<1>2. \A t \in Threads :
        /\ lnch'[t].pc = "pushq" => inited'[lnch'[t].svc]
        /\ lnch'[t].pc \in {"pushnull", "mqrelease"} => lnch'[t].svc \notin reg'
  BY DEF InitKnown
<1>3. \A t \in Threads :
        wpc'[t] \in Dispatching /\ t \in Workers => inited'[hold'[<<t, "worker">>]]
  BY DEF InitKnown
<1> QED BY <1>1, <1>2, <1>3 DEF InitKnown, Dispatching

\* A launch frame of a thread and its other frames are different.
LEMMA OtherFrames ==
  ASSUME NEW t \in Threads, NEW u \in Threads
  PROVE  /\ <<t, "launch">> # <<u, "q">> /\ <<t, "launch">> # <<u, "nq">>
         /\ <<t, "launch">> # <<u, "drain">> /\ <<t, "worker">> # <<u, "op">>
         /\ <<t, "worker">> # <<u, "launch">>
         /\ t # u => <<t, "launch">> # <<u, "launch">> /\ <<t, "worker">> # <<u, "worker">>
OBVIOUS

\* The steps of a push, a release, a delete and a drain do not touch init.
LEMMA InitOpDrain ==
  ASSUME Sound, InitKnown, NEW t \in Threads, OpStep(t) \/ DrainStep(t)
  PROVE  InitKnown'
<1>1. UNCHANGED <<inited, lnch, wpc, reg>>
  BY DEF OpStep, DrainStep, PushGrab, MqPush, OpUnref, MarkRelease, FreeContext,
         DrainPop, DrainFree, heap, node
<1>2. \A u \in Threads : hold'[<<u, "worker">>] = hold[<<u, "worker">>]
  BY OtherFrames, Frames
  DEF OpStep, DrainStep, PushGrab, MqPush, OpUnref, DecRef, MarkRelease, FreeContext,
      DrainPop, DrainFree, Sound, TypeOK
<1>3. \A u \in Threads : have'[<<u, "launch">>] = have[<<u, "launch">>]
  BY OtherFrames, Frames
  DEF OpStep, DrainStep, PushGrab, MqPush, OpUnref, MarkRelease, FreeContext,
      DrainPop, DrainFree, Sound, TypeOK
<1> QED BY <1>1, <1>2, <1>3, QuietInit

\* A worker that starts a dispatch holds the queue, so that the launch is over.
LEMMA InitWorker ==
  ASSUME Sound, InitKnown, NEW t \in Threads, WorkerStep(t)
  PROVE  InitKnown'
<1>0. TypeOK /\ WorkerControl /\ QueueOnce
  BY DEF Sound, Control, QueueInv
<1>1. CASE WorkerGrab(t)
  <2> DEFINE s == have[<<t, "q">>]
  <2>1. s \in reg /\ t \in Workers
    BY <1>1 DEF WorkerGrab, WorkerAt
  <2>2. s \in Services /\ s # NoService
    BY <1>0, <2>1, ConstantsAssumption DEF TypeOK
  <2>3. \A u \in Threads : have[<<u, "launch">>] # s
    BY <1>0, <2>2, Frames, OtherFrames DEF QueueOnce
  <2>4. inited[s]
    BY <2>1, <2>3 DEF InitKnown
  <2>5. /\ UNCHANGED <<inited, lnch, reg, have>>
        /\ hold'[<<t, "worker">>] = s
        /\ \A u \in Threads : u # t =>
             hold'[<<u, "worker">>] = hold[<<u, "worker">>] /\ wpc'[u] = wpc[u]
    BY <1>0, <1>1, Frames, OtherFrames DEF WorkerGrab, TypeOK, node
  <2> QED BY <2>4, <2>5 DEF InitKnown
<1>2. CASE ~WorkerGrab(t)
  <2>1. UNCHANGED <<inited, lnch, reg>>
    BY <1>2 DEF WorkerStep, GlobalPop, WorkerDead, PopEmpty, PopEmptyWith, PopMessage,
       BatchLength, Dispatch, EndRound, NextQueue, PushBack, WorkerUnref, heap, node
  <2>2. \A u \in Threads : have'[<<u, "launch">>] = have[<<u, "launch">>]
    <3>1. CASE GlobalPop(t) \/ PopEmpty(t) \/ NextQueue(t) \/ PushBack(t)
      BY <1>0, <3>1, Frames, OtherFrames
      DEF GlobalPop, PopEmpty, PopEmptyWith, NextQueue, PushBack, TypeOK
    <3>2. CASE WorkerDead(t)
      BY <1>0, <3>2, Frames, OtherFrames DEF WorkerDead, MqRelease, TypeOK
    <3>3. CASE PopMessage(t) \/ BatchLength(t) \/ Dispatch(t) \/ EndRound(t) \/ WorkerUnref(t)
      BY <3>3 DEF PopMessage, BatchLength, Dispatch, EndRound, WorkerUnref
    <3> QED BY <1>2, <3>1, <3>2, <3>3 DEF WorkerStep
  <2>3. \A u \in Threads :
          wpc'[u] \in Dispatching /\ u \in Workers
            => /\ wpc[u] \in Dispatching
               /\ hold'[<<u, "worker">>] = hold[<<u, "worker">>]
    <3>1. CASE WorkerUnref(t)
      BY <1>0, <3>1, Frames, OtherFrames DEF WorkerUnref, DecRef, TypeOK, Dispatching
    <3>2. CASE GlobalPop(t) \/ WorkerDead(t) \/ PopEmpty(t)
      BY <1>0, <3>2 DEF GlobalPop, WorkerDead, PopEmpty, PopEmptyWith, TypeOK, Dispatching
    <3>3. CASE PopMessage(t) \/ BatchLength(t) \/ Dispatch(t)
      BY <1>0, <3>3 DEF PopMessage, BatchLength, Dispatch, WorkerAt, TypeOK, Dispatching
    <3>4. CASE EndRound(t) \/ NextQueue(t) \/ PushBack(t)
      BY <1>0, <3>4 DEF EndRound, NextQueue, PushBack, WorkerAt, TypeOK, Dispatching
    <3> QED BY <1>2, <3>1, <3>2, <3>3, <3>4 DEF WorkerStep
  <2> QED BY <2>1, <2>2, <2>3, QuietInit
<1> QED BY <1>1, <1>2

\* The launch sets init before it hands over the queue, and gives the queue up
\* otherwise only when the handle is gone.
LEMMA InitLaunch ==
  ASSUME Sound, Sound', InitKnown, NEW t \in Threads, LaunchStep(t)
  PROVE  InitKnown'
<1>0. TypeOK /\ LaunchControl /\ WorkerControl /\ Returned(t)
  BY DEF Sound, Control, LaunchStep, InitOk, InitFail, SetInit, LaunchPushQueue,
     LaunchReturn, FailRetire, FailMqRelease
<1>1. /\ UNCHANGED wpc /\ reg' \subseteq reg
      /\ \A u \in Threads : u # t => lnch'[u] = lnch[u]
  BY <1>0 DEF LaunchStep, InitOk, InitFail, SetInit, LaunchPushQueue, LaunchReturn,
     FailRetire, Retire, FailMqRelease, node, TypeOK
<1>2. \A u \in Threads : hold'[<<u, "worker">>] = hold[<<u, "worker">>]
  BY <1>0, Frames, OtherFrames
  DEF LaunchStep, InitOk, InitFail, DecRef, SetInit, LaunchPushQueue, LaunchReturn,
      FailRetire, Retire, FailMqRelease, TypeOK
<1>3. \A s \in Services : inited[s] => inited'[s]
  BY <1>0 DEF LaunchStep, InitOk, InitFail, SetInit, LaunchPushQueue, LaunchReturn,
     FailRetire, FailMqRelease, heap, TypeOK
<1>4. \A u \in Threads : wpc'[u] \in Dispatching /\ u \in Workers
                           => inited'[hold'[<<u, "worker">>]]
  <2> SUFFICES ASSUME NEW u \in Threads, wpc[u] \in Dispatching, u \in Workers
               PROVE  inited'[hold[<<u, "worker">>]]
    BY <1>1, <1>2
  <2>1. hold[<<u, "worker">>] # NoService
    BY <1>0 DEF WorkerControl, Dispatching
  <2>2. hold[<<u, "worker">>] \in Services
    BY <1>0, <2>1, Frames DEF TypeOK, MaybeService
  <2> QED BY <1>3, <2>2 DEF InitKnown
<1>5. ASSUME NEW u \in Threads, u # t
      PROVE  /\ lnch'[u].pc = "pushq" => inited'[lnch'[u].svc]
             /\ lnch'[u].pc \in {"pushnull", "mqrelease"} => lnch'[u].svc \notin reg'
  <2>1. lnch'[u] = lnch[u] /\ (lnch[u].pc = "pushq" => lnch[u].svc \in Services)
    BY <1>0, <1>1, <1>5 DEF LaunchControl
  <2> QED BY <1>1, <1>3, <2>1 DEF InitKnown
<1>6. \A s \in reg : s # lnch[t].svc =>
        (inited'[s] \/ \E u \in Threads : have'[<<u, "launch">>] = s)
  <2>1. \A u \in Threads : u # t => have'[<<u, "launch">>] = have[<<u, "launch">>]
    BY <1>0, Frames, OtherFrames
    DEF LaunchStep, InitOk, InitFail, SetInit, LaunchPushQueue, LaunchReturn,
        FailRetire, FailMqRelease, MqRelease, TypeOK
  <2>2. have[<<t, "launch">>] \in {lnch[t].svc, NoService}
    BY <1>0 DEF LaunchControl
  <2> QED BY ZenonT(60), <1>0, <1>3, <2>1, <2>2, ConstantsAssumption DEF InitKnown, TypeOK
<1>7. /\ lnch'[t].pc = "pushq" => inited'[lnch'[t].svc]
      /\ lnch'[t].pc \in {"pushnull", "mqrelease"} => lnch'[t].svc \notin reg'
  <2>1. CASE InitOk(t)
    <3> DEFINE s == lnch[t].svc
    <3>1. lnch'[t].pc \in {"pushnull", "setinit"} /\ lnch'[t].svc = s
      BY <1>0, <2>1 DEF InitOk, TypeOK
    <3>2. ASSUME LastRef(s) PROVE s \notin reg'
      <4>1. op'[t].pc = "mark" /\ op'[t].svc = s
        BY <1>0, <2>1, <3>2 DEF InitOk, DecRef, TypeOK
      <4>2. s \in Services
        BY <1>0, <2>1 DEF InitOk, LaunchControl
      <4> QED BY <4>1, <4>2 DEF Sound, RefInv, DeletesLast, Deletes
    <3>3. ASSUME ~LastRef(s) PROVE lnch'[t].pc = "setinit"
      BY <1>0, <2>1, <3>3 DEF InitOk, TypeOK
    <3> QED BY <3>1, <3>2, <3>3
  <2>2. CASE InitFail(t)
    BY <1>0, <2>2 DEF InitFail, TypeOK
  <2>3. CASE SetInit(t)
    <3>1. lnch'[t].pc = "pushq" /\ lnch'[t].svc = lnch[t].svc /\ lnch[t].svc \in Services
      BY ZenonT(60), <1>0, <2>3 DEF SetInit, TypeOK, LaunchControl
    <3>2. inited'[lnch[t].svc]
      BY <1>0, <2>3, <3>1 DEF SetInit, TypeOK
    <3> QED BY <3>1, <3>2
  <2>4. CASE LaunchPushQueue(t)
    BY <1>0, <2>4 DEF LaunchPushQueue, NoLaunch, TypeOK
  <2>5. CASE LaunchReturn(t) \/ FailMqRelease(t)
    BY <1>0, <2>5 DEF LaunchReturn, FailMqRelease, NoLaunch, TypeOK
  <2>6. CASE FailRetire(t)
    BY <1>0, <2>6 DEF FailRetire, Retire, TypeOK
  <2> QED BY <2>1, <2>2, <2>3, <2>4, <2>5, <2>6 DEF LaunchStep
<1>8. lnch[t].svc \in reg' =>
        (inited'[lnch[t].svc] \/ have'[<<t, "launch">>] = lnch[t].svc
           \/ lnch[t].pc = "log")
  <2>1. CASE InitOk(t) \/ InitFail(t) \/ SetInit(t) \/ FailRetire(t)
    BY <1>0, <2>1 DEF InitOk, InitFail, SetInit, FailRetire, LaunchControl
  <2>2. CASE LaunchPushQueue(t)
    BY <1>0, <1>1, <1>3, <2>2 DEF LaunchPushQueue, InitKnown, LaunchControl
  <2>3. CASE FailMqRelease(t)
    BY <1>1, <2>3 DEF FailMqRelease, InitKnown
  <2>4. CASE LaunchReturn(t)
    BY <2>4 DEF LaunchReturn
  <2> QED BY <2>1, <2>2, <2>3, <2>4 DEF LaunchStep
<1>9. lnch[t].pc = "log" => InitKnown'
  <2> SUFFICES ASSUME lnch[t].pc = "log" PROVE InitKnown'
    OBVIOUS
  <2>1. LaunchReturn(t)
    BY DEF LaunchStep, InitOk, InitFail, SetInit, LaunchPushQueue, FailRetire, FailMqRelease
  <2>2. UNCHANGED <<inited, reg, have>>
    BY <2>1 DEF LaunchReturn, heap, node
  <2>3. \A s \in reg' : inited'[s] \/ \E u \in Threads : have'[<<u, "launch">>] = s
    BY <2>2 DEF InitKnown
  <2> QED BY <1>4, <1>5, <1>7, <2>3 DEF InitKnown
<1>10. lnch[t].pc # "log" => InitKnown'
  <2> SUFFICES ASSUME lnch[t].pc # "log" PROVE InitKnown'
    OBVIOUS
  <2>1. \A s \in reg' : inited'[s] \/ \E u \in Threads : have'[<<u, "launch">>] = s
    BY <1>1, <1>6, <1>8
  <2> QED BY <1>4, <1>5, <1>7, <2>1 DEF InitKnown
<1> QED BY <1>9, <1>10

\* The calls a service makes: a new context is registered without init while
\* its launch has the queue.
LEMMA InitCall ==
  ASSUME Sound, InitKnown, NEW t \in Threads, Call(t)
  PROVE  InitKnown'
<1>0. TypeOK /\ LaunchControl /\ QueueInv
  BY DEF Sound, Control
<1>1. ASSUME NEW d \in Services, Send(t, d) \/ HarborSend(t, d) PROVE InitKnown'
  <2>1. UNCHANGED <<inited, lnch, reg, have, hold, wpc>>
    BY <1>1 DEF Send, HarborSend, heap
  <2> QED BY <2>1, QuietInit
<1>2. ASSUME NEW d \in Services, Kill(t, d) PROVE InitKnown'
  <2>1. UNCHANGED <<inited, lnch, have, wpc>> /\ reg' \subseteq reg
    BY <1>2 DEF Kill, Retire, heap
  <2>2. \A u \in Threads : hold'[<<u, "worker">>] = hold[<<u, "worker">>]
    BY <1>0, <1>2, Frames, OtherFrames DEF Kill, Retire, TypeOK
  <2> QED BY <2>1, <2>2, QuietInit
<1>3. CASE Reserve(t)
  <2>1. UNCHANGED <<inited, lnch, reg, have, hold, wpc>>
    BY <1>3 DEF Reserve, ReserveWith
  <2> QED BY <2>1, QuietInit
<1>4. ASSUME NEW d \in Services, Launch(t, d) PROVE InitKnown'
  <2>1. /\ UNCHANGED <<inited, wpc>> /\ reg' = reg \cup {d} /\ ctx[d] = "none"
        /\ lnch[t].pc = "none"
    BY <1>4 DEF Launch, LaunchWith
  <2>2. /\ have'[<<t, "launch">>] = d /\ lnch'[t].pc = "init"
        /\ \A u \in Threads : u # t =>
             have'[<<u, "launch">>] = have[<<u, "launch">>] /\ lnch'[u] = lnch[u]
        /\ \A u \in Threads : hold'[<<u, "worker">>] = hold[<<u, "worker">>]
    BY <1>0, <1>4, Frames, OtherFrames DEF Launch, LaunchWith, TypeOK
  <2>3. have[<<t, "launch">>] = NoService
    BY <1>0, <2>1 DEF LaunchControl
  <2>4. \A u \in Threads : have[<<u, "launch">>] # d
    BY <1>0, <2>1, Frames DEF QueueInv, QueueLife, Owned
  <2>5. \A s \in reg' : inited'[s] \/ \E u \in Threads : have'[<<u, "launch">>] = s
    <3> SUFFICES ASSUME NEW s \in reg'
                 PROVE  inited'[s] \/ \E u \in Threads : have'[<<u, "launch">>] = s
      OBVIOUS
    <3>1. CASE s = d
      BY <2>2, <3>1
    <3>2. CASE s # d
      <4>1. s \in reg /\ s # NoService
        BY <1>0, <2>1, <3>2, ConstantsAssumption DEF TypeOK
      <4>2. CASE inited[s]
        BY <2>1, <4>2
      <4>3. ASSUME NEW u \in Threads, have[<<u, "launch">>] = s
            PROVE  have'[<<u, "launch">>] = s
        BY <2>2, <2>3, <4>1, <4>3
      <4> QED BY <4>1, <4>2, <4>3 DEF InitKnown
    <3> QED BY <3>1, <3>2
  <2>6. ASSUME NEW u \in Threads, lnch[u].pc \in {"pushnull", "mqrelease"}
        PROVE  lnch[u].svc # d
    BY <1>0, <2>4, <2>6 DEF LaunchControl
  <2>7. \A u \in Threads :
          /\ lnch'[u].pc = "pushq" => inited'[lnch'[u].svc]
          /\ lnch'[u].pc \in {"pushnull", "mqrelease"} => lnch'[u].svc \notin reg'
    BY <2>1, <2>2, <2>6 DEF InitKnown
  <2>8. \A u \in Threads : wpc'[u] \in Dispatching /\ u \in Workers
                             => inited'[hold'[<<u, "worker">>]]
    BY <2>1, <2>2 DEF InitKnown
  <2> QED BY <2>5, <2>7, <2>8 DEF InitKnown
<1> QED BY <1>1, <1>2, <1>3, <1>4 DEF Call

\* The order of init, hand-over and dispatch is kept by every step.
LEMMA InitStep == Sound /\ Sound' /\ InitKnown /\ [Next]_vars => InitKnown'
<1> SUFFICES ASSUME Sound, Sound', InitKnown, [Next]_vars PROVE InitKnown'
  OBVIOUS
<1>1. CASE UNCHANGED vars
  <2>1. UNCHANGED <<inited, lnch, reg, have, hold, wpc>>
    BY <1>1 DEF vars, heap, node
  <2> QED BY <2>1, QuietInit
<1>2. CASE Next
  BY <1>2, InitOpDrain, InitLaunch, InitWorker, InitCall DEF Next
<1> QED BY <1>1, <1>2

\* The code of a service runs on one thread at a time, its init included, and
\* no message is dispatched before init is done.
THEOREM OneThreadPerService == Spec => []SerialDispatch
<1>1. Init => InitKnown
  BY DEF Init, InitKnown, NoLaunch, Dispatching
<1>2. InitKnown /\ Sound /\ Sound' /\ [Next]_vars => InitKnown'
  BY InitStep
<1>3. Sound /\ InitKnown => SerialDispatch
  <2> SUFFICES ASSUME Sound, InitKnown PROVE SerialDispatch
    OBVIOUS
  <2>0. LaunchControl /\ WorkerControl /\ QueueOnce
    BY DEF Sound, Control, QueueInv
  <2>1. ASSUME NEW t \in Threads, NEW s \in Services, Executes(t, s)
        PROVE  have[<<t, "launch">>] = s \/ have[<<t, "q">>] = s
    BY <2>0, <2>1, ConstantsAssumption DEF Executes, LaunchControl, WorkerControl
  <2>2. ASSUME NEW t \in Threads, NEW u \in Threads, NEW s \in Services,
               Executes(t, s), Executes(u, s)
        PROVE  t = u
    <3>1. have[<<t, "launch">>] = s \/ have[<<t, "q">>] = s
      BY <2>1, <2>2
    <3>2. have[<<u, "launch">>] = s \/ have[<<u, "q">>] = s
      BY <2>1, <2>2
    <3>3. \E x \in {<<t, "launch">>, <<t, "q">>}, y \in {<<u, "launch">>, <<u, "q">>} : x = y
      BY <2>0, <3>1, <3>2, Frames, ConstantsAssumption DEF QueueOnce
    <3> QED BY <3>3
  <2>3. \A t \in Workers : wpc[t] \in {"run", "callback"} => inited[hold[<<t, "worker">>]]
    BY ConstantsAssumption DEF InitKnown, Dispatching
  <2> QED BY <2>2, <2>3 DEF SerialDispatch
<1> QED BY <1>1, <1>2, <1>3, Queues, PTL DEF Spec

Live == {s \in Services : ctx[s] = "live"}

\* What a launch, a free and a reservation do to the sizes.
LEMMA LiveCount ==
  ASSUME TypeOK, NEW s \in Services, NEW v \in {"live", "freed"},
         ctx' = [ctx EXCEPT ![s] = v], ctx[s] \in {"none", "live"}, ctx[s] # v
  PROVE  /\ Cardinality(Live) \in Int
         /\ Cardinality(Live') = Cardinality(Live) +
              (IF v = "live" THEN 1 ELSE IF ctx[s] = "live" THEN 0 - 1 ELSE 0)
<1>1. IsFiniteSet(Live) /\ Cardinality(Live) \in Nat
  <2>1. IsFiniteSet(Live)
    BY ConstantsAssumption, FS_Subset DEF Live
  <2> QED BY <2>1, FS_CardinalityType
<1>2. CASE v = "live"
  <2>1. Live' = Live \cup {s} /\ s \notin Live
    BY <1>2 DEF Live, TypeOK
  <2> QED BY <1>1, <1>2, <2>1, FS_AddElement
<1>3. CASE v = "freed" /\ ctx[s] = "live"
  <2>1. Live' = Live \ {s} /\ s \in Live
    BY <1>3 DEF Live, TypeOK
  <2>2. Cardinality(Live') = Cardinality(Live) - 1
    BY <1>1, <2>1, FS_RemoveElement
  <2> QED BY <1>1, <1>3, <2>2
<1>4. CASE v = "freed" /\ ctx[s] = "none"
  <2>1. Live' = Live
    BY <1>4 DEF Live, TypeOK
  <2> QED BY <1>1, <1>4, <2>1
<1> QED BY <1>2, <1>3, <1>4

\* Only these three actions change a context's memory, the count of contexts
\* or the reservation.
LEMMA TotalQuiet ==
  ASSUME NEW t \in Threads, OpStep(t) \/ DrainStep(t) \/ LaunchStep(t) \/ WorkerStep(t) \/ Call(t)
  PROVE  \/ UNCHANGED <<ctx, total, reserved>>
         \/ FreeContext(t) \/ Reserve(t) \/ \E s \in Services : Launch(t, s)
<1> USE DEF heap, node
<1>1. OpStep(t) => UNCHANGED <<ctx, total, reserved>> \/ FreeContext(t)
  BY DEF OpStep, PushGrab, MqPush, OpUnref, MarkRelease
<1>2. DrainStep(t) => UNCHANGED <<ctx, total, reserved>>
  BY DEF DrainStep, DrainPop, DrainFree
<1>3. LaunchStep(t) => UNCHANGED <<ctx, total, reserved>>
  BY DEF LaunchStep, InitOk, InitFail, SetInit, LaunchPushQueue, LaunchReturn, FailRetire,
     FailMqRelease
<1>4. WorkerStep(t) => UNCHANGED <<ctx, total, reserved>>
  BY DEF WorkerStep, GlobalPop, WorkerGrab, WorkerDead, PopEmpty, PopEmptyWith, PopMessage,
     BatchLength, Dispatch, EndRound, NextQueue, PushBack, WorkerUnref
<1>5. Call(t) => \/ UNCHANGED <<ctx, total, reserved>>
                 \/ Reserve(t) \/ \E s \in Services : Launch(t, s)
  BY DEF Call, Send, HarborSend, Kill
<1> QED BY <1>1, <1>2, <1>3, <1>4, <1>5

\* G_NODE.total is the number of contexts less the reserved one, so that the
\* threads stop (CHECK_ABORT) exactly when only that one is left.
THEOREM TotalExact == Spec => []TotalCounts
<1>1. Init => TotalCounts
  <2> SUFFICES ASSUME Init PROVE TotalCounts
    OBVIOUS
  <2>1. {s \in Services : ctx[s] = "live"} = {} /\ reserved = {} /\ total = 0
    BY DEF Init
  <2> QED BY <2>1, FS_EmptySet DEF TotalCounts
<1>2. TotalCounts /\ Sound /\ [Next]_vars => TotalCounts'
  <2> SUFFICES ASSUME TotalCounts, Sound, [Next]_vars PROVE TotalCounts'
    OBVIOUS
  <2>0. TypeOK /\ total = Cardinality(Live) - Cardinality(reserved)
    BY DEF Sound, TotalCounts, Live
  <2>r. Cardinality(reserved) \in Nat
    BY <2>0, ConstantsAssumption, FS_Subset, FS_CardinalityType DEF TypeOK
  <2>t. TotalCounts' <=> total' = Cardinality(Live') - Cardinality(reserved')
    BY DEF TotalCounts, Live
  <2>1. CASE UNCHANGED <<ctx, total, reserved>>
    BY <2>1 DEF TotalCounts
  <2>2. ASSUME NEW t \in Threads, FreeContext(t) PROVE TotalCounts'
    <3>1. op[t].svc \in Services /\ ctx[op[t].svc] = "live"
      BY <2>2 DEF FreeContext, Sound, Control, OpControl, RefInv, DeletesLast, Deletes
    <3>2. Cardinality(Live) \in Int /\ Cardinality(Live') = Cardinality(Live) - 1
      <4>1. /\ ctx' = [ctx EXCEPT ![op[t].svc] = "freed"]
            /\ ctx[op[t].svc] \in {"none", "live"} /\ ctx[op[t].svc] # "freed"
        BY <2>2, <3>1 DEF FreeContext
      <4>2. "freed" \in {"live", "freed"} /\ "freed" # "live"
        OBVIOUS
      <4>3. /\ Cardinality(Live) \in Int
            /\ Cardinality(Live') = Cardinality(Live) +
                 (IF "freed" = "live" THEN 1 ELSE IF ctx[op[t].svc] = "live" THEN 0 - 1 ELSE 0)
        BY <2>0, <3>1, <4>1, <4>2, LiveCount
      <4> QED BY <3>1, <4>2, <4>3
    <3>3. total' = total - 1 /\ reserved' = reserved
      BY <2>2 DEF FreeContext
    <3> QED BY <2>0, <2>r, <2>t, <3>2, <3>3
  <2>3. ASSUME NEW t \in Threads, NEW s \in Services, Launch(t, s) PROVE TotalCounts'
    <3>1. Cardinality(Live) \in Int /\ Cardinality(Live') = Cardinality(Live) + 1
      BY <2>0, <2>3, LiveCount DEF Launch, LaunchWith
    <3>2. total' = total + 1 /\ reserved' = reserved
      BY <2>3 DEF Launch, LaunchWith
    <3> QED BY <2>0, <2>r, <2>t, <3>1, <3>2
  <2>4. ASSUME NEW t \in Threads, Reserve(t) PROVE TotalCounts'
    <3>1. /\ reserved = {} /\ reserved' = {lnch[t].svc}
          /\ total' = total - 1 /\ ctx' = ctx
      BY <2>4 DEF Reserve, ReserveWith
    <3>2. Cardinality(reserved) = 0 /\ Cardinality(reserved') = 1
      BY <3>1, FS_EmptySet, FS_Singleton
    <3>3. Live' = Live /\ Cardinality(Live) \in Nat
      <4>1. IsFiniteSet(Live)
        BY ConstantsAssumption, FS_Subset DEF Live
      <4> QED BY <3>1, <4>1, FS_CardinalityType DEF Live
    <3> QED BY <2>0, <2>t, <3>1, <3>2, <3>3
  <2> QED BY <2>1, <2>2, <2>3, <2>4, TotalQuiet DEF Next, vars, heap, node
<1> QED BY <1>1, <1>2, Queues, PTL DEF Spec

\* A queue grows only through a counted or reserved context.
LEMMA PushesToLive ==
  ASSUME Sound, [Next]_vars, NEW s \in Services, ctx[s] = "freed"
  PROVE  Len(msgs'[s]) <= Len(msgs[s])
<1>0. TypeOK /\ msgs[s] \in Seq(MaybeService)
  BY DEF Sound, TypeOK
<1>1. CASE msgs' = msgs
  BY <1>0, <1>1
<1>2. ASSUME NEW d \in Services, msgs' = [msgs EXCEPT ![d] = Tail(@)], msgs[d] # <<>>
      PROVE  Len(msgs'[s]) <= Len(msgs[s])
  <2>1. CASE d = s
    <3>1. msgs'[s] = Tail(msgs[s]) /\ Len(Tail(msgs[s])) = Len(msgs[s]) - 1
      BY <1>0, <1>2, <2>1 DEF TypeOK
    <3> QED BY <1>0, <3>1
  <2>2. CASE d # s
    BY <1>0, <1>2, <2>2 DEF TypeOK
  <2> QED BY <2>1, <2>2
<1>3. CASE msgs'[s] = msgs[s]
  BY <1>0, <1>3
<1>4. ASSUME NEW t \in Threads, MqPush(t) PROVE Len(msgs'[s]) <= Len(msgs[s])
  <2> DEFINE d == hold[<<t, "op">>]
  <2>1. d \in Services /\ <<t, "op">> \in HoldFrames
    BY <1>4, Frames DEF MqPush, Sound, Control, OpControl
  <2>2. ctx[d] = "live"
    BY <2>1, HeldQueue DEF HeldBy
  <2>3. d # s
    BY <2>2
  <2> QED BY <1>0, <1>3, <1>4, <2>1, <2>3 DEF MqPush, TypeOK
<1>5. ASSUME NEW t \in Threads, NEW d \in Services, HarborSend(t, d)
      PROVE  Len(msgs'[s]) <= Len(msgs[s])
  <2>1. ctx[d] = "live"
    BY <1>5, HeldQueue DEF HarborSend
  <2>2. d # s
    BY <2>1
  <2> QED BY <1>0, <1>3, <1>5, <2>2 DEF HarborSend, TypeOK
<1>6. ASSUME NEW t \in Threads, DrainPop(t) PROVE Len(msgs'[s]) <= Len(msgs[s])
  <2>1. have[<<t, "drain">>] \in Services
    BY <1>0, <1>6, Frames DEF DrainPop, TypeOK, MaybeService
  <2> QED BY <1>2, <1>6, <2>1 DEF DrainPop
<1>7. ASSUME NEW t \in Threads, PopMessage(t) PROVE Len(msgs'[s]) <= Len(msgs[s])
  <2>1. t \in Workers /\ wpc[t] = "pop"
    BY <1>7 DEF PopMessage, WorkerAt
  <2>2. have[<<t, "q">>] \in Services
    BY <1>0, <2>1, Frames DEF Sound, Control, WorkerControl, TypeOK, MaybeService
  <2> QED BY <1>2, <1>7, <2>2 DEF PopMessage
<1>8. ASSUME NEW t \in Threads, OpStep(t) \/ DrainStep(t) PROVE Len(msgs'[s]) <= Len(msgs[s])
  BY <1>1, <1>4, <1>6, <1>8
  DEF OpStep, DrainStep, PushGrab, OpUnref, MarkRelease, FreeContext, DrainFree, mq
<1>9. ASSUME NEW t \in Threads, LaunchStep(t) \/ WorkerStep(t)
      PROVE  Len(msgs'[s]) <= Len(msgs[s])
  <2>1. LaunchStep(t) => msgs' = msgs
    BY DEF LaunchStep, InitOk, InitFail, SetInit, LaunchPushQueue, LaunchReturn, FailRetire,
       FailMqRelease, mq
  <2>2. WorkerStep(t) => msgs' = msgs \/ PopMessage(t)
    BY DEF WorkerStep, GlobalPop, WorkerGrab, WorkerDead, PopEmpty, PopEmptyWith,
       BatchLength, Dispatch, EndRound, NextQueue, PushBack, WorkerUnref, mq
  <2> QED BY <1>1, <1>7, <1>9, <2>1, <2>2
<1>10. ASSUME NEW t \in Threads, Call(t) PROVE Len(msgs'[s]) <= Len(msgs[s])
  BY <1>1, <1>5, <1>10 DEF Call, Send, Kill, Launch, LaunchWith, Reserve, ReserveWith, mq
<1>11. UNCHANGED vars => msgs' = msgs
  BY DEF vars, mq
<1> QED BY <1>1, <1>8, <1>9, <1>10, <1>11 DEF Next

\* A freed service receives nothing, even from a sender that found its handle
\* alive: the reference the sender holds keeps the context allocated.
THEOREM DeadGetsNothing == Spec => NoPushToDead
<1>1. Sound /\ [Next]_vars =>
        [\A s \in Services : ctx[s] = "freed" => Len(msgs'[s]) <= Len(msgs[s])]_vars
  BY PushesToLive
<1> QED BY <1>1, Queues, PTL DEF Spec, NoPushToDead

\* Both counts that end a life, ref for a context and total for the process, are
\* exact.
THEOREM CountsCorrect == Spec => []CountsExact
<1>1. RefCount /\ TotalCounts => CountsExact
  BY DEF CountsExact
<1> QED BY <1>1, RefCountExact, TotalExact, PTL

\* A queue is in one place, has an owner while it has work, and is marked once.
THEOREM QueueLifeCorrect == Spec => []QueueOwned
<1>1. QueueOnce /\ NoLostQueue /\ ReleaseOnce => QueueOwned
  BY DEF QueueOwned
<1> QED BY <1>1, QueueInOnePlace, NoQueueLost, MarkedOnce, PTL
=============================================================================
