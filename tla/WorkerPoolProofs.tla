-------------------------- MODULE WorkerPoolProofs --------------------------
(* Proofs about WorkerPool, for every finite set of workers. *)
EXTENDS WorkerPool, FiniteSetTheorems, TLAPS

\* The workers that m->sleep counts.
Counted == {"test", "wait", "relock", "unsleep"}
Sleepers == {w \in Workers : pc[w] \in Counted}

\* The variables have their types, work and total are bounded by what was pushed
\* so far, and pc is a function on the threads.
Types ==
  /\ TypeOK
  /\ work <= Services + pushed /\ total <= Services + pushed
  /\ pc = [t \in Threads |-> pc[t]]

\* m->quit is set in the step in which the timer thread leaves, and from then on
\* nobody waits: the broadcast woke those who did, and who comes later finds quit.
QuitIsFinal ==
  /\ quit <=> pc["timer"] = "exit"
  /\ quit => \A w \in Workers : pc[w] # "wait"

\* The inductive invariant.
IInv == Types /\ sleep = Cardinality(Sleepers) /\ QuitIsFinal

LEMMA SleepersFinite ==
  /\ IsFiniteSet(Sleepers) /\ Cardinality(Sleepers) \in Nat
  /\ Cardinality(Sleepers) <= Cardinality(Workers)
  /\ Cardinality(Workers) \in Nat
<1>1. IsFiniteSet(Workers) /\ Sleepers \subseteq Workers
  BY PoolAssumption DEF Sleepers
<1> QED BY <1>1, FS_Subset, FS_CardinalityType

\* One worker moves: m->sleep follows if it counts it exactly when it is counted.
LEMMA OneMoves ==
  ASSUME Types, NEW w \in Workers, NEW l \in WorkerPC, pc' = [pc EXCEPT ![w] = l]
  PROVE  /\ Sleepers' = IF l \in Counted THEN Sleepers \cup {w} ELSE Sleepers \ {w}
         /\ w \in Sleepers <=> pc[w] \in Counted
         /\ \A v \in Workers : pc'[v] \in WorkerPC
         /\ \A v \in Threads \ {w} : pc'[v] = pc[v]
         /\ pc'[w] = l
         /\ pc' = [t \in Threads |-> pc'[t]]
<1>1. w \in Threads /\ pc = [t \in Threads |-> pc[t]]
  BY DEF Threads, Types
<1>2. \A v \in Threads : pc'[v] = IF v = w THEN l ELSE pc[v]
  BY <1>1
<1>3. \A v \in Workers : v \in Threads /\ pc[v] \in WorkerPC
  BY DEF Threads, Types, TypeOK
<1>4. pc' = [t \in Threads |-> pc'[t]]
  BY <1>1
<1> QED BY <1>1, <1>2, <1>3, <1>4 DEF Sleepers

LEMMA SleepersChange ==
  ASSUME Types, NEW w \in Workers, NEW l \in WorkerPC, pc' = [pc EXCEPT ![w] = l]
  PROVE  Cardinality(Sleepers') =
           IF l \in Counted
           THEN IF pc[w] \in Counted THEN Cardinality(Sleepers) ELSE Cardinality(Sleepers) + 1
           ELSE IF pc[w] \in Counted THEN Cardinality(Sleepers) - 1 ELSE Cardinality(Sleepers)
<1>1. IsFiniteSet(Sleepers)
  BY SleepersFinite
<1>2. CASE l \in Counted
  <2>1. Sleepers' = Sleepers \cup {w} /\ (w \in Sleepers <=> pc[w] \in Counted)
    BY <1>2, OneMoves
  <2> QED BY <1>1, <1>2, <2>1, FS_AddElement
<1>3. CASE l \notin Counted
  <2>1. Sleepers' = Sleepers \ {w} /\ (w \in Sleepers <=> pc[w] \in Counted)
    BY <1>3, OneMoves
  <2> QED BY <1>1, <1>3, <2>1, FS_RemoveElement
<1> QED BY <1>2, <1>3

\* Another thread moves: no worker does.
LEMMA OthersMove ==
  ASSUME Types, NEW t \in {"timer", "socket", "monitor"}, NEW l,
         pc' = [pc EXCEPT ![t] = l]
  PROVE  /\ Sleepers' = Sleepers
         /\ \A v \in Threads \ {t} : pc'[v] = pc[v]
         /\ pc'[t] = l
         /\ \A w \in Workers : pc'[w] = pc[w]
         /\ pc' = [u \in Threads |-> pc'[u]]
<1>1. t \in Threads /\ t \notin Workers /\ pc = [u \in Threads |-> pc[u]]
  BY PoolAssumption DEF Threads, Types
<1>2. \A v \in Threads : pc'[v] = IF v = t THEN l ELSE pc[v]
  BY <1>1
<1>3. \A w \in Workers : pc'[w] = pc[w]
  BY <1>1, <1>2 DEF Threads
<1>4. pc' = [u \in Threads |-> pc'[u]]
  BY <1>1
<1> QED BY <1>1, <1>2, <1>3, <1>4 DEF Sleepers

-----------------------------------------------------------------------------
(* The steps, thread by thread.                                            *)

\* A worker moves and its step counts it in m->sleep exactly when it becomes a
\* sleeper: what is left to show is the types of the variables it wrote.
LEMMA WorkerMoves ==
  ASSUME IInv, NEW w \in Workers, NEW l \in WorkerPC, pc' = [pc EXCEPT ![w] = l],
         work' \in 0 .. Services + pushed, mutex' \in Workers \cup {Nobody},
         sleep' = (IF l \in Counted /\ pc[w] \notin Counted THEN sleep + 1
                   ELSE IF l \notin Counted /\ pc[w] \in Counted THEN sleep - 1
                   ELSE sleep),
         l = "wait" => ~quit,
         UNCHANGED <<pushed, total, quit, sockExit>>
  PROVE  IInv'
<1> USE DEF IInv
<1>1. Types
  OBVIOUS
<1>2. /\ \A v \in Workers : pc'[v] \in WorkerPC
      /\ \A v \in Threads \ {w} : pc'[v] = pc[v]
      /\ pc'[w] = l
      /\ pc' = [t \in Threads |-> pc'[t]]
  BY <1>1, OneMoves
<1>3. \A t \in {"timer", "socket", "monitor"} : pc'[t] = pc[t]
  BY <1>2, PoolAssumption DEF Threads
<1>4. sleep' = Cardinality(Sleepers')
  <2>1. Cardinality(Sleepers) \in Nat
    BY SleepersFinite
  <2> QED BY <1>1, <2>1, SleepersChange
<1>5. sleep' \in 0 .. Cardinality(Workers)
  <2>1. Sleepers' \subseteq Workers /\ IsFiniteSet(Workers)
    BY PoolAssumption DEF Sleepers
  <2>2. Cardinality(Sleepers') <= Cardinality(Workers) /\ IsFiniteSet(Sleepers')
    BY <2>1, FS_Subset
  <2>3. Cardinality(Sleepers') \in Nat /\ Cardinality(Workers) \in Nat
    BY <2>1, <2>2, FS_CardinalityType
  <2> QED BY <1>4, <2>2, <2>3
<1>6. Types'
  <2>1. work' \in 0 .. Services + MaxPush /\ work' <= Services + pushed'
    BY PoolAssumption DEF Types, TypeOK
  <2> QED BY <1>2, <1>3, <1>5, <2>1 DEF Types, TypeOK
<1>7. QuitIsFinal'
  BY <1>2, <1>3 DEF QuitIsFinal, Threads
<1> QED BY <1>4, <1>6, <1>7

\* The timer, socket or monitor thread moves; it neither writes the mutex nor
\* m->sleep, and may have listed a queue.
LEMMA OtherMoves ==
  ASSUME IInv, NEW t \in {"timer", "socket", "monitor"}, NEW l,
         pc' = [pc EXCEPT ![t] = l],
         t = "timer" => pc[t] # "exit" /\ l \in TimerPC \ {"exit"},
         t = "socket" => l \in SocketPC,
         t = "monitor" => l \in {"abort", "exit"},
         PushWork \/ UNCHANGED <<work, pushed>>,
         sockExit' \in BOOLEAN,
         UNCHANGED <<total, mutex, sleep, quit>>
  PROVE  IInv'
<1> USE DEF IInv
<1>1. Types
  OBVIOUS
<1>2. /\ Sleepers' = Sleepers
      /\ \A v \in Threads \ {t} : pc'[v] = pc[v]
      /\ pc'[t] = l
      /\ \A w \in Workers : pc'[w] = pc[w]
      /\ pc' = [u \in Threads |-> pc'[u]]
  BY <1>1, OthersMove
<1>3. /\ pc'["timer"] \in TimerPC /\ pc'["socket"] \in SocketPC
      /\ pc'["monitor"] \in {"abort", "exit"}
      /\ pc'["timer"] = "exit" <=> pc["timer"] = "exit"
  BY <1>2 DEF Types, TypeOK, Threads
<1>4. /\ work' \in 0 .. Services + MaxPush /\ pushed' \in 0 .. MaxPush
      /\ work' <= Services + pushed' /\ total' <= Services + pushed'
  BY PoolAssumption DEF Types, TypeOK, PushWork
<1>5. Types'
  BY <1>2, <1>3, <1>4 DEF Types, TypeOK
<1>6. QuitIsFinal'
  BY <1>2, <1>3 DEF QuitIsFinal
<1> QED BY <1>2, <1>5, <1>6

\* pthread_cond_signal: a worker stops waiting and stays counted.
LEMMA SignalMoves ==
  ASSUME IInv, NEW t \in {"timer", "socket"}, NEW next, Signal(t, next),
         t = "timer" => next \in TimerPC \ {"exit"},
         t = "socket" => next \in SocketPC
  PROVE  IInv'
<1>1. t \in Threads /\ t \notin Workers /\ pc = [u \in Threads |-> pc[u]]
  BY PoolAssumption DEF Threads, IInv, Types
<1>2. CASE \E w \in Workers : At(w, "wait")
                               /\ pc' = [pc EXCEPT ![w] = "relock", ![t] = next]
  <2>1. PICK w \in Workers : At(w, "wait")
                               /\ pc' = [pc EXCEPT ![w] = "relock", ![t] = next]
    BY <1>2
  <2>2. w \in Threads /\ w # t
    BY <1>1 DEF Threads
  <2>3. \A v \in Threads : pc'[v] = IF v = t THEN next ELSE IF v = w THEN "relock" ELSE pc[v]
    BY <1>1, <2>1, <2>2
  <2>4. pc' = [u \in Threads |-> pc'[u]]
    BY <1>1, <2>1
  <2>5. \A v \in Workers : /\ v # t /\ v \in Threads
                            /\ pc'[v] = IF v = w THEN "relock" ELSE pc[v]
    BY <1>1, <2>3 DEF Threads
  <2>6. \A v \in Workers : pc'[v] \in Counted <=> pc[v] \in Counted
    BY <2>1, <2>5 DEF At, Counted
  <2>7. Sleepers' = Sleepers
    BY <2>6 DEF Sleepers
  <2>8. /\ pc'["timer"] \in TimerPC /\ pc'["socket"] \in SocketPC
        /\ pc'["monitor"] = pc["monitor"]
        /\ pc'["timer"] = "exit" <=> pc["timer"] = "exit"
    <3>1. \A u \in {"timer", "socket", "monitor"} : u \in Threads /\ u # w
      BY PoolAssumption DEF Threads
    <3> QED BY <2>3, <3>1 DEF IInv, Types, TypeOK, Signal, At
  <2>9. Types'
    BY <2>4, <2>5, <2>8 DEF IInv, Types, TypeOK, Signal, WorkerPC
  <2>10. QuitIsFinal'
    BY <2>5, <2>8 DEF IInv, QuitIsFinal, Signal
  <2> QED BY <2>7, <2>9, <2>10 DEF IInv, Signal
<1>3. CASE Goto(t, next)
  <2>1. /\ UNCHANGED <<work, pushed, total, mutex, sleep, quit, sockExit>>
        /\ pc[t] = "signal" /\ sockExit \in BOOLEAN
    BY DEF Signal, At, IInv, Types, TypeOK
  <2> QED BY <1>3, <2>1, OtherMoves DEF Goto
<1> QED BY <1>2, <1>3 DEF Signal

\* Lock, m->quit = 1, pthread_cond_broadcast, unlock: every waiting worker wakes
\* and stays counted, and the timer thread has left.
LEMMA QuitMoves == IInv /\ SetQuit => IInv'
<1> SUFFICES ASSUME IInv, SetQuit PROVE IInv'
  OBVIOUS
<1>1. \A w \in Workers : /\ w \in Threads /\ w # "timer"
                          /\ pc'[w] = IF pc[w] = "wait" THEN "relock" ELSE pc[w]
  BY PoolAssumption DEF Threads, SetQuit, At
<1>2. /\ pc'["timer"] = "exit" /\ pc'["socket"] = pc["socket"]
      /\ pc'["monitor"] = pc["monitor"]
  BY PoolAssumption DEF Threads, SetQuit, At
<1>3. pc' = [t \in Threads |-> pc'[t]]
  BY DEF SetQuit
<1>4. Sleepers' = Sleepers
  BY <1>1 DEF Sleepers, Counted
<1>5. Types'
  BY <1>1, <1>2, <1>3 DEF IInv, Types, TypeOK, SetQuit, WorkerPC, TimerPC
<1>6. QuitIsFinal'
  BY <1>1, <1>2 DEF QuitIsFinal, SetQuit
<1> QED BY <1>4, <1>5, <1>6 DEF IInv, SetQuit

-----------------------------------------------------------------------------
LEMMA InitIInv == Init => IInv
<1> SUFFICES ASSUME Init PROVE IInv
  OBVIOUS
<1>1. \A w \in Workers : pc[w] = "check"
  BY PoolAssumption DEF Init, Threads
<1>2. pc["timer"] = "update" /\ pc["socket"] = "poll" /\ pc["monitor"] = "abort"
  BY PoolAssumption DEF Init, Threads
<1>3. Sleepers = {}
  BY <1>1 DEF Sleepers, Counted
<1>4. Cardinality(Sleepers) = 0 /\ Cardinality(Workers) \in Nat
  BY <1>3, FS_EmptySet, SleepersFinite
<1>5. pc = [t \in Threads |-> pc[t]]
  <2> DEFINE start(t) == CASE t \in Workers -> "check" [] t = "timer" -> "update"
                           [] t = "socket" -> "poll" [] t = "monitor" -> "abort"
  <2>1. pc = [t \in Threads |-> start(t)]
    BY DEF Init
  <2> HIDE DEF start
  <2> QED BY <2>1
<1>6. /\ work = Services /\ pushed = 0 /\ total = Services /\ mutex = Nobody
      /\ sleep = 0 /\ quit = FALSE /\ sockExit = FALSE
  BY DEF Init
<1>7. Types
  <2>1. TypeOK
    <3>1. work \in 0 .. Services + MaxPush /\ pushed \in 0 .. MaxPush
      BY <1>6, PoolAssumption
    <3>2. total \in 0 .. Services + MaxPush /\ sleep \in 0 .. Cardinality(Workers)
      BY <1>4, <1>6, PoolAssumption
    <3>3. \A w \in Workers : pc[w] \in WorkerPC
      BY <1>1 DEF WorkerPC
    <3>4. /\ pc["timer"] \in TimerPC /\ pc["socket"] \in SocketPC
          /\ pc["monitor"] \in {"abort", "exit"}
      BY <1>2 DEF TimerPC, SocketPC
    <3>5. mutex \in Workers \cup {Nobody} /\ quit \in BOOLEAN /\ sockExit \in BOOLEAN
      BY <1>6
    <3> QED BY <3>1, <3>2, <3>3, <3>4, <3>5 DEF TypeOK
  <2>2. work <= Services + pushed /\ total <= Services + pushed
    BY <1>6, PoolAssumption
  <2> QED BY <1>5, <2>1, <2>2 DEF Types
<1> QED BY <1>1, <1>2, <1>4, <1>6, <1>7 DEF IInv, QuitIsFinal

\* The facts that the steps of the workers need of the types.
LEMMA WorkerTypes ==
  IInv => /\ work \in 0 .. Services + pushed /\ pushed \in Nat /\ total \in Nat
          /\ mutex \in Workers \cup {Nobody} /\ sockExit \in BOOLEAN
BY PoolAssumption DEF IInv, Types, TypeOK

\* What a dispatch does to the services leaves the threads alone.
LEMMA ServiceCodeMoves ==
  ASSUME IInv, NEW w \in Workers, ServiceCode(w)
  PROVE  IInv'
<1>1. /\ work' \in 0 .. Services + MaxPush /\ pushed' \in 0 .. MaxPush
      /\ total' \in 0 .. Services + MaxPush
      /\ work' <= Services + pushed' /\ total' <= Services + pushed'
  <2>1. CASE CallbackSends(w)
    BY <2>1, PoolAssumption DEF IInv, Types, TypeOK, CallbackSends, PushWork
  <2>2. CASE CallbackLaunches(w)
    BY <2>2, PoolAssumption DEF IInv, Types, TypeOK, CallbackLaunches, PushWork
  <2>3. CASE CallbackExits(w)
    BY <2>3, PoolAssumption DEF IInv, Types, TypeOK, CallbackExits
  <2> QED BY <2>1, <2>2, <2>3 DEF ServiceCode
<1>2. UNCHANGED <<mutex, sleep, quit, sockExit, pc>>
  BY DEF ServiceCode, CallbackSends, CallbackLaunches, CallbackExits
<1>3. Sleepers' = Sleepers
  BY <1>2 DEF Sleepers
<1>4. Types'
  BY <1>1, <1>2 DEF IInv, Types, TypeOK
<1> QED BY <1>2, <1>3, <1>4 DEF IInv, QuitIsFinal

LEMMA WorkerStepMoves ==
  ASSUME IInv, NEW w \in Workers, WorkerStep(w) \/ SpuriousWakeup(w)
  PROVE  IInv'
<1> USE WorkerTypes DEF At, Goto, Counted, WorkerPC
<1>1. CASE CheckQuit(w)
  <2> DEFINE l == IF quit THEN "exit" ELSE "dispatch"
  <2>1. pc' = [pc EXCEPT ![w] = l] /\ l \in {"exit", "dispatch"}
    BY <1>1 DEF CheckQuit
  <2> HIDE DEF l
  <2> QED BY <1>1, <2>1, WorkerMoves DEF CheckQuit
<1>2. CASE DispatchQueue(w)
  <2>1. CASE work > 0 /\ work' = work - 1 /\ Goto(w, "busy")
    <3>1. work' \in 0 .. Services + pushed
      BY <2>1, PoolAssumption
    <3> QED BY <1>2, <2>1, <3>1, WorkerMoves DEF DispatchQueue
  <2>2. CASE work = 0 /\ Goto(w, "lock") /\ UNCHANGED work
    BY <1>2, <2>2, WorkerMoves DEF DispatchQueue
  <2> QED BY <1>2, <2>1, <2>2 DEF DispatchQueue
<1>3. CASE EndDispatch(w)
  BY <1>3, WorkerMoves DEF EndDispatch
<1>4. CASE LockToSleep(w)
  BY <1>4, WorkerMoves DEF LockToSleep
<1>5. CASE IncSleep(w)
  BY <1>5, WorkerMoves DEF IncSleep
<1>6. CASE TestQuitAndWait(w)
  <2>1. CASE ~quit /\ mutex' = Nobody /\ Goto(w, "wait")
    BY <1>6, <2>1, WorkerMoves DEF TestQuitAndWait
  <2>2. CASE quit /\ Goto(w, "unsleep") /\ UNCHANGED mutex
    BY <1>6, <2>2, WorkerMoves DEF TestQuitAndWait
  <2> QED BY <1>6, <2>1, <2>2 DEF TestQuitAndWait
<1>7. CASE Relock(w)
  BY <1>7, WorkerMoves DEF Relock
<1>8. CASE Unsleep(w)
  BY <1>8, WorkerMoves DEF Unsleep
<1>9. CASE SpuriousWakeup(w)
  BY <1>9, WorkerMoves DEF SpuriousWakeup
<1> QED BY <1>1, <1>2, <1>3, <1>4, <1>5, <1>6, <1>7, <1>8, <1>9 DEF WorkerStep

LEMMA TimerStepMoves ==
  ASSUME IInv, TimerStep
  PROVE  IInv'
<1> USE WorkerTypes DEF At, Goto, TimerPC
<1>1. CASE UpdateTime
  BY <1>1, OtherMoves DEF UpdateTime
<1>2. CASE TimerAbort
  <2>1. PICK l \in {"sockexit", "wakeup"} : pc' = [pc EXCEPT !["timer"] = l]
    BY <1>2 DEF TimerAbort
  <2> QED BY <1>2, <2>1, OtherMoves DEF TimerAbort
<1>3. CASE TimerWakeup
  <2>1. PICK l \in {"signal", "update"} : pc' = [pc EXCEPT !["timer"] = l]
    BY <1>3 DEF TimerWakeup, TestSleep
  <2> QED BY <1>3, <2>1, OtherMoves DEF TimerWakeup, TestSleep
<1>4. CASE TimerSignal
  BY <1>4, SignalMoves DEF TimerSignal
<1>5. CASE SocketExit
  BY <1>5, OtherMoves DEF SocketExit
<1>6. CASE SetQuit
  BY <1>6, QuitMoves
<1> QED BY <1>1, <1>2, <1>3, <1>4, <1>5, <1>6 DEF TimerStep

LEMMA SocketStepMoves ==
  ASSUME IInv, SocketStep
  PROVE  IInv'
<1> USE WorkerTypes DEF At, Goto, SocketPC
<1>1. CASE PollEvent
  <2>1. PICK l \in SocketPC : pc' = [pc EXCEPT !["socket"] = l]
    BY <1>1 DEF PollEvent
  <2> QED BY <1>1, <2>1, OtherMoves DEF PollEvent
<1>5. CASE PollExit
  BY <1>5, OtherMoves DEF PollExit
<1>2. CASE SocketAbort
  <2>1. PICK l \in SocketPC : pc' = [pc EXCEPT !["socket"] = l]
    BY <1>2 DEF SocketAbort
  <2> QED BY <1>2, <2>1, OtherMoves DEF SocketAbort
<1>3. CASE SocketWakeup
  <2>1. PICK l \in SocketPC : pc' = [pc EXCEPT !["socket"] = l]
    BY <1>3 DEF SocketWakeup, TestSleep
  <2> QED BY <1>3, <2>1, OtherMoves DEF SocketWakeup, TestSleep
<1>4. CASE SocketSignal
  BY <1>4, SignalMoves DEF SocketSignal
<1> QED BY <1>1, <1>2, <1>3, <1>4, <1>5 DEF SocketStep

\* The threads of skynet_start.c keep IInv, whatever the services do.
THEOREM Invariance == Spec => []IInv
<1>1. Init => IInv
  BY InitIInv
<1>2. IInv /\ [Next]_vars => IInv'
  <2> SUFFICES ASSUME IInv, [Next]_vars PROVE IInv'
    OBVIOUS
  <2>1. ASSUME NEW w \in Workers, WorkerStep(w) \/ ServiceCode(w) \/ SpuriousWakeup(w)
        PROVE  IInv'
    BY <2>1, WorkerStepMoves, ServiceCodeMoves
  <2>2. CASE TimerStep
    BY <2>2, TimerStepMoves
  <2>3. CASE SocketStep
    BY <2>3, SocketStepMoves
  <2>4. CASE MonitorAbort
    BY <2>4, OtherMoves, WorkerTypes DEF MonitorAbort, At, Goto
  <2>5. CASE UNCHANGED vars
    <3>1. Sleepers' = Sleepers
      BY <2>5 DEF vars, Sleepers
    <3> QED BY <2>5, <3>1 DEF vars, IInv, Types, TypeOK, QuitIsFinal
  <2> QED BY <2>1, <2>2, <2>3, <2>4, <2>5 DEF Next, Joined
<1> QED BY <1>1, <1>2, PTL DEF Spec

\* m->sleep is exact: it counts the workers between ++ m->sleep and -- m->sleep of
\* thread_worker, however signals, spurious returns and the broadcast interleave.
THEOREM SleepCountExact == Spec => []SleepCount
<1>1. IInv => SleepCount
  BY DEF IInv, Types, SleepCount, Sleepers, Counted
<1> QED BY <1>1, Invariance, PTL

\* When the timer thread has set m->quit and left, no worker waits, and none will:
\* start() can join them all.
THEOREM NoneLeftAsleep == Spec => []NoneAsleepAfterQuit
<1>1. IInv => NoneAsleepAfterQuit
  BY DEF IInv, QuitIsFinal, NoneAsleepAfterQuit
<1> QED BY <1>1, Invariance, PTL
=============================================================================
