---------------------------- MODULE MCPrimitives ----------------------------
(***************************************************************************)
(* Finite instances of what the rest of the runtime is built on: the lock  *)
(* of the handle table, the ring buffer of a message queue, and the timer  *)
(* wheel.  They share no state, so that their interleavings show nothing:  *)
(* in a behaviour one of them moves, and the others stay as they started.  *)
(***************************************************************************)
EXTENDS RwLock, MessageQueue, TimerWheel

VARIABLE part   \* the one that moves

allvars == <<part, lockvars, vars, timervars>>

AllInit == part \in {"lock", "queue", "timer"} /\ LockInit /\ Init /\ TimerInit

AllNext ==
  \/ part = "lock" /\ LockNext /\ UNCHANGED <<part, vars, timervars>>
  \/ part = "queue" /\ Next /\ UNCHANGED <<part, lockvars, timervars>>
  \/ part = "timer" /\ TimerNext /\ UNCHANGED <<part, lockvars, vars>>

\* The fairness of FairLockSpec and of TimerSpec, for the one that moves.
AllSpec ==
  /\ AllInit /\ [][AllNext]_allvars
  /\ \A t \in Threads : /\ WF_lockvars(part = "lock" /\ ReadStep(t))
                        /\ WF_lockvars(part = "lock" /\ WriteStep(t))
  /\ WF_timervars(part = "timer" /\ TimerThread)

\* Every delay a positive int allows.
AllDelays == 1 .. (Wrap \div 2 - 1)
=============================================================================
