---------------------------- MODULE MessageQueue ----------------------------
(***************************************************************************)
(* The ring buffer of a service's message queue (skynet_mq.c): push with   *)
(* growth, pop, length and the overload warning.  Push and pop run under   *)
(* the queue's spinlock, by any thread and by the one dispatcher;          *)
(* skynet_mq_overload reads and clears q->overload without the lock.       *)
(* The array has stale messages outside head .. tail; a new array is       *)
(* filled with None where nothing was written.                             *)
(***************************************************************************)
EXTENDS Integers, Sequences

CONSTANTS
  Messages,
  None,        \* not a message
  QueueSize,   \* DEFAULT_QUEUE_SIZE
  MqOverload,  \* MQ_OVERLOAD
  MaxCap       \* bound on the size of the array (memory, in the program)

ASSUME QueueAssumption ==
  /\ QueueSize \in Nat \ {0} /\ MqOverload \in Nat \ {0} /\ MaxCap \in Nat
  /\ None \notin Messages

VARIABLES
  buf, cap, head, tail,  \* q->queue, q->cap, q->head, q->tail
  overload, threshold,   \* q->overload, q->overload_threshold
  out,                   \* what the last skynet_mq_pop gave the dispatcher
  asked                  \* skynet_mq_overload was called since that pop

vars == <<buf, cap, head, tail, overload, threshold, out, asked>>

MaybeMessage == Messages \cup {None}

TypeOK ==
  /\ cap \in Nat \ {0}
  /\ buf \in [0 .. cap - 1 -> MaybeMessage]
  /\ head \in 0 .. cap - 1
  /\ tail \in 0 .. cap - 1
  /\ overload \in Nat
  /\ threshold \in Nat
  /\ out \in MaybeMessage
  /\ asked \in BOOLEAN

Init ==
  /\ cap = QueueSize
  /\ buf = [i \in 0 .. QueueSize - 1 |-> None]
  /\ head = 0 /\ tail = 0
  /\ overload = 0 /\ threshold = MqOverload
  /\ out = None /\ asked = TRUE

-----------------------------------------------------------------------------
\* skynet_mq_length, for a given head, tail and cap.
Length(h, t, c) == IF h <= t THEN t - h ELSE t + c - h

\* An index one further, wrapped at cap.
Step(i, c) == IF i + 1 >= c THEN 0 ELSE i + 1

\* The array after expand_queue of array b of size c with head h.
ExpandedUnrotated(b, c, h) == [i \in 0 .. 2 * c - 1 |-> IF i < c THEN b[i] ELSE None]
Expanded(b, c, h) ==
  [i \in 0 .. 2 * c - 1 |-> IF i < c THEN b[(h + i) % c] ELSE None]

\* skynet_mq_push when the array has room for one more.
PushPlain(m) ==
  /\ Step(tail, cap) # head
  /\ buf' = [buf EXCEPT ![tail] = m]
  /\ tail' = Step(tail, cap)
  /\ UNCHANGED <<cap, head, overload, threshold, out, asked>>

\* skynet_mq_push that fills the array: head = tail, so it grows at once.
PushExpand(m) ==
  /\ Step(tail, cap) = head
  /\ 2 * cap <= MaxCap
  /\ buf' = Expanded([buf EXCEPT ![tail] = m], cap, head)
  /\ head' = 0
  /\ tail' = cap
  /\ cap' = 2 * cap
  /\ UNCHANGED <<overload, threshold, out, asked>>

-----------------------------------------------------------------------------
\* What k turns of the loop in skynet_mq_pop multiply the threshold by.
Factor[k \in Nat] == IF k = 0 THEN 1 ELSE 2 * Factor[k - 1]

\* The threshold th after the loop that doubles it while n exceeds it.
DoubledOnce(th, n) == IF n > th THEN 2 * th ELSE th
Doubled(th, n) ==
  th * Factor[CHOOSE k \in 0 .. n : /\ n <= th * Factor[k]
                                    /\ \A j \in 0 .. k - 1 : th * Factor[j] < n]

\* skynet_mq_pop of a message; the length left may raise a warning.
PopMessage ==
  LET h == Step(head, cap)
      n == Length(h, tail, cap)
  IN /\ asked
     /\ head # tail
     /\ out' = buf[head]
     /\ head' = h
     /\ overload' = IF n > threshold THEN n ELSE overload
     /\ threshold' = Doubled(threshold, n)
     /\ asked' = FALSE
     /\ UNCHANGED <<buf, cap, tail>>

\* skynet_mq_pop of an empty queue.
PopEmpty ==
  /\ asked
  /\ head = tail
  /\ out' = None
  /\ threshold' = MqOverload
  /\ UNCHANGED <<buf, cap, head, tail, overload, asked>>

\* skynet_mq_overload, which message_dispatch calls after each message.
TakeOverload ==
  /\ ~asked
  /\ asked' = TRUE
  /\ overload' = 0
  /\ UNCHANGED <<buf, cap, head, tail, threshold, out>>

Next == \/ \E m \in Messages : PushPlain(m) \/ PushExpand(m)
        \/ PopMessage \/ PopEmpty \/ TakeOverload

Spec == Init /\ [][Next]_vars

-----------------------------------------------------------------------------
\* The messages from head to tail.
Items == [i \in 1 .. Length(head, tail, cap) |->
            buf[IF head + i - 1 < cap THEN head + i - 1 ELSE head + i - 1 - cap]]

Abstract == INSTANCE Fifo WITH items <- Items

\* The ring buffer is a FIFO queue: across wraps and growth no message is
\* lost, duplicated, reordered or read from an unwritten cell.
ImplementsFifo == Abstract!Spec

\* A warning that waits to be logged is about a length that passed every
\* threshold so far, and the next one needs a longer queue: at most one
\* warning per doubling until the queue is seen empty.
OverloadDoubles ==
  /\ TypeOK
  /\ overload # 0 => MqOverload < overload /\ overload <= threshold
                     /\ threshold < 2 * overload
  /\ asked => overload = 0
=============================================================================
