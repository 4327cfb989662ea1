----------------------------- MODULE TimerWheel -----------------------------
(***************************************************************************)
(* The timing wheel of skynet_timer.c: a near wheel of 2^NearShift lists   *)
(* and four levels of 2^LevelShift lists over a clock that wraps (32 bits  *)
(* in the code).  Services add timers from any thread; the timer thread    *)
(* advances the clock and dispatches.  The spinlock of the wheel is free   *)
(* only between the actions below, in particular while a list taken off    *)
(* the near wheel is being dispatched.                                     *)
(***************************************************************************)
EXTENDS Integers, Sequences, SequencesExt

CONSTANTS
  NearShift, LevelShift,  \* TIME_NEAR_SHIFT, TIME_LEVEL_SHIFT
  Timers,                 \* timer nodes, reused after they fire
  Delays,                 \* the delays services ask for
  MaxDiff                 \* bound on the ticks one skynet_updatetime catches up

Near == 2 ^ NearShift
Level == 2 ^ LevelShift
Span(i) == Near * Level ^ i   \* ticks covered by one list of level i
Wrap == Span(4)               \* 2^32

ASSUME WheelAssumption ==
  /\ NearShift \in Nat \ {0} /\ LevelShift \in Nat \ {0} /\ MaxDiff \in Nat \ {0}
  /\ Delays \subseteq 1 .. (Wrap \div 2 - 1)   \* a positive int

VARIABLES
  time,         \* T->time
  wheel,        \* [near, t]: the lists T->near and T->t
  expire,       \* node->expire
  dispatching,  \* the list dispatch_list works on
  phase,        \* the timer thread in timer_update
  due,          \* ticks skynet_updatetime has still to apply
  left,         \* ticks until each pending timer is due (0: none or now)
  order         \* the pending timers, in the order they were added

timervars == <<time, wheel, expire, dispatching, phase, due, left, order>>

EmptyWheel == [near |-> [k \in 0 .. Near - 1 |-> <<>>],
               t |-> [i \in 0 .. 3 |-> [k \in 0 .. Level - 1 |-> <<>>]]]

Pending == ToSet(order)

TimerTypeOK ==
  /\ time \in 0 .. Wrap - 1
  /\ \A k \in 0 .. Near - 1 : wheel.near[k] \in Seq(Timers)
  /\ \A i \in 0 .. 3, k \in 0 .. Level - 1 : wheel.t[i][k] \in Seq(Timers)
  /\ expire \in [Timers -> 0 .. Wrap - 1]
  /\ dispatching \in Seq(Timers)
  /\ phase \in {"idle", "dispatch"}
  /\ due \in 0 .. MaxDiff
  /\ left \in [Timers -> 0 .. Wrap]
  /\ order \in Seq(Timers) /\ IsInjective(order)

TimerInit ==
  /\ time = 0
  /\ wheel = EmptyWheel
  /\ expire = [n \in Timers |-> 0]
  /\ dispatching = <<>>
  /\ phase = "idle"
  /\ due = 0
  /\ left = [n \in Timers |-> 0]
  /\ order = <<>>

-----------------------------------------------------------------------------
(* Placement. *)

\* The level whose lists hold expiry e at clock c: the first one whose next
\* coarser block contains both, the last one otherwise.
LevelOf(e, c) == LET ok == {i \in 0 .. 2 : e \div Span(i + 1) = c \div Span(i + 1)}
                 IN IF ok = {} THEN 3 ELSE CHOOSE i \in ok : \A j \in ok : i <= j

add_node(w, n, e, c) ==
  IF e \div Near = c \div Near
  THEN [w EXCEPT !.near[e % Near] = Append(@, n)]
  ELSE LET i == LevelOf(e, c)
       IN [w EXCEPT !.t[i][(e \div Span(i)) % Level] = Append(@, n)]

\* Take a list off a level and place its nodes again at clock c, in order.
MoveReversed(w, i, k, c) ==
  FoldLeft(LAMBDA acc, n : add_node(acc, n, expire[n], c),
           [w EXCEPT !.t[i][k] = <<>>], Reverse(w.t[i][k]))
move_list(w, i, k, c) ==
  FoldLeft(LAMBDA acc, n : add_node(acc, n, expire[n], c),
           [w EXCEPT !.t[i][k] = <<>>], w.t[i][k])

\* The lists to move when the clock becomes c: at a multiple of Span(i) whose
\* digit at level i is not 0, that list; at the wrap, the first of level 3.
ShiftedNoWrap(w, c) ==
  LET lev == {i \in 0 .. 3 : c % Span(i) = 0 /\ (c \div Span(i)) % Level # 0}
  IN IF lev # {} THEN LET i == CHOOSE j \in lev : TRUE
                      IN move_list(w, i, (c \div Span(i)) % Level, c)
     ELSE w
timer_shift(w, c) ==
  LET lev == {i \in 0 .. 3 : c % Span(i) = 0 /\ (c \div Span(i)) % Level # 0}
  IN IF c = 0 THEN move_list(w, 3, 0, c)
     ELSE IF lev # {} THEN LET i == CHOOSE j \in lev : TRUE
                           IN move_list(w, i, (c \div Span(i)) % Level, c)
     ELSE w

-----------------------------------------------------------------------------
(* Any thread: skynet_timeout with a positive time (otherwise the message  *)
(* is pushed at once and the wheel is not used).                           *)

TimeoutAt(n, d, e) ==
  /\ n \notin Pending
  /\ expire' = [expire EXCEPT ![n] = e]
  /\ wheel' = add_node(wheel, n, e, time)
  /\ left' = [left EXCEPT ![n] = d]
  /\ order' = Append(order, n)
  /\ UNCHANGED <<time, dispatching, phase, due>>

TimeoutEarly(n, d) == TimeoutAt(n, d, (time + d - 1) % Wrap)

\* node->expire = time + T->time, in 32 bits.
Timeout(n, d) == TimeoutAt(n, d, (time + d) % Wrap)

-----------------------------------------------------------------------------
(* The timer thread.                                                       *)

\* skynet_updatetime finds that d ticks passed and calls timer_update d times.
UpdateTime(d) ==
  /\ phase = "idle" /\ due = 0
  /\ due' = d
  /\ UNCHANGED <<time, wheel, expire, dispatching, phase, left, order>>

Current(w, c) == w.near[c % Near]

\* timer_update up to the first unlock.  The timer_execute before the shift
\* finds nothing (CurrentTickEmpty), so timer_shift comes first; the second
\* timer_execute takes the list of the new tick under the same lock.
ShiftTime ==
  LET c == (time + 1) % Wrap
      w == timer_shift(wheel, c)
  IN /\ due > 0 /\ phase = "idle"
     /\ time' = c
     /\ left' = [n \in Timers |-> IF n \in Pending /\ left[n] > 0 THEN left[n] - 1 ELSE 0]
     /\ wheel' = [w EXCEPT !.near[c % Near] = <<>>]
     /\ dispatching' = Current(w, c)
     /\ phase' = IF Current(w, c) = <<>> THEN "idle" ELSE "dispatch"
     /\ due' = IF Current(w, c) = <<>> THEN due - 1 ELSE due
     /\ UNCHANGED <<expire, order>>

\* The list is dispatched: timer_execute locks again, finds the list of the
\* tick still empty (CurrentTickEmpty), and the tick is over.
EndTick ==
  /\ phase = "dispatch" /\ dispatching = <<>>
  /\ phase' = "idle" /\ due' = due - 1
  /\ UNCHANGED <<time, wheel, expire, dispatching, left, order>>

\* One round of dispatch_list, without the lock: push the response, free.
Fire ==
  /\ dispatching # <<>>
  /\ dispatching' = Tail(dispatching)
  /\ order' = Remove(order, Head(dispatching))
  /\ expire' = [expire EXCEPT ![Head(dispatching)] = 0]
  /\ UNCHANGED <<time, wheel, phase, due, left>>

TimerThread == \/ \E d \in 1 .. MaxDiff : UpdateTime(d)
               \/ ShiftTime \/ Fire \/ EndTick

TimerNext == TimerThread \/ \E n \in Timers, d \in Delays : Timeout(n, d)

\* The timer thread is scheduled and the monotonic clock goes on.
TimerSpec == TimerInit /\ [][TimerNext]_timervars /\ WF_timervars(TimerThread)

-----------------------------------------------------------------------------
\* A timer leaves the wheel in the tick its delay ends, neither before nor
\* after: placement, cascade and the wrap of the 32-bit clock agree.  And
\* whenever the lock is free the list of the current tick is empty: what is
\* added meanwhile, a delay of 1 included, goes to a later tick, so neither
\* timer_execute of timer_update can take a list a second time.
OnTime ==
  /\ TimerTypeOK
  /\ \A n \in Timers : n \in Pending => (left[n] = 0 <=> n \in ToSet(dispatching))
  /\ Current(wheel, time) = <<>>

Before(s, m, n) == \E i, j \in DOMAIN s : i < j /\ s[i] = m /\ s[j] = n

\* Timers due in the same tick are dispatched in the order in which they were
\* added, although they may sit on different levels when they are added.
SameTickOrder ==
  \A m, n \in ToSet(dispatching) : Before(dispatching, m, n) => Before(order, m, n)

\* Every timer fires: none is left behind in a list that the cascade skips.
EveryTimerFires == \A n \in Timers : n \in Pending ~> n \notin Pending
=============================================================================
