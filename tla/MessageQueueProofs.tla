------------------------- MODULE MessageQueueProofs -------------------------
(***************************************************************************)
(* Proofs about MessageQueue, for queues of every size: the loop of the    *)
(* overload warning ends where it should, the invariant of the warning,    *)
(* and that the ring buffer implements a FIFO queue.                       *)
(***************************************************************************)
EXTENDS MessageQueue, SequenceTheorems, WellFoundedInduction, TLAPS

-----------------------------------------------------------------------------
(* The threshold is doubled often enough.                                  *)

LEMMA LeastNumber ==
  ASSUME NEW T \in SUBSET Nat, T # {}
  PROVE  \E n \in T : \A m \in T : n <= m
<1> DEFINE R == OpToRel(<, Nat)
<1>1. IsWellFoundedOn(R, Nat)
  BY NatLessThanWellFounded
<1>2. \A x, y \in Nat : x < y => <<x, y>> \in R
  BY DEF OpToRel
<1>3. T \subseteq Nat
  OBVIOUS
<1> HIDE DEF R
<1>4. PICK n \in T : \A m \in T : <<m, n>> \notin R
  <2>1. \E n \in T : \A m \in T : ~(<<m, n>> \in R)
    BY <1>1, <1>3, WFMin
  <2> QED BY <2>1
<1>5. \A m \in T : ~(m < n)
  BY <1>2, <1>3, <1>4
<1> QED BY <1>3, <1>5

\* Induction over the natural numbers, for a set of numbers.
LEMMA SetInduction ==
  ASSUME NEW S \in SUBSET Nat, 0 \in S, \A n \in S : n + 1 \in S
  PROVE  S = Nat
<1> SUFFICES ASSUME Nat \ S # {} PROVE FALSE
  OBVIOUS
<1>1. PICK n \in Nat \ S : \A m \in Nat \ S : n <= m
  <2>1. Nat \ S \in SUBSET Nat
    OBVIOUS
  <2> QED BY <2>1, LeastNumber
<1>2. n - 1 \in Nat /\ n - 1 \in S
  BY <1>1
<1>3. (n - 1) + 1 \in S
  BY <1>2
<1> QED BY <1>1, <1>2, <1>3

\* The beginnings of Factor.
Beginnings(n) ==
  {f \in [0 .. n -> Nat] : f[0] = 1 /\ \A k \in 1 .. n : f[k] = 2 * f[k - 1]}

LEMMA BeginningsExist == \A n \in Nat : Beginnings(n) # {}
<1> DEFINE S == {n \in Nat : Beginnings(n) # {}}
<1>1. 0 \in S
  <2>1. [i \in 0 .. 0 |-> 1] \in Beginnings(0)
    BY DEF Beginnings
  <2> QED BY <2>1
<1>2. ASSUME NEW n \in S PROVE n + 1 \in S
  <2>1. PICK f : f \in Beginnings(n)
    OBVIOUS
  <2> DEFINE g == [i \in 0 .. n + 1 |-> IF i = n + 1 THEN 2 * f[n] ELSE f[i]]
  <2>2. f \in [0 .. n -> Nat] /\ f[0] = 1 /\ \A k \in 1 .. n : f[k] = 2 * f[k - 1]
    BY <2>1 DEF Beginnings
  <2>3. g \in [0 .. n + 1 -> Nat] /\ g[0] = 1
    BY <2>2
  <2>4. ASSUME NEW k \in 1 .. n + 1 PROVE g[k] = 2 * g[k - 1]
    <3>1. CASE k = n + 1
      BY <2>2, <3>1
    <3>2. CASE k \in 1 .. n
      BY <2>2, <3>2
    <3> QED BY <3>1, <3>2
  <2>5. g \in Beginnings(n + 1)
    <3> HIDE DEF g
    <3> QED BY <2>3, <2>4 DEF Beginnings
  <2> QED BY <2>5
<1>3. S = Nat
  <2>1. S \in SUBSET Nat
    OBVIOUS
  <2> HIDE DEF S
  <2> QED BY <1>1, <1>2, <2>1, SetInduction
<1> QED BY <1>3

LEMMA BeginningsAgree ==
  \A k, n, m \in Nat : \A f \in Beginnings(n), g \in Beginnings(m) :
    k <= n /\ k <= m => f[k] = g[k]
<1> DEFINE S == {k \in Nat : \A n, m \in Nat : \A f \in Beginnings(n), g \in Beginnings(m) :
                    k <= n /\ k <= m => f[k] = g[k]}
<1>1. 0 \in S
  BY DEF Beginnings
<1>2. ASSUME NEW k \in S PROVE k + 1 \in S
  <2> SUFFICES ASSUME NEW n \in Nat, NEW m \in Nat, NEW f \in Beginnings(n),
                      NEW g \in Beginnings(m), k + 1 <= n, k + 1 <= m
               PROVE  f[k + 1] = g[k + 1]
    OBVIOUS
  <2>1. f[k] = g[k]
    OBVIOUS
  <2>2. k + 1 \in 1 .. n /\ k + 1 \in 1 .. m /\ (k + 1) - 1 = k
    OBVIOUS
  <2> QED BY <2>1, <2>2 DEF Beginnings
<1>3. S = Nat
  <2>1. S \in SUBSET Nat
    OBVIOUS
  <2> HIDE DEF S
  <2> QED BY <1>1, <1>2, <2>1, SetInduction
<1> QED BY <1>3

\* Factor is what its definition says.
LEMMA FactorDef ==
  /\ Factor[0] = 1
  /\ \A k \in Nat \ {0} : Factor[k] = 2 * Factor[k - 1]
  /\ \A k \in Nat : Factor[k] \in Nat
<1> DEFINE beginning(k) == CHOOSE f : f \in Beginnings(k)
           F == [k \in Nat |-> beginning(k)[k]]
<1>1. \A k \in Nat : beginning(k) \in Beginnings(k)
  BY BeginningsExist
<1> HIDE DEF beginning
<1>2. F[0] = 1 /\ \A k \in Nat : F[k] \in Nat
  BY <1>1 DEF Beginnings
<1>3. ASSUME NEW k \in Nat \ {0} PROVE F[k] = 2 * F[k - 1]
  <2>1. k - 1 \in Nat /\ beginning(k - 1) \in Beginnings(k - 1)
    BY <1>1
  <2>2. beginning(k)[k] = 2 * beginning(k)[k - 1]
    BY <1>1 DEF Beginnings
  <2>3. beginning(k)[k - 1] = beginning(k - 1)[k - 1]
    BY <1>1, <2>1, BeginningsAgree
  <2> QED BY <2>1, <2>2, <2>3
<1>4. F = [k \in Nat |-> IF k = 0 THEN 1 ELSE 2 * F[k - 1]]
  BY <1>2, <1>3
<1> HIDE DEF F
<1>5. Factor = [k \in Nat |-> IF k = 0 THEN 1 ELSE 2 * Factor[k - 1]]
  BY <1>4 DEF Factor
<1>6. Factor[0] = 1 /\ \A k \in Nat \ {0} : Factor[k] = 2 * Factor[k - 1]
  BY <1>5
<1>7. \A k \in Nat : Factor[k] \in Nat
  <2> DEFINE S == {k \in Nat : Factor[k] \in Nat}
  <2>1. 0 \in S
    BY <1>6
  <2>2. ASSUME NEW k \in S PROVE k + 1 \in S
    <3>1. Factor[k + 1] = 2 * Factor[(k + 1) - 1] /\ (k + 1) - 1 = k
      BY <1>6
    <3> QED BY <3>1
  <2>3. S \in SUBSET Nat
    OBVIOUS
  <2> HIDE DEF S
  <2>4. S = Nat
    BY <2>1, <2>2, <2>3, SetInduction
  <2> QED BY <2>4 DEF S
<1> QED BY <1>6, <1>7

LEMMA FactorGrows == \A k \in Nat : k < Factor[k]
<1> DEFINE S == {k \in Nat : k < Factor[k]}
<1>1. 0 \in S
  BY FactorDef
<1>2. ASSUME NEW k \in S PROVE k + 1 \in S
  <2>1. Factor[k + 1] = 2 * Factor[(k + 1) - 1] /\ (k + 1) - 1 = k /\ Factor[k] \in Nat
    BY FactorDef
  <2> QED BY <2>1
<1>3. S \in SUBSET Nat
  OBVIOUS
<1> HIDE DEF S
<1>4. S = Nat
  BY <1>1, <1>2, <1>3, SetInduction
<1> QED BY <1>4 DEF S

\* The loop of skynet_mq_pop: it changes the threshold only if the length is
\* beyond it, and ends at the first doubling that reaches the length.
LEMMA DoubledIsFirst ==
  ASSUME NEW th \in Nat \ {0}, NEW n \in Nat
  PROVE  /\ Doubled(th, n) \in Nat /\ th <= Doubled(th, n)
         /\ n <= th => Doubled(th, n) = th
         /\ n > th => n <= Doubled(th, n) /\ Doubled(th, n) < 2 * n
<1> DEFINE T == {k \in Nat : n <= th * Factor[k]}
           First(k) == n <= th * Factor[k] /\ \A j \in 0 .. k - 1 : th * Factor[j] < n
           k0 == CHOOSE k \in 0 .. n : First(k)
<1>1. n \in T
  <2>1. Factor[n] \in Nat /\ n < Factor[n]
    BY FactorDef, FactorGrows
  <2>2. \A x, y \in Nat : x > 0 => y <= x * y
    OBVIOUS
  <2>3. Factor[n] <= th * Factor[n] /\ th * Factor[n] \in Nat
    BY <2>1, <2>2
  <2> QED BY <2>1, <2>3
<1>2. PICK k \in T : \A j \in T : k <= j
  <2>1. T \in SUBSET Nat /\ T # {}
    BY <1>1
  <2> HIDE DEF T
  <2> QED BY <2>1, LeastNumber
<1>3. k \in 0 .. n /\ First(k)
  <2>1. k \in 0 .. n /\ n <= th * Factor[k]
    BY <1>1, <1>2
  <2>2. ASSUME NEW j \in 0 .. k - 1 PROVE th * Factor[j] < n
    <3>1. j \in Nat /\ j \notin T /\ Factor[j] \in Nat
      BY <1>2, FactorDef
    <3>2. th * Factor[j] \in Nat
      BY <3>1
    <3> QED BY <3>1, <3>2
  <2> QED BY <2>1, <2>2
<1> HIDE DEF First
<1>4. k0 \in 0 .. n /\ First(k0)
  BY <1>3
<1>5. Doubled(th, n) = th * Factor[k0]
  BY DEF Doubled, First
<1> HIDE DEF k0, T
<1>6. /\ n <= th * Factor[k0]
      /\ k0 # 0 => th * Factor[k0 - 1] < n
  BY <1>4 DEF First
<1>7. CASE k0 = 0
  BY <1>5, <1>6, <1>7, FactorDef
<1>8. CASE k0 # 0
  <2>1. k0 - 1 \in Nat /\ Factor[k0 - 1] \in Nat /\ Factor[k0] = 2 * Factor[k0 - 1]
    BY <1>4, <1>8, FactorDef
  <2>2. k0 - 1 < Factor[k0 - 1]
    BY <2>1, FactorGrows
  <2>3. th * (2 * Factor[k0 - 1]) = 2 * (th * Factor[k0 - 1])
    BY <2>1
  <2>4. \A x, y \in Nat : x > 0 => y <= y * x
    OBVIOUS
  <2>5. th <= th * Factor[k0 - 1] /\ th * Factor[k0 - 1] \in Nat
    BY <1>4, <1>8, <2>1, <2>2, <2>4
  <2> QED BY <1>5, <1>6, <1>8, <2>1, <2>3, <2>5
<1> QED BY <1>7, <1>8

-----------------------------------------------------------------------------
(* The warning.                                                            *)

\* The inductive invariant: the threshold never falls below MQ_OVERLOAD.
IInv == OverloadDoubles /\ MqOverload <= threshold

LEMMA Modulo ==
  ASSUME NEW c \in Nat \ {0}, NEW a \in 0 .. 2 * c - 1
  PROVE  a % c = IF a < c THEN a ELSE a - c
BY SMT

\* expand_queue copies in the order of the queue.
LEMMA ExpandedArray ==
  ASSUME NEW c \in Nat \ {0}, NEW h \in 0 .. c - 1, NEW b \in [0 .. c - 1 -> MaybeMessage]
  PROVE  /\ Expanded(b, c, h) \in [0 .. 2 * c - 1 -> MaybeMessage]
         /\ \A i \in 0 .. c - 1 :
              Expanded(b, c, h)[i] = b[IF h + i < c THEN h + i ELSE h + i - c]
<1>1. ASSUME NEW i \in 0 .. c - 1
      PROVE  (h + i) % c = (IF h + i < c THEN h + i ELSE h + i - c) /\ (h + i) % c \in 0 .. c - 1
  <2> DEFINE a == h + i
  <2>1. a \in 0 .. 2 * c - 1
    OBVIOUS
  <2> HIDE DEF a
  <2>2. a % c = IF a < c THEN a ELSE a - c
    BY <2>1, Modulo
  <2>3. a % c \in 0 .. c - 1
    BY <2>1, <2>2
  <2> QED BY <2>2, <2>3 DEF a
<1>2. ASSUME NEW i \in 0 .. 2 * c - 1, i < c
      PROVE  b[(h + i) % c] \in MaybeMessage
  BY <1>1, <1>2
<1>3. Expanded(b, c, h) \in [0 .. 2 * c - 1 -> MaybeMessage]
  BY <1>2 DEF Expanded, MaybeMessage
<1>4. ASSUME NEW i \in 0 .. c - 1
      PROVE  Expanded(b, c, h)[i] = b[(h + i) % c]
  BY DEF Expanded
<1> QED BY <1>1, <1>3, <1>4

LEMMA StepType ==
  ASSUME NEW c \in Nat \ {0}, NEW i \in 0 .. c - 1
  PROVE  Step(i, c) \in 0 .. c - 1
BY DEF Step

LEMMA LengthType ==
  ASSUME NEW c \in Nat \ {0}, NEW h \in 0 .. c - 1, NEW t \in 0 .. c - 1
  PROVE  Length(h, t, c) \in 0 .. c - 1
BY DEF Length

\* The overload warning is raised at most once per doubling of the length, in every
\* order of pushes, pops and calls of skynet_mq_overload, and the ring buffer's
\* indices stay inside its array.
THEOREM WarningDoubles == Spec => []OverloadDoubles
<1> USE QueueAssumption
<1>1. Init => IInv
  BY DEF Init, IInv, OverloadDoubles, TypeOK, MaybeMessage
<1>2. IInv /\ [Next]_vars => IInv'
  <2> SUFFICES ASSUME IInv, [Next]_vars PROVE IInv'
    OBVIOUS
  <2> USE DEF IInv, OverloadDoubles
  <2>1. ASSUME NEW m \in Messages, PushPlain(m) PROVE IInv'
    BY <2>1, StepType DEF PushPlain, TypeOK, MaybeMessage
  <2>2. ASSUME NEW m \in Messages, PushExpand(m) PROVE IInv'
    <3> DEFINE b == [buf EXCEPT ![tail] = m]
    <3>1. b \in [0 .. cap - 1 -> MaybeMessage]
      BY DEF TypeOK, MaybeMessage
    <3>2. buf' = Expanded(b, cap, head) /\ cap \in Nat \ {0} /\ head \in 0 .. cap - 1
      BY <2>2 DEF PushExpand, TypeOK
    <3> HIDE DEF b
    <3>3. buf' \in [0 .. 2 * cap - 1 -> MaybeMessage]
      BY <3>1, <3>2, ExpandedArray
    <3>4. cap' \in Nat \ {0} /\ head' \in 0 .. cap' - 1 /\ tail' \in 0 .. cap' - 1
      BY <2>2, <3>2 DEF PushExpand
    <3>5. buf' \in [0 .. cap' - 1 -> MaybeMessage]
      BY <2>2, <3>3 DEF PushExpand
    <3>6. UNCHANGED <<overload, threshold, out, asked>>
      BY <2>2 DEF PushExpand
    <3> QED BY <3>4, <3>5, <3>6 DEF TypeOK
  <2>3. CASE PopMessage
    <3> DEFINE h == Step(head, cap)
               n == Length(h, tail, cap)
    <3>1. h \in 0 .. cap - 1
      BY StepType DEF TypeOK
    <3>2. n \in Nat
      <4> HIDE DEF h
      <4>1. n \in 0 .. cap - 1
        BY <3>1, LengthType DEF TypeOK
      <4> HIDE DEF n
      <4> QED BY <4>1 DEF TypeOK
    <3>3. /\ asked /\ out' = buf[head] /\ head' = h /\ asked' = FALSE
          /\ overload' = IF n > threshold THEN n ELSE overload
          /\ threshold' = Doubled(threshold, n)
          /\ UNCHANGED <<buf, cap, tail>>
      BY <2>3 DEF PopMessage
    <3> HIDE DEF h, n
    <3>4. threshold \in Nat \ {0} /\ overload = 0
      BY <3>3 DEF TypeOK
    <3>5. /\ threshold' \in Nat /\ threshold <= threshold'
          /\ n > threshold => n <= threshold' /\ threshold' < 2 * n
      BY <3>2, <3>3, <3>4, DoubledIsFirst
    <3>6. TypeOK'
      BY <3>1, <3>2, <3>3, <3>5 DEF TypeOK
    <3> QED BY <3>2, <3>3, <3>4, <3>5, <3>6
  <2>4. CASE PopEmpty
    BY <2>4 DEF PopEmpty, TypeOK, MaybeMessage
  <2>5. CASE TakeOverload
    BY <2>5 DEF TakeOverload, TypeOK
  <2>6. CASE UNCHANGED vars
    BY <2>6 DEF vars, TypeOK
  <2> QED BY <2>1, <2>2, <2>3, <2>4, <2>5, <2>6 DEF Next
<1>3. IInv => OverloadDoubles
  BY DEF IInv
<1> QED BY <1>1, <1>2, <1>3, PTL DEF Spec

-----------------------------------------------------------------------------
(* The refinement.                                                         *)

\* The cell of the i-th message.
Cell(h, i, c) == IF h + i - 1 < c THEN h + i - 1 ELSE h + i - 1 - c

\* The messages of array b of size c from head h to tail t.
ItemsOf(b, c, h, t) == [i \in 1 .. Length(h, t, c) |-> b[Cell(h, i, c)]]

\* Array b of size c with head h and tail t.
Ring(b, c, h, t) ==
  /\ c \in Nat \ {0} /\ b \in [0 .. c - 1 -> MaybeMessage]
  /\ h \in 0 .. c - 1 /\ t \in 0 .. c - 1

LEMMA ItemsSeq ==
  ASSUME NEW b, NEW c, NEW h, NEW t, Ring(b, c, h, t)
  PROVE  /\ ItemsOf(b, c, h, t) \in Seq(MaybeMessage)
         /\ Len(ItemsOf(b, c, h, t)) = Length(h, t, c)
         /\ Length(h, t, c) \in 0 .. c - 1 /\ Length(h, t, c) \in Nat
         /\ \A i \in 1 .. Length(h, t, c) :
              ItemsOf(b, c, h, t)[i] = b[Cell(h, i, c)] /\ Cell(h, i, c) \in 0 .. c - 1
<1> DEFINE n == Length(h, t, c)
           q == ItemsOf(b, c, h, t)
<1>1. n \in 0 .. c - 1
  BY LengthType DEF Ring
<1> HIDE DEF n
<1>2. n \in Nat /\ c \in Nat
  BY <1>1 DEF Ring
<1>3. \A i \in 1 .. n : Cell(h, i, c) \in 0 .. c - 1
  BY <1>1, <1>2 DEF Ring, Cell
<1>4. q = [i \in 1 .. n |-> b[Cell(h, i, c)]]
  BY DEF ItemsOf, n
<1> HIDE DEF q
<1>5. \A i \in 1 .. n : b[Cell(h, i, c)] \in MaybeMessage
  BY <1>3 DEF Ring
<1>6. q \in [1 .. n -> MaybeMessage]
  BY <1>4, <1>5
<1>7. q \in Seq(MaybeMessage) /\ DOMAIN q = 1 .. n
  BY <1>2, <1>6, SeqDef
<1>8. Len(q) = n
  BY <1>2, <1>7, LenProperties
<1>9. \A i \in 1 .. n : q[i] = b[Cell(h, i, c)]
  BY <1>4
<1> QED BY <1>1, <1>2, <1>3, <1>7, <1>8, <1>9 DEF n, q

\* d is array b of size c with m in cell t.
Written(b, c, t, m, d) ==
  /\ d \in [0 .. c - 1 -> MaybeMessage]
  /\ \A i \in 0 .. c - 1 : d[i] = IF i = t THEN m ELSE b[i]

\* A push without growth appends.
LEMMA PlainAppends ==
  ASSUME NEW b, NEW c, NEW h, NEW t, Ring(b, c, h, t), NEW m \in Messages, Step(t, c) # h,
         NEW d, Written(b, c, t, m, d)
  PROVE  ItemsOf(d, c, h, Step(t, c)) = Append(ItemsOf(b, c, h, t), m)
<1> DEFINE n == Length(h, t, c)
           u == Step(t, c)
           q == ItemsOf(b, c, h, t)
           a == Append(q, m)
           r == ItemsOf(d, c, h, u)
<1>1. c \in Nat \ {0} /\ h \in 0 .. c - 1 /\ t \in 0 .. c - 1
  BY DEF Ring
<1>2. Ring(d, c, h, u)
  BY <1>1, StepType DEF Ring, Written
<1>3. Length(h, u, c) = n + 1
  BY <1>1 DEF Length, Step
<1>4. Cell(h, n + 1, c) = t /\ \A i \in 1 .. n : Cell(h, i, c) # t
  BY <1>1 DEF Cell, Length
<1>5. /\ q \in Seq(MaybeMessage) /\ Len(q) = n /\ n \in Nat
      /\ \A i \in 1 .. n : q[i] = b[Cell(h, i, c)] /\ Cell(h, i, c) \in 0 .. c - 1
  BY ItemsSeq
<1>6. \A i \in 0 .. c - 1 : d[i] = IF i = t THEN m ELSE b[i]
  BY DEF Written
<1> HIDE DEF n, u, q
<1>7. /\ r \in Seq(MaybeMessage) /\ Len(r) = n + 1
      /\ \A i \in 1 .. n + 1 : r[i] = d[Cell(h, i, c)]
  BY <1>2, <1>3, ItemsSeq
<1>8. /\ a \in Seq(MaybeMessage) /\ Len(a) = n + 1
      /\ \A i \in 1 .. n : a[i] = q[i]
      /\ a[n + 1] = m
  BY <1>5, AppendProperties DEF MaybeMessage
<1> HIDE DEF a, r
<1>9. ASSUME NEW i \in 1 .. n + 1 PROVE r[i] = a[i]
  <2>1. CASE i \in 1 .. n
    BY <1>4, <1>5, <1>6, <1>7, <1>8, <2>1
  <2>2. CASE i = n + 1
    BY <1>1, <1>4, <1>6, <1>7, <1>8, <2>2
  <2> QED BY <1>5, <2>1, <2>2
<1>10. r = a
  BY <1>7, <1>8, <1>9, SeqEqual
<1> QED BY <1>10 DEF r, a, q, u

\* A push that fills the array appends as well, although every message moves.
LEMMA ExpandAppends ==
  ASSUME NEW b, NEW c, NEW h, NEW t, Ring(b, c, h, t), NEW m \in Messages, Step(t, c) = h,
         NEW d, Written(b, c, t, m, d)
  PROVE  ItemsOf(Expanded(d, c, h), 2 * c, 0, c) = Append(ItemsOf(b, c, h, t), m)
<1> DEFINE n == Length(h, t, c)
           e == Expanded(d, c, h)
           q == ItemsOf(b, c, h, t)
           a == Append(q, m)
           r == ItemsOf(e, 2 * c, 0, c)
<1>1. c \in Nat \ {0} /\ h \in 0 .. c - 1 /\ t \in 0 .. c - 1
  BY DEF Ring
<1>2. d \in [0 .. c - 1 -> MaybeMessage]
  BY DEF Written
<1>3. \A i \in 0 .. c - 1 : d[i] = IF i = t THEN m ELSE b[i]
  BY DEF Written
<1>4. n = c - 1
  BY <1>1 DEF Length, Step
<1>5. Cell(h, n + 1, c) = t /\ \A i \in 1 .. n : Cell(h, i, c) # t
  BY <1>1 DEF Cell, Length
<1>6. /\ q \in Seq(MaybeMessage) /\ Len(q) = n /\ n \in Nat
      /\ \A i \in 1 .. n : q[i] = b[Cell(h, i, c)] /\ Cell(h, i, c) \in 0 .. c - 1
  BY ItemsSeq
<1> HIDE DEF n, q
<1>7. /\ e \in [0 .. 2 * c - 1 -> MaybeMessage]
      /\ \A i \in 0 .. c - 1 : e[i] = d[IF h + i < c THEN h + i ELSE h + i - c]
  BY <1>1, <1>2, ExpandedArray
<1> HIDE DEF e
<1>8. Ring(e, 2 * c, 0, c)
  BY <1>1, <1>7 DEF Ring
<1>9. Length(0, c, 2 * c) = n + 1
  BY <1>1, <1>4 DEF Length
<1>10. /\ r \in Seq(MaybeMessage) /\ Len(r) = n + 1
       /\ \A i \in 1 .. n + 1 : r[i] = e[Cell(0, i, 2 * c)]
  BY <1>8, <1>9, ItemsSeq
<1>11. \A i \in 1 .. n + 1 : e[Cell(0, i, 2 * c)] = d[Cell(h, i, c)]
  <2> SUFFICES ASSUME NEW i \in 1 .. n + 1 PROVE e[Cell(0, i, 2 * c)] = d[Cell(h, i, c)]
    OBVIOUS
  <2>1. Cell(0, i, 2 * c) = i - 1 /\ i - 1 \in 0 .. c - 1
    BY <1>1, <1>4 DEF Cell
  <2>2. e[i - 1] = d[IF h + (i - 1) < c THEN h + (i - 1) ELSE h + (i - 1) - c]
    BY <1>7, <2>1
  <2>3. Cell(h, i, c) = IF h + (i - 1) < c THEN h + (i - 1) ELSE h + (i - 1) - c
    BY <1>1, <1>6 DEF Cell
  <2> QED BY <2>1, <2>2, <2>3
<1>12. /\ a \in Seq(MaybeMessage) /\ Len(a) = n + 1
       /\ \A i \in 1 .. n : a[i] = q[i]
       /\ a[n + 1] = m
  BY <1>6, AppendProperties DEF MaybeMessage
<1> HIDE DEF a, r
<1>13. ASSUME NEW i \in 1 .. n + 1 PROVE r[i] = a[i]
  <2>1. CASE i \in 1 .. n
    BY <1>3, <1>5, <1>6, <1>10, <1>11, <1>12, <2>1
  <2>2. CASE i = n + 1
    BY <1>1, <1>3, <1>5, <1>10, <1>11, <1>12, <2>2
  <2> QED BY <1>6, <2>1, <2>2
<1>14. r = a
  BY <1>10, <1>12, <1>13, SeqEqual
<1> QED BY <1>14 DEF r, a, q, e

\* A pop takes the first message.
LEMMA PopTakesFirst ==
  ASSUME NEW b, NEW c, NEW h, NEW t, Ring(b, c, h, t), h # t
  PROVE  /\ ItemsOf(b, c, h, t) # <<>>
         /\ b[h] = Head(ItemsOf(b, c, h, t))
         /\ ItemsOf(b, c, Step(h, c), t) = Tail(ItemsOf(b, c, h, t))
<1> DEFINE n == Length(h, t, c)
           g == Step(h, c)
           q == ItemsOf(b, c, h, t)
           r == ItemsOf(b, c, g, t)
<1>1. c \in Nat \ {0} /\ h \in 0 .. c - 1 /\ t \in 0 .. c - 1
  BY DEF Ring
<1>2. Ring(b, c, g, t)
  BY <1>1, StepType DEF Ring
<1>3. n > 0 /\ Length(g, t, c) = n - 1
  BY <1>1 DEF Length, Step
<1>4. /\ q \in Seq(MaybeMessage) /\ Len(q) = n /\ n \in Nat /\ n \in 0 .. c - 1
      /\ \A i \in 1 .. n : q[i] = b[Cell(h, i, c)]
  BY ItemsSeq
<1>5. \A i \in 1 .. n - 1 : Cell(g, i, c) = Cell(h, i + 1, c)
  BY <1>1, <1>4 DEF Cell, Step
<1>6. Cell(h, 1, c) = h
  BY <1>1 DEF Cell
<1> HIDE DEF n, g, q
<1>7. /\ r \in Seq(MaybeMessage) /\ Len(r) = n - 1
      /\ \A i \in 1 .. n - 1 : r[i] = b[Cell(g, i, c)]
  BY <1>2, <1>3, ItemsSeq
<1> HIDE DEF r
<1>8. q # <<>> /\ Head(q) = q[1]
  BY <1>3, <1>4
<1>9. /\ Tail(q) \in Seq(MaybeMessage) /\ Len(Tail(q)) = n - 1
      /\ \A i \in 1 .. n - 1 : Tail(q)[i] = q[i + 1]
  BY <1>4, <1>8, HeadTailProperties
<1>10. ASSUME NEW i \in 1 .. n - 1 PROVE r[i] = Tail(q)[i]
  BY <1>4, <1>5, <1>7, <1>9
<1>11. r = Tail(q)
  BY <1>7, <1>9, <1>10, SeqEqual
<1> QED BY <1>3, <1>4, <1>6, <1>8, <1>11 DEF q, r, g

LEMMA ItemsAreRing ==
  TypeOK => Ring(buf, cap, head, tail) /\ Items = ItemsOf(buf, cap, head, tail)
BY DEF TypeOK, Ring, Items, ItemsOf, Cell

\* The ring buffer of skynet_mq.c is a FIFO queue, for every initial size: growth and
\* wrap-around lose, duplicate and reorder nothing, and a pop says "empty" only when
\* the queue is empty.
THEOREM RingIsFifo == Spec => ImplementsFifo
<1>1. Init => Abstract!Init
  <2> SUFFICES ASSUME Init PROVE Abstract!Init
    OBVIOUS
  <2>1. Length(head, tail, cap) = 0
    BY DEF Init, Length
  <2>2. Items = <<>>
    BY <2>1 DEF Items
  <2> QED BY <2>2 DEF Init, Abstract!Init
<1>2. OverloadDoubles /\ [Next]_vars => [Abstract!Next]_(Abstract!vars)
  <2> SUFFICES ASSUME TypeOK, [Next]_vars PROVE [Abstract!Next]_(Abstract!vars)
    BY DEF OverloadDoubles
  <2>1. Ring(buf, cap, head, tail) /\ Items = ItemsOf(buf, cap, head, tail)
    BY ItemsAreRing
  <2>2. Items' = ItemsOf(buf', cap', head', tail')
    BY DEF Items, ItemsOf, Cell
  <2>3. ASSUME NEW m \in Messages, PushPlain(m) PROVE Abstract!Push(m)
    <3>1. ItemsOf(buf', cap, head, Step(tail, cap)) = Append(ItemsOf(buf, cap, head, tail), m)
      <4>1. Step(tail, cap) # head /\ Written(buf, cap, tail, m, buf')
        BY <2>3 DEF PushPlain, Written, TypeOK, MaybeMessage
      <4> QED BY <2>1, <4>1, PlainAppends
    <3>2. Items' = Append(Items, m)
      BY <2>1, <2>2, <2>3, <3>1 DEF PushPlain
    <3> QED BY <2>3, <3>2 DEF PushPlain, Abstract!Push
  <2>4. ASSUME NEW m \in Messages, PushExpand(m) PROVE Abstract!Push(m)
    <3>1. PICK d : d = [buf EXCEPT ![tail] = m]
      OBVIOUS
    <3>2. /\ Step(tail, cap) = head /\ buf' = Expanded(d, cap, head)
          /\ cap' = 2 * cap /\ head' = 0 /\ tail' = cap
      BY <2>4, <3>1 DEF PushExpand
    <3>3. ItemsOf(Expanded(d, cap, head), 2 * cap, 0, cap)
            = Append(ItemsOf(buf, cap, head, tail), m)
      <4>1. Written(buf, cap, tail, m, d)
        BY <3>1 DEF Written, TypeOK, MaybeMessage
      <4> QED BY <2>1, <3>2, <4>1, ExpandAppends
    <3>4. Items' = Append(Items, m)
      BY <2>1, <2>2, <3>2, <3>3
    <3> QED BY <2>4, <3>4 DEF PushExpand, Abstract!Push
  <2>5. CASE PopMessage
    <3>1. /\ head # tail /\ out' = buf[head] /\ head' = Step(head, cap)
          /\ UNCHANGED <<buf, cap, tail>>
      BY <2>5 DEF PopMessage
    <3>2. Items # <<>> /\ out' = Head(Items) /\ Items' = Tail(Items)
      BY <2>1, <2>2, <3>1, PopTakesFirst
    <3> QED BY <3>2 DEF Abstract!Next, Abstract!Pop
  <2>6. CASE PopEmpty
    <3>1. head = tail /\ out' = None /\ UNCHANGED <<buf, cap, head, tail>>
      BY <2>6 DEF PopEmpty
    <3>2. Length(head, tail, cap) = 0
      BY <3>1 DEF Length, TypeOK
    <3>3. Items = <<>>
      BY <3>2 DEF Items
    <3>4. Items' = Items
      BY <2>1, <2>2, <3>1
    <3> QED BY <3>1, <3>3, <3>4 DEF Abstract!Next, Abstract!Pop
  <2>7. CASE TakeOverload \/ UNCHANGED vars
    <3>1. UNCHANGED <<buf, cap, head, tail, out>>
      BY <2>7 DEF TakeOverload, vars
    <3>2. Items' = Items
      BY <2>1, <2>2, <3>1
    <3> QED BY <3>1, <3>2 DEF Abstract!vars
  <2> QED BY <2>3, <2>4, <2>5, <2>6, <2>7 DEF Next, Abstract!Next
<1> QED BY <1>1, <1>2, WarningDoubles, PTL DEF Spec, ImplementsFifo, Abstract!Spec
=============================================================================
