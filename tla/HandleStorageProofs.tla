------------------------ MODULE HandleStorageProofs ------------------------
(***************************************************************************)
(* Proofs about HandleStorage, for any number of contexts, launching       *)
(* threads and names, and for every size of the table and of the handles;  *)
(* and about RwLock, which makes the critical sections of the table single *)
(* steps, for every finite set of threads.                                 *)
(***************************************************************************)
EXTENDS HandleStorage, RwLock, FiniteSetTheorems, SequenceTheorems, WellFoundedInduction, TLAPS

-----------------------------------------------------------------------------
(* Induction over the natural numbers, for a set of numbers.               *)

LEMMA LeastNumber ==
  ASSUME NEW T \in SUBSET Nat, T # {}
  PROVE  \E n \in T : \A m \in T : n <= m
<1> DEFINE R == OpToRel(<, Nat)
<1>1. IsWellFoundedOn(R, Nat)
  BY NatLessThanWellFounded
<1>2. \A x, y \in Nat : x < y => <<x, y>> \in R
  BY DEF OpToRel
<1>3. T \subseteq Nat
  OBVIOUS
<1> HIDE DEF R
<1>4. PICK n \in T : \A m \in T : <<m, n>> \notin R
  <2>1. \E n \in T : \A m \in T : ~(<<m, n>> \in R)
    BY <1>1, <1>3, WFMin
  <2> QED BY <2>1
<1>5. \A m \in T : ~(m < n)
  BY <1>2, <1>3, <1>4
<1> QED BY <1>3, <1>5

LEMMA SetInduction ==
  ASSUME NEW S \in SUBSET Nat, 0 \in S, \A n \in S : n + 1 \in S
  PROVE  S = Nat
<1> SUFFICES ASSUME Nat \ S # {} PROVE FALSE
  OBVIOUS
<1>1. PICK n \in Nat \ S : \A m \in Nat \ S : n <= m
  <2>1. Nat \ S \in SUBSET Nat
    OBVIOUS
  <2> QED BY <2>1, LeastNumber
<1>2. n - 1 \in Nat /\ n - 1 \in S
  BY <1>1
<1>3. (n - 1) + 1 \in S
  BY <1>2
<1> QED BY <1>1, <1>2, <1>3

-----------------------------------------------------------------------------
(* Remainders: the code takes them with masks.                             *)

LEMMA RemainderType ==
  ASSUME NEW a \in Int, NEW n \in Nat \ {0} PROVE a % n \in 0 .. n - 1
BY SMT

LEMMA Quotient ==
  ASSUME NEW a \in Int, NEW n \in Nat \ {0} PROVE \E q \in Int : a = n * q + (a % n)
<1>1. (a \div n) \in Int
  BY SMT
<1>2. a = n * (a \div n) + (a % n)
  BY SMT
<1> QED BY <1>1, <1>2

LEMMA Remainder ==
  ASSUME NEW n \in Nat \ {0}, NEW q \in Int, NEW r \in 0 .. n - 1, NEW a \in Int,
         a = n * q + r
  PROVE  a % n = r
<1>1. PICK p \in Int : a = n * p + (a % n)
  BY Quotient
<1>2. PICK s \in 0 .. n - 1 : s = a % n
  BY RemainderType
<1>3. n * (q - p) = s - r
  BY <1>1, <1>2, SMT
<1>4. CASE q - p >= 1
  BY <1>3, <1>4, SMT
<1>5. CASE q - p <= -1
  BY <1>3, <1>5, SMT
<1>6. CASE q - p = 0
  BY <1>2, <1>3, <1>6, SMT
<1> QED BY <1>4, <1>5, <1>6

\* Where a handle goes in a table of twice the size.
LEMMA Doubling ==
  ASSUME NEW n \in Nat \ {0}, NEW h \in Nat
  PROVE  (h % (2 * n)) % n = h % n /\ h % n <= h % (2 * n)
<1>1. PICK N \in Nat \ {0} : N = 2 * n
  OBVIOUS
<1>2. PICK q \in Int : h = N * q + (h % N)
  <2>1. h \in Int
    OBVIOUS
  <2> QED BY <2>1, Quotient
<1>3. PICK r \in 0 .. N - 1 : r = h % N
  BY RemainderType
<1>4. PICK p \in Int : r = n * p + (r % n)
  <2>1. r \in Int
    OBVIOUS
  <2> QED BY <2>1, Quotient
<1>5. PICK s \in 0 .. n - 1 : s = r % n
  BY RemainderType
<1>6. N * q = n * (2 * q)
  BY <1>1
<1>7. h = n * (2 * q) + n * p + s
  BY <1>2, <1>3, <1>4, <1>5, <1>6
<1>8. PICK z \in Int : z = 2 * q + p
  OBVIOUS
<1>9. h = n * z + s
  BY <1>7, <1>8
<1>10. h % n = s
  BY <1>9, Remainder
<1>11. s <= r
  <2>1. CASE p >= 0
    <3>1. n * p >= 0
      BY <2>1
    <3> QED BY <1>4, <1>5, <3>1
  <2>2. CASE p < 0
    <3>1. n * p <= -n
      BY <2>2
    <3> QED BY <1>4, <1>5, <3>1
  <2> QED BY <2>1, <2>2
<1> QED BY <1>1, <1>3, <1>5, <1>10, <1>11
-----------------------------------------------------------------------------
(* The scan of skynet_handle_register.                                     *)

Divides(n) == n \in Nat \ {0} /\ \E m \in 1 .. HandleMask + 1 : HandleMask + 1 = n * m

LEMMA DivisorBound ==
  ASSUME NEW n, Divides(n)
  PROVE  n \in Nat \ {0} /\ n <= HandleMask + 1
<1>1. PICK m \in 1 .. HandleMask + 1 : HandleMask + 1 = n * m
  BY DEF Divides
<1>2. n \in Nat \ {0} /\ n * m >= n
  BY <1>1, TableAssumption DEF Divides
<1> QED BY <1>1, <1>2

\* The handles that the scan of a table of n slots tries.
LEMMA Tried ==
  ASSUME NEW n, Divides(n), index \in 1 .. HandleMask + 1, NEW k \in 0 .. n - 1
  PROVE  /\ Candidate(k) \in Handles
         /\ index + k <= HandleMask => Candidate(k) = index + k
         /\ HandleMask < index + k => \/ Candidate(k) = index + k - HandleMask
                                      \/ Candidate(k) = 1 /\ index + k = 2 * HandleMask + 1
<1> USE TableAssumption
<1>1. n \in Nat \ {0} /\ n <= HandleMask + 1
  BY DivisorBound
<1>2. PICK a \in Int : a = index + k - 1
  OBVIOUS
<1>3. 0 <= a /\ a <= 2 * HandleMask
  BY <1>1, <1>2
<1>4. a < HandleMask => a % HandleMask = a
  BY <1>3
<1>5. HandleMask <= a /\ a < 2 * HandleMask => a % HandleMask = a - HandleMask
  BY <1>3
<1>6. a = 2 * HandleMask => a % HandleMask = 0
  BY <1>3
<1>7. Candidate(k) = (a % HandleMask) + 1
  BY <1>2 DEF Candidate
<1> QED BY <1>1, <1>2, <1>3, <1>4, <1>5, <1>6, <1>7 DEF Handles

\* Without a wrap the scan tries every slot.
LEMMA ScansAll ==
  ASSUME NEW n, Divides(n), index \in 1 .. HandleMask + 1, index + n <= HandleMask + 1,
         NEW r \in 0 .. n - 1
  PROVE  \E k \in 0 .. n - 1 : Candidate(k) % n = r
<1> USE TableAssumption
<1>1. n \in Nat \ {0} /\ n <= HandleMask + 1
  BY DivisorBound
<1>2. PICK k \in 0 .. n - 1 : k = (r - index) % n
  <2>1. r - index \in Int
    OBVIOUS
  <2> QED BY <1>1, <2>1, RemainderType
<1>3. PICK q \in Int : r - index = n * q + k
  <2>1. r - index \in Int
    OBVIOUS
  <2> QED BY <1>1, <1>2, <2>1, Quotient
<1>4. PICK p \in Int : p = -q
  OBVIOUS
<1>5. n * p = -(n * q)
  BY <1>1, <1>4
<1>6. index + k \in Int /\ index + k = n * p + r
  BY <1>1, <1>3, <1>5
<1>7. (index + k) % n = r
  BY <1>1, <1>6, Remainder
<1>8. Candidate(k) = index + k
  BY <1>1, Tried
<1> QED BY <1>7, <1>8

\* The scan tries every slot but slot 0, which it may miss when it wraps.
LEMMA ScansRest ==
  ASSUME NEW n, Divides(n), index \in 1 .. HandleMask + 1, NEW r \in 1 .. n - 1
  PROVE  \E k \in 0 .. n - 1 : Candidate(k) % n = r
<1> USE TableAssumption
<1>1. n \in Nat \ {0} /\ n <= HandleMask + 1
  BY DivisorBound
<1>2. CASE index + n <= HandleMask + 1
  BY <1>1, <1>2, ScansAll
<1>3. CASE HandleMask + 1 < index + n /\ index <= HandleMask + 1 - n + r
  <2>1. PICK m \in 1 .. HandleMask + 1 : HandleMask + 1 = n * m
    BY DEF Divides
  <2>2. PICK p \in Int : p = m - 1
    OBVIOUS
  <2>3. n * p = n * m - n
    BY <1>1, <2>2
  <2>4. PICK a \in Int : a = HandleMask + 1 - n + r
    BY <1>1
  <2>5. a = n * p + r
    BY <1>1, <2>1, <2>3, <2>4
  <2>6. a % n = r
    BY <1>1, <2>5, Remainder
  <2>7. PICK k \in Int : k = a - index
    OBVIOUS
  <2>8. k \in 0 .. n - 1 /\ index + k = a /\ a <= HandleMask
    BY <1>1, <1>3, <2>4, <2>7
  <2>9. Candidate(k) = a
    BY <2>8, Tried
  <2> QED BY <2>6, <2>8, <2>9
<1>4. CASE HandleMask + 1 - n + r < index
  <2>1. PICK k \in Int : k = HandleMask + r - index
    OBVIOUS
  <2>2. k \in 0 .. n - 1 /\ index + k = HandleMask + r /\ r <= HandleMask
    BY <1>1, <1>4, <2>1
  <2>3. Candidate(k) = r
    BY <2>2, Tried
  <2>4. r % n = r
    BY <1>1
  <2> QED BY <2>2, <2>3, <2>4
<1> QED BY <1>1, <1>2, <1>3, <1>4

-----------------------------------------------------------------------------
(* The parts of the inductive invariant.                                   *)

\* The types of everything but the names; the table is an array whose size divides
\* HANDLE_MASK + 1.
Shape ==
  /\ Divides(Size)
  /\ slot \in [0 .. Size - 1 -> Contexts \cup {NULL}]
  /\ index \in 1 .. HandleMask + 1
  /\ handle \in [Contexts -> 0 .. HandleMask]
  /\ pending \in [Launchers -> [ctx : Contexts \cup {NULL}, handle : 0 .. HandleMask]]
  /\ abort \in [pc : {"idle", "scan", "retire", "done"}, i : Nat, hit : BOOLEAN,
                handle : 0 .. HandleMask]
  /\ old \subseteq Contexts /\ strayed \subseteq Contexts
  /\ failed \in {"no", "deref", "assert59", "assert64"}

\* A context is in one slot.
OnePlace == \A i, j \in DOMAIN slot : slot[i] # NULL /\ slot[i] = slot[j] => i = j

\* A context that has its handle is in the slot of that handle.
InPlace ==
  /\ \A i \in DOMAIN slot :
       slot[i] \notin Pending \cup strayed \cup {NULL} => handle[slot[i]] % Size = i
  /\ \A c \in Slotted \ Pending : handle[c] # 0

\* A context whose handle is not stored yet has handle 0 and is in the slot of the
\* handle it will get, unless the table doubled since.
Launching ==
  \A t \in Launchers :
    \/ pending[t] = NoPending
    \/ /\ pending[t].ctx \in Slotted /\ handle[pending[t].ctx] = 0
       /\ pending[t].handle # 0
       /\ pending[t].ctx \notin strayed => slot[pending[t].handle % Size] = pending[t].ctx

LaunchedOnce ==
  \A t, u \in Launchers : pending[t].ctx # NULL /\ pending[t].ctx = pending[u].ctx => t = u

\* In a table of one slot there is only the context registered last.
LastOnly ==
  Size = 1 => /\ \A c \in Slotted : handle[c] \in {0, index - 1}
              /\ \A t \in Launchers : pending[t] # NoPending => pending[t].handle = index - 1

\* A pass of skynet_handle_retireall that retired nothing so far has met none of
\* the contexts it is for, or is about to retire it.
PassSound ==
  /\ old \cup strayed \subseteq Slotted /\ \A c \in old : handle[c] # 0
  /\ abort.pc = "retire" => abort.handle # 0
  /\ abort.pc = "done" => old \subseteq strayed
  /\ abort.pc \in {"scan", "retire"} /\ ~abort.hit =>
       \A c \in old \ strayed :
         \/ abort.pc = "retire" /\ abort.handle = handle[c]
         \/ \A i \in DOMAIN slot : slot[i] = c => abort.i <= i

TableInv == Shape /\ OnePlace /\ InPlace /\ Launching /\ LaunchedOnce /\ LastOnly /\ PassSound

-----------------------------------------------------------------------------
(* The table.                                                              *)

LEMMA TableSize ==
  ASSUME NEW n \in Nat PROVE Cardinality(0 .. n - 1) = n
<1>1. 0 \in Int /\ n - 1 \in Int
  OBVIOUS
<1>2. Cardinality(0 .. n - 1) = IF 0 > n - 1 THEN 0 ELSE (n - 1) - 0 + 1
  BY <1>1, FS_Interval
<1> QED BY <1>2

LEMMA InitTable == Init => TableInv
<1> SUFFICES ASSUME Init PROVE TableInv
  OBVIOUS
<1> USE TableAssumption
<1>1. DOMAIN slot = 0 .. SlotSize - 1 /\ \A i \in DOMAIN slot : slot[i] = NULL
  BY DEF Init
<1>2. Size = SlotSize
  BY <1>1, TableSize DEF Size
<1>3. Slotted = {}
  BY <1>1 DEF Slotted
<1>4. \A t \in Launchers : pending[t] = NoPending
  BY DEF Init
<1>5. \A t \in Launchers : pending[t].ctx = NULL
  BY <1>4 DEF NoPending
<1>6. Shape
  <2>1. Divides(Size)
    BY <1>2 DEF Divides
  <2>2. pending \in [Launchers -> [ctx : Contexts \cup {NULL}, handle : 0 .. HandleMask]]
    BY DEF Init, NoPending
  <2>3. abort \in [pc : {"idle", "scan", "retire", "done"}, i : Nat, hit : BOOLEAN,
                   handle : 0 .. HandleMask]
    BY DEF Init, NoAbort
  <2>4. slot \in [0 .. Size - 1 -> Contexts \cup {NULL}]
    BY <1>2 DEF Init
  <2> QED BY <2>1, <2>2, <2>3, <2>4 DEF Init, Shape
<1>7. OnePlace /\ InPlace
  BY <1>1, <1>3 DEF OnePlace, InPlace
<1>8. Launching /\ LaunchedOnce /\ LastOnly
  BY <1>3, <1>4, <1>5 DEF Launching, LaunchedOnce, LastOnly
<1>9. PassSound
  BY <1>3 DEF PassSound, Init, NoAbort
<1> QED BY <1>6, <1>7, <1>8, <1>9 DEF TableInv

\* What the table tab of n slots must be for the scan to take a free slot of it, when
\* the contexts in st strayed.
Ready(tab, n, st) ==
  /\ Divides(n) /\ tab \in [0 .. n - 1 -> Contexts \cup {NULL}]
  /\ {tab[i] : i \in 0 .. n - 1} \ {NULL} = Slotted
  /\ strayed \subseteq st /\ st \subseteq Slotted
  /\ \A i, j \in 0 .. n - 1 : tab[i] # NULL /\ tab[i] = tab[j] => i = j
  /\ \A i \in 0 .. n - 1 :
       tab[i] \notin Pending \cup st \cup {NULL} => handle[tab[i]] % n = i
  /\ \A t \in Launchers : pending[t] # NoPending /\ pending[t].ctx \notin st =>
       tab[pending[t].handle % n] = pending[t].ctx
  /\ abort.pc \in {"scan", "retire"} /\ ~abort.hit =>
       \A c \in old \ st : \/ abort.pc = "retire" /\ abort.handle = handle[c]
                           \/ \A i \in 0 .. n - 1 : tab[i] = c => abort.i <= i

LEMMA ReadyNow == TableInv => Ready(slot, Size, strayed)
<1> SUFFICES ASSUME TableInv PROVE Ready(slot, Size, strayed)
  OBVIOUS
<1>1. DOMAIN slot = 0 .. Size - 1
  BY DEF TableInv, Shape
<1>2. {slot[i] : i \in 0 .. Size - 1} \ {NULL} = Slotted
  BY <1>1 DEF Slotted
<1>3. Divides(Size) /\ slot \in [0 .. Size - 1 -> Contexts \cup {NULL}] /\ strayed \subseteq Slotted
  BY DEF TableInv, Shape, PassSound
<1>4. \A i, j \in 0 .. Size - 1 : slot[i] # NULL /\ slot[i] = slot[j] => i = j
  BY <1>1 DEF TableInv, OnePlace
<1>5. \A i \in 0 .. Size - 1 :
        slot[i] \notin Pending \cup strayed \cup {NULL} => handle[slot[i]] % Size = i
  BY <1>1 DEF TableInv, InPlace
<1>6. \A t \in Launchers : pending[t] # NoPending /\ pending[t].ctx \notin strayed =>
        slot[pending[t].handle % Size] = pending[t].ctx
  BY DEF TableInv, Launching
<1>7. abort.pc \in {"scan", "retire"} /\ ~abort.hit =>
        \A c \in old \ strayed : \/ abort.pc = "retire" /\ abort.handle = handle[c]
                                 \/ \A i \in 0 .. Size - 1 : slot[i] = c => abort.i <= i
  BY <1>1 DEF TableInv, PassSound
<1> QED BY <1>2, <1>3, <1>4, <1>5, <1>6, <1>7 DEF Ready

-----------------------------------------------------------------------------
(* The table doubles.                                                      *)

LEMMA DoubleDivides ==
  ASSUME NEW n, Divides(n), 2 * n - 1 <= HandleMask
  PROVE  Divides(2 * n)
<1> USE TableAssumption
<1>1. n \in 1 .. HandleMask + 1
  BY DivisorBound
<1>2. PICK m \in 1 .. HandleMask + 1 : HandleMask + 1 = n * m
  BY DEF Divides
<1>3. m # 1
  BY <1>1, <1>2
<1>4. m % 2 = 0
  BY <1>1, <1>2, <1>3
<1>5. PICK k \in Int : m = 2 * k
  BY <1>4
<1>6. k \in 1 .. HandleMask + 1
  BY <1>2, <1>5
<1>7. n * m = (2 * n) * k
  BY <1>1, <1>5, <1>6
<1> QED BY <1>1, <1>2, <1>6, <1>7 DEF Divides

\* The array is full and no two contexts of it want the same slot.
CanDouble ==
  /\ 2 * Size - 1 <= HandleMask
  /\ \A i \in DOMAIN slot : slot[i] # NULL
  /\ \A i, j \in DOMAIN slot : Rehashed(i) = Rehashed(j) => i = j

\* Every context goes to the slot of its handle, and nothing else is there.
LEMMA ExpandedTable ==
  ASSUME TableInv, CanDouble
  PROVE  /\ Expanded \in [0 .. 2 * Size - 1 -> Contexts \cup {NULL}]
         /\ \A i \in DOMAIN slot : /\ Rehashed(i) \in 0 .. 2 * Size - 1
                                   /\ Expanded[Rehashed(i)] = slot[i]
         /\ \A j \in 0 .. 2 * Size - 1 :
              Expanded[j] # NULL => \E i \in DOMAIN slot : Rehashed(i) = j /\ Expanded[j] = slot[i]
<1>1. Size \in Nat \ {0} /\ 2 * Size \in Nat \ {0}
  BY DivisorBound DEF TableInv, Shape
<1>2. ASSUME NEW i \in DOMAIN slot
      PROVE  slot[i] \in Contexts /\ Rehashed(i) \in 0 .. 2 * Size - 1
  <2>1. slot[i] \in Contexts
    BY DEF TableInv, Shape, CanDouble
  <2>2. handle[slot[i]] \in Int
    BY <2>1 DEF TableInv, Shape
  <2>3. handle[slot[i]] % (2 * Size) \in 0 .. 2 * Size - 1
    BY <1>1, <2>2, RemainderType
  <2> QED BY <2>1, <2>3 DEF Rehashed
<1> DEFINE from(j) == CHOOSE i \in DOMAIN slot : Rehashed(i) = j
<1>3. ASSUME NEW j \in 0 .. 2 * Size - 1, \E i \in DOMAIN slot : Rehashed(i) = j
      PROVE  from(j) \in DOMAIN slot /\ Rehashed(from(j)) = j /\ Expanded[j] = slot[from(j)]
  <2>1. from(j) \in DOMAIN slot /\ Rehashed(from(j)) = j
    BY <1>3
  <2> QED BY <1>3, <2>1 DEF Expanded
<1>4. ASSUME NEW j \in 0 .. 2 * Size - 1, ~ \E i \in DOMAIN slot : Rehashed(i) = j
      PROVE  Expanded[j] = NULL
  BY <1>4 DEF Expanded
<1>5. DOMAIN Expanded = 0 .. 2 * Size - 1 /\ Expanded = [j \in 0 .. 2 * Size - 1 |-> Expanded[j]]
  BY DEF Expanded
<1> HIDE DEF from
<1>6. \A j \in 0 .. 2 * Size - 1 : Expanded[j] \in Contexts \cup {NULL}
  BY <1>2, <1>3, <1>4
<1>7. ASSUME NEW i \in DOMAIN slot PROVE Expanded[Rehashed(i)] = slot[i]
  <2>1. Rehashed(from(Rehashed(i))) = Rehashed(i) /\ from(Rehashed(i)) \in DOMAIN slot
    BY <1>2, <1>3
  <2>2. from(Rehashed(i)) = i
    BY <2>1 DEF CanDouble
  <2> QED BY <1>2, <1>3, <2>2
<1> QED BY <1>2, <1>3, <1>4, <1>5, <1>6, <1>7

LEMMA ReadyDoubled ==
  ASSUME TableInv, CanDouble
  PROVE  Ready(Expanded, 2 * Size, strayed \cup Pending)
<1> DEFINE N == 2 * Size
           st == strayed \cup Pending
<1>1. Size \in Nat \ {0} /\ N \in Nat \ {0} /\ DOMAIN slot = 0 .. Size - 1
  BY DivisorBound DEF TableInv, Shape
<1>2. Divides(N)
  BY DoubleDivides DEF TableInv, Shape, CanDouble
<1>3. PICK tab : tab = Expanded
  OBVIOUS
<1>4. /\ tab \in [0 .. N - 1 -> Contexts \cup {NULL}]
      /\ \A i \in DOMAIN slot : Rehashed(i) \in 0 .. N - 1 /\ tab[Rehashed(i)] = slot[i]
      /\ \A j \in 0 .. N - 1 :
           tab[j] # NULL => \E i \in DOMAIN slot : Rehashed(i) = j /\ tab[j] = slot[i]
  BY <1>3, ExpandedTable
<1>5. \A i \in DOMAIN slot : slot[i] # NULL
  BY DEF CanDouble
<1> HIDE DEF N
<1>6. {tab[i] : i \in 0 .. N - 1} \ {NULL} = Slotted
  BY <1>4, <1>5 DEF Slotted
<1>7. Pending \subseteq Slotted
  <2> SUFFICES ASSUME NEW t \in Launchers, pending[t].ctx # NULL PROVE pending[t].ctx \in Slotted
    BY DEF Pending
  <2>1. pending[t] # NoPending
    BY DEF NoPending
  <2> QED BY <2>1 DEF TableInv, Launching
<1>8. strayed \subseteq st /\ st \subseteq Slotted
  BY <1>7 DEF TableInv, PassSound
<1>9. ASSUME NEW i \in 0 .. N - 1, NEW j \in 0 .. N - 1, tab[i] # NULL, tab[i] = tab[j]
      PROVE  i = j
  <2>1. PICK a \in DOMAIN slot : Rehashed(a) = i /\ tab[i] = slot[a]
    BY <1>4, <1>9
  <2>2. PICK b \in DOMAIN slot : Rehashed(b) = j /\ tab[j] = slot[b]
    BY <1>4, <1>9
  <2>3. a = b
    BY <1>9, <2>1, <2>2 DEF TableInv, OnePlace
  <2> QED BY <2>1, <2>2, <2>3
<1>10. ASSUME NEW j \in 0 .. N - 1, tab[j] # NULL PROVE handle[tab[j]] % N = j
  <2>1. PICK i \in DOMAIN slot : Rehashed(i) = j /\ tab[j] = slot[i]
    BY <1>4, <1>10
  <2> QED BY <2>1 DEF Rehashed, N
<1>11. ASSUME NEW t \in Launchers, pending[t] # NoPending PROVE pending[t].ctx \in st
  <2>1. pending[t].ctx \in Slotted
    BY <1>11 DEF TableInv, Launching
  <2>2. pending[t].ctx # NULL
    BY <2>1 DEF Slotted
  <2> QED BY <2>2 DEF Pending
<1>12. ASSUME abort.pc \in {"scan", "retire"}, ~abort.hit, NEW c \in old \ st,
              ~(abort.pc = "retire" /\ abort.handle = handle[c]),
              NEW j \in 0 .. N - 1, tab[j] = c
       PROVE  abort.i <= j
  <2>1. c \in Slotted /\ \A i \in DOMAIN slot : slot[i] = c => abort.i <= i
    BY <1>12 DEF TableInv, PassSound
  <2>2. c # NULL /\ c \in Contexts
    BY <2>1 DEF TableInv, Shape, Slotted
  <2>3. PICK i \in DOMAIN slot : slot[i] = c
    BY <1>4, <1>12, <2>2
  <2>4. handle[c] % Size = i
    BY <1>12, <2>2, <2>3 DEF TableInv, InPlace
  <2>5. handle[c] % N = j
    BY <1>10, <1>12, <2>2
  <2>6. handle[c] \in Nat
    BY <2>2 DEF TableInv, Shape
  <2>7. handle[c] % Size <= handle[c] % (2 * Size)
    BY <1>1, <2>6, Doubling
  <2>8. i <= j
    BY <2>4, <2>5, <2>7 DEF N
  <2>9. abort.i <= i /\ abort.i \in Nat /\ i \in Nat
    BY <1>1, <2>1, <2>3 DEF TableInv, Shape
  <2> QED BY <2>8, <2>9
<1> HIDE DEF st
<1>13. Ready(tab, N, st)
  BY <1>2, <1>4, <1>6, <1>8, <1>9, <1>10, <1>11, <1>12 DEF Ready
<1> QED BY <1>3, <1>13 DEF N, st

\* Half of the doubled table is free, and the scan finds a free slot in it even when it
\* wraps and misses slot 0.
LEMMA FreeDoubled ==
  ASSUME TableInv, CanDouble
  PROVE  FreeRounds(Expanded, 2 * Size) # {}
<1> USE TableAssumption
<1>1. Size \in Nat \ {0} /\ DOMAIN slot = 0 .. Size - 1
  BY DivisorBound DEF TableInv, Shape
<1>2. PICK N \in Nat \ {0} : N = 2 * Size
  BY <1>1
<1>3. Divides(N) /\ index \in 1 .. HandleMask + 1
  BY <1>2, DoubleDivides DEF TableInv, Shape, CanDouble
<1>4. \A j \in 0 .. N - 1 : Expanded[j] # NULL => \E i \in DOMAIN slot : Rehashed(i) = j
  BY <1>2, ExpandedTable
<1>5. SUFFICES \E k \in 0 .. N - 1 : Expanded[Candidate(k) % N] = NULL
  BY <1>2 DEF FreeRounds
<1>6. CASE \E r \in 1 .. N - 1 : Expanded[r] = NULL
  BY <1>3, <1>6, ScansRest
<1>7. CASE \A r \in 1 .. N - 1 : Expanded[r] # NULL
  <2> DEFINE image == {Rehashed(i) : i \in 0 .. Size - 1}
  <2>1. \A r \in 1 .. N - 1 : \E i \in 0 .. Size - 1 : Rehashed(i) = r
    BY <1>1, <1>4, <1>7
  <2>2. 1 .. N - 1 \subseteq image
    BY <2>1
  <2>3. IsFiniteSet(0 .. Size - 1) /\ Cardinality(0 .. Size - 1) = Size
    <3>1. 0 \in Int /\ Size - 1 \in Int
      BY <1>1
    <3> QED BY <1>1, <3>1, FS_Interval, TableSize
  <2>4. IsFiniteSet(image) /\ Cardinality(image) <= Size
    <3> DEFINE f == [i \in 0 .. Size - 1 |-> Rehashed(i)]
    <3>1. \A i \in 0 .. Size - 1 : Rehashed(i) \in image
      OBVIOUS
    <3> HIDE DEF image
    <3>2. f \in Surjection(0 .. Size - 1, image)
      <4>1. f \in [0 .. Size - 1 -> image]
        BY <3>1
      <4>2. \A y \in image : \E i \in 0 .. Size - 1 : f[i] = y
        BY DEF image
      <4> QED BY <4>1, <4>2 DEF Surjection
    <3> QED BY <2>3, <3>2, FS_Surjection
  <2>5. Cardinality(1 .. N - 1) = N - 1
    <3>1. 1 \in Int /\ N - 1 \in Int
      BY <1>2
    <3>2. Cardinality(1 .. N - 1) = IF 1 > N - 1 THEN 0 ELSE (N - 1) - 1 + 1
      BY <3>1, FS_Interval
    <3> QED BY <1>1, <1>2, <3>2
  <2>6. N - 1 <= Cardinality(image) /\ Cardinality(image) \in Nat
    <3> HIDE DEF image
    <3> QED BY <2>2, <2>4, <2>5, FS_Subset, FS_CardinalityType
  <2>7. Size = 1
    BY <1>1, <1>2, <2>4, <2>6
  <2>8. Rehashed(0) = 1 /\ slot[0] \in Contexts
    <3>1. 1 \in 1 .. N - 1 /\ 0 .. Size - 1 = {0}
      BY <1>2, <2>7
    <3>2. PICK i \in 0 .. Size - 1 : Rehashed(i) = 1
      BY <2>1, <3>1
    <3>3. slot[0] \in Contexts \cup {NULL} /\ slot[0] # NULL
      BY <1>1, <3>1 DEF TableInv, Shape, CanDouble
    <3> QED BY <3>1, <3>2, <3>3
  <2>9. handle[slot[0]] % 2 = 1 /\ handle[slot[0]] \in Nat
    BY <2>7, <2>8 DEF Rehashed, TableInv, Shape
  <2>10. index - 1 = handle[slot[0]]
    <3>1. slot[0] \in Slotted
      BY <1>1, <2>7, <2>8 DEF Slotted
    <3> QED BY <2>7, <2>9, <3>1 DEF TableInv, LastOnly
  <2>11. N = 2 /\ Expanded[0] = NULL
    <3>1. ~ \E i \in DOMAIN slot : Rehashed(i) = 0
      BY <1>1, <2>7, <2>8
    <3> QED BY <1>2, <1>4, <2>7, <3>1
  <2>12. index % 2 = 0
    BY <1>3, <2>9, <2>10
  <2>13. CASE index <= HandleMask
    <3>1. 0 \in 0 .. N - 1 /\ Candidate(0) = index
      BY <1>3, <2>11, <2>13, Tried
    <3> QED BY <2>11, <2>12, <3>1
  <2>14. CASE index = HandleMask + 1
    <3>1. 1 \in 0 .. N - 1 /\ Candidate(1) = 2
      BY <1>3, <2>11, <2>14, Tried
    <3> QED BY <2>11, <3>1
  <2> QED BY <1>3, <2>13, <2>14
<1> QED BY <1>6, <1>7

-----------------------------------------------------------------------------
(* skynet_handle_register takes a slot.                                    *)

LEMMA PendingOf ==
  ASSUME TableInv, NEW t \in Launchers, pending[t] # NoPending
  PROVE  /\ pending[t].ctx \in Slotted /\ pending[t].ctx \in Pending
         /\ pending[t].ctx \in Contexts /\ pending[t].ctx # NULL
<1>1. pending[t].ctx \in Slotted
  BY DEF TableInv, Launching
<1>2. pending[t].ctx # NULL
  BY <1>1 DEF Slotted
<1> QED BY <1>1, <1>2 DEF Pending, TableInv, Shape

LEMMA SlottedPlace ==
  ASSUME Shape, NEW c \in Slotted
  PROVE  c \in Contexts /\ c # NULL /\ \E i \in 0 .. Size - 1 : slot[i] = c
BY TableAssumption DEF Shape, Slotted

\* c is put into the slot of handle h, which was free.
Took(t, c, tab, n, h) ==
  /\ \E k \in 0 .. n - 1 : h = Candidate(k)
  /\ tab[h % n] = NULL
  /\ slot' = [tab EXCEPT ![h % n] = c] /\ index' = h + 1
  /\ pending' = [pending EXCEPT ![t] = [ctx |-> c, handle |-> h]]
  /\ handle' = [handle EXCEPT ![c] = 0] /\ failed' = failed

LEMMA OccupyTakes ==
  ASSUME NEW t, NEW c, NEW tab, NEW n, FreeRounds(tab, n) # {}, Occupy(t, c, tab, n)
  PROVE  \E h : Took(t, c, tab, n, h)
<1> DEFINE first == CHOOSE k \in FreeRounds(tab, n) : \A l \in FreeRounds(tab, n) : k <= l
<1>1. FreeRounds(tab, n) \in SUBSET Nat
  BY DEF FreeRounds
<1>2. \E k \in FreeRounds(tab, n) : \A l \in FreeRounds(tab, n) : k <= l
  BY <1>1, LeastNumber
<1>3. first \in FreeRounds(tab, n)
  BY <1>2
<1>4. /\ slot' = [tab EXCEPT ![Candidate(first) % n] = c] /\ index' = Candidate(first) + 1
      /\ pending' = [pending EXCEPT ![t] = [ctx |-> c, handle |-> Candidate(first)]]
      /\ handle' = [handle EXCEPT ![c] = 0] /\ failed' = failed
  BY DEF Occupy
<1> HIDE DEF first
<1>5. first \in 0 .. n - 1 /\ tab[Candidate(first) % n] = NULL
  BY <1>3 DEF FreeRounds
<1>6. Took(t, c, tab, n, Candidate(first))
  BY <1>4, <1>5 DEF Took
<1> QED BY <1>6

LEMMA OccupyKeeps ==
  ASSUME TableInv, NEW t \in Launchers, NEW c \in Contexts, CanRegister(t, c),
         NEW tab, NEW n, NEW st, Ready(tab, n, st), FreeRounds(tab, n) # {},
         Occupy(t, c, tab, n), strayed' = st, UNCHANGED <<abort, old>>
  PROVE  TableInv'
<1> USE TableAssumption
<1>1. PICK h :
        /\ \E k \in 0 .. n - 1 : h = Candidate(k)
        /\ tab[h % n] = NULL
        /\ slot' = [tab EXCEPT ![h % n] = c] /\ index' = h + 1
        /\ pending' = [pending EXCEPT ![t] = [ctx |-> c, handle |-> h]]
        /\ handle' = [handle EXCEPT ![c] = 0] /\ failed' = failed
  BY OccupyTakes DEF Took
<1>2. n \in Nat \ {0} /\ Divides(n)
  BY DivisorBound DEF Ready
<1>3. h \in 1 .. HandleMask
  BY <1>1, <1>2, Tried DEF TableInv, Shape, Handles
<1>4. PICK p \in 0 .. n - 1 : p = h % n
  <2>1. h \in Int
    BY <1>3
  <2> QED BY <1>2, <2>1, RemainderType
<1>5. tab \in [0 .. n - 1 -> Contexts \cup {NULL}] /\ {tab[i] : i \in 0 .. n - 1} \ {NULL} = Slotted
  BY DEF Ready
<1>6. /\ slot' \in [0 .. n - 1 -> Contexts \cup {NULL}] /\ DOMAIN slot' = 0 .. n - 1
      /\ \A i \in 0 .. n - 1 : slot'[i] = IF i = p THEN c ELSE tab[i]
  BY <1>1, <1>4, <1>5
<1>7. Size' = n
  BY <1>2, <1>6, TableSize DEF Size
<1>8. c \notin Slotted /\ c \notin Pending /\ pending[t] = NoPending /\ c # NULL
  BY DEF CanRegister
<1>9. Slotted' = Slotted \cup {c}
  BY <1>1, <1>4, <1>5, <1>6, <1>8 DEF Slotted
<1>10. /\ \A u \in Launchers : pending'[u] = IF u = t THEN [ctx |-> c, handle |-> h] ELSE pending[u]
       /\ pending' \in [Launchers -> [ctx : Contexts \cup {NULL}, handle : 0 .. HandleMask]]
  <2>1. [ctx |-> c, handle |-> h] \in [ctx : Contexts \cup {NULL}, handle : 0 .. HandleMask]
    BY <1>3
  <2>2. pending \in [Launchers -> [ctx : Contexts \cup {NULL}, handle : 0 .. HandleMask]]
    BY DEF TableInv, Shape
  <2> QED BY <1>1, <2>1, <2>2
<1>11. pending'[t].ctx = c /\ pending'[t].handle = h
  BY <1>10
<1>12. Pending' = Pending \cup {c}
  <2>1. pending[t].ctx = NULL
    BY <1>8 DEF NoPending
  <2> QED BY <1>8, <1>10, <1>11, <2>1 DEF Pending
<1>13. /\ \A d \in Contexts : handle'[d] = IF d = c THEN 0 ELSE handle[d]
       /\ handle' \in [Contexts -> 0 .. HandleMask]
  BY <1>1 DEF TableInv, Shape
<1>14. strayed \subseteq st /\ st \subseteq Slotted /\ Slotted \subseteq Contexts
  BY SlottedPlace DEF Ready, TableInv
<1>15. Shape'
  <2>1. /\ abort \in [pc : {"idle", "scan", "retire", "done"}, i : Nat, hit : BOOLEAN,
                      handle : 0 .. HandleMask]
        /\ old \subseteq Contexts /\ failed \in {"no", "deref", "assert59", "assert64"}
    BY DEF TableInv, Shape
  <2>2. Divides(Size)'
    BY <1>2, <1>7 DEF Divides
  <2>3. slot' \in [0 .. Size' - 1 -> Contexts \cup {NULL}] /\ index' \in 1 .. HandleMask + 1
    BY <1>1, <1>3, <1>6, <1>7
  <2> QED BY <1>1, <1>10, <1>13, <1>14, <2>1, <2>2, <2>3 DEF Shape
<1>16. OnePlace'
  <2> SUFFICES ASSUME NEW i \in 0 .. n - 1, NEW j \in 0 .. n - 1,
                      slot'[i] # NULL, slot'[i] = slot'[j]
               PROVE  i = j
    BY <1>6 DEF OnePlace
  <2>1. \A l \in 0 .. n - 1 : tab[l] # c
    BY <1>5, <1>8
  <2> QED BY <1>6, <2>1 DEF Ready
<1>17. InPlace'
  <2>1. ASSUME NEW i \in 0 .. n - 1, slot'[i] \notin Pending' \cup st \cup {NULL}
        PROVE  handle'[slot'[i]] % n = i
    <3>1. slot'[i] = tab[i] /\ tab[i] # c
      BY <1>6, <1>12, <2>1
    <3>2. handle[tab[i]] % n = i
      BY <1>12, <2>1, <3>1 DEF Ready
    <3>3. tab[i] \in Contexts
      BY <1>5, <2>1, <3>1
    <3> QED BY <1>13, <3>1, <3>2, <3>3
  <2>2. ASSUME NEW d \in Slotted' \ Pending' PROVE handle'[d] # 0
    <3>1. d \in Slotted \ Pending /\ d # c /\ d \in Contexts
      BY <1>9, <1>12, <1>14
    <3> QED BY <1>13, <3>1 DEF TableInv, InPlace
  <2> QED BY <1>6, <1>7, <2>1, <2>2 DEF InPlace
<1>18. Launching'
  <2> SUFFICES ASSUME NEW u \in Launchers, pending'[u] # NoPending
               PROVE  /\ pending'[u].ctx \in Slotted' /\ handle'[pending'[u].ctx] = 0
                      /\ pending'[u].handle # 0
                      /\ pending'[u].ctx \notin st =>
                           slot'[pending'[u].handle % n] = pending'[u].ctx
    BY <1>7 DEF Launching, NoPending
  <2>1. CASE u = t
    BY <1>3, <1>4, <1>6, <1>9, <1>11, <1>13, <2>1
  <2>2. CASE u # t
    <3>1. pending'[u] = pending[u] /\ pending[u] # NoPending
      BY <1>10, <2>2
    <3>2. /\ pending[u].ctx \in Slotted /\ pending[u].ctx \in Contexts
          /\ pending[u].ctx # c /\ pending[u].ctx # NULL
      BY <1>8, <3>1, PendingOf
    <3>3. handle[pending[u].ctx] = 0 /\ pending[u].handle # 0
      BY <3>1 DEF TableInv, Launching
    <3>4. pending[u].ctx \notin st => tab[pending[u].handle % n] = pending[u].ctx
      BY <3>1 DEF Ready
    <3>5. pending[u].handle % n \in 0 .. n - 1
      <4>1. pending[u].handle \in Int
        BY DEF TableInv, Shape
      <4> QED BY <1>2, <4>1, RemainderType
    <3>6. tab[p] = NULL
      BY <1>1, <1>4
    <3>7. pending[u].ctx \notin st => slot'[pending[u].handle % n] = pending[u].ctx
      BY <1>6, <3>2, <3>4, <3>5, <3>6
    <3> QED BY <1>9, <1>13, <3>1, <3>2, <3>3, <3>7
  <2> QED BY <2>1, <2>2
<1>19. LaunchedOnce'
  <2> SUFFICES ASSUME NEW u \in Launchers, NEW v \in Launchers,
                      pending'[u].ctx # NULL, pending'[u].ctx = pending'[v].ctx
               PROVE  u = v
    BY DEF LaunchedOnce
  <2>1. \A w \in Launchers : pending[w].ctx # c
    BY <1>8 DEF Pending
  <2> QED BY <1>10, <1>11, <2>1 DEF TableInv, LaunchedOnce
<1>20. LastOnly'
  <2> SUFFICES ASSUME n = 1
               PROVE  /\ \A d \in Slotted' : handle'[d] \in {0, index' - 1}
                      /\ \A u \in Launchers : pending'[u] # NoPending => pending'[u].handle = index' - 1
    BY <1>7 DEF LastOnly, NoPending
  <2>1. p = 0 /\ 0 .. n - 1 = {0} /\ tab[0] = NULL
    BY <1>1, <1>4
  <2>2. Slotted = {}
    BY <1>5, <2>1
  <2>3. \A u \in Launchers : pending[u] = NoPending
    BY <2>2, PendingOf
  <2>4. h = index' - 1
    BY <1>1, <1>3
  <2> QED BY <1>9, <1>10, <1>11, <1>13, <2>2, <2>3, <2>4
<1>21. PassSound'
  <2>1. old \subseteq Slotted /\ c \notin old
    BY <1>8 DEF TableInv, PassSound
  <2>2. \A d \in old : handle'[d] = handle[d]
    BY <1>13, <1>14, <2>1
  <2>3. old' \cup strayed' \subseteq Slotted' /\ \A d \in old' : handle'[d] # 0
    BY <1>9, <1>14, <2>1, <2>2 DEF TableInv, PassSound
  <2>4. /\ abort'.pc = "retire" => abort'.handle # 0
        /\ abort'.pc = "done" => old' \subseteq strayed'
    BY <1>14 DEF TableInv, PassSound
  <2>5. ASSUME abort.pc \in {"scan", "retire"}, ~abort.hit, NEW d \in old \ st,
               ~(abort.pc = "retire" /\ abort.handle = handle'[d]),
               NEW i \in 0 .. n - 1, slot'[i] = d
        PROVE  abort.i <= i
    <3>1. tab[i] = d
      BY <1>6, <2>1, <2>5
    <3> QED BY <2>2, <2>5, <3>1 DEF Ready
  <2> QED BY <1>6, <2>3, <2>4, <2>5 DEF PassSound
<1> QED BY <1>15, <1>16, <1>17, <1>18, <1>19, <1>20, <1>21 DEF TableInv

-----------------------------------------------------------------------------
(* skynet_handle_grab and skynet_handle_retire.                            *)

LEMMA GrabFinds ==
  ASSUME TableInv, NEW h \in 1 .. HandleMask, Grab(h) # NULL
  PROVE  /\ h % Size \in 0 .. Size - 1 /\ Grab(h) = slot[h % Size]
         /\ slot[h % Size] \in Contexts /\ slot[h % Size] # NULL
         /\ slot[h % Size] \notin Pending
         /\ handle[slot[h % Size]] = h
<1>1. Size \in Nat \ {0} /\ DOMAIN slot = 0 .. Size - 1
  BY DivisorBound DEF TableInv, Shape
<1>2. h % Size \in 0 .. Size - 1
  <2>1. h \in Int
    OBVIOUS
  <2> QED BY <1>1, <2>1, RemainderType
<1>3. /\ Grab(h) = slot[h % Size] /\ slot[h % Size] # NULL /\ handle[slot[h % Size]] = h
  BY DEF Grab
<1>4. slot[h % Size] \in Contexts
  BY <1>2, <1>3 DEF TableInv, Shape
<1>5. ASSUME NEW t \in Launchers, pending[t].ctx = slot[h % Size] PROVE FALSE
  <2>1. pending[t] # NoPending
    BY <1>3, <1>5 DEF NoPending
  <2>2. handle[pending[t].ctx] = 0
    BY <2>1 DEF TableInv, Launching
  <2> QED BY <1>3, <1>5, <2>2
<1> QED BY <1>2, <1>3, <1>4, <1>5 DEF Pending

\* skynet_handle_retire, called by anyone or by a pass, which then counts it.
LEMMA RetireKeeps ==
  ASSUME TableInv, NEW h \in 1 .. HandleMask, Grab(h) # NULL, Retired(h),
         UNCHANGED <<index, pending, failed>>,
         \/ abort' = abort
         \/ abort' = [abort EXCEPT !.pc = "scan", !.handle = 0, !.hit = TRUE]
  PROVE  TableInv'
<1> USE TableAssumption
<1>1. PICK p \in 0 .. Size - 1 : p = h % Size
  BY GrabFinds
<1>2. PICK c \in Contexts : c = slot[p]
  BY <1>1, GrabFinds
<1>3. c # NULL /\ c \notin Pending /\ handle[c] = h
  BY <1>1, <1>2, GrabFinds
<1>4. Size \in Nat \ {0} /\ DOMAIN slot = 0 .. Size - 1
  BY DivisorBound DEF TableInv, Shape
<1>5. /\ slot' = [slot EXCEPT ![p] = NULL] /\ handle' = [handle EXCEPT ![c] = 0]
      /\ old' = old \ {c} /\ strayed' = strayed \ {c}
  BY <1>1, <1>2 DEF Retired
<1>6. /\ slot' \in [0 .. Size - 1 -> Contexts \cup {NULL}] /\ DOMAIN slot' = 0 .. Size - 1
      /\ \A i \in 0 .. Size - 1 : slot'[i] = IF i = p THEN NULL ELSE slot[i]
  BY <1>4, <1>5 DEF TableInv, Shape
<1>7. Size' = Size
  BY <1>4, <1>6 DEF Size
<1>8. \A i \in 0 .. Size - 1 : slot[i] = c => i = p
  BY <1>2, <1>3, <1>4 DEF TableInv, OnePlace
<1>9. Slotted' = Slotted \ {c}
  BY <1>2, <1>4, <1>6, <1>8 DEF Slotted
<1>10. /\ handle' \in [Contexts -> 0 .. HandleMask]
       /\ \A d \in Contexts : handle'[d] = IF d = c THEN 0 ELSE handle[d]
  BY <1>5 DEF TableInv, Shape
<1>11. Pending' = Pending
  BY DEF Pending
<1>12. /\ abort' \in [pc : {"idle", "scan", "retire", "done"}, i : Nat, hit : BOOLEAN,
                     handle : 0 .. HandleMask]
       /\ abort' = abort \/ (abort'.pc = "scan" /\ abort'.hit)
  <2>1. abort \in [pc : {"idle", "scan", "retire", "done"}, i : Nat, hit : BOOLEAN,
                   handle : 0 .. HandleMask]
    BY DEF TableInv, Shape
  <2>2. CASE abort' = abort
    BY <2>1, <2>2
  <2>3. CASE abort' = [abort EXCEPT !.pc = "scan", !.handle = 0, !.hit = TRUE]
    <3>1. abort.i \in Nat
      BY <2>1
    <3>2. abort' = [pc |-> "scan", i |-> abort.i, hit |-> TRUE, handle |-> 0]
      BY <2>1, <2>3
    <3> QED BY <3>1, <3>2
  <2> QED BY <2>2, <2>3
<1>13. Shape'
  <2>1. Divides(Size)'
    BY <1>7 DEF TableInv, Shape, Divides
  <2>2. slot' \in [0 .. Size' - 1 -> Contexts \cup {NULL}]
    BY <1>6, <1>7
  <2> QED BY <1>5, <1>10, <1>12, <2>1, <2>2 DEF TableInv, Shape
<1>14. OnePlace'
  BY <1>4, <1>6 DEF TableInv, OnePlace
<1>15. InPlace'
  <2>1. ASSUME NEW i \in 0 .. Size - 1, slot'[i] \notin Pending \cup strayed' \cup {NULL}
        PROVE  handle'[slot'[i]] % Size = i
    <3>1. slot'[i] = slot[i] /\ slot[i] # c /\ slot[i] # NULL
      BY <1>6, <1>8, <2>1
    <3>2. slot[i] \notin Pending \cup strayed \cup {NULL} /\ slot[i] \in Contexts
      BY <1>5, <2>1, <3>1 DEF TableInv, Shape
    <3>3. handle[slot[i]] % Size = i
      BY <1>4, <3>2 DEF TableInv, InPlace
    <3> QED BY <1>10, <3>1, <3>2, <3>3
  <2>2. ASSUME NEW d \in Slotted' \ Pending PROVE handle'[d] # 0
    <3>1. d \in Slotted \ Pending /\ d # c /\ d \in Contexts
      BY <1>9, SlottedPlace DEF TableInv
    <3> QED BY <1>10, <3>1 DEF TableInv, InPlace
  <2> QED BY <1>6, <1>7, <1>11, <2>1, <2>2 DEF InPlace
<1>16. Launching'
  <2> SUFFICES ASSUME NEW u \in Launchers, pending[u] # NoPending
               PROVE  /\ pending[u].ctx \in Slotted' /\ handle'[pending[u].ctx] = 0
                      /\ pending[u].handle # 0
                      /\ pending[u].ctx \notin strayed' =>
                           slot'[pending[u].handle % Size] = pending[u].ctx
    BY <1>7 DEF Launching, NoPending
  <2>1. /\ pending[u].ctx \in Slotted /\ pending[u].ctx \in Contexts
        /\ pending[u].ctx # c /\ pending[u].ctx # NULL
    BY <1>3, PendingOf
  <2>2. /\ handle[pending[u].ctx] = 0 /\ pending[u].handle # 0
        /\ pending[u].ctx \notin strayed => slot[pending[u].handle % Size] = pending[u].ctx
    BY DEF TableInv, Launching
  <2>3. pending[u].handle % Size \in 0 .. Size - 1
    <3>1. pending[u].handle \in Int
      BY DEF TableInv, Shape
    <3> QED BY <1>4, <3>1, RemainderType
  <2>4. pending[u].ctx \notin strayed' => slot'[pending[u].handle % Size] = pending[u].ctx
    BY <1>2, <1>5, <1>6, <2>1, <2>2, <2>3
  <2> QED BY <1>9, <1>10, <2>1, <2>2, <2>4
<1>17. LaunchedOnce'
  BY DEF TableInv, LaunchedOnce
<1>18. LastOnly'
  <2>1. \A d \in Slotted' : d \in Slotted /\ handle'[d] = handle[d]
    BY <1>9, <1>10, SlottedPlace DEF TableInv
  <2> QED BY <1>7, <2>1 DEF TableInv, LastOnly, NoPending
<1>19. PassSound'
  <2>1. old \subseteq Slotted /\ strayed \subseteq Slotted
    BY DEF TableInv, PassSound
  <2>2. \A d \in old' : d \in old /\ handle'[d] = handle[d]
    BY <1>5, <1>10 DEF TableInv, Shape
  <2>3. old' \cup strayed' \subseteq Slotted' /\ \A d \in old' : handle'[d] # 0
    BY <1>5, <1>9, <2>1, <2>2 DEF TableInv, PassSound
  <2>4. /\ abort'.pc = "retire" => abort'.handle # 0
        /\ abort'.pc = "done" => old' \subseteq strayed'
    BY <1>5, <1>12 DEF TableInv, PassSound
  <2>5. ASSUME abort'.pc \in {"scan", "retire"}, ~abort'.hit, NEW d \in old' \ strayed',
               ~(abort'.pc = "retire" /\ abort'.handle = handle'[d]),
               NEW i \in 0 .. Size - 1, slot'[i] = d
        PROVE  abort'.i <= i
    <3>1. abort' = abort
      BY <1>12, <2>5
    <3>2. d \in old \ strayed /\ d # c /\ handle'[d] = handle[d]
      BY <1>5, <2>2, <2>5
    <3>3. slot[i] = d
      <4>1. d # NULL
        BY <2>1, <3>2 DEF Slotted
      <4> QED BY <1>6, <2>5, <4>1
    <3> QED BY <1>4, <2>5, <3>1, <3>2, <3>3 DEF TableInv, PassSound
  <2> QED BY <1>6, <2>3, <2>4, <2>5 DEF PassSound
<1> QED BY <1>13, <1>14, <1>15, <1>16, <1>17, <1>18, <1>19 DEF TableInv

-----------------------------------------------------------------------------
(* ctx->handle is stored.                                                  *)

LEMMA StoreKeeps ==
  ASSUME TableInv, NEW t \in Launchers, StoreHandle(t)
  PROVE  TableInv'
<1> USE TableAssumption
<1>1. PICK c \in Contexts : c = pending[t].ctx
  BY PendingOf DEF StoreHandle
<1>2. c \in Slotted /\ c # NULL /\ c \in Pending /\ handle[c] = 0
  BY <1>1, PendingOf DEF StoreHandle, TableInv, Launching
<1>3. PICK h \in 1 .. HandleMask : h = pending[t].handle
  <2>1. pending[t].handle \in 0 .. HandleMask /\ pending[t].handle # 0
    BY DEF StoreHandle, TableInv, Shape, Launching
  <2> QED BY <2>1
<1>4. c \notin strayed => slot[h % Size] = c
  BY <1>1, <1>3 DEF StoreHandle, TableInv, Launching
<1>5. /\ handle' = [handle EXCEPT ![c] = h] /\ pending' = [pending EXCEPT ![t] = NoPending]
      /\ UNCHANGED <<slot, index, abort, old, strayed, failed>>
  BY <1>1, <1>3 DEF StoreHandle
<1>6. Size' = Size /\ Slotted' = Slotted
  BY <1>5 DEF Size, Slotted
<1>7. /\ handle' \in [Contexts -> 0 .. HandleMask]
      /\ \A d \in Contexts : handle'[d] = IF d = c THEN h ELSE handle[d]
  BY <1>5 DEF TableInv, Shape
<1>8. /\ \A u \in Launchers : pending'[u] = IF u = t THEN NoPending ELSE pending[u]
      /\ pending' \in [Launchers -> [ctx : Contexts \cup {NULL}, handle : 0 .. HandleMask]]
  <2>1. NoPending \in [ctx : Contexts \cup {NULL}, handle : 0 .. HandleMask]
    BY DEF NoPending
  <2>2. pending \in [Launchers -> [ctx : Contexts \cup {NULL}, handle : 0 .. HandleMask]]
    BY DEF TableInv, Shape
  <2> QED BY <1>5, <2>1, <2>2
<1>9. pending'[t].ctx = NULL
  BY <1>8 DEF NoPending
<1>10. \A u \in Launchers : u # t => pending[u].ctx # c
  BY <1>1, <1>2 DEF TableInv, LaunchedOnce
<1>11. Pending' = Pending \ {c}
  BY <1>1, <1>2, <1>8, <1>9, <1>10 DEF Pending
<1>12. Size \in Nat \ {0} /\ DOMAIN slot = 0 .. Size - 1
  BY DivisorBound DEF TableInv, Shape
<1>13. Shape'
  <2>1. Divides(Size)'
    BY <1>6 DEF TableInv, Shape, Divides
  <2>2. slot' \in [0 .. Size' - 1 -> Contexts \cup {NULL}]
    BY <1>5, <1>6 DEF TableInv, Shape
  <2> QED BY <1>5, <1>7, <1>8, <2>1, <2>2 DEF TableInv, Shape
<1>14. OnePlace'
  BY <1>5 DEF TableInv, OnePlace
<1>15. InPlace'
  <2>1. ASSUME NEW i \in 0 .. Size - 1, slot[i] \notin Pending' \cup strayed \cup {NULL}
        PROVE  handle'[slot[i]] % Size = i
    <3>1. slot[i] \in Contexts
      BY <2>1 DEF TableInv, Shape
    <3>2. CASE slot[i] = c
      <4>1. h % Size \in 0 .. Size - 1
        <5>1. h \in Int
          OBVIOUS
        <5> QED BY <1>12, <5>1, RemainderType
      <4>2. h % Size = i
        BY <1>2, <1>4, <1>12, <2>1, <3>2, <4>1 DEF TableInv, OnePlace
      <4> QED BY <1>7, <3>2, <4>2
    <3>3. CASE slot[i] # c
      <4>1. handle[slot[i]] % Size = i
        BY <1>11, <1>12, <2>1, <3>3 DEF TableInv, InPlace
      <4> QED BY <1>7, <3>1, <3>3, <4>1
    <3> QED BY <3>2, <3>3
  <2>2. ASSUME NEW d \in Slotted \ Pending' PROVE handle'[d] # 0
    <3>1. d \in Contexts
      BY SlottedPlace DEF TableInv
    <3> QED BY <1>7, <1>11, <3>1 DEF TableInv, InPlace
  <2> QED BY <1>5, <1>6, <1>12, <2>1, <2>2 DEF InPlace
<1>16. Launching'
  <2> SUFFICES ASSUME NEW u \in Launchers, pending'[u] # NoPending
               PROVE  /\ pending'[u].ctx \in Slotted /\ handle'[pending'[u].ctx] = 0
                      /\ pending'[u].handle # 0
                      /\ pending'[u].ctx \notin strayed =>
                           slot[pending'[u].handle % Size] = pending'[u].ctx
    BY <1>5, <1>6 DEF Launching, NoPending
  <2>1. u # t /\ pending'[u] = pending[u] /\ pending[u] # NoPending
    BY <1>8
  <2>2. pending[u].ctx \in Contexts /\ pending[u].ctx # c
    BY <1>10, <2>1, PendingOf
  <2> QED BY <1>7, <2>1, <2>2 DEF TableInv, Launching
<1>17. LaunchedOnce'
  BY <1>8, <1>9 DEF TableInv, LaunchedOnce
<1>18. LastOnly'
  <2> SUFFICES ASSUME Size = 1
               PROVE  /\ \A d \in Slotted : handle'[d] \in {0, index - 1}
                      /\ \A u \in Launchers : pending'[u] # NoPending => pending'[u].handle = index - 1
    BY <1>5, <1>6 DEF LastOnly, NoPending
  <2>1. h = index - 1
    BY <1>3 DEF StoreHandle, TableInv, LastOnly
  <2>2. \A d \in Slotted : d \in Contexts /\ handle[d] \in {0, index - 1}
    BY SlottedPlace DEF TableInv, LastOnly
  <2> QED BY <1>7, <1>8, <2>1, <2>2 DEF TableInv, LastOnly
<1>19. PassSound'
  <2>1. \A d \in old : handle'[d] = handle[d]
    <3>1. c \notin old
      BY <1>2 DEF TableInv, PassSound
    <3> QED BY <1>7, <3>1 DEF TableInv, Shape
  <2> QED BY <1>5, <1>6, <2>1 DEF TableInv, PassSound
<1> QED BY <1>13, <1>14, <1>15, <1>16, <1>17, <1>18, <1>19 DEF TableInv

-----------------------------------------------------------------------------
(* skynet_handle_retireall, and the steps that leave the table alone.      *)

LEMMA TableUntouched ==
  ASSUME TableInv, UNCHANGED <<slot, index, handle, pending, strayed>>,
         failed' \in {"no", "deref", "assert59", "assert64"},
         abort' \in [pc : {"idle", "scan", "retire", "done"}, i : Nat, hit : BOOLEAN,
                     handle : 0 .. HandleMask],
         PassSound'
  PROVE  TableInv'
<1>1. Size' = Size /\ Slotted' = Slotted /\ Pending' = Pending
  BY DEF Size, Slotted, Pending
<1>2. old' \subseteq Contexts
  BY <1>1, SlottedPlace DEF PassSound, TableInv
<1>3. Shape'
  <2>1. Divides(Size)'
    BY <1>1 DEF TableInv, Shape, Divides
  <2> QED BY <1>1, <1>2, <2>1 DEF TableInv, Shape
<1> QED BY <1>1, <1>3 DEF TableInv, OnePlace, InPlace, Launching, LaunchedOnce, LastOnly, NoPending

LEMMA PassKeeps ==
  ASSUME TableInv, AbortCall \/ AbortScan \/ AbortPass \/ AbortReturn
  PROVE  TableInv'
<1> USE TableAssumption
<1>1. Size \in Nat \ {0} /\ DOMAIN slot = 0 .. Size - 1
  BY DivisorBound DEF TableInv, Shape
<1>2. abort \in [pc : {"idle", "scan", "retire", "done"}, i : Nat, hit : BOOLEAN,
                 handle : 0 .. HandleMask]
  BY DEF TableInv, Shape
<1>3. /\ UNCHANGED <<slot, index, handle, pending, strayed, failed>>
      /\ failed' \in {"no", "deref", "assert59", "assert64"}
  BY DEF TableInv, Shape, AbortCall, AbortScan, ScanFrom, AbortPass, AbortReturn
<1>4. Slotted' = Slotted /\ Size' = Size
  BY <1>3 DEF Slotted, Size
<1>5. ASSUME abort' = [NoAbort EXCEPT !.pc = "scan"], old' = {c \in Slotted : handle[c] # 0}
      PROVE  TableInv'
  <2>1. abort' = [pc |-> "scan", i |-> 0, hit |-> FALSE, handle |-> 0]
    BY <1>5 DEF NoAbort
  <2>2. PassSound'
    BY <1>1, <1>3, <1>4, <1>5, <2>1 DEF TableInv, PassSound
  <2> QED BY <1>3, <2>1, <2>2, TableUntouched
<1>6. CASE AbortCall
  BY <1>5, <1>6 DEF AbortCall
<1>7. CASE AbortScan
  <2> DEFINE x == slot[abort.i]
             h == IF x = NULL \/ abort.i < 0 THEN 0 ELSE handle[x]
  <2>1. /\ abort.pc = "scan" /\ abort.i < Size /\ old' = old
        /\ abort' = [abort EXCEPT !.handle = h, !.i = @ + 1,
                                  !.pc = IF h = 0 THEN "scan" ELSE "retire"]
    BY <1>7 DEF AbortScan, ScanFrom
  <2>2. abort.i \in 0 .. Size - 1 /\ abort.hit \in BOOLEAN
    BY <1>1, <1>2, <2>1
  <2>3. h \in 0 .. HandleMask /\ (h = 0 \/ (x # NULL /\ h = handle[x]))
    BY <2>2 DEF TableInv, Shape
  <2>4. x # NULL => h = handle[x]
    BY <2>2
  <2> HIDE DEF h, x
  <2>5. abort' = [pc |-> IF h = 0 THEN "scan" ELSE "retire", i |-> abort.i + 1,
                  hit |-> abort.hit, handle |-> h]
    BY <1>2, <2>1
  <2>6. abort' \in [pc : {"idle", "scan", "retire", "done"}, i : Nat, hit : BOOLEAN,
                    handle : 0 .. HandleMask]
    BY <2>2, <2>3, <2>5
  <2>7. /\ abort'.pc = (IF h = 0 THEN "scan" ELSE "retire") /\ abort'.i = abort.i + 1
        /\ abort'.hit = abort.hit /\ abort'.handle = h
    BY <2>5
  <2>8. PassSound'
    <3>1. /\ old' \cup strayed' \subseteq Slotted' /\ \A c \in old' : handle'[c] # 0
          /\ abort'.pc = "retire" => abort'.handle # 0
          /\ abort'.pc # "done"
      BY <1>3, <1>4, <2>1, <2>7 DEF TableInv, PassSound
    <3>2. ASSUME ~abort'.hit, NEW c \in old \ strayed,
                 ~(abort'.pc = "retire" /\ abort'.handle = handle[c]),
                 NEW i \in DOMAIN slot, slot[i] = c
          PROVE  abort'.i <= i
      <4>1. abort.i <= i
        BY <2>1, <2>7, <3>2 DEF TableInv, PassSound
      <4>2. c # NULL /\ handle[c] # 0
        BY <3>2 DEF TableInv, PassSound, Slotted
      <4>3. i # abort.i
        BY <2>4, <2>7, <3>2, <4>2 DEF x
      <4> QED BY <1>1, <2>2, <2>7, <4>1, <4>3
    <3> QED BY <1>3, <2>1, <3>1, <3>2 DEF PassSound
  <2> QED BY <1>3, <2>6, <2>8, TableUntouched
<1>8. CASE AbortPass
  <2>1. CASE abort.hit
    BY <1>5, <1>8, <2>1 DEF AbortPass
  <2>2. CASE ~abort.hit
    <3>1. abort.pc = "scan" /\ Size <= abort.i /\ old' = old /\ abort' = [abort EXCEPT !.pc = "done"]
      BY <1>1, <1>2, <1>8, <2>2 DEF AbortPass
    <3>2. abort' \in [pc : {"idle", "scan", "retire", "done"}, i : Nat, hit : BOOLEAN,
                      handle : 0 .. HandleMask] /\ abort'.pc = "done"
      BY <1>2, <3>1
    <3>3. ASSUME NEW c \in old PROVE c \in strayed
      <4>1. SUFFICES ASSUME c \notin strayed PROVE FALSE
        OBVIOUS
      <4>2. PICK i \in 0 .. Size - 1 : slot[i] = c
        BY SlottedPlace DEF TableInv, PassSound
      <4>3. abort.i <= i
        BY <1>1, <2>2, <3>1, <4>1, <4>2 DEF TableInv, PassSound
      <4> QED BY <1>1, <1>2, <3>1, <4>2, <4>3
    <3>4. PassSound'
      BY <1>3, <1>4, <3>1, <3>2, <3>3 DEF TableInv, PassSound
    <3> QED BY <1>3, <3>2, <3>4, TableUntouched
  <2> QED BY <2>1, <2>2
<1>9. CASE AbortReturn
  <2>1. abort' = [pc |-> "idle", i |-> 0, hit |-> FALSE, handle |-> 0] /\ old' = {}
    BY <1>9 DEF AbortReturn, NoAbort
  <2>2. PassSound'
    BY <1>3, <1>4, <2>1 DEF TableInv, PassSound
  <2> QED BY <1>3, <2>1, <2>2, TableUntouched
<1> QED BY <1>6, <1>7, <1>8, <1>9

LEMMA PassRetires ==
  ASSUME TableInv, AbortRetire
  PROVE  TableInv'
<1>1. abort \in [pc : {"idle", "scan", "retire", "done"}, i : Nat, hit : BOOLEAN,
                 handle : 0 .. HandleMask]
  BY DEF TableInv, Shape
<1>2. abort.pc = "retire" /\ abort.handle \in 1 .. HandleMask
  <2>1. abort.handle \in 0 .. HandleMask /\ abort.handle # 0
    BY <1>1 DEF AbortRetire, TableInv, PassSound
  <2> QED BY <2>1, TableAssumption DEF AbortRetire
<1>4. CASE Grab(abort.handle) # NULL
  <2>1. Retired(abort.handle) /\ UNCHANGED <<index, pending, failed>>
    BY <1>4 DEF AbortRetire
  <2>2. abort' = [abort EXCEPT !.pc = "scan", !.handle = 0, !.hit = TRUE]
    <3>1. (abort.hit \/ (Grab(abort.handle) # NULL)) = TRUE
      BY <1>4
    <3> QED BY <3>1 DEF AbortRetire
  <2> QED BY <1>2, <1>4, <2>1, <2>2, RetireKeeps
<1>5. CASE Grab(abort.handle) = NULL
  <2>1. UNCHANGED <<slot, index, handle, pending, old, strayed, failed>>
    BY <1>5 DEF AbortRetire
  <2>2. abort' = [pc |-> "scan", i |-> abort.i, hit |-> abort.hit, handle |-> 0]
    <3>1. (abort.hit \/ (Grab(abort.handle) # NULL)) = abort.hit
      BY <1>1, <1>5
    <3>2. abort' = [abort EXCEPT !.pc = "scan", !.handle = 0, !.hit = abort.hit]
      BY <3>1 DEF AbortRetire
    <3> QED BY <1>1, <3>2
  <2>3. abort' \in [pc : {"idle", "scan", "retire", "done"}, i : Nat, hit : BOOLEAN,
                    handle : 0 .. HandleMask]
    <3>1. abort.i \in Nat /\ abort.hit \in BOOLEAN /\ 0 \in 0 .. HandleMask
      BY <1>1, TableAssumption
    <3> QED BY <2>2, <3>1
  <2>4. ASSUME NEW c \in old \ strayed PROVE abort.handle # handle[c]
    <3>1. c \in Slotted /\ handle[c] # 0
      BY DEF TableInv, PassSound
    <3>2. PICK i \in 0 .. Size - 1 : slot[i] = c
      BY <3>1, SlottedPlace DEF TableInv
    <3>3. c # NULL /\ c \notin Pending
      <4>1. c # NULL
        BY <3>1, SlottedPlace DEF TableInv
      <4>2. ASSUME NEW t \in Launchers, pending[t].ctx = c PROVE FALSE
        <5>1. pending[t] # NoPending
          BY <4>1, <4>2 DEF NoPending
        <5> QED BY <3>1, <4>2, <5>1 DEF TableInv, Launching
      <4> QED BY <4>1, <4>2 DEF Pending
    <3>4. handle[c] % Size = i
      BY <3>2, <3>3 DEF TableInv, InPlace, Shape
    <3>5. Grab(handle[c]) = c
      BY <3>2, <3>3, <3>4 DEF Grab
    <3> QED BY <1>5, <3>3, <3>5
  <2>5. PassSound'
    <3>1. Slotted' = Slotted /\ Size' = Size
      BY <2>1 DEF Slotted, Size
    <3>2. abort'.pc = "scan" /\ abort'.i = abort.i /\ abort'.hit = abort.hit
      BY <2>2
    <3> QED BY <1>2, <2>1, <2>4, <3>1, <3>2 DEF TableInv, PassSound
  <2>6. failed' \in {"no", "deref", "assert59", "assert64"}
    BY <2>1 DEF TableInv, Shape
  <2> QED BY <2>1, <2>3, <2>5, <2>6, TableUntouched
<1> QED BY <1>4, <1>5

LEMMA RegisterKeeps ==
  ASSUME TableInv, NEW t \in Launchers, NEW c \in Contexts,
         Register(t, c) \/ RegisterExpand(t, c)
  PROVE  TableInv'
<1>1. CASE Register(t, c)
  BY <1>1, ReadyNow, OccupyKeeps DEF Register
<1>2. CASE RegisterExpand(t, c)
  <2>1. CASE \E at \in {"deref", "assert59", "assert64"} : Dies(at)
    <3>1. /\ UNCHANGED <<slot, index, handle, pending, strayed, abort, old>>
          /\ failed' \in {"no", "deref", "assert59", "assert64"}
      BY <1>2, <2>1 DEF Dies, RegisterExpand
    <3>2. Slotted' = Slotted
      BY <3>1 DEF Slotted
    <3>3. PassSound'
      BY <3>1, <3>2 DEF TableInv, PassSound
    <3> QED BY <3>1, <3>3, TableUntouched DEF TableInv, Shape
  <2>2. CASE /\ CanDouble /\ Occupy(t, c, Expanded, 2 * Size)
             /\ strayed' = strayed \cup Pending
    <3>1. CanRegister(t, c) /\ UNCHANGED <<abort, old>>
      BY <1>2 DEF RegisterExpand
    <3>2. Ready(Expanded, 2 * Size, strayed \cup Pending) /\ FreeRounds(Expanded, 2 * Size) # {}
      BY <2>2, ReadyDoubled, FreeDoubled
    <3> QED BY <2>2, <3>1, <3>2, OccupyKeeps
  <2> QED BY <1>2, <2>1, <2>2 DEF RegisterExpand, CanDouble
<1> QED BY <1>1, <1>2

LEMMA TableStep == TableInv /\ [Next]_vars => TableInv'
<1> SUFFICES ASSUME TableInv, [Next]_vars PROVE TableInv'
  OBVIOUS
<1>1. ASSUME NEW t \in Launchers, Launch(t) PROVE TableInv'
  BY <1>1, StoreKeeps, RegisterKeeps DEF Launch
<1>2. ASSUME NEW h \in Handles, Retire(h) PROVE TableInv'
  BY <1>2, RetireKeeps DEF Retire, Handles
<1>3. ASSUME UNCHANGED <<slot, index, handle, pending, abort, old, strayed, failed>> PROVE TableInv'
  <2>1. Slotted' = Slotted
    BY <1>3 DEF Slotted
  <2>2. PassSound'
    BY <1>3, <2>1 DEF TableInv, PassSound
  <2> QED BY <1>3, <2>2, TableUntouched DEF TableInv, Shape
<1>4. ASSUME RetireAll PROVE TableInv'
  BY <1>4, PassKeeps, PassRetires DEF RetireAll
<1>5. ASSUME NEW h \in Handles, NEW nm \in Names, NameHandle(h, nm) PROVE TableInv'
  BY <1>3, <1>5 DEF NameHandle
<1>6. CASE UNCHANGED vars
  BY <1>3, <1>6 DEF vars
<1> QED BY <1>1, <1>2, <1>4, <1>5, <1>6 DEF Next

-----------------------------------------------------------------------------
(* Recursion over the rounds of a loop: g[k] is what round k does to a     *)
(* state in S.                                                             *)

Runs(S, start, g, n) ==
  {f \in [0 .. n -> S] : f[0] = start /\ \A k \in 0 .. n - 1 : f[k + 1] = g[k][f[k]]}

LEMMA RunsExist ==
  ASSUME NEW S, NEW start \in S, NEW g \in [Nat -> [S -> S]]
  PROVE  \A n \in Nat : Runs(S, start, g, n) # {}
<1> DEFINE T == {n \in Nat : Runs(S, start, g, n) # {}}
<1>1. 0 \in T
  <2>1. [i \in 0 .. 0 |-> start] \in Runs(S, start, g, 0)
    BY DEF Runs
  <2> QED BY <2>1
<1>2. ASSUME NEW n \in T PROVE n + 1 \in T
  <2>1. PICK f : f \in Runs(S, start, g, n)
    OBVIOUS
  <2> DEFINE e == [i \in 0 .. n + 1 |-> IF i = n + 1 THEN g[n][f[n]] ELSE f[i]]
  <2>2. /\ n \in Nat /\ f \in [0 .. n -> S] /\ f[0] = start
        /\ \A k \in 0 .. n - 1 : f[k + 1] = g[k][f[k]]
    BY <2>1 DEF Runs
  <2>3. g[n][f[n]] \in S
    BY <2>2
  <2>4. e \in [0 .. n + 1 -> S] /\ e[0] = start
    BY <2>2, <2>3
  <2>5. ASSUME NEW k \in 0 .. n PROVE e[k + 1] = g[k][e[k]]
    <3>1. CASE k = n
      BY <2>2, <3>1
    <3>2. CASE k \in 0 .. n - 1
      BY <2>2, <3>2
    <3> QED BY <2>2, <3>1, <3>2
  <2>6. e \in Runs(S, start, g, n + 1)
    <3>1. (n + 1) - 1 = n
      BY <2>2
    <3> HIDE DEF e
    <3> QED BY <2>4, <2>5, <3>1 DEF Runs
  <2> QED BY <2>2, <2>6
<1>3. T = Nat
  <2>1. T \in SUBSET Nat
    OBVIOUS
  <2> HIDE DEF T
  <2> QED BY <1>1, <1>2, <2>1, SetInduction
<1> QED BY <1>3

LEMMA RunsAgree ==
  ASSUME NEW S, NEW start, NEW g
  PROVE  \A k, n, m \in Nat : \A e \in Runs(S, start, g, n), f \in Runs(S, start, g, m) :
           k <= n /\ k <= m => e[k] = f[k]
<1> DEFINE T == {k \in Nat : \A n, m \in Nat :
                   \A e \in Runs(S, start, g, n), f \in Runs(S, start, g, m) :
                     k <= n /\ k <= m => e[k] = f[k]}
<1>1. 0 \in T
  BY DEF Runs
<1>2. ASSUME NEW k \in T PROVE k + 1 \in T
  <2> SUFFICES ASSUME NEW n \in Nat, NEW m \in Nat, NEW e \in Runs(S, start, g, n),
                      NEW f \in Runs(S, start, g, m), k + 1 <= n, k + 1 <= m
               PROVE  e[k + 1] = f[k + 1]
    OBVIOUS
  <2>1. e[k] = f[k]
    OBVIOUS
  <2>2. k \in 0 .. n - 1 /\ k \in 0 .. m - 1
    OBVIOUS
  <2> QED BY <2>1, <2>2 DEF Runs
<1>3. T = Nat
  <2>1. T \in SUBSET Nat
    OBVIOUS
  <2> HIDE DEF T
  <2> QED BY <1>1, <1>2, <2>1, SetInduction
<1> QED BY <1>3

IsRun(f, S, start, g) ==
  f \in [Nat -> S] /\ f[0] = start /\ \A k \in Nat : f[k + 1] = g[k][f[k]]

LEMMA Recursion ==
  ASSUME NEW S, NEW start \in S, NEW g \in [Nat -> [S -> S]]
  PROVE  \E f : IsRun(f, S, start, g)
<1> DEFINE run(k) == CHOOSE f : f \in Runs(S, start, g, k)
           F == [k \in Nat |-> run(k)[k]]
<1>1. \A k \in Nat : run(k) \in Runs(S, start, g, k)
  BY RunsExist
<1> HIDE DEF run
<1>2. \A k \in Nat : run(k)[k] \in S /\ run(k)[0] = start
  BY <1>1 DEF Runs
<1>3. ASSUME NEW k \in Nat PROVE F[k + 1] = g[k][F[k]]
  <2>1. k + 1 \in Nat /\ run(k + 1) \in Runs(S, start, g, k + 1) /\ run(k) \in Runs(S, start, g, k)
    BY <1>1
  <2>2. run(k + 1)[k + 1] = g[k][run(k + 1)[k]]
    <3>1. k \in 0 .. (k + 1) - 1
      OBVIOUS
    <3> QED BY <2>1, <3>1 DEF Runs
  <2>3. run(k + 1)[k] = run(k)[k]
    BY <2>1, RunsAgree
  <2> QED BY <2>1, <2>2, <2>3
<1>4. F \in [Nat -> S] /\ F[0] = start
  BY <1>2
<1> HIDE DEF F
<1>5. IsRun(F, S, start, g)
  BY <1>3, <1>4 DEF IsRun
<1> QED BY <1>5

-----------------------------------------------------------------------------
(* The binary search.                                                      *)

Entries == [name : Names, handle : Handles]
Sorted == \A i, j \in DOMAIN names : i < j => names[i].name < names[j].name

\* The states of the search.
Bounds == [b : 1 .. Len(names) + 1, e : 0 .. Len(names), found : BOOLEAN]

LEMMA RoundType ==
  ASSUME names \in Seq(Entries), NEW nm, NEW s \in Bounds
  PROVE  /\ Round(nm, s) \in Bounds
         /\ ~s.found /\ s.b <= s.e =>
              /\ (s.b + s.e) \div 2 \in s.b .. s.e /\ (s.b + s.e) \div 2 \in 1 .. Len(names)
<1> DEFINE mid == (s.b + s.e) \div 2
<1>1. /\ s.b \in 1 .. Len(names) + 1 /\ s.e \in 0 .. Len(names) /\ s.found \in BOOLEAN
      /\ s = [b |-> s.b, e |-> s.e, found |-> s.found] /\ Len(names) \in Nat
  BY DEF Bounds
<1>2. s.b <= s.e => mid \in s.b .. s.e /\ mid \in 1 .. Len(names)
  BY <1>1
<1>3. CASE s.found \/ s.b > s.e
  BY <1>1, <1>3 DEF Round
<1>4. CASE ~s.found /\ s.b <= s.e
  <2>1. PICK m \in 1 .. Len(names) : m = mid
    BY <1>2, <1>4
  <2>2. \/ Round(nm, s) = [b |-> m, e |-> m, found |-> TRUE]
        \/ Round(nm, s) = [b |-> m + 1, e |-> s.e, found |-> FALSE]
        \/ Round(nm, s) = [b |-> s.b, e |-> m - 1, found |-> FALSE]
    <3>1. [s EXCEPT !.b = m + 1] = [b |-> m + 1, e |-> s.e, found |-> s.found]
      BY <1>1
    <3>2. [s EXCEPT !.e = m - 1] = [b |-> s.b, e |-> m - 1, found |-> s.found]
      BY <1>1
    <3>3. ~(s.b > s.e)
      BY <1>1, <1>4
    <3>4. s.found = FALSE
      BY <1>1, <1>4
    <3> QED BY <1>4, <2>1, <3>1, <3>2, <3>3, <3>4 DEF Round
  <2>3. m \in 1 .. Len(names) + 1 /\ m \in 0 .. Len(names)
        /\ m + 1 \in 1 .. Len(names) + 1 /\ m - 1 \in 0 .. Len(names)
    BY <1>1
  <2>4. Round(nm, s) \in Bounds
    <3>1. /\ [b |-> m, e |-> m, found |-> TRUE] \in Bounds
          /\ [b |-> m + 1, e |-> s.e, found |-> FALSE] \in Bounds
          /\ [b |-> s.b, e |-> m - 1, found |-> FALSE] \in Bounds
      BY <1>1, <2>3 DEF Bounds
    <3> QED BY <2>2, <3>1
  <2> QED BY <1>2, <2>4
<1> QED BY <1>1, <1>2, <1>3, <1>4

LEMMA RoundsDef ==
  ASSUME names \in Seq(Entries), NEW nm
  PROVE  /\ Rounds(nm)[0] = [b |-> 1, e |-> Len(names), found |-> FALSE]
         /\ \A k \in Nat : Rounds(nm)[k] \in Bounds /\ Rounds(nm)[k + 1] = Round(nm, Rounds(nm)[k])
<1> DEFINE start == [b |-> 1, e |-> Len(names), found |-> FALSE]
           g == [k \in Nat |-> [s \in Bounds |-> Round(nm, s)]]
<1>1. start \in Bounds
  BY DEF Bounds
<1>2. g \in [Nat -> [Bounds -> Bounds]]
  BY RoundType
<1> HIDE DEF start
<1>3. PICK f \in [Nat -> Bounds] : f[0] = start /\ \A k \in Nat : f[k + 1] = g[k][f[k]]
  <2>1. PICK S, a, w : S = Bounds /\ a = start /\ w = g
    OBVIOUS
  <2>2. a \in S /\ w \in [Nat -> [S -> S]]
    BY <1>1, <1>2, <2>1
  <2>3. \E f : IsRun(f, S, a, w)
    BY <2>2, Recursion
  <2> HIDE DEF g
  <2> QED BY <2>1, <2>3 DEF IsRun
<1>4. \A k \in Nat : f[k + 1] = Round(nm, f[k])
  BY <1>3
<1>5. f = [k \in Nat |-> IF k = 0 THEN start ELSE Round(nm, f[k - 1])]
  <2>1. ASSUME NEW k \in Nat, k # 0 PROVE f[k] = Round(nm, f[k - 1])
    <3>1. k - 1 \in Nat /\ (k - 1) + 1 = k
      BY <2>1
    <3> QED BY <1>4, <3>1
  <2> QED BY <1>3, <2>1
<1>6. Rounds(nm) = [k \in Nat |-> IF k = 0 THEN start ELSE Round(nm, Rounds(nm)[k - 1])]
  BY <1>5 DEF Rounds, start
<1>7. Rounds(nm)[0] = start
  BY <1>6
<1>8. ASSUME NEW k \in Nat PROVE Rounds(nm)[k + 1] = Round(nm, Rounds(nm)[k])
  <2>1. k + 1 \in Nat /\ k + 1 # 0 /\ (k + 1) - 1 = k
    OBVIOUS
  <2>2. Rounds(nm)[k + 1] = Round(nm, Rounds(nm)[(k + 1) - 1])
    BY <1>6, <2>1
  <2> QED BY <2>1, <2>2
<1>9. \A k \in Nat : Rounds(nm)[k] \in Bounds
  <2> DEFINE T == {k \in Nat : Rounds(nm)[k] \in Bounds}
  <2>1. 0 \in T
    BY <1>1, <1>7
  <2>2. ASSUME NEW k \in T PROVE k + 1 \in T
    <3>1. k \in Nat /\ k + 1 \in Nat /\ Rounds(nm)[k] \in Bounds
      OBVIOUS
    <3>2. Round(nm, Rounds(nm)[k]) \in Bounds
      BY <3>1, RoundType
    <3> QED BY <1>8, <3>1, <3>2
  <2>3. T \in SUBSET Nat
    OBVIOUS
  <2> HIDE DEF T
  <2>4. T = Nat
    BY <2>1, <2>2, <2>3, SetInduction
  <2> QED BY <2>4 DEF T
<1> QED BY <1>7, <1>8, <1>9 DEF start

\* After k rounds: found, or everything outside the bounds is settled and the bounds
\* have come together by k.
Narrowed(nm, k, s) ==
  /\ s.found => s.b \in 1 .. Len(names) /\ names[s.b].name = nm
  /\ ~s.found =>
       /\ s.b <= s.e + 1 /\ (s.e < s.b \/ s.e - s.b + 1 <= Len(names) - k)
       /\ \A i \in 1 .. Len(names) : /\ i < s.b => names[i].name < nm
                                     /\ s.e < i => nm < names[i].name

LEMMA NamesAreInts ==
  ASSUME names \in Seq(Entries)
  PROVE  /\ Len(names) \in Nat /\ DOMAIN names = 1 .. Len(names)
         /\ \A i \in 1 .. Len(names) : names[i] \in Entries /\ names[i].name \in Int
<1>1. /\ Len(names) \in Nat /\ DOMAIN names = 1 .. Len(names)
      /\ \A i \in 1 .. Len(names) : names[i] \in Entries
  OBVIOUS
<1>2. \A p \in Entries : p.name \in Int
  BY TableAssumption DEF Entries
<1> QED BY <1>1, <1>2

LEMMA Halves ==
  ASSUME NEW b \in Int, NEW e \in Int, NEW m \in Int, NEW l \in Int, NEW k \in Int,
         b <= m, m <= e, e - b + 1 <= l - k
  PROVE  /\ m + 1 <= e + 1 /\ e - (m + 1) + 1 <= l - (k + 1)
         /\ b <= (m - 1) + 1 /\ (m - 1) - b + 1 <= l - (k + 1)
OBVIOUS

LEMMA RoundNarrows ==
  ASSUME names \in Seq(Entries), Sorted, NEW nm \in Names, NEW k \in Nat, NEW s \in Bounds,
         Narrowed(nm, k, s)
  PROVE  Narrowed(nm, k + 1, Round(nm, s))
<1>1. /\ Len(names) \in Nat /\ DOMAIN names = 1 .. Len(names) /\ nm \in Int
      /\ \A i \in 1 .. Len(names) : names[i].name \in Int
  BY NamesAreInts, TableAssumption
<1>2. s.b \in 1 .. Len(names) + 1 /\ s.e \in 0 .. Len(names) /\ s.found \in BOOLEAN
  BY DEF Bounds
<1>3. CASE s.found
  BY <1>3 DEF Round, Narrowed
<1>4. CASE ~s.found /\ s.e < s.b
  <2>1. Round(nm, s) = s
    BY <1>2, <1>4 DEF Round
  <2> QED BY <1>4, <2>1 DEF Narrowed
<1>5. CASE ~s.found /\ s.b <= s.e
  <2>1. PICK m \in 1 .. Len(names) : m = (s.b + s.e) \div 2 /\ m \in s.b .. s.e
    BY <1>5, RoundType
  <2>2. ~(s.b > s.e) /\ ~s.found
    BY <1>2, <1>5
  <2>3. s.e - s.b + 1 <= Len(names) - k
    BY <1>2, <1>5 DEF Narrowed
  <2>4. /\ m + 1 <= s.e + 1 /\ s.e - (m + 1) + 1 <= Len(names) - (k + 1)
        /\ s.b <= (m - 1) + 1 /\ (m - 1) - s.b + 1 <= Len(names) - (k + 1)
    <3>1. /\ s.b \in Int /\ s.e \in Int /\ m \in Int /\ Len(names) \in Int /\ k \in Int
          /\ s.b <= m /\ m <= s.e
      BY <1>1, <1>2, <2>1
    <3> QED BY <2>3, <3>1, Halves
  <2>5. CASE names[m].name = nm
    <3>1. Round(nm, s) = [b |-> m, e |-> m, found |-> TRUE]
      BY <2>1, <2>2, <2>5 DEF Round
    <3> QED BY <2>1, <2>5, <3>1 DEF Narrowed
  <2>6. CASE names[m].name < nm
    <3>1. Round(nm, s) = [s EXCEPT !.b = m + 1]
      BY <1>1, <2>1, <2>2, <2>6 DEF Round
    <3>2. PICK r : r = Round(nm, s)
      OBVIOUS
    <3>3. r.b = m + 1 /\ r.e = s.e /\ r.found = s.found
      BY <3>1, <3>2 DEF Bounds
    <3>4. ASSUME NEW i \in 1 .. Len(names), i < m + 1 PROVE names[i].name < nm
      <4>1. CASE i = m
        BY <2>6, <4>1
      <4>2. CASE i < m
        <5>1. names[i].name < names[m].name
          BY <1>1, <4>2 DEF Sorted
        <5> QED BY <1>1, <2>6, <5>1
      <4> QED BY <3>4, <4>1, <4>2
    <3>5. \A i \in 1 .. Len(names) : s.e < i => nm < names[i].name
      BY <1>5 DEF Narrowed
    <3>6. m + 1 <= s.e + 1 /\ (s.e < m + 1 \/ s.e - (m + 1) + 1 <= Len(names) - (k + 1))
      BY <2>4
    <3>7. Narrowed(nm, k + 1, r)
      BY <2>2, <3>3, <3>4, <3>5, <3>6 DEF Narrowed
    <3> QED BY <3>2, <3>7
  <2>7. CASE nm < names[m].name
    <3>1. Round(nm, s) = [s EXCEPT !.e = m - 1]
      BY <1>1, <2>1, <2>2, <2>7 DEF Round
    <3>2. PICK r : r = Round(nm, s)
      OBVIOUS
    <3>3. r.b = s.b /\ r.e = m - 1 /\ r.found = s.found
      BY <3>1, <3>2 DEF Bounds
    <3>4. ASSUME NEW i \in 1 .. Len(names), m - 1 < i PROVE nm < names[i].name
      <4>1. CASE i = m
        BY <2>7, <4>1
      <4>2. CASE m < i
        <5>1. names[m].name < names[i].name
          BY <1>1, <4>2 DEF Sorted
        <5> QED BY <1>1, <2>7, <5>1
      <4> QED BY <3>4, <4>1, <4>2
    <3>5. \A i \in 1 .. Len(names) : i < s.b => names[i].name < nm
      BY <1>5 DEF Narrowed
    <3>6. s.b <= (m - 1) + 1 /\ (m - 1 < s.b \/ (m - 1) - s.b + 1 <= Len(names) - (k + 1))
      BY <2>4
    <3>7. Narrowed(nm, k + 1, r)
      BY <2>2, <3>3, <3>4, <3>5, <3>6 DEF Narrowed
    <3> QED BY <3>2, <3>7
  <2> QED BY <1>1, <2>5, <2>6, <2>7
<1> QED BY <1>2, <1>3, <1>4, <1>5

\* The search finds a name that is there, and else the place where it belongs.
LEMMA SearchEnds ==
  ASSUME names \in Seq(Entries), Sorted, NEW nm \in Names
  PROVE  /\ Search(nm).found \in BOOLEAN
         /\ Search(nm).found =>
              Search(nm).b \in 1 .. Len(names) /\ names[Search(nm).b].name = nm
         /\ ~Search(nm).found =>
              /\ Search(nm).b \in 1 .. Len(names) + 1
              /\ \A i \in 1 .. Len(names) : IF i < Search(nm).b THEN names[i].name < nm
                                                                ELSE nm < names[i].name
<1> DEFINE T == {k \in Nat : Narrowed(nm, k, Rounds(nm)[k])}
<1>1. Len(names) \in Nat
  BY NamesAreInts
<1>2. 0 \in T
  BY <1>1, RoundsDef DEF Narrowed
<1>3. ASSUME NEW k \in T PROVE k + 1 \in T
  <2>1. /\ k \in Nat /\ k + 1 \in Nat /\ Rounds(nm)[k] \in Bounds
        /\ Rounds(nm)[k + 1] = Round(nm, Rounds(nm)[k]) /\ Narrowed(nm, k, Rounds(nm)[k])
    BY RoundsDef
  <2>2. Narrowed(nm, k + 1, Round(nm, Rounds(nm)[k]))
    BY <2>1, RoundNarrows
  <2> QED BY <2>1, <2>2
<1>4. T \in SUBSET Nat
  OBVIOUS
<1> HIDE DEF T
<1>5. T = Nat
  BY <1>2, <1>3, <1>4, SetInduction
<1>6. PICK s : s = Search(nm)
  OBVIOUS
<1>7. Narrowed(nm, Len(names), s) /\ s \in Bounds
  BY <1>1, <1>5, <1>6, RoundsDef DEF T, Search
<1>8. s.b \in 1 .. Len(names) + 1 /\ s.e \in 0 .. Len(names) /\ s.found \in BOOLEAN
  BY <1>7 DEF Bounds
<1>9. ~s.found => s.b = s.e + 1
  BY <1>1, <1>7, <1>8 DEF Narrowed
<1>10. ASSUME ~s.found, NEW i \in 1 .. Len(names)
       PROVE  IF i < s.b THEN names[i].name < nm ELSE nm < names[i].name
  BY <1>1, <1>7, <1>8, <1>9, <1>10 DEF Narrowed
<1>11. s.found => s.b \in 1 .. Len(names) /\ names[s.b].name = nm
  BY <1>7 DEF Narrowed
<1> QED BY <1>6, <1>8, <1>10, <1>11

-----------------------------------------------------------------------------
(* The array of names changes.                                             *)

\* The loop of skynet_handle_retire that closes the gaps.
LEMMA KeepDef ==
  ASSUME names \in Seq(Entries), NEW h
  PROVE  /\ Keep(h)[0] = <<>>
         /\ \A k \in 0 .. Len(names) - 1 :
              Keep(h)[k + 1] = IF names[k + 1].handle = h THEN Keep(h)[k]
                               ELSE Append(Keep(h)[k], names[k + 1])
<1> DEFINE n == Len(names)
           S == Seq(Entries)
           next(k, s) == IF k + 1 \in 1 .. n /\ names[k + 1].handle # h
                         THEN Append(s, names[k + 1]) ELSE s
           g == [k \in Nat |-> [s \in S |-> next(k, s)]]
<1>1. n \in Nat /\ \A i \in 1 .. n : names[i] \in Entries
  BY NamesAreInts
<1>2. \A k \in Nat : \A s \in S : next(k, s) \in S
  BY <1>1
<1> HIDE DEF next
<1>3. g \in [Nat -> [S -> S]]
  BY <1>2
<1>4. <<>> \in S
  OBVIOUS
<1>5. PICK f : IsRun(f, S, <<>>, g)
  <2> HIDE DEF g, S
  <2> QED BY <1>3, <1>4, Recursion
<1>6. f \in [Nat -> S] /\ f[0] = <<>> /\ \A k \in Nat : f[k + 1] = next(k, f[k])
  BY <1>5 DEF IsRun
<1> DEFINE F == [i \in 0 .. n |-> f[i]]
<1>7. F = [i \in 0 .. Len(names) |->
             IF i = 0 THEN <<>>
             ELSE IF names[i].handle = h THEN F[i - 1] ELSE Append(F[i - 1], names[i])]
  <2>1. ASSUME NEW i \in 0 .. n, i # 0
        PROVE  F[i] = IF names[i].handle = h THEN F[i - 1] ELSE Append(F[i - 1], names[i])
    <3>1. i - 1 \in Nat /\ (i - 1) + 1 = i /\ i \in 1 .. n /\ i - 1 \in 0 .. n
      BY <1>1, <2>1
    <3>2. f[i] = next(i - 1, f[i - 1])
      BY <1>6, <3>1
    <3> QED BY <3>1, <3>2 DEF next
  <2>2. F[0] = <<>>
    BY <1>1, <1>6
  <2> HIDE DEF F
  <2>3. F = [i \in 0 .. n |-> F[i]]
    BY DEF F
  <2> QED BY <2>1, <2>2, <2>3
<1> HIDE DEF F
<1>8. Keep(h) = [i \in 0 .. Len(names) |->
                  IF i = 0 THEN <<>>
                  ELSE IF names[i].handle = h THEN Keep(h)[i - 1]
                       ELSE Append(Keep(h)[i - 1], names[i])]
  BY <1>7 DEF Keep
<1>9. Keep(h)[0] = <<>>
  BY <1>1, <1>8
<1>10. ASSUME NEW k \in 0 .. Len(names) - 1
       PROVE  Keep(h)[k + 1] = IF names[k + 1].handle = h THEN Keep(h)[k]
                               ELSE Append(Keep(h)[k], names[k + 1])
  <2>1. k + 1 \in 0 .. Len(names) /\ k + 1 # 0 /\ (k + 1) - 1 = k
    BY <1>1
  <2>2. Keep(h)[k + 1] = IF names[k + 1].handle = h THEN Keep(h)[(k + 1) - 1]
                         ELSE Append(Keep(h)[(k + 1) - 1], names[k + 1])
    BY <1>8, <2>1
  <2> QED BY <2>1, <2>2
<1> QED BY <1>9, <1>10

SortedSeq(q) == \A i, j \in 1 .. Len(q) : i < j => q[i].name < q[j].name

\* What was kept after k rounds: the first k names but those of h, in order.
KeptFrom(q, k, h) ==
  /\ q \in Seq(Entries) /\ SortedSeq(q)
  /\ \A j \in 1 .. Len(q) : q[j].handle # h /\ \E i \in 1 .. k : q[j] = names[i]

LEMMA RetireNames ==
  ASSUME names \in Seq(Entries), Sorted, NEW h
  PROVE  KeptFrom(Keep(h)[Len(names)], Len(names), h)
<1> DEFINE T == {k \in Nat : k <= Len(names) => KeptFrom(Keep(h)[k], k, h)}
<1>1. /\ Len(names) \in Nat /\ DOMAIN names = 1 .. Len(names)
      /\ \A i \in 1 .. Len(names) : names[i] \in Entries /\ names[i].name \in Int
  BY NamesAreInts
<1>2. 0 \in T
  <2>1. Keep(h)[0] = <<>>
    BY KeepDef
  <2>2. <<>> \in Seq(Entries) /\ Len(<<>>) = 0 /\ 1 .. 0 = {}
    OBVIOUS
  <2>3. KeptFrom(<<>>, 0, h)
    BY <2>2 DEF KeptFrom, SortedSeq
  <2> QED BY <2>1, <2>3
<1>3. ASSUME NEW k \in Nat, k + 1 <= Len(names), KeptFrom(Keep(h)[k], k, h)
      PROVE  KeptFrom(Keep(h)[k + 1], k + 1, h)
  <2>1. PICK q : q = Keep(h)[k]
    OBVIOUS
  <2>2. k \in 0 .. Len(names) - 1 /\ k + 1 \in 1 .. Len(names)
    BY <1>1, <1>3
  <2>3. /\ q \in Seq(Entries) /\ SortedSeq(q)
        /\ \A j \in 1 .. Len(q) : q[j].handle # h /\ \E i \in 1 .. k : q[j] = names[i]
    BY <1>3, <2>1 DEF KeptFrom
  <2>4. CASE names[k + 1].handle = h
    <3>1. Keep(h)[k + 1] = q
      BY <2>1, <2>2, <2>4, KeepDef
    <3>2. \A j \in 1 .. Len(q) : \E i \in 1 .. k + 1 : q[j] = names[i]
      BY <2>3
    <3> QED BY <2>3, <3>1, <3>2 DEF KeptFrom
  <2>5. CASE names[k + 1].handle # h
    <3>1. PICK x \in Entries : x = names[k + 1]
      BY <1>1, <2>2
    <3>2. PICK r : r = Append(q, x)
      OBVIOUS
    <3>3. Keep(h)[k + 1] = r
      BY <2>1, <2>2, <2>5, <3>1, <3>2, KeepDef
    <3>4. /\ r \in Seq(Entries) /\ Len(r) = Len(q) + 1 /\ r[Len(q) + 1] = x
          /\ \A j \in 1 .. Len(q) : r[j] = q[j]
          /\ Len(q) \in Nat
      BY <2>3, <3>1, <3>2
    <3>5. \A j \in 1 .. Len(q) : q[j].name < x.name
      <4>1. ASSUME NEW j \in 1 .. Len(q) PROVE q[j].name < x.name
        <5>1. PICK i \in 1 .. k : q[j] = names[i]
          BY <2>3
        <5>2. i \in DOMAIN names /\ k + 1 \in DOMAIN names /\ i < k + 1
          BY <1>1, <2>2
        <5> QED BY <3>1, <5>1, <5>2 DEF Sorted
      <4> QED BY <4>1
    <3>6. SortedSeq(r)
      <4> SUFFICES ASSUME NEW i \in 1 .. Len(q) + 1, NEW j \in 1 .. Len(q) + 1, i < j
                   PROVE  r[i].name < r[j].name
        BY <3>4 DEF SortedSeq
      <4>1. CASE j = Len(q) + 1
        BY <3>4, <3>5, <4>1
      <4>2. CASE j \in 1 .. Len(q)
        BY <2>3, <3>4, <4>2 DEF SortedSeq
      <4> QED BY <3>4, <4>1, <4>2
    <3>7. ASSUME NEW j \in 1 .. Len(q) + 1
          PROVE  r[j].handle # h /\ \E i \in 1 .. k + 1 : r[j] = names[i]
      <4>1. CASE j = Len(q) + 1
        BY <2>2, <2>5, <3>1, <3>4, <4>1
      <4>2. CASE j \in 1 .. Len(q)
        BY <2>3, <3>4, <4>2
      <4> QED BY <3>4, <4>1, <4>2
    <3> QED BY <3>3, <3>4, <3>6, <3>7 DEF KeptFrom
  <2> QED BY <2>4, <2>5
<1>4. ASSUME NEW k \in T PROVE k + 1 \in T
  BY <1>1, <1>3
<1>5. T \in SUBSET Nat
  OBVIOUS
<1> HIDE DEF T
<1>6. T = Nat
  BY <1>2, <1>4, <1>5, SetInduction
<1> QED BY <1>1, <1>6 DEF T

\* _insert_name_before at the place where the search ended.
LEMMA InsertName ==
  ASSUME names \in Seq(Entries), Sorted, NEW nm \in Names, NEW h \in Handles, ~Search(nm).found
  PROVE  LET q == InsertAt(names, Place(nm), [name |-> nm, handle |-> h])
         IN q \in Seq(Entries) /\ SortedSeq(q)
<1>1. PICK b : b = Place(nm)
  OBVIOUS
<1>2. /\ b \in 1 .. Len(names) + 1
      /\ \A i \in 1 .. Len(names) : IF i < b THEN names[i].name < nm ELSE nm < names[i].name
  BY <1>1, SearchEnds DEF Place
<1>3. PICK x \in Entries : x = [name |-> nm, handle |-> h]
  BY DEF Entries
<1>4. /\ Len(names) \in Nat /\ DOMAIN names = 1 .. Len(names) /\ nm \in Int
      /\ \A i \in 1 .. Len(names) : names[i] \in Entries /\ names[i].name \in Int
  BY NamesAreInts, TableAssumption
<1>5. PICK q : q = SubSeq(names, 1, b - 1) \o <<x>> \o SubSeq(names, b, Len(names))
  OBVIOUS
<1>6. /\ SubSeq(names, 1, b - 1) \in Seq(Entries) /\ Len(SubSeq(names, 1, b - 1)) = b - 1
      /\ \A i \in 1 .. b - 1 : SubSeq(names, 1, b - 1)[i] = names[i]
  BY <1>2, <1>4
<1>7. /\ SubSeq(names, b, Len(names)) \in Seq(Entries)
      /\ Len(SubSeq(names, b, Len(names))) = Len(names) - b + 1
      /\ \A i \in 1 .. Len(names) - b + 1 : SubSeq(names, b, Len(names))[i] = names[b + i - 1]
  BY <1>2, <1>4
<1>8. PICK l \in Seq(Entries) : l = SubSeq(names, 1, b - 1)
  BY <1>6
<1>9. PICK r \in Seq(Entries) : r = SubSeq(names, b, Len(names))
  BY <1>7
<1>10. q = (l \o <<x>>) \o r
  BY <1>5, <1>8, <1>9
<1>11. /\ l \o <<x>> \in Seq(Entries) /\ Len(l \o <<x>>) = b
       /\ \A i \in 1 .. b : (l \o <<x>>)[i] = IF i < b THEN names[i] ELSE x
  BY <1>2, <1>6, <1>8
<1>12. PICK m \in Seq(Entries) : m = l \o <<x>>
  BY <1>11
<1>13. /\ q \in Seq(Entries) /\ Len(q) = Len(names) + 1
       /\ \A i \in 1 .. Len(names) + 1 : q[i] = IF i <= b THEN m[i] ELSE r[i - b]
  <2>1. Len(m) = b /\ Len(r) = Len(names) - b + 1 /\ q = m \o r
    BY <1>7, <1>9, <1>10, <1>11, <1>12
  <2>2. /\ q \in Seq(Entries) /\ Len(q) = Len(m) + Len(r)
        /\ \A i \in 1 .. Len(m) + Len(r) : q[i] = IF i <= Len(m) THEN m[i] ELSE r[i - Len(m)]
    BY <2>1
  <2>3. Len(m) + Len(r) = Len(names) + 1
    BY <1>2, <1>4, <2>1
  <2> QED BY <2>1, <2>2, <2>3
<1>14. \A i \in 1 .. Len(names) + 1 :
         q[i] = IF i < b THEN names[i] ELSE IF i = b THEN x ELSE names[i - 1]
  <2>1. ASSUME NEW i \in 1 .. Len(names) + 1, i <= b
        PROVE  q[i] = IF i < b THEN names[i] ELSE x
    <3>1. q[i] = m[i]
      BY <1>13, <2>1
    <3>2. i \in 1 .. b
      BY <1>2, <1>4, <2>1
    <3>3. m[i] = IF i < b THEN names[i] ELSE x
      BY <1>11, <1>12, <3>2
    <3> QED BY <3>1, <3>3
  <2>2. ASSUME NEW i \in 1 .. Len(names) + 1, b < i PROVE q[i] = names[i - 1]
    <3>1. i - b \in 1 .. Len(names) - b + 1 /\ b + (i - b) - 1 = i - 1
      BY <1>2, <1>4, <2>2
    <3>2. r[i - b] = names[b + (i - b) - 1]
      BY <1>7, <1>9, <3>1
    <3> QED BY <1>2, <1>4, <1>13, <2>2, <3>1, <3>2
  <2> QED BY <1>2, <1>4, <2>1, <2>2
<1>15. SortedSeq(q)
  <2> SUFFICES ASSUME NEW i \in 1 .. Len(names) + 1, NEW j \in 1 .. Len(names) + 1, i < j
               PROVE  q[i].name < q[j].name
    BY <1>13 DEF SortedSeq
  <2>1. x.name = nm
    BY <1>3
  <2>2. CASE j < b
    <3>1. q[i] = names[i] /\ q[j] = names[j] /\ i \in DOMAIN names /\ j \in DOMAIN names
      BY <1>2, <1>4, <1>14, <2>2
    <3> QED BY <3>1 DEF Sorted
  <2>3. CASE j = b
    BY <1>2, <1>4, <1>14, <2>1, <2>3
  <2>4. CASE b < j /\ i < b
    <3>1. q[i] = names[i] /\ q[j] = names[j - 1] /\ i \in 1 .. Len(names) /\ j - 1 \in 1 .. Len(names)
      BY <1>2, <1>4, <1>14, <2>4
    <3>2. names[i].name < nm /\ nm < names[j - 1].name
      BY <1>2, <1>4, <2>4, <3>1
    <3> QED BY <1>4, <3>1, <3>2
  <2>5. CASE b < j /\ i = b
    <3>1. q[i] = x /\ q[j] = names[j - 1] /\ j - 1 \in 1 .. Len(names)
      BY <1>2, <1>4, <1>14, <2>5
    <3>2. nm < names[j - 1].name
      BY <1>2, <1>4, <2>5, <3>1
    <3> QED BY <2>1, <3>1, <3>2
  <2>6. CASE b < i
    <3>1. q[i] = names[i - 1] /\ q[j] = names[j - 1]
      BY <1>2, <1>4, <1>14, <2>6
    <3>2. i - 1 \in 1 .. Len(names) /\ j - 1 \in 1 .. Len(names) /\ i - 1 < j - 1
      BY <1>2, <1>4, <2>6
    <3> QED BY <1>4, <3>1, <3>2 DEF Sorted
  <2> QED BY <1>2, <1>4, <2>2, <2>3, <2>4, <2>5, <2>6
<1> QED BY <1>1, <1>3, <1>5, <1>13, <1>15 DEF InsertAt

NamesInv == names \in Seq(Entries) /\ Sorted

LEMMA NamesStep ==
  ASSUME NamesInv, [Next]_vars
  PROVE  NamesInv'
<1>1. ASSUME NEW q, names' = q, q \in Seq(Entries), SortedSeq(q) PROVE NamesInv'
  <2>1. DOMAIN q = 1 .. Len(q)
    BY <1>1
  <2> QED BY <1>1, <2>1 DEF NamesInv, Sorted, SortedSeq
<1>2. ASSUME NEW h, Retired(h) PROVE NamesInv'
  <2>1. names' = Keep(h)[Len(names)]
    BY <1>2 DEF Retired
  <2>2. Keep(h)[Len(names)] \in Seq(Entries) /\ SortedSeq(Keep(h)[Len(names)])
    BY RetireNames DEF NamesInv, KeptFrom
  <2> QED BY <1>1, <2>1, <2>2
<1>3. ASSUME NEW h \in Handles, NEW nm \in Names, NameHandle(h, nm) PROVE NamesInv'
  <2>1. PICK q : q = InsertAt(names, Place(nm), [name |-> nm, handle |-> h])
    OBVIOUS
  <2>2. names' = q /\ ~Search(nm).found
    BY <1>3, <2>1 DEF NameHandle
  <2>3. q \in Seq(Entries) /\ SortedSeq(q)
    BY <2>1, <2>2, InsertName DEF NamesInv
  <2> QED BY <1>1, <2>2, <2>3
<1>4. ASSUME names' = names PROVE NamesInv'
  BY <1>4 DEF NamesInv, Sorted
<1>5. ASSUME NEW t \in Launchers, Launch(t) PROVE names' = names
  BY <1>5 DEF Launch, StoreHandle, Register, RegisterExpand
<1>6. ASSUME RetireAll PROVE names' = names \/ Retired(abort.handle)
  BY <1>6 DEF RetireAll, AbortCall, AbortScan, ScanFrom, AbortRetire, AbortPass, AbortReturn
<1>7. CASE UNCHANGED vars
  BY <1>4, <1>7 DEF vars
<1> QED BY <1>2, <1>3, <1>4, <1>5, <1>6, <1>7 DEF Next, Retire

-----------------------------------------------------------------------------
(* The ends of the program in skynet_handle_register.                      *)

LEMMA RehashStep ==
  ASSUME TableInv, RehashCauses, [Next]_vars
  PROVE  RehashCauses'
<1> USE TableAssumption
<1>1. Size \in Nat \ {0} /\ DOMAIN slot = 0 .. Size - 1 /\ index \in 1 .. HandleMask + 1
  BY DivisorBound DEF TableInv, Shape
<1>2. ASSUME failed' = "no" PROVE RehashCauses'
  BY <1>2 DEF RehashCauses, RehashAssert
<1>3. ASSUME NEW at, Dies(at),
             at = "assert64" => Pending \cup strayed # {},
             at = "deref" => /\ index + Size > HandleMask + 1
                             /\ \A i \in DOMAIN slot : slot[i] = NULL => i = 0
      PROVE  RehashCauses'
  <2>1. UNCHANGED <<slot, index, pending, strayed>> /\ failed' = at
    BY <1>3 DEF Dies
  <2>2. Size' = Size /\ Pending' = Pending
    BY <2>1 DEF Size, Pending
  <2> QED BY <1>3, <2>1, <2>2 DEF RehashCauses, RehashAssert
<1>4. ASSUME failed = "no", NEW t \in Launchers, NEW c \in Contexts, RegisterExpand(t, c)
      PROVE  RehashCauses'
  <2>1. CASE Dies("assert59")
    BY <1>3, <2>1
  <2>2. CASE Dies("deref") /\ \E i \in DOMAIN slot : slot[i] = NULL
    <3>1. FreeRounds(slot, Size) = {}
      BY <1>4 DEF RegisterExpand
    <3>2. \A k \in 0 .. Size - 1 : slot[Candidate(k) % Size] # NULL
      BY <3>1 DEF FreeRounds
    <3>3. Divides(Size)
      BY DEF TableInv, Shape
    <3>4. ASSUME NEW i \in 1 .. Size - 1 PROVE slot[i] # NULL
      <4>1. PICK k \in 0 .. Size - 1 : Candidate(k) % Size = i
        BY <1>1, <3>3, ScansRest
      <4> QED BY <3>2, <4>1
    <3>5. index + Size > HandleMask + 1
      <4>1. SUFFICES ASSUME index + Size <= HandleMask + 1 PROVE FALSE
        BY <1>1
      <4>2. PICK i \in 0 .. Size - 1 : slot[i] = NULL
        BY <1>1, <2>2
      <4>3. PICK k \in 0 .. Size - 1 : Candidate(k) % Size = i
        BY <1>1, <3>3, <4>1, ScansAll
      <4> QED BY <3>2, <4>2, <4>3
    <3>6. \A i \in DOMAIN slot : slot[i] = NULL => i = 0
      BY <1>1, <3>4
    <3> QED BY <1>3, <2>2, <3>5, <3>6
  <2>3. CASE /\ Dies("assert64") /\ \A i \in DOMAIN slot : slot[i] # NULL
             /\ \E i, j \in DOMAIN slot : i # j /\ Rehashed(i) = Rehashed(j)
    <3>1. PICK i \in DOMAIN slot, j \in DOMAIN slot : i # j /\ Rehashed(i) = Rehashed(j)
      BY <2>3
    <3>2. Pending \cup strayed # {}
      <4>1. SUFFICES ASSUME Pending \cup strayed = {} PROVE FALSE
        OBVIOUS
      <4>2. \A l \in DOMAIN slot : slot[l] \in Contexts /\ handle[slot[l]] \in Nat
        BY <1>1, <2>3 DEF TableInv, Shape
      <4>3. \A l \in DOMAIN slot : handle[slot[l]] % Size = l
        BY <2>3, <4>1 DEF TableInv, InPlace
      <4>4. \A l \in DOMAIN slot : Rehashed(l) % Size = l
        BY <1>1, <4>2, <4>3, Doubling DEF Rehashed
      <4> QED BY <3>1, <4>4
    <3> QED BY <1>3, <2>3, <3>2
  <2>4. CASE Occupy(t, c, Expanded, 2 * Size)
    BY <1>2, <1>4, <2>4 DEF Occupy
  <2> QED BY <1>4, <2>1, <2>2, <2>3, <2>4 DEF RegisterExpand
<1>5. ASSUME failed = "no", NEW t \in Launchers, NEW c \in Contexts, Register(t, c)
      PROVE  failed' = "no"
  BY <1>5 DEF Register, Occupy
<1>6. ASSUME failed = "no", NEW t \in Launchers, StoreHandle(t) PROVE failed' = "no"
  BY <1>6 DEF StoreHandle
<1>7. ASSUME failed = "no", NEW h \in Handles, Retire(h) \/ \E nm \in Names : NameHandle(h, nm)
      PROVE  failed' = "no"
  BY <1>7 DEF Retire, NameHandle
<1>8. ASSUME failed = "no", RetireAll PROVE failed' = "no"
  BY <1>8 DEF RetireAll, AbortCall, AbortScan, ScanFrom, AbortRetire, AbortPass, AbortReturn
<1>9. CASE UNCHANGED vars
  <2>1. Size' = Size /\ Pending' = Pending /\ UNCHANGED <<slot, index, strayed, failed>>
    BY <1>9 DEF Size, Pending, vars
  <2> QED BY <2>1 DEF RehashCauses, RehashAssert
<1> QED BY <1>2, <1>4, <1>5, <1>6, <1>7, <1>8, <1>9 DEF Next, Launch

-----------------------------------------------------------------------------
(* The theorems.                                                           *)

\* The inductive invariant.
IInv == TableInv /\ NamesInv /\ RehashCauses

\* The table, the passes over it and the array of names stay as the code assumes them,
\* for any number of contexts, threads and names and every power of two as table size.
THEOREM Invariance == Spec => []IInv
<1>1. Init => IInv
  <2> SUFFICES ASSUME Init PROVE IInv
    OBVIOUS
  <2>1. NamesInv
    BY DEF Init, NamesInv, Sorted
  <2>2. RehashCauses
    BY DEF Init, RehashCauses, RehashAssert
  <2> QED BY <2>1, <2>2, InitTable DEF IInv
<1>2. IInv /\ [Next]_vars => IInv'
  BY TableStep, NamesStep, RehashStep DEF IInv
<1> QED BY <1>1, <1>2, PTL DEF Spec

\* skynet_handle_grab finds every launched service that was not retired under its handle,
\* across any number of expansions and wraps, unless it strayed.
THEOREM EveryoneFound == Spec => []Findable
<1>1. IInv => Findable
  <2> SUFFICES ASSUME IInv PROVE Findable
    OBVIOUS
  <2>1. TypeOK
    BY DEF IInv, TableInv, Shape, NamesInv, Entries, TypeOK
  <2>2. ASSUME NEW c \in Slotted \ (Pending \cup strayed)
        PROVE  handle[c] # 0 /\ Grab(handle[c]) = c
    <3>1. c # NULL /\ \E i \in 0 .. Size - 1 : slot[i] = c
      BY SlottedPlace DEF IInv, TableInv
    <3>2. PICK i \in 0 .. Size - 1 : slot[i] = c
      BY <3>1
    <3>3. handle[c] % Size = i /\ handle[c] # 0
      BY <3>1, <3>2 DEF IInv, TableInv, InPlace, Shape
    <3> QED BY <3>1, <3>2, <3>3 DEF Grab
  <2>3. \A t \in Launchers : pending[t] # NoPending /\ pending[t].ctx \notin strayed =>
          slot[pending[t].handle % Size] = pending[t].ctx
    BY DEF IInv, TableInv, Launching
  <2> QED BY <2>1, <2>2, <2>3 DEF Findable
<1> QED BY <1>1, Invariance, PTL

\* When skynet_handle_retireall returns, every service that had its handle when the last
\* pass began is gone, although the table may have doubled under it, unless it strayed.
THEOREM PassIsComplete == Spec => []AbortComplete
<1>1. IInv => AbortComplete
  BY DEF IInv, TableInv, PassSound, AbortComplete
<1> QED BY <1>1, Invariance, PTL

\* skynet_handle_register dies at its second assert only because of a service that has
\* not stored its handle, and at an empty slot only when the scan wrapped, at slot 0.
THEOREM RehashCausesKnown == Spec => []RehashCauses
<1>1. IInv => RehashCauses
  BY DEF IInv
<1> QED BY <1>1, Invariance, PTL

\* The binary search of skynet_handle_findname gives the handle of every name in the
\* array and 0 for every other name.
THEOREM NamesAreSound == Spec => []NamesSound
<1>1. IInv => NamesSound
  <2> SUFFICES ASSUME IInv PROVE NamesSound
    OBVIOUS
  <2>1. names \in Seq(Entries) /\ Sorted
    BY DEF IInv, NamesInv
  <2>2. /\ Len(names) \in Nat /\ DOMAIN names = 1 .. Len(names)
        /\ \A i \in 1 .. Len(names) : names[i] \in Entries /\ names[i].name \in Int
    BY <2>1, NamesAreInts
  <2>3. ToSet(names) = {names[i] : i \in 1 .. Len(names)}
    BY <2>2 DEF ToSet
  <2>4. ASSUME NEW nm \in Names
        PROVE  findname(nm) = IF \E p \in ToSet(names) : p.name = nm
                              THEN (CHOOSE p \in ToSet(names) : p.name = nm).handle ELSE 0
    <3>1. nm \in Int
      BY TableAssumption
    <3>2. CASE Search(nm).found
      <4>1. PICK b \in 1 .. Len(names) : b = Search(nm).b /\ names[b].name = nm
        BY <2>1, <3>2, SearchEnds
      <4>2. names[b] \in ToSet(names)
        BY <2>3
      <4>3. ASSUME NEW p \in ToSet(names), p.name = nm PROVE p = names[b]
        <5>1. PICK i \in 1 .. Len(names) : p = names[i]
          BY <2>3
        <5>2. ~(i < b) /\ ~(b < i)
          BY <2>1, <2>2, <3>1, <4>1, <4>3, <5>1 DEF Sorted
        <5> QED BY <5>1, <5>2
      <4>4. (CHOOSE p \in ToSet(names) : p.name = nm) = names[b]
        BY <4>1, <4>2, <4>3
      <4> QED BY <3>2, <4>1, <4>2, <4>4 DEF findname
    <3>3. CASE ~Search(nm).found
      <4>1. \A i \in 1 .. Len(names) : names[i].name # nm
        BY <2>1, <2>2, <3>1, <3>3, SearchEnds
      <4>2. ~ \E p \in ToSet(names) : p.name = nm
        BY <2>3, <4>1
      <4> QED BY <3>3, <4>2 DEF findname
    <3> QED BY <3>2, <3>3
  <2> QED BY <2>1, <2>4 DEF NamesSound, Sorted
<1> QED BY <1>1, Invariance, PTL

\* A service that is found stays found when another one takes a slot.
LEMMA OccupyFinds ==
  ASSUME TableInv, NEW t \in Launchers, NEW c \in Contexts, CanRegister(t, c),
         NEW tab, NEW n \in Nat \ {0}, tab \in [0 .. n - 1 -> Contexts \cup {NULL}],
         FreeRounds(tab, n) # {}, Occupy(t, c, tab, n),
         NEW h \in Handles, NEW d \in Slotted, handle[d] = h, tab[h % n] = d
  PROVE  Grab(h)' # NULL
<1> USE TableAssumption
<1>1. PICK x : Took(t, c, tab, n, x)
  BY OccupyTakes
<1>2. d # NULL /\ d \in Contexts /\ d # c
  BY SlottedPlace DEF TableInv, CanRegister
<1>3. h % n \in 0 .. n - 1
  <2>1. h \in Int
    BY DEF Handles
  <2> QED BY <2>1, RemainderType
<1>4. h % n # x % n
  BY <1>1, <1>2 DEF Took
<1>5. slot'[h % n] = d /\ DOMAIN slot' = 0 .. n - 1
  BY <1>1, <1>3, <1>4 DEF Took
<1>6. Size' = n
  BY <1>5, TableSize DEF Size
<1>7. handle'[d] = h
  BY <1>1, <1>2 DEF Took, TableInv, Shape
<1> QED BY <1>2, <1>5, <1>6, <1>7 DEF Grab

\* skynet_handle_retire removes the names of the handle under the lock under which it
\* empties the slot, and nothing else takes a service out of the table.
THEOREM NamesGoWithService == Spec => NamesDropped
<1> DEFINE Dropped == \A h \in Handles : Grab(h) # NULL /\ Grab(h)' = NULL
                                           => \A p \in ToSet(names') : p.handle # h
<1>1. IInv /\ [Next]_vars => [Dropped]_vars
  <2> SUFFICES ASSUME IInv, Next, NEW h \in Handles, Grab(h) # NULL, Grab(h)' = NULL
               PROVE  \A p \in ToSet(names') : p.handle # h
    BY DEF Dropped
  <2> USE TableAssumption
  <2>1. TableInv /\ names \in Seq(Entries) /\ Sorted
    BY DEF IInv, NamesInv
  <2>2. Size \in Nat \ {0} /\ DOMAIN slot = 0 .. Size - 1 /\ h \in 1 .. HandleMask
    BY <2>1, DivisorBound DEF TableInv, Shape, Handles
  <2>3. PICK d \in Contexts : d = slot[h % Size]
    BY <2>1, <2>2, GrabFinds
  <2>4. h % Size \in 0 .. Size - 1 /\ d # NULL /\ d \notin Pending /\ handle[d] = h /\ d \in Slotted
    <3>1. h % Size \in 0 .. Size - 1 /\ d # NULL /\ d \notin Pending /\ handle[d] = h
      BY <2>1, <2>2, <2>3, GrabFinds
    <3> QED BY <2>2, <2>3, <3>1 DEF Slotted
  <2>5. ASSUME slot' = slot, handle'[d] = handle[d] PROVE FALSE
    <3>1. Size' = Size
      BY <2>5 DEF Size
    <3> QED BY <2>3, <2>4, <2>5, <3>1 DEF Grab
  <2>6. ASSUME NEW t \in Launchers, StoreHandle(t) PROVE FALSE
    <3>1. pending[t].ctx # d
      BY <2>4 DEF Pending
    <3>2. slot' = slot /\ handle' = [handle EXCEPT ![pending[t].ctx] = pending[t].handle]
      BY <2>6 DEF StoreHandle
    <3> QED BY <2>1, <2>5, <3>1, <3>2 DEF TableInv, Shape
  <2>7. ASSUME NEW t \in Launchers, NEW c \in Contexts, Register(t, c) PROVE FALSE
    <3>1. slot \in [0 .. Size - 1 -> Contexts \cup {NULL}]
      BY <2>1 DEF TableInv, Shape
    <3>2. CanRegister(t, c) /\ FreeRounds(slot, Size) # {} /\ Occupy(t, c, slot, Size)
      BY <2>7 DEF Register
    <3> QED BY <2>1, <2>2, <2>3, <2>4, <3>1, <3>2, OccupyFinds
  <2>8. ASSUME NEW t \in Launchers, NEW c \in Contexts, RegisterExpand(t, c) PROVE FALSE
    <3>1. CASE \E at \in {"deref", "assert59", "assert64"} : Dies(at)
      BY <2>5, <3>1 DEF Dies
    <3>2. CASE CanDouble /\ Occupy(t, c, Expanded, 2 * Size)
      <4>1. PICK N \in Nat \ {0} : N = 2 * Size
        BY <2>2
      <4>2. Expanded \in [0 .. N - 1 -> Contexts \cup {NULL}]
        BY <2>1, <3>2, <4>1, ExpandedTable
      <4>3. Expanded[h % N] = d
        <5>1. Rehashed(h % Size) = h % N
          BY <2>3, <2>4, <4>1 DEF Rehashed
        <5>2. Expanded[Rehashed(h % Size)] = slot[h % Size]
          BY <2>1, <2>2, <2>4, <3>2, ExpandedTable
        <5> QED BY <2>3, <5>1, <5>2
      <4>4. FreeRounds(Expanded, N) # {} /\ CanRegister(t, c) /\ Occupy(t, c, Expanded, N)
        BY <2>1, <2>8, <3>2, <4>1, FreeDoubled DEF RegisterExpand
      <4> QED BY <2>1, <2>4, <4>2, <4>3, <4>4, OccupyFinds
    <3> QED BY <2>8, <3>1, <3>2 DEF RegisterExpand, CanDouble
  <2>9. ASSUME NEW g \in 1 .. HandleMask, Grab(g) # NULL, Retired(g)
        PROVE  \A p \in ToSet(names') : p.handle # h
    <3>1. /\ g % Size \in 0 .. Size - 1 /\ slot[g % Size] \in Contexts
          /\ handle[slot[g % Size]] = g
      BY <2>1, <2>9, GrabFinds
    <3>2. CASE g = h
      <4>1. PICK q : q = Keep(h)[Len(names)]
        OBVIOUS
      <4>2. names' = q /\ KeptFrom(q, Len(names), h)
        BY <2>1, <2>9, <3>2, <4>1, RetireNames DEF Retired
      <4>3. ToSet(q) = {q[i] : i \in 1 .. Len(q)}
        BY <4>2 DEF KeptFrom, ToSet
      <4> QED BY <4>2, <4>3 DEF KeptFrom
    <3>3. CASE g # h
      <4>1. g % Size # h % Size /\ slot[g % Size] # d
        BY <2>3, <2>4, <3>1, <3>3
      <4>2. /\ slot' = [slot EXCEPT ![g % Size] = NULL]
            /\ handle' = [handle EXCEPT ![slot[g % Size]] = 0]
        BY <2>9 DEF Retired
      <4>3. DOMAIN slot' = DOMAIN slot /\ slot'[h % Size] = d /\ handle'[d] = h
        BY <2>1, <2>2, <2>3, <2>4, <4>1, <4>2 DEF TableInv, Shape
      <4>4. Size' = Size
        BY <4>3 DEF Size
      <4> QED BY <2>4, <4>3, <4>4 DEF Grab
    <3> QED BY <3>2, <3>3
  <2>10. ASSUME RetireAll PROVE \A p \in ToSet(names') : p.handle # h
    <3>1. CASE AbortRetire /\ Grab(abort.handle) # NULL
      <4>1. abort.handle \in 0 .. HandleMask /\ abort.handle # 0 /\ Retired(abort.handle)
        BY <2>1, <3>1 DEF AbortRetire, TableInv, Shape, PassSound
      <4>2. abort.handle \in 1 .. HandleMask
        BY <4>1
      <4> QED BY <2>9, <3>1, <4>1, <4>2
    <3>2. CASE slot' = slot /\ handle' = handle
      BY <2>5, <3>2
    <3> QED BY <2>10, <3>1, <3>2
            DEF RetireAll, AbortCall, AbortScan, ScanFrom, AbortRetire, AbortPass, AbortReturn
  <2>11. ASSUME NEW g \in Handles, Retire(g) PROVE \A p \in ToSet(names') : p.handle # h
    BY <2>9, <2>11 DEF Retire, Handles
  <2>12. ASSUME NEW g \in Handles, NEW nm \in Names, NameHandle(g, nm) PROVE FALSE
    BY <2>5, <2>12 DEF NameHandle
  <2> QED BY <2>6, <2>7, <2>8, <2>10, <2>11, <2>12 DEF Next, Launch
<1>2. Spec => [][Dropped]_vars
  <2>1. Spec => [][Next]_vars
    BY PTL DEF Spec
  <2> HIDE DEF Dropped
  <2> QED BY <1>1, <2>1, Invariance, PTL
<1> QED BY <1>2 DEF NamesDropped

-----------------------------------------------------------------------------
(* The lock of the table.                                                  *)

\* The inductive invariant.  write = 1 is the writer's own flag, so no one else
\* gets past WSet; and a reader enters only while write = 0, that is, while no
\* thread is waiting to write or writing.
WriterFlag ==
  /\ write = 0 => \A t \in Threads : pc[t] \notin {"wwait", "writing"}
  /\ \A t, u \in Threads :
       pc[t] \in {"wwait", "writing"} /\ pc[u] \in {"wwait", "writing"} => t = u

LockInv == LockTypeOK /\ ReadCount /\ WriterFlag /\ Exclusion

\* Readers is finite: its cardinality is a natural number.
LEMMA ReadersFinite == IsFiniteSet(Readers) /\ Cardinality(Readers) \in Nat
BY ThreadsAssumption, FS_Subset, FS_CardinalityType DEF Readers

\* A thread that starts to be counted by lock->read adds one to Readers.
LEMMA ReaderEnters ==
  ASSUME NEW t \in Threads, pc \in [Threads -> PC], NEW l \in PC,
         pc[t] \notin Counted, l \in Counted, pc' = [pc EXCEPT ![t] = l]
  PROVE  Cardinality(Readers') = Cardinality(Readers) + 1
<1>1. Readers' = Readers \cup {t} /\ t \notin Readers
  BY DEF Readers
<1> QED BY <1>1, ReadersFinite, FS_AddElement

\* A thread that stops to be counted takes one away.
LEMMA ReaderLeaves ==
  ASSUME NEW t \in Threads, pc \in [Threads -> PC], NEW l \in PC,
         pc[t] \in Counted, l \notin Counted, pc' = [pc EXCEPT ![t] = l]
  PROVE  Cardinality(Readers') = Cardinality(Readers) - 1
<1>1. Readers' = Readers \ {t} /\ t \in Readers
  BY DEF Readers
<1> QED BY <1>1, ReadersFinite, FS_RemoveElement

\* Any other move leaves Readers as it is.
LEMMA ReadersSame ==
  ASSUME NEW t \in Threads, pc \in [Threads -> PC], NEW l \in PC,
         pc[t] \in Counted <=> l \in Counted, pc' = [pc EXCEPT ![t] = l]
  PROVE  Readers' = Readers
BY DEF Readers

\* Every reachable state satisfies the invariant.
THEOREM LockInvariance == LockSpec => []LockInv
<1>1. LockInit => LockInv
  <2> SUFFICES ASSUME LockInit PROVE LockInv
    OBVIOUS
  <2>1. Readers = {}
    BY DEF LockInit, Readers, Counted
  <2>2. Cardinality(Readers) = 0
    BY <2>1, FS_EmptySet
  <2> QED BY <2>2 DEF LockInit, LockInv, LockTypeOK, ReadCount, WriterFlag, Exclusion, PC
<1>2. LockInv /\ [LockNext]_lockvars => LockInv'
  <2> SUFFICES ASSUME LockInv, [LockNext]_lockvars PROVE LockInv'
    OBVIOUS
  <2> USE DEF LockInv, Move
  <2>0. Cardinality(Readers) \in Nat /\ read = Cardinality(Readers) /\ pc \in [Threads -> PC]
    BY ReadersFinite DEF ReadCount, LockTypeOK
  <2>1. ASSUME NEW t \in Threads, RLock(t) \/ WLock(t) \/ RSpin(t) \/ RTest(t) \/ WSet(t)
                                   \/ WWait(t) \/ WUnlock(t)
        PROVE  ReadCount'
    <3>1. PICK l \in PC : pc' = [pc EXCEPT ![t] = l] /\ (pc[t] \in Counted <=> l \in Counted)
      BY <2>1 DEF RLock, WLock, RSpin, RTest, WSet, WWait, WUnlock, Counted, PC
    <3>2. Readers' = Readers
      BY <3>1, <2>0, ReadersSame
    <3>3. read' = read
      BY <2>1 DEF RLock, WLock, RSpin, RTest, WSet, WWait, WUnlock
    <3> QED BY <3>2, <3>3 DEF ReadCount
  <2>2. ASSUME NEW t \in Threads, RInc(t)
        PROVE  ReadCount' /\ read' \in Nat
    <3>1. Cardinality(Readers') = Cardinality(Readers) + 1
      BY <2>2, <2>0, ReaderEnters DEF RInc, Counted, PC
    <3> QED BY <3>1, <2>2, <2>0 DEF ReadCount, RInc
  <2>3. ASSUME NEW t \in Threads, RBack(t) \/ RUnlock(t)
        PROVE  ReadCount' /\ read' \in Nat
    <3>1. PICK l \in {"rspin", "idle"} :
            pc[t] \in Counted /\ pc' = [pc EXCEPT ![t] = l]
      BY <2>3 DEF RBack, RUnlock, Counted
    <3>2. Cardinality(Readers') = Cardinality(Readers) - 1
      BY <3>1, <2>0, ReaderLeaves DEF Counted, PC
    <3>3. t \in Readers
      BY <3>1 DEF Readers
    <3>4. Cardinality(Readers) # 0
      BY <3>3, ReadersFinite, FS_EmptySet
    <3> QED BY <3>2, <3>4, <2>3, <2>0 DEF ReadCount, RBack, RUnlock
  <2>4. ASSUME NEW t \in Threads, RLock(t) \/ RSpin(t) \/ RTest(t) \/ WLock(t)
        PROVE  LockInv'
    BY <2>4, <2>1 DEF RLock, RSpin, RTest, WLock, LockTypeOK, PC, WriterFlag, Exclusion
  <2>5. ASSUME NEW t \in Threads, RInc(t) \/ RBack(t) \/ RUnlock(t)
        PROVE  LockInv'
    BY <2>5, <2>2, <2>3 DEF RInc, RBack, RUnlock, LockTypeOK, PC, WriterFlag, Exclusion
  <2>6. ASSUME NEW t \in Threads, WSet(t)
        PROVE  LockInv'
    <3>1. LockTypeOK'
      BY <2>6 DEF WSet, LockTypeOK, PC
    <3>2. write = 0 /\ write' = 1 /\ pc' = [pc EXCEPT ![t] = "wwait"]
      BY <2>6 DEF WSet
    <3>3. \A u \in Threads : pc[u] \notin {"wwait", "writing"}
      BY <3>2 DEF WriterFlag
    <3>4. WriterFlag' /\ Exclusion'
      BY <3>2, <3>3, <2>0 DEF WriterFlag, Exclusion
    <3> QED BY <3>1, <3>4, <2>6, <2>1
  <2>7. ASSUME NEW t \in Threads, WWait(t)
        PROVE  LockInv'
    <3>1. Readers = {}
      BY <2>7, <2>0, ReadersFinite, FS_EmptySet DEF WWait
    <3>2. \A u \in Threads : pc[u] # "reading"
      BY <3>1 DEF Readers, Counted
    <3> QED BY <2>7, <2>1, <3>2 DEF WWait, LockTypeOK, PC, WriterFlag, Exclusion
  <2>8. ASSUME NEW t \in Threads, WUnlock(t)
        PROVE  LockInv'
    BY <2>8, <2>1 DEF WUnlock, LockTypeOK, PC, WriterFlag, Exclusion
  <2>9. CASE UNCHANGED lockvars
    BY <2>9 DEF lockvars, LockTypeOK, ReadCount, Readers, WriterFlag, Exclusion
  <2> QED BY <2>4, <2>5, <2>6, <2>7, <2>8, <2>9 DEF LockNext, ReadStep, WriteStep
<1> QED BY <1>1, <1>2, PTL DEF LockSpec

\* A writer of the handle table is alone in it, whatever the threads do.
THEOREM MutualExclusion == LockSpec => []Exclusion
<1>1. LockInv => Exclusion
  BY DEF LockInv
<1> QED BY <1>1, LockInvariance, PTL

\* lock->read is the number of threads that incremented it.
THEOREM ReadCountExact == LockSpec => []ReadCount
<1>1. LockInv => ReadCount
  BY DEF LockInv
<1> QED BY <1>1, LockInvariance, PTL

\* write is 0 or 1 and lock->read is never negative: no decrement is lost or
\* done twice.
THEOREM LockTypeCorrect == LockSpec => []LockTypeOK
<1>1. LockInv => LockTypeOK
  BY DEF LockInv
<1> QED BY <1>1, LockInvariance, PTL
=============================================================================
