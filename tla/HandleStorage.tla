--------------------------- MODULE HandleStorage ---------------------------
(***************************************************************************)
(* The handle table of skynet_handle.c: allocation of handles by scanning  *)
(* an open table that doubles when it is full, retirement, the sorted      *)
(* array of names, and skynet_handle_retireall.                            *)
(*                                                                         *)
(* Every critical section under the rwlock is one step.  A launch takes    *)
(* two: skynet_handle_register puts the context in its slot, and only then *)
(* skynet_context_new stores the result in ctx->handle, outside the lock.  *)
(* The harbor bits are the same in all handles of a node and are left out. *)
(***************************************************************************)
EXTENDS Integers, Sequences, FiniteSets, SequencesExt

CONSTANTS
  Contexts,    \* context objects, launched again after they are retired
  Launchers,   \* threads inside skynet_context_new
  Names,       \* local names, ordered by strcmp: integers
  HandleMask,  \* HANDLE_MASK, 2^k - 1
  SlotSize,    \* DEFAULT_SLOT_SIZE
  NULL

ASSUME TableAssumption ==
  /\ HandleMask \in Nat \ {0, 1} /\ SlotSize \in Nat \ {0}
  /\ Names \subseteq Int /\ NULL \notin Contexts
  \* HANDLE_MASK + 1 is a power of two (it has no odd divisor), and SlotSize divides it
  /\ \A k, m \in 1 .. HandleMask + 1 : k * m = HandleMask + 1 /\ m # 1 => m % 2 = 0
  /\ \E m \in 1 .. HandleMask + 1 : HandleMask + 1 = SlotSize * m

VARIABLES
  slot,    \* s->slot, from 0 to s->slot_size - 1
  index,   \* s->handle_index
  handle,  \* ctx->handle of each context
  pending, \* per launcher: the context in its slot whose handle is not stored
  names,   \* s->name: pairs of a name and a handle
  abort,   \* skynet_handle_retireall: next slot i, some retired (n > 0)
  old,     \* contexts that had their handle when the pass began
  strayed, \* contexts in the table that were rehashed before their handle was stored
  failed   \* "no", or the line of register at which the program died

vars == <<slot, index, handle, pending, names, abort, old, strayed, failed>>

Size == Cardinality(DOMAIN slot)
Handles == 1 .. HandleMask
Slotted == {slot[i] : i \in DOMAIN slot} \ {NULL}
Pending == {pending[t].ctx : t \in Launchers} \ {NULL}
NoPending == [ctx |-> NULL, handle |-> 0]
NoAbort == [pc |-> "idle", i |-> 0, hit |-> FALSE, handle |-> 0]

TypeOK ==
  /\ slot \in [0 .. Size - 1 -> Contexts \cup {NULL}]
  /\ index \in 1 .. HandleMask + 1
  /\ handle \in [Contexts -> 0 .. HandleMask]
  /\ pending \in [Launchers -> [ctx : Contexts \cup {NULL}, handle : 0 .. HandleMask]]
  /\ names \in Seq([name : Names, handle : Handles])
  /\ abort \in [pc : {"idle", "scan", "retire", "done"}, i : Nat, hit : BOOLEAN,
                handle : 0 .. HandleMask]
  /\ old \subseteq Contexts /\ strayed \subseteq Contexts
  /\ failed \in {"no", "deref", "assert59", "assert64"}

Init ==
  /\ slot = [i \in 0 .. SlotSize - 1 |-> NULL]
  /\ index = 1
  /\ handle = [c \in Contexts |-> 0]
  /\ pending = [t \in Launchers |-> NoPending]
  /\ names = <<>>
  /\ abort = NoAbort
  /\ old = {}
  /\ strayed = {}
  /\ failed = "no"

-----------------------------------------------------------------------------
(* skynet_handle_register.                                                 *)

\* The k-th handle the scan tries; 0 is skipped at the wrap.
Candidate(k) == ((index + k - 1) % HandleMask) + 1

\* The rounds of the scan that find a free slot in table tab of size n.
FreeRounds(tab, n) == {k \in 0 .. n - 1 : tab[Candidate(k) % n] = NULL}

\* The new slot of the context in slot i when the table doubles.
RehashedOldMask(i) == handle[slot[i]] % Size
Rehashed(i) == handle[slot[i]] % (2 * Size)

ExpandedInPlace == [j \in 0 .. 2 * Size - 1 |-> IF j < Size THEN slot[j] ELSE NULL]
Expanded ==
  [j \in 0 .. 2 * Size - 1 |->
     IF \E i \in DOMAIN slot : Rehashed(i) = j
     THEN slot[CHOOSE i \in DOMAIN slot : Rehashed(i) = j] ELSE NULL]

\* c takes the first free slot of the table tab of size n.
Occupy(t, c, tab, n) ==
  LET k == CHOOSE k \in FreeRounds(tab, n) : \A l \in FreeRounds(tab, n) : k <= l
      h == Candidate(k)
  IN /\ slot' = [tab EXCEPT ![h % n] = c]
     /\ index' = h + 1
     /\ pending' = [pending EXCEPT ![t] = [ctx |-> c, handle |-> h]]
     /\ handle' = [handle EXCEPT ![c] = 0]
     /\ UNCHANGED failed

\* A context that starts its life: ctx->handle = 0, then register.
CanRegister(t, c) == pending[t] = NoPending /\ c \notin Slotted \cup Pending

Register(t, c) ==
  /\ CanRegister(t, c)
  /\ FreeRounds(slot, Size) # {}
  /\ Occupy(t, c, slot, Size)
  /\ UNCHANGED <<names, abort, old, strayed>>

Dies(at) == failed' = at /\ UNCHANGED <<slot, index, handle, pending, strayed>>

\* No free slot was found: assert at line 59, then rehash every slot.  An
\* empty slot is a NULL dereference, two contexts for one slot the assert at
\* line 64.  The scan of the doubled table always finds a slot.
RegisterExpand(t, c) ==
  /\ CanRegister(t, c)
  /\ FreeRounds(slot, Size) = {}
  /\ \/ /\ 2 * Size - 1 > HandleMask
        /\ Dies("assert59")
     \/ /\ 2 * Size - 1 <= HandleMask
        /\ \E i \in DOMAIN slot : slot[i] = NULL
        /\ Dies("deref")
     \/ /\ 2 * Size - 1 <= HandleMask
        /\ \A i \in DOMAIN slot : slot[i] # NULL
        /\ \E i, j \in DOMAIN slot : i # j /\ Rehashed(i) = Rehashed(j)
        /\ Dies("assert64")
     \/ /\ 2 * Size - 1 <= HandleMask
        /\ \A i \in DOMAIN slot : slot[i] # NULL
        /\ \A i, j \in DOMAIN slot : Rehashed(i) = Rehashed(j) => i = j
        /\ Occupy(t, c, Expanded, 2 * Size)
        /\ strayed' = strayed \cup Pending
  /\ UNCHANGED <<names, abort, old>>

\* ctx->handle = the value register returned.
StoreHandle(t) ==
  /\ pending[t] # NoPending
  /\ handle' = [handle EXCEPT ![pending[t].ctx] = pending[t].handle]
  /\ pending' = [pending EXCEPT ![t] = NoPending]
  /\ UNCHANGED <<slot, index, names, abort, old, strayed, failed>>

-----------------------------------------------------------------------------
(* skynet_handle_grab and skynet_handle_retire.                            *)

\* The context that skynet_handle_grab(h) returns.
Grab(h) == LET c == slot[h % Size]
           IN IF c # NULL /\ handle[c] = h THEN c ELSE NULL

RetiredKeepNames(h) ==
  /\ slot' = [slot EXCEPT ![h % Size] = NULL]
  /\ old' = old \ {slot[h % Size]}
  /\ strayed' = strayed \ {slot[h % Size]}
  /\ handle' = [handle EXCEPT ![slot[h % Size]] = 0]
  /\ UNCHANGED names

\* The array of names after i rounds of the loop that removes those of handle h.
Keep(h) ==
  LET Kept[i \in 0 .. Len(names)] ==
        IF i = 0 THEN <<>>
        ELSE IF names[i].handle = h THEN Kept[i - 1] ELSE Append(Kept[i - 1], names[i])
  IN Kept

\* The slot is emptied and the names of the handle are removed.  The handle
\* field of the retired context is not read again through the table.
Retired(h) ==
  /\ slot' = [slot EXCEPT ![h % Size] = NULL]
  /\ old' = old \ {slot[h % Size]}
  /\ strayed' = strayed \ {slot[h % Size]}
  /\ handle' = [handle EXCEPT ![slot[h % Size]] = 0]
  /\ names' = Keep(h)[Len(names)]

Retire(h) ==
  /\ Grab(h) # NULL
  /\ Retired(h)
  /\ UNCHANGED <<index, pending, abort, failed>>

-----------------------------------------------------------------------------
(* Names: binary search in the sorted array.                               *)

\* One round of the search of line 163 (and 213) for nm, which ends when nm is
\* found at place b or b is beyond e.
Round(nm, s) ==
  LET mid == (s.b + s.e) \div 2 IN
  IF s.found \/ s.b > s.e THEN s
  ELSE IF names[mid].name = nm THEN [b |-> mid, e |-> mid, found |-> TRUE]
  ELSE IF names[mid].name < nm THEN [s EXCEPT !.b = mid + 1]
  ELSE [s EXCEPT !.e = mid - 1]

\* The state of the search after k rounds.
Rounds(nm) ==
  LET After[k \in Nat] ==
        IF k = 0 THEN [b |-> 1, e |-> Len(names), found |-> FALSE]
        ELSE Round(nm, After[k - 1])
  IN After

\* How the search ends, at the latest when all names were looked at.
Search(nm) == Rounds(nm)[Len(names)]

\* skynet_handle_findname; 0 when there is no such name.
findname(nm) == IF Search(nm).found THEN names[Search(nm).b].handle ELSE 0

\* Where _insert_name_before puts a new name.
PlaceAtEnd(nm) == Len(names) + 1
Place(nm) == Search(nm).b

\* skynet_handle_namehandle: the first binding of a name wins, and the handle
\* is not looked up.
NameHandle(h, nm) ==
  /\ ~Search(nm).found
  /\ names' = InsertAt(names, Place(nm), [name |-> nm, handle |-> h])
  /\ UNCHANGED <<slot, index, handle, pending, abort, old, strayed, failed>>

-----------------------------------------------------------------------------
(* skynet_handle_retireall (cmd_abort): passes over the table until one    *)
(* retires nothing; the size is read without the lock in every round.      *)

AbortCall ==
  /\ abort.pc = "idle"
  /\ abort' = [NoAbort EXCEPT !.pc = "scan"]
  /\ old' = {c \in Slotted : handle[c] # 0}
  /\ UNCHANGED <<slot, index, handle, pending, names, strayed, failed>>

ScanFrom(first) ==
  LET c == slot[abort.i]
      h == IF c = NULL \/ abort.i < first THEN 0 ELSE handle[c]
  IN /\ abort.pc = "scan" /\ abort.i < Size
     /\ abort' = [abort EXCEPT !.handle = h, !.i = @ + 1,
                               !.pc = IF h = 0 THEN "scan" ELSE "retire"]
     /\ UNCHANGED <<slot, index, handle, pending, names, old, strayed, failed>>

AbortScanFrom1 == ScanFrom(1)

\* Under the read lock: the handle of the context in slot i, 0 for none or for
\* one whose handle is not stored yet.
AbortScan == ScanFrom(0)

AbortRetire ==
  LET ok == Grab(abort.handle) # NULL
  IN /\ abort.pc = "retire"
     /\ IF ok THEN Retired(abort.handle) ELSE UNCHANGED <<slot, names, old, strayed, handle>>
     /\ abort' = [abort EXCEPT !.pc = "scan", !.handle = 0, !.hit = @ \/ ok]
     /\ UNCHANGED <<index, pending, failed>>

\* The end of a pass: return if it retired nothing, else start again.
AbortPass ==
  /\ abort.pc = "scan" /\ abort.i >= Size
  /\ \/ /\ ~abort.hit
        /\ abort' = [abort EXCEPT !.pc = "done"]
        /\ UNCHANGED old
     \/ /\ abort.hit
        /\ abort' = [NoAbort EXCEPT !.pc = "scan"]
        /\ old' = {c \in Slotted : handle[c] # 0}
  /\ UNCHANGED <<slot, index, handle, pending, names, strayed, failed>>

AbortReturn ==
  /\ abort.pc = "done"
  /\ abort' = NoAbort
  /\ old' = {}
  /\ UNCHANGED <<slot, index, handle, pending, names, strayed, failed>>

-----------------------------------------------------------------------------
Launch(t) == StoreHandle(t) \/ \E c \in Contexts : Register(t, c) \/ RegisterExpand(t, c)

RetireAll == AbortCall \/ AbortScan \/ AbortRetire \/ AbortPass \/ AbortReturn

Next ==
  /\ failed = "no"
  /\ \/ \E t \in Launchers : Launch(t)
     \/ \E h \in Handles : Retire(h) \/ \E nm \in Names : NameHandle(h, nm)
     \/ RetireAll

Spec == Init /\ [][Next]_vars

-----------------------------------------------------------------------------
\* A launched service that was not retired is found under its handle, and no
\* two services have the same handle, across any number of expansions and of
\* wraps of handle_index.  The exception are the services that strayed: the
\* table doubled between their registration and the store of ctx->handle.
\* Handles stay in range: none is 0 or (TypeOK) beyond HANDLE_MASK.
Findable ==
  /\ TypeOK
  /\ \A c \in Slotted \ (Pending \cup strayed) : handle[c] # 0 /\ Grab(handle[c]) = c
  /\ \A t \in Launchers : pending[t] # NoPending /\ pending[t].ctx \notin strayed =>
       slot[pending[t].handle % Size] = pending[t].ctx

\* The array of names is sorted without duplicates, so that the binary search
\* finds exactly the names that are there.
NamesSound ==
  /\ \A i, j \in DOMAIN names : i < j => names[i].name < names[j].name
  /\ \A nm \in Names :
       findname(nm) = IF \E p \in ToSet(names) : p.name = nm
                      THEN (CHOOSE p \in ToSet(names) : p.name = nm).handle ELSE 0

\* When a service is retired its names go with it, under the same lock: no
\* lookup finds a name of a handle that just died.
NamesDropped ==
  [][\A h \in Handles : Grab(h) # NULL /\ Grab(h)' = NULL
       => \A p \in ToSet(names') : p.handle # h]_vars

\* When skynet_handle_retireall returns, no service that had its handle when
\* the last pass began is left, although launches went on meanwhile and may
\* have moved the services to other slots; only those that strayed may be.
AbortComplete == abort.pc = "done" => old \subseteq strayed

\* assert(new_slot[hash] == NULL) of skynet_handle_register never fails: no two
\* services are rehashed to one slot.
RehashAssert == failed # "assert64"

\* What the failures of the rehash come from, and nothing else does.  A launch
\* that doubles the table while every service has stored its handle, and none
\* strayed earlier, does not fail that assert; an empty slot is met only when the
\* scan wrapped, and it is slot 0, which the wrap skips with the reserved handle 0.
RehashCauses ==
  /\ Pending \cup strayed = {} => RehashAssert
  /\ failed = "deref" => /\ index + Size > HandleMask + 1
                         /\ \A i \in DOMAIN slot : slot[i] = NULL => i = 0
=============================================================================
