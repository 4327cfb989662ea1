------------------------ MODULE SocketServerProofs ------------------------
(***************************************************************************)
(* Proofs about SocketServer, for any number of workers, slots, ids,       *)
(* packets and units in a packet.                                          *)
(***************************************************************************)
EXTENDS SocketServer, FiniteSetTheorems, SequenceTheorems, WellFoundedInduction, TLAPS

-----------------------------------------------------------------------------
(* The inductive invariant.                                                *)

\* No socket has slot s.
Vacant(s) == slot[s].type \in {"INVALID", "RESERVE"}

\* The fields of a slot belong to one id, from new_fd to the next reserve_id,
\* and a slot without a socket has no buffers and is not polled.
Slotted(s) ==
  /\ slot[s].id <= alloc
  /\ ~Vacant(s) => slot[s].tcp
  /\ slot[s].tcp => /\ slot[s].id \in Ids /\ HASH_ID(slot[s].id) = s
                    /\ slot[s].tag = ID_TAG16(slot[s].id)
  /\ Vacant(s) => /\ slot[s].high = <<>> /\ slot[s].low = <<>> /\ slot[s].dw = <<>>
                  /\ ~slot[s].poll

\* A worker in reserve_id, or in a send.
Reserves(w) == worker[w].pc \in {"init", "open"}
Sends(w) == worker[w].pc \in {"c1a", "c1b", "trylock", "c2b", "inc", "pipe"}
Working(w) ==
  /\ Sends(w) => /\ worker[w].id \in known /\ worker[w].pkt \in 1 .. sent
                 /\ packet[worker[w].pkt].to = worker[w].id
  /\ ~Sends(w) => worker[w].pkt = None
  /\ Reserves(w) => /\ worker[w].id \in 1 .. alloc /\ worker[w].id \notin known
                    /\ worker[w].id \in Ids
                    /\ slot[HASH_ID(worker[w].id)].type = "RESERVE"
  /\ worker[w].pc = "open" => slot[HASH_ID(worker[w].id)].id = worker[w].id
  /\ worker[w].pc = "c2b" => \/ slot[HASH_ID(worker[w].id)].id = worker[w].id
                             \/ worker[w].pkt \in overtaken

\* A command is about an id that was reported, or opens one that was not.
Asked(i) ==
  /\ pipe[i].cmd = "O" => /\ pipe[i].id <= alloc /\ pipe[i].id \notin known
                          /\ slot[HASH_ID(pipe[i].id)].type = "RESERVE"
                          /\ slot[HASH_ID(pipe[i].id)].id = pipe[i].id
  /\ pipe[i].cmd # "O" => pipe[i].id \in known
  /\ pipe[i].cmd \notin {"D", "P"} => pipe[i].pkt = None
  /\ pipe[i].cmd \in {"D", "P"} => /\ pipe[i].pkt \in 1 .. sent
                                   /\ packet[pipe[i].pkt].to = pipe[i].id

\* A slot is reserved once.
Alone ==
  /\ \A w, v \in Workers : Reserves(w) /\ Reserves(v)
       /\ HASH_ID(worker[w].id) = HASH_ID(worker[v].id) => w = v
  /\ \A i, j \in DOMAIN pipe : pipe[i].cmd = "O" /\ pipe[j].cmd = "O"
       /\ HASH_ID(pipe[i].id) = HASH_ID(pipe[j].id) => i = j
  /\ \A w \in Workers, i \in DOMAIN pipe : Reserves(w) /\ pipe[i].cmd = "O"
       => HASH_ID(worker[w].id) # HASH_ID(pipe[i].id)

\* The socket thread in close_socket and force_close has a socket; an event is
\* left on a slot without one only until clear_closed_event.
Closing ==
  /\ st.pc \in {"close", "force", "open", "quiet"} => ~Vacant(st.s) /\ slot[st.s].id = st.id
  /\ st.pc = "force" => /\ slot[st.s].high = <<>> /\ slot[st.s].low = <<>>
                        /\ ~st.flag => ev[st.s] = NoEvent
  /\ \A s \in Slot : slot[s].type = "INVALID" /\ ev[s] # NoEvent
       => st.pc = "clear" /\ st.s = s /\ st.id = slot[s].id

Control ==
  /\ \A s \in Slot : Slotted(s)
  /\ \A w \in Workers : Working(w)
  /\ \A i \in DOMAIN pipe : Asked(i)
  /\ known \subseteq 1 .. alloc
  /\ Alone
  /\ Closing

\* Every unit is followed by the rest of its packet.
Whole(q) ==
  \A i \in DOMAIN q : \A e \in 0 .. PacketSize - q[i][2] :
    i + e \in DOMAIN q /\ q[i + e] = <<q[i][1], q[i][2] + e>>
Distinct(q) == \A i, j \in DOMAIN q : q[i] = q[j] => i = j
Ordered(q) ==
  \A i \in DOMAIN q : q[i][2] = PacketSize /\ i + 1 \in DOMAIN q => q[i + 1][2] = 1
Apart(q, r) == PacketsIn(q) \cap PacketsIn(r) = {}
\* A packet that is for socket id, or was sent by a worker that was overtaken.
Addressed(p, id) == p <= sent /\ (packet[p].to = id \/ p \in overtaken)

Lists(s) ==
  LET r == slot[s]
  IN /\ Whole(r.dw) /\ Whole(r.high) /\ Whole(r.low)
     /\ Distinct(r.dw) /\ Distinct(r.high) /\ Distinct(r.low)
     /\ Apart(r.dw, r.high) /\ Apart(r.dw, r.low) /\ Apart(r.high, r.low)
     /\ Ordered(r.low) /\ (r.low # <<>> => r.low[1][2] = 1)
     /\ \A p \in PacketsIn(Backlog(s)) : Addressed(p, r.id)
Wired(id) == \A p \in PacketsIn(wire[id]) : Addressed(p, id)
Queued == (\A s \in Slot : Lists(s)) /\ (\A id \in Ids : Wired(id))

\* Who has the buffer of p: x is the one of its kind.
HeldBy(p, kind, x) ==
  /\ \A w \in Workers : worker[w].pkt = p <=> kind = "worker" /\ x = w
  /\ \A i \in DOMAIN pipe : pipe[i].pkt = p <=> kind = "pipe" /\ x = i
  /\ \A s \in Slot : p \in PacketsIn(slot[s].high \o slot[s].low) <=> kind = "list" /\ x = s
  /\ \A s \in Slot : p \in PacketsIn(slot[s].dw) <=> kind = "dw" /\ x = s
Place(kind, x) ==
  \/ kind = "worker" /\ x \in Workers
  \/ kind = "pipe" /\ x \in DOMAIN pipe
  \/ kind \in {"list", "dw"} /\ x \in Slot
Owned(p) == \/ freed[p] = 1 /\ HeldBy(p, "none", 0)
            \/ freed[p] = 0 /\ \E kind, x : Place(kind, x) /\ HeldBy(p, kind, x)
Ownership == \A p \in Packets : IF p <= sent THEN Owned(p) ELSE freed[p] = 0

IInv == TypeOK /\ Asserts /\ Control /\ Queued /\ Ownership /\ SendingExact

-----------------------------------------------------------------------------
(* Ids and slots.                                                          *)

LEMMA LeastNumber ==
  ASSUME NEW T \in SUBSET Nat, T # {}
  PROVE  \E n \in T : \A m \in T : n <= m
<1> DEFINE R == OpToRel(<, Nat)
<1>1. IsWellFoundedOn(R, Nat)
  BY NatLessThanWellFounded
<1>2. \A x, y \in Nat : x < y => <<x, y>> \in R
  BY DEF OpToRel
<1>3. T \subseteq Nat
  OBVIOUS
<1> HIDE DEF R
<1>4. PICK n \in T : \A m \in T : <<m, n>> \notin R
  <2>1. \E n \in T : \A m \in T : ~(<<m, n>> \in R)
    BY <1>1, <1>3, WFMin
  <2> QED BY <2>1
<1>5. \A m \in T : ~(m < n)
  BY <1>2, <1>3, <1>4
<1> QED BY <1>3, <1>5

\* HASH_ID is a slot.
LEMMA HashIn == \A id \in Nat : HASH_ID(id) \in Slot /\ ID_TAG16(id) \in Nat
BY SocketAssumption DEF HASH_ID, ID_TAG16, Slot

\* An id is its slot and its tag.
LEMMA HashTag ==
  ASSUME NEW a \in Nat, NEW b \in Nat, HASH_ID(a) = HASH_ID(b), ID_TAG16(a) = ID_TAG16(b)
  PROVE  a = b
<1>1. /\ a = (Slots * (a \div Slots)) + (a % Slots)
      /\ b = (Slots * (b \div Slots)) + (b % Slots)
  BY SocketAssumption
<1> QED BY <1>1 DEF HASH_ID, ID_TAG16

\* The ids and the fields of a slot that the types give.
LEMMA IdsIn == Ids \subseteq Nat /\ Packets \subseteq Nat /\ Slot \subseteq Nat
BY SocketAssumption DEF Ids, Packets, Slot

\* reserve_id takes an id that was never used, for a slot that is free.
LEMMA NextFree ==
  ASSUME TypeOK, Probes # {}
  PROVE  /\ NextId \in Nat /\ NextId > alloc
         /\ HASH_ID(NextId) \in Slot /\ slot[HASH_ID(NextId)].type = "INVALID"
<1>1. Probes \in SUBSET Nat
  BY SocketAssumption DEF Probes
<1>2. PICK k : k = CHOOSE i \in Probes : \A j \in Probes : i <= j
  OBVIOUS
<1>3. k \in Probes
  BY <1>1, <1>2, LeastNumber
<1>4. NextId = alloc + k
  BY <1>2 DEF NextId
<1>5. alloc \in Nat /\ k \in Nat /\ k >= 1 /\ slot[HASH_ID(alloc + k)].type = "INVALID"
  BY <1>1, <1>3, SocketAssumption DEF Probes, TypeOK
<1> QED BY <1>4, <1>5, HashIn

-----------------------------------------------------------------------------
(* What the steps do to a slot.                                            *)

\* No slot but s changes.
Only(s) == slot' \in [Slot -> Sockets] /\ \A t \in Slot : t # s => slot'[t] = slot[t]
SameTag(s) == /\ slot'[s].id = slot[s].id /\ slot'[s].tcp = slot[s].tcp
              /\ slot'[s].tag = slot[s].tag
SameCount(s) == SameTag(s) /\ slot'[s].sending = slot[s].sending
\* A slot without buffers that is not polled, after the step.
Bare(s) == /\ slot'[s].high = <<>> /\ slot'[s].low = <<>> /\ slot'[s].dw = <<>>
           /\ ~slot'[s].poll
SameLists(s) == /\ slot'[s].high = slot[s].high /\ slot'[s].low = slot[s].low
                /\ slot'[s].dw = slot[s].dw

LEMMA NoUnits == <<>> \in Seq(Units)
OBVIOUS

\* A new record in slot s.
LEMMA PutSocket ==
  ASSUME TypeOK, NEW s \in Slot, NEW r \in Sockets, slot' = [slot EXCEPT ![s] = r]
  PROVE  Only(s) /\ slot'[s] = r
BY DEF TypeOK, Only

LEMMA NewFdIs ==
  ASSUME TypeOK, NEW s \in Slot, NEW id \in Ids, NEW type \in Types,
         NEW poll \in BOOLEAN, NEW wr \in BOOLEAN,
         slot' = [slot EXCEPT ![s] = NewFd(s, id, type, poll, wr)]
  PROVE  /\ Only(s)
         /\ slot'[s].type = type /\ slot'[s].id = id /\ slot'[s].tcp = TRUE
         /\ slot'[s].tag = ID_TAG16(id) /\ slot'[s].sending = 0
         /\ slot'[s].high = slot[s].high /\ slot'[s].low = slot[s].low
         /\ slot'[s].dw = <<>> /\ slot'[s].poll = poll
<1> DEFINE r == NewFd(s, id, type, poll, wr)
<1>1. slot[s] \in Sockets /\ id \in 0 .. MaxId /\ ID_TAG16(id) \in Nat
  BY HashIn, SocketAssumption DEF TypeOK, Ids
<1>2. r \in Sockets
  BY <1>1, NoUnits DEF NewFd, Sockets
<1>3. /\ r.type = type /\ r.id = id /\ r.tcp = TRUE /\ r.tag = ID_TAG16(id)
      /\ r.sending = 0 /\ r.high = slot[s].high /\ r.low = slot[s].low /\ r.dw = <<>>
      /\ r.poll = poll
  BY <1>1 DEF NewFd, Sockets
<1> HIDE DEF r
<1>4. slot' = [slot EXCEPT ![s] = r]
  BY DEF r
<1> QED BY <1>2, <1>3, <1>4, PutSocket

\* force_close leaves the id, the tag and the count.
LEMMA GoneIs ==
  ASSUME TypeOK, NEW s \in Slot, slot' = [slot EXCEPT ![s] = Gone(@)]
  PROVE  /\ Only(s) /\ slot'[s].type = "INVALID" /\ SameCount(s)
         /\ Bare(s)
<1> DEFINE r == Gone(slot[s])
<1>1. slot[s] \in Sockets
  BY DEF TypeOK
<1>2. r \in Sockets
  BY <1>1, NoUnits DEF Gone, Sockets, Types
<1>3. /\ r.type = "INVALID" /\ r.id = slot[s].id /\ r.tcp = slot[s].tcp
      /\ r.tag = slot[s].tag /\ r.sending = slot[s].sending
      /\ r.high = <<>> /\ r.low = <<>> /\ r.dw = <<>> /\ ~r.poll
  BY <1>1 DEF Gone, Sockets
<1>4. slot' = [slot EXCEPT ![s] = r]
  BY DEF TypeOK
<1> HIDE DEF r
<1> QED BY <1>2, <1>3, <1>4, PutSocket DEF SameCount, SameTag, Bare

\* A step that stores only the type, and poll.
LEMMA TypeIs ==
  ASSUME TypeOK, NEW s \in Slot, NEW type \in Types,
         \/ slot' = [slot EXCEPT ![s].type = type]
         \/ slot' = [slot EXCEPT ![s].type = type, ![s].poll = TRUE]
  PROVE  Only(s) /\ slot'[s].type = type /\ SameCount(s) /\ SameLists(s)
<1>1. slot[s] \in Sockets
  BY DEF TypeOK
<1>2. CASE slot' = [slot EXCEPT ![s].type = type]
  BY <1>1, <1>2 DEF TypeOK, Only, SameCount, SameTag, SameLists, Sockets
<1>3. CASE slot' = [slot EXCEPT ![s].type = type, ![s].poll = TRUE]
  BY <1>1, <1>3 DEF TypeOK, Only, SameCount, SameTag, SameLists, Sockets
<1> QED BY <1>2, <1>3

LEMMA TypeOnly ==
  ASSUME TypeOK, NEW s \in Slot, NEW type \in Types, slot' = [slot EXCEPT ![s].type = type]
  PROVE  slot'[s].poll = slot[s].poll
<1>1. slot[s] \in Sockets
  BY DEF TypeOK
<1> QED BY <1>1 DEF TypeOK, Sockets

\* force_close up to its lock.
LEMMA EmptyIs ==
  ASSUME TypeOK, NEW s \in Slot, slot' = [slot EXCEPT ![s].high = <<>>, ![s].low = <<>>]
  PROVE  /\ Only(s) /\ slot'[s].type = slot[s].type /\ SameCount(s)
         /\ slot'[s].high = <<>> /\ slot'[s].low = <<>> /\ slot'[s].dw = slot[s].dw
<1>1. slot[s] \in Sockets
  BY DEF TypeOK
<1> QED BY <1>1, NoUnits DEF TypeOK, Only, SameCount, SameTag, Sockets

\* The stores of reserve_id.
LEMMA InitIs ==
  ASSUME TypeOK, NEW s \in Slot, NEW id \in Ids,
         slot' = [slot EXCEPT ![s].id = id, ![s].tcp = FALSE]
  PROVE  /\ Only(s) /\ slot'[s].type = slot[s].type /\ slot'[s].id = id
         /\ slot'[s].tcp = FALSE /\ SameLists(s) /\ slot'[s].poll = slot[s].poll
<1>1. slot[s] \in Sockets /\ id \in 0 .. MaxId
  BY SocketAssumption DEF TypeOK, Ids
<1> QED BY <1>1 DEF TypeOK, Only, SameLists, Sockets

LEMMA SendingIs ==
  ASSUME TypeOK, NEW s \in Slot, NEW n \in Nat, slot' = [slot EXCEPT ![s].sending = n]
  PROVE  /\ Only(s) /\ slot'[s].type = slot[s].type /\ SameTag(s) /\ SameLists(s)
         /\ slot'[s].sending = n /\ slot'[s].poll = slot[s].poll
<1>1. slot[s] \in Sockets
  BY DEF TypeOK
<1> QED BY <1>1 DEF TypeOK, Only, SameTag, SameLists, Sockets

\* The rest of a direct write.
LEMMA DirectIs ==
  ASSUME TypeOK, NEW s \in Slot, NEW q \in Seq(Units), NEW b \in BOOLEAN,
         slot' = [slot EXCEPT ![s].dw = q, ![s].wr = @ \/ b]
  PROVE  /\ Only(s) /\ slot'[s].type = slot[s].type /\ SameCount(s)
         /\ slot'[s].high = slot[s].high /\ slot'[s].low = slot[s].low
         /\ slot'[s].dw = q
<1>1. slot[s] \in Sockets
  BY DEF TypeOK
<1>2. PICK c \in BOOLEAN : c = (slot[s].wr \/ b)
  OBVIOUS
<1> DEFINE r == [slot[s] EXCEPT !.dw = q, !.wr = c]
<1>3. r \in Sockets
  BY <1>1 DEF Sockets
<1>4. /\ r.type = slot[s].type /\ r.id = slot[s].id /\ r.tcp = slot[s].tcp
      /\ r.tag = slot[s].tag /\ r.sending = slot[s].sending
      /\ r.high = slot[s].high /\ r.low = slot[s].low /\ r.dw = q
  BY <1>1 DEF Sockets
<1>5. slot' = [slot EXCEPT ![s] = r]
  BY <1>1, <1>2 DEF TypeOK, Sockets
<1> HIDE DEF r
<1> QED BY <1>3, <1>4, <1>5, PutSocket DEF SameCount, SameTag

-----------------------------------------------------------------------------
(* Sequences of units.                                                     *)

LEMMA SeqUnits ==
  ASSUME NEW q \in Seq(Units)
  PROVE  /\ Len(q) \in Nat /\ DOMAIN q = 1 .. Len(q)
         /\ \A i \in DOMAIN q : /\ q[i] \in Units /\ q[i] = <<q[i][1], q[i][2]>>
                                /\ q[i][1] \in Packets /\ q[i][2] \in 1 .. PacketSize
<1>1. \A u \in Units : u = <<u[1], u[2]>> /\ u[1] \in Packets /\ u[2] \in 1 .. PacketSize
  BY DEF Units
<1> QED BY <1>1

LEMMA InPackets ==
  ASSUME NEW q \in Seq(Units)
  PROVE  /\ \A p : p \in PacketsIn(q) <=> \E i \in DOMAIN q : q[i][1] = p
         /\ PacketsIn(q) \subseteq Packets
BY SeqUnits DEF PacketsIn, ToSet

LEMMA NoPackets == PacketsIn(<<>>) = {} /\ Whole(<<>>) /\ Distinct(<<>>) /\ Ordered(<<>>)
BY DEF PacketsIn, ToSet, Whole, Distinct, Ordered

\* The parts of a queue.
LEMMA Joined ==
  ASSUME NEW a \in Seq(Units), NEW b \in Seq(Units)
  PROVE  /\ a \o b \in Seq(Units) /\ Len(a \o b) = Len(a) + Len(b)
         /\ \A i \in 1 .. Len(a) : (a \o b)[i] = a[i]
         /\ \A i \in 1 .. Len(b) : (a \o b)[Len(a) + i] = b[i]
         /\ \A i \in 1 .. Len(a) + Len(b) : i > Len(a) => (a \o b)[i] = b[i - Len(a)]
OBVIOUS

LEMMA Prefix ==
  ASSUME NEW q \in Seq(Units), NEW k \in 0 .. Len(q)
  PROVE  /\ SubSeq(q, 1, k) \in Seq(Units) /\ Len(SubSeq(q, 1, k)) = k
         /\ \A i \in 1 .. k : SubSeq(q, 1, k)[i] = q[i]
<1>1. k \in Int /\ \A i \in 1 .. k : q[i] \in Units
  BY SeqUnits
<1> QED BY <1>1, SubSeqProperties

LEMMA Suffix ==
  ASSUME NEW q \in Seq(Units), NEW k \in 0 .. Len(q)
  PROVE  /\ SubSeq(q, k + 1, Len(q)) \in Seq(Units)
         /\ Len(SubSeq(q, k + 1, Len(q))) = Len(q) - k
         /\ \A i \in 1 .. Len(q) - k : SubSeq(q, k + 1, Len(q))[i] = q[k + i]
<1>1. k + 1 \in Int /\ Len(q) \in Int /\ \A i \in k + 1 .. Len(q) : q[i] \in Units
  BY SeqUnits
<1>2. SubSeq(q, k + 1, Len(q)) \in Seq(Units)
  BY <1>1, SubSeqProperties
<1>3. Len(SubSeq(q, k + 1, Len(q))) = Len(q) - k
  BY <1>1, SubSeqProperties
<1>4. \A i \in 1 .. Len(q) - k : SubSeq(q, k + 1, Len(q))[i] = q[k + i]
  BY <1>1, SubSeqProperties
<1> QED BY <1>2, <1>3, <1>4

LEMMA JoinedPackets ==
  ASSUME NEW a \in Seq(Units), NEW b \in Seq(Units)
  PROVE  PacketsIn(a \o b) = PacketsIn(a) \cup PacketsIn(b)
<1>1. PICK c \in Seq(Units) : c = a \o b
  BY Joined
<1>2. /\ Len(c) = Len(a) + Len(b) /\ DOMAIN c = 1 .. Len(c)
      /\ DOMAIN a = 1 .. Len(a) /\ DOMAIN b = 1 .. Len(b)
      /\ Len(a) \in Nat /\ Len(b) \in Nat
      /\ \A i \in 1 .. Len(a) : c[i] = a[i]
      /\ \A i \in 1 .. Len(b) : c[Len(a) + i] = b[i]
      /\ \A i \in 1 .. Len(a) + Len(b) : i > Len(a) => c[i] = b[i - Len(a)]
  BY <1>1, Joined, SeqUnits
<1>3. ASSUME NEW p PROVE p \in PacketsIn(c) <=> p \in PacketsIn(a) \cup PacketsIn(b)
  <2>1. ASSUME p \in PacketsIn(c) PROVE p \in PacketsIn(a) \cup PacketsIn(b)
    <3>1. PICK i \in DOMAIN c : c[i][1] = p
      BY <2>1, InPackets
    <3>2. CASE i <= Len(a)
      BY <3>1, <3>2, <1>2, InPackets
    <3>3. CASE i > Len(a)
      <4>1. i - Len(a) \in DOMAIN b /\ b[i - Len(a)][1] = p
        BY <3>1, <3>3, <1>2
      <4> QED BY <4>1, InPackets
    <3> QED BY <3>2, <3>3, <1>2
  <2>2. ASSUME p \in PacketsIn(a) PROVE p \in PacketsIn(c)
    <3>1. PICK i \in DOMAIN a : a[i][1] = p
      BY <2>2, InPackets
    <3>2. i \in DOMAIN c /\ c[i][1] = p
      BY <3>1, <1>2
    <3> QED BY <3>2, InPackets
  <2>3. ASSUME p \in PacketsIn(b) PROVE p \in PacketsIn(c)
    <3>1. PICK i \in DOMAIN b : b[i][1] = p
      BY <2>3, InPackets
    <3>2. Len(a) + i \in DOMAIN c /\ c[Len(a) + i][1] = p
      BY <3>1, <1>2
    <3> QED BY <3>2, InPackets
  <2> QED BY <2>1, <2>2, <2>3
<1> QED BY <1>1, <1>3

LEMMA PrefixPackets ==
  ASSUME NEW q \in Seq(Units), NEW k \in 0 .. Len(q)
  PROVE  PacketsIn(SubSeq(q, 1, k)) \subseteq PacketsIn(q)
<1>1. PICK a \in Seq(Units) : a = SubSeq(q, 1, k)
  BY Prefix
<1>2. Len(a) = k /\ \A i \in 1 .. k : a[i] = q[i]
  BY <1>1, Prefix
<1>3. DOMAIN a = 1 .. k /\ DOMAIN q = 1 .. Len(q) /\ Len(q) \in Nat
  BY <1>2, SeqUnits
<1>4. ASSUME NEW p \in PacketsIn(a) PROVE p \in PacketsIn(q)
  <2>1. PICK i \in DOMAIN a : a[i][1] = p
    BY InPackets
  <2>2. i \in DOMAIN q /\ q[i][1] = p
    BY <2>1, <1>2, <1>3
  <2> QED BY <2>2, InPackets
<1> QED BY <1>1, <1>4

LEMMA SuffixPackets ==
  ASSUME NEW q \in Seq(Units), NEW k \in 0 .. Len(q)
  PROVE  PacketsIn(SubSeq(q, k + 1, Len(q))) \subseteq PacketsIn(q)
<1>1. PICK a \in Seq(Units) : a = SubSeq(q, k + 1, Len(q))
  BY Suffix
<1>2. Len(a) = Len(q) - k /\ \A i \in 1 .. Len(q) - k : a[i] = q[k + i]
  BY <1>1, Suffix
<1>3. DOMAIN a = 1 .. Len(q) - k /\ DOMAIN q = 1 .. Len(q) /\ Len(q) \in Nat
  BY <1>2, SeqUnits
<1>4. ASSUME NEW p \in PacketsIn(a) PROVE p \in PacketsIn(q)
  <2>1. PICK i \in DOMAIN a : a[i][1] = p
    BY InPackets
  <2>2. k + i \in DOMAIN q /\ q[k + i][1] = p
    BY <2>1, <1>2, <1>3
  <2> QED BY <2>2, InPackets
<1> QED BY <1>1, <1>4

\* Distinct queues of different packets.
LEMMA JoinedDistinct ==
  ASSUME NEW a \in Seq(Units), NEW b \in Seq(Units), Distinct(a), Distinct(b), Apart(a, b)
  PROVE  Distinct(a \o b)
<1>1. PICK c \in Seq(Units) : c = a \o b
  BY Joined
<1>2. /\ Len(c) = Len(a) + Len(b) /\ DOMAIN c = 1 .. Len(c)
      /\ DOMAIN a = 1 .. Len(a) /\ DOMAIN b = 1 .. Len(b)
      /\ Len(a) \in Nat /\ Len(b) \in Nat
      /\ \A i \in 1 .. Len(a) : c[i] = a[i]
      /\ \A i \in 1 .. Len(a) + Len(b) : i > Len(a) => c[i] = b[i - Len(a)]
  BY <1>1, Joined, SeqUnits
<1>3. ASSUME NEW i \in DOMAIN a, NEW j \in DOMAIN b PROVE a[i] # b[j]
  <2>1. a[i][1] \in PacketsIn(a) /\ b[j][1] \in PacketsIn(b)
    BY InPackets
  <2> QED BY <2>1 DEF Apart
<1>4. ASSUME NEW i \in DOMAIN c, NEW j \in DOMAIN c, c[i] = c[j], i <= j PROVE i = j
  <2>1. CASE j <= Len(a)
    <3>1. i \in DOMAIN a /\ j \in DOMAIN a /\ a[i] = a[j]
      BY <1>2, <1>4, <2>1
    <3> QED BY <3>1 DEF Distinct
  <2>2. CASE i > Len(a)
    <3>1. /\ i - Len(a) \in DOMAIN b /\ j - Len(a) \in DOMAIN b
          /\ b[i - Len(a)] = b[j - Len(a)]
      BY <1>2, <1>4, <2>2
    <3>2. i - Len(a) = j - Len(a)
      BY <3>1 DEF Distinct
    <3> QED BY <3>2, <1>2
  <2>3. CASE i <= Len(a) /\ j > Len(a)
    <3>1. i \in DOMAIN a /\ j - Len(a) \in DOMAIN b /\ a[i] = b[j - Len(a)]
      BY <1>2, <1>4, <2>3
    <3> QED BY <3>1, <1>3
  <2> QED BY <2>1, <2>2, <2>3, <1>2
<1>5. \A i, j \in DOMAIN c : c[i] = c[j] => i = j
  <2> TAKE i, j \in DOMAIN c
  <2> HAVE c[i] = c[j]
  <2>1. i <= j \/ j <= i
    BY <1>2
  <2> QED BY <2>1, <1>4
<1> QED BY <1>1, <1>5 DEF Distinct

LEMMA SuffixDistinct ==
  ASSUME NEW q \in Seq(Units), NEW k \in 0 .. Len(q), Distinct(q)
  PROVE  Distinct(SubSeq(q, k + 1, Len(q)))
<1>1. PICK a \in Seq(Units) : a = SubSeq(q, k + 1, Len(q))
  BY Suffix
<1>2. Len(a) = Len(q) - k /\ \A i \in 1 .. Len(q) - k : a[i] = q[k + i]
  BY <1>1, Suffix
<1>3. DOMAIN a = 1 .. Len(q) - k /\ DOMAIN q = 1 .. Len(q) /\ Len(q) \in Nat
  BY <1>2, SeqUnits
<1>4. ASSUME NEW i \in DOMAIN a, NEW j \in DOMAIN a, a[i] = a[j] PROVE i = j
  <2>1. k + i \in DOMAIN q /\ k + j \in DOMAIN q /\ q[k + i] = q[k + j]
    BY <1>2, <1>3, <1>4
  <2>2. k + i = k + j
    BY <2>1 DEF Distinct
  <2> QED BY <2>2, <1>3
<1>5. Distinct(a)
  BY <1>4 DEF Distinct
<1> QED BY <1>1, <1>5

\* Queues of whole packets.
LEMMA JoinedWhole ==
  ASSUME NEW a \in Seq(Units), NEW b \in Seq(Units), Whole(a), Whole(b)
  PROVE  Whole(a \o b)
<1>1. PICK c \in Seq(Units) : c = a \o b
  BY Joined
<1>2. /\ Len(c) = Len(a) + Len(b) /\ DOMAIN c = 1 .. Len(c)
      /\ DOMAIN a = 1 .. Len(a) /\ DOMAIN b = 1 .. Len(b)
      /\ Len(a) \in Nat /\ Len(b) \in Nat
      /\ \A i \in 1 .. Len(a) : c[i] = a[i]
      /\ \A i \in 1 .. Len(a) + Len(b) : i > Len(a) => c[i] = b[i - Len(a)]
  BY <1>1, Joined, SeqUnits
<1>3. ASSUME NEW i \in DOMAIN c, NEW e \in 0 .. PacketSize - c[i][2]
      PROVE  i + e \in DOMAIN c /\ c[i + e] = <<c[i][1], c[i][2] + e>>
  <2>0. e \in Nat
    BY SocketAssumption, SeqUnits
  <2>1. CASE i <= Len(a)
    <3>1. i \in DOMAIN a /\ c[i] = a[i]
      BY <1>2, <2>1
    <3>2. i + e \in DOMAIN a /\ a[i + e] = <<a[i][1], a[i][2] + e>>
      BY <3>1 DEF Whole
    <3> QED BY <3>1, <3>2, <1>2
  <2>2. CASE i > Len(a)
    <3>1. PICK j : j = i - Len(a)
      OBVIOUS
    <3>2. j \in DOMAIN b /\ c[i] = b[j]
      BY <1>2, <2>2, <3>1
    <3>3. j + e \in DOMAIN b /\ b[j + e] = <<b[j][1], b[j][2] + e>>
      BY <3>2 DEF Whole
    <3>4. i + e \in DOMAIN c /\ i + e > Len(a) /\ (i + e) - Len(a) = j + e
      BY <3>1, <3>3, <2>0, <2>2, <1>2
    <3>5. c[i + e] = b[j + e]
      BY <3>4, <1>2
    <3> QED BY <3>2, <3>3, <3>4, <3>5
  <2> QED BY <2>1, <2>2, <1>2
<1> QED BY <1>1, <1>3 DEF Whole

LEMMA SuffixWhole ==
  ASSUME NEW q \in Seq(Units), NEW k \in 0 .. Len(q), Whole(q)
  PROVE  /\ Whole(SubSeq(q, k + 1, Len(q)))
         /\ Ordered(q) => Ordered(SubSeq(q, k + 1, Len(q)))
<1>1. PICK a \in Seq(Units) : a = SubSeq(q, k + 1, Len(q))
  BY Suffix
<1>2. Len(a) = Len(q) - k /\ \A i \in 1 .. Len(q) - k : a[i] = q[k + i]
  BY <1>1, Suffix
<1>3. DOMAIN a = 1 .. Len(q) - k /\ DOMAIN q = 1 .. Len(q) /\ Len(q) \in Nat
  BY <1>2, SeqUnits
<1>0. \A i \in DOMAIN a : k + i \in DOMAIN q /\ a[i] = q[k + i]
  BY <1>2, <1>3
<1>4. ASSUME NEW i \in DOMAIN a, NEW e \in 0 .. PacketSize - a[i][2]
      PROVE  i + e \in DOMAIN a /\ a[i + e] = <<a[i][1], a[i][2] + e>>
  <2>0. e \in Nat
    BY SocketAssumption, SeqUnits
  <2>1. k + i \in DOMAIN q /\ a[i] = q[k + i]
    BY <1>0
  <2>2. (k + i) + e \in DOMAIN q /\ q[(k + i) + e] = <<a[i][1], a[i][2] + e>>
    BY <2>1 DEF Whole
  <2>3. i + e \in DOMAIN a /\ (k + i) + e = k + (i + e)
    BY <2>0, <2>2, <1>3
  <2> QED BY <2>2, <2>3, <1>2, <1>3
<1>5. ASSUME Ordered(q) PROVE Ordered(a)
  <2>1. ASSUME NEW i \in DOMAIN a, a[i][2] = PacketSize, i + 1 \in DOMAIN a
        PROVE  a[i + 1][2] = 1
    <3>1. /\ k + i \in DOMAIN q /\ a[i] = q[k + i]
          /\ (k + i) + 1 \in DOMAIN q /\ a[i + 1] = q[(k + i) + 1]
      <4>1. k + (i + 1) = (k + i) + 1
        BY <1>3
      <4> QED BY <4>1, <2>1, <1>2, <1>3
    <3> QED BY <3>1, <2>1, <1>5 DEF Ordered
  <2> QED BY <2>1 DEF Ordered
<1>6. Whole(a)
  BY <1>4 DEF Whole
<1> QED BY <1>1, <1>5, <1>6

\* The packet of a unit is finished by its last unit, which comes later.
LEMMA LastUnit ==
  ASSUME NEW q \in Seq(Units), Whole(q), NEW i \in DOMAIN q
  PROVE  \E j \in DOMAIN q : j >= i /\ q[j] = <<q[i][1], PacketSize>>
<1>1. PICK e : e = PacketSize - q[i][2]
  OBVIOUS
<1>2. e \in Nat /\ e \in 0 .. PacketSize - q[i][2] /\ q[i][2] + e = PacketSize /\ i \in Nat
  BY <1>1, SeqUnits, SocketAssumption
<1>3. i + e \in DOMAIN q /\ q[i + e] = <<q[i][1], PacketSize>>
  BY <1>2 DEF Whole
<1> QED BY <1>2, <1>3

\* Exactly the finished packets have left the queue after a write.
LEMMA WrittenPackets ==
  ASSUME NEW q \in Seq(Units), NEW k \in 0 .. Len(q), Whole(q), Distinct(q)
  PROVE  /\ PacketsIn(SubSeq(q, k + 1, Len(q))) =
              PacketsIn(q) \ Finished(SubSeq(q, 1, k))
         /\ Finished(SubSeq(q, 1, k)) \subseteq PacketsIn(q)
<1>1. PICK a \in Seq(Units), b \in Seq(Units) :
        a = SubSeq(q, 1, k) /\ b = SubSeq(q, k + 1, Len(q))
  BY Prefix, Suffix
<1>2. /\ Len(a) = k /\ \A i \in 1 .. k : a[i] = q[i]
      /\ Len(b) = Len(q) - k /\ \A i \in 1 .. Len(q) - k : b[i] = q[k + i]
  BY <1>1, Prefix, Suffix
<1>3. /\ DOMAIN a = 1 .. k /\ DOMAIN q = 1 .. Len(q) /\ Len(q) \in Nat
      /\ DOMAIN b = 1 .. Len(q) - k
  BY <1>2, SeqUnits
<1>4. \A p : p \in Finished(a) <=> \E i \in DOMAIN a : a[i][1] = p /\ a[i][2] = PacketSize
  BY <1>1, SeqUnits DEF Finished, ToSet
<1>5. ASSUME NEW p, p \in Finished(a) PROVE p \in PacketsIn(q) /\ p \notin PacketsIn(b)
  <2>1. PICK i \in DOMAIN a : a[i][1] = p /\ a[i][2] = PacketSize
    BY <1>4, <1>5
  <2>2. i \in DOMAIN q /\ i <= k /\ q[i] = <<p, PacketSize>> /\ q[i][1] = p
    BY <2>1, <1>2, <1>3, SeqUnits
  <2>3. ASSUME NEW j \in DOMAIN b, b[j][1] = p PROVE FALSE
    <3>1. k + j \in DOMAIN q /\ q[k + j][1] = p
      BY <2>3, <1>2, <1>3
    <3>2. PICK l \in DOMAIN q : l >= k + j /\ q[l] = <<p, PacketSize>>
      BY <3>1, LastUnit
    <3>3. l = i
      BY <3>2, <2>2 DEF Distinct
    <3> QED BY <3>2, <3>3, <2>2, <1>3
  <2> QED BY <2>2, <2>3, InPackets
<1>6. ASSUME NEW p, p \in PacketsIn(q), p \notin Finished(a) PROVE p \in PacketsIn(b)
  <2>1. PICK i \in DOMAIN q : q[i][1] = p
    BY <1>6, InPackets
  <2>2. PICK l \in DOMAIN q : q[l] = <<p, PacketSize>>
    BY <2>1, LastUnit
  <2>3. q[l][1] = p /\ q[l][2] = PacketSize
    BY <2>2
  <2>4. l > k
    <3> SUFFICES ASSUME l <= k PROVE FALSE
      BY <1>3
    <3>1. l \in DOMAIN a /\ a[l] = q[l]
      BY <1>2, <1>3
    <3> QED BY <3>1, <2>3, <1>4, <1>6
  <2>5. PICK j : j = l - k
    OBVIOUS
  <2>6. j \in DOMAIN b /\ k + j = l /\ b[j] = q[l]
    <3>1. j \in 1 .. Len(q) - k /\ k + j = l
      BY <2>4, <2>5, <1>3
    <3> QED BY <3>1, <1>2, <1>3
  <2> QED BY <2>3, <2>6, InPackets
<1>7. ASSUME NEW p \in PacketsIn(b) PROVE p \in PacketsIn(q)
  BY <1>1, SuffixPackets
<1> QED BY <1>1, <1>5, <1>6, <1>7

\* A packet that is sent.
LEMMA UnitsOfIs ==
  ASSUME NEW p \in Packets
  PROVE  /\ UnitsOf(p) \in Seq(Units) /\ Len(UnitsOf(p)) = PacketSize
         /\ \A k \in 1 .. PacketSize : UnitsOf(p)[k] = <<p, k>>
         /\ PacketsIn(UnitsOf(p)) = {p}
         /\ Whole(UnitsOf(p)) /\ Distinct(UnitsOf(p)) /\ Ordered(UnitsOf(p))
<1>1. PICK q : q = UnitsOf(p)
  OBVIOUS
<1>2. q \in [1 .. PacketSize -> Units] /\ \A k \in 1 .. PacketSize : q[k] = <<p, k>>
  BY <1>1 DEF UnitsOf, Units
<1>3. q \in Seq(Units) /\ Len(q) = PacketSize /\ DOMAIN q = 1 .. PacketSize
  BY <1>2, SocketAssumption
<1>4. \A k \in 1 .. PacketSize : q[k][1] = p /\ q[k][2] = k
  BY <1>2
<1>5. PacketsIn(q) = {p}
  <2>1. 1 \in DOMAIN q
    BY <1>3, SocketAssumption
  <2> QED BY <2>1, <1>3, <1>4, InPackets
<1>6. Whole(q)
  BY <1>2, <1>3, <1>4, SocketAssumption DEF Whole
<1>7. Distinct(q) /\ Ordered(q)
  <2>1. ASSUME NEW i \in DOMAIN q, NEW j \in DOMAIN q, q[i] = q[j] PROVE i = j
    BY <2>1, <1>3, <1>4
  <2>2. ASSUME NEW i \in DOMAIN q, q[i][2] = PacketSize PROVE i + 1 \notin DOMAIN q
    BY <2>2, <1>3, <1>4, SocketAssumption
  <2> QED BY <2>1, <2>2 DEF Distinct, Ordered
<1> QED BY <1>1, <1>2, <1>3, <1>5, <1>6, <1>7

\* What a direct write leaves of it.
LEMMA RestOfIs ==
  ASSUME NEW p \in Packets, NEW n \in 0 .. PacketSize, n # PacketSize
  PROVE  LET q == SubSeq(UnitsOf(p), n + 1, PacketSize)
         IN q \in Seq(Units) /\ PacketsIn(q) = {p} /\ Whole(q) /\ Distinct(q)
<1>1. PICK u \in Seq(Units) : u = UnitsOf(p) /\ Len(u) = PacketSize
  BY UnitsOfIs
<1>2. PICK q \in Seq(Units) : q = SubSeq(u, n + 1, Len(u))
  BY <1>1, Suffix
<1>3. Len(q) = PacketSize - n /\ q[1] = <<p, n + 1>> /\ 1 \in DOMAIN q
  <2>1. Len(q) = PacketSize - n /\ \A i \in 1 .. PacketSize - n : q[i] = u[n + i]
    BY <1>1, <1>2, Suffix
  <2>2. 1 \in 1 .. PacketSize - n /\ n + 1 \in 1 .. PacketSize
    BY SocketAssumption
  <2>3. DOMAIN q = 1 .. PacketSize - n
    BY <2>1, SeqUnits
  <2> QED BY <2>1, <2>2, <2>3, <1>1, UnitsOfIs
<1>4. q[1][1] = p
  BY <1>3
<1>5. p \in PacketsIn(q)
  BY <1>3, <1>4, InPackets
<1>6. PacketsIn(q) \subseteq {p}
  BY <1>1, <1>2, SuffixPackets, UnitsOfIs
<1>7. Whole(q) /\ Distinct(q)
  BY <1>1, <1>2, SuffixWhole, SuffixDistinct, UnitsOfIs
<1> QED BY <1>1, <1>2, <1>5, <1>6, <1>7

\* Appending a packet that the queue does not have.
LEMMA AppendPacket ==
  ASSUME NEW q \in Seq(Units), NEW p \in Packets, Whole(q), Distinct(q), p \notin PacketsIn(q)
  PROVE  LET r == q \o UnitsOf(p)
         IN /\ r \in Seq(Units) /\ PacketsIn(r) = PacketsIn(q) \cup {p}
            /\ Whole(r) /\ Distinct(r)
            /\ Ordered(q) => Ordered(r)
            /\ (q # <<>> => q[1][2] = 1) => r[1][2] = 1
<1>1. PICK u \in Seq(Units) : u = UnitsOf(p)
  BY UnitsOfIs
<1>2. PICK r \in Seq(Units) : r = q \o u
  BY Joined
<1>3. /\ Len(u) = PacketSize /\ Len(q) \in Nat /\ Len(r) = Len(q) + PacketSize
      /\ DOMAIN r = 1 .. Len(q) + PacketSize /\ DOMAIN q = 1 .. Len(q)
      /\ \A i \in 1 .. Len(q) : r[i] = q[i]
      /\ \A i \in 1 .. PacketSize : r[Len(q) + i] = <<p, i>>
      /\ \A i \in 1 .. Len(q) + PacketSize : i > Len(q) => r[i] = <<p, i - Len(q)>>
  <2>1. /\ Len(u) = PacketSize /\ Len(q) \in Nat /\ DOMAIN q = 1 .. Len(q)
        /\ \A k \in 1 .. PacketSize : u[k] = <<p, k>>
    BY <1>1, UnitsOfIs, SeqUnits
  <2>2. /\ Len(r) = Len(q) + PacketSize /\ DOMAIN r = 1 .. Len(q) + PacketSize
        /\ \A i \in 1 .. Len(q) : r[i] = q[i]
        /\ \A i \in 1 .. PacketSize : r[Len(q) + i] = u[i]
        /\ \A i \in 1 .. Len(q) + PacketSize : i > Len(q) => r[i] = u[i - Len(q)]
    <3>1. /\ Len(r) = Len(q) + Len(u)
          /\ \A i \in 1 .. Len(q) : r[i] = q[i]
          /\ \A i \in 1 .. Len(u) : r[Len(q) + i] = u[i]
          /\ \A i \in 1 .. Len(q) + Len(u) : i > Len(q) => r[i] = u[i - Len(q)]
      BY <1>2, Joined
    <3>2. DOMAIN r = 1 .. Len(r)
      BY SeqUnits
    <3> QED BY <2>1, <3>1, <3>2
  <2>3. ASSUME NEW i \in 1 .. Len(q) + PacketSize, i > Len(q)
        PROVE  r[i] = <<p, i - Len(q)>>
    <3>1. i - Len(q) \in 1 .. PacketSize
      BY <2>1, <2>3, SocketAssumption
    <3> QED BY <3>1, <2>1, <2>2, <2>3
  <2> QED BY <2>1, <2>2, <2>3
<1>4. PacketsIn(r) = PacketsIn(q) \cup {p} /\ Whole(r)
  BY <1>1, <1>2, JoinedPackets, JoinedWhole, UnitsOfIs
<1>5. Distinct(r)
  <2>1. Apart(q, u)
    BY <1>1, UnitsOfIs DEF Apart
  <2> QED BY <2>1, <1>1, <1>2, JoinedDistinct, UnitsOfIs
<1>6. ASSUME Ordered(q) PROVE Ordered(r)
  <2>1. ASSUME NEW i \in DOMAIN r, r[i][2] = PacketSize, i + 1 \in DOMAIN r
        PROVE  r[i + 1][2] = 1
    <3>1. CASE i < Len(q)
      <4>1. i \in DOMAIN q /\ i + 1 \in DOMAIN q /\ r[i] = q[i] /\ r[i + 1] = q[i + 1]
        BY <3>1, <1>3
      <4> QED BY <4>1, <2>1, <1>6 DEF Ordered
    <3>2. CASE i = Len(q)
      <4>1. r[i + 1] = <<p, 1>>
        BY <3>2, <1>3, SocketAssumption
      <4> QED BY <4>1
    <3>3. CASE i > Len(q)
      <4>1. r[i] = <<p, i - Len(q)>>
        BY <3>3, <1>3
      <4>2. i - Len(q) = PacketSize
        BY <4>1, <2>1
      <4> QED BY <4>2, <2>1, <1>3, SocketAssumption
    <3> QED BY <3>1, <3>2, <3>3, <1>3
  <2> QED BY <2>1 DEF Ordered
<1>7. ASSUME q # <<>> => q[1][2] = 1 PROVE r[1][2] = 1
  <2>1. CASE q = <<>>
    <3>1. Len(q) = 0
      BY <2>1
    <3>2. r[1] = <<p, 1>>
      BY <3>1, <1>3, SocketAssumption
    <3> QED BY <3>2
  <2>2. CASE q # <<>>
    <3>1. 1 \in 1 .. Len(q)
      BY <2>2, <1>3
    <3> QED BY <2>2, <3>1, <1>3, <1>7
  <2> QED BY <2>1, <2>2
<1> QED BY <1>1, <1>2, <1>4, <1>5, <1>6, <1>7

\* A write ends in the first of two queues, or in the second.
LEMMA SuffixLeft ==
  ASSUME NEW a \in Seq(Units), NEW b \in Seq(Units), NEW k \in 0 .. Len(a)
  PROVE  SubSeq(a \o b, k + 1, Len(a \o b)) = SubSeq(a, k + 1, Len(a)) \o b
<1>1. PICK c \in Seq(Units) : c = a \o b
  BY Joined
<1>2. /\ Len(c) = Len(a) + Len(b) /\ Len(a) \in Nat /\ Len(b) \in Nat
      /\ \A i \in 1 .. Len(a) : c[i] = a[i]
      /\ \A i \in 1 .. Len(b) : c[Len(a) + i] = b[i]
  BY <1>1, Joined, SeqUnits
<1>3. PICK d \in Seq(Units), e \in Seq(Units) :
        d = SubSeq(c, k + 1, Len(c)) /\ e = SubSeq(a, k + 1, Len(a))
  <2>1. k \in 0 .. Len(c)
    BY <1>2
  <2> QED BY <2>1, Suffix
<1>4. /\ Len(d) = Len(c) - k /\ \A i \in 1 .. Len(c) - k : d[i] = c[k + i]
      /\ Len(e) = Len(a) - k /\ \A i \in 1 .. Len(a) - k : e[i] = a[k + i]
  <2>1. k \in 0 .. Len(c)
    BY <1>2
  <2> QED BY <2>1, <1>3, Suffix
<1>5. PICK f \in Seq(Units) : f = e \o b
  BY Joined
<1>6. /\ Len(f) = Len(e) + Len(b)
      /\ \A i \in 1 .. Len(e) : f[i] = e[i]
      /\ \A i \in 1 .. Len(e) + Len(b) : i > Len(e) => f[i] = b[i - Len(e)]
  BY <1>5, Joined
<1>7. Len(d) = Len(f)
  BY <1>2, <1>4, <1>6
<1>8. ASSUME NEW i \in 1 .. Len(d) PROVE d[i] = f[i]
  <2>1. CASE i <= Len(a) - k
    <3>1. i \in 1 .. Len(e) /\ i \in 1 .. Len(c) - k /\ k + i \in 1 .. Len(a)
      BY <2>1, <1>2, <1>4
    <3>2. f[i] = e[i] /\ e[i] = a[k + i] /\ d[i] = c[k + i] /\ c[k + i] = a[k + i]
      BY <3>1, <1>2, <1>4, <1>6
    <3> QED BY <3>2
  <2>2. CASE i > Len(a) - k
    <3>1. PICK j : j = i - Len(e)
      OBVIOUS
    <3>2. j \in 1 .. Len(b) /\ k + i = Len(a) + j /\ i > Len(e) /\ i \in 1 .. Len(c) - k
          /\ i \in 1 .. Len(e) + Len(b)
      BY <2>2, <3>1, <1>2, <1>4
    <3>3. f[i] = b[j] /\ d[i] = c[Len(a) + j]
      BY <3>1, <3>2, <1>4, <1>6
    <3>4. c[Len(a) + j] = b[j]
      BY <3>2, <1>2
    <3> QED BY <3>3, <3>4
  <2> QED BY <2>1, <2>2, <1>2, <1>4
<1>9. d = f
  BY <1>7, <1>8, SeqEqual
<1> QED BY <1>1, <1>3, <1>5, <1>9

LEMMA SuffixRight ==
  ASSUME NEW a \in Seq(Units), NEW b \in Seq(Units), NEW k \in Len(a) .. Len(a \o b)
  PROVE  /\ k - Len(a) \in 0 .. Len(b)
         /\ SubSeq(a \o b, k + 1, Len(a \o b)) = SubSeq(b, (k - Len(a)) + 1, Len(b))
<1>1. PICK c \in Seq(Units) : c = a \o b
  BY Joined
<1>2. /\ Len(c) = Len(a) + Len(b) /\ Len(a) \in Nat /\ Len(b) \in Nat
      /\ \A i \in 1 .. Len(b) : c[Len(a) + i] = b[i]
  BY <1>1, Joined, SeqUnits
<1>0. k \in 0 .. Len(c) /\ k - Len(a) \in 0 .. Len(b)
  BY <1>1, <1>2
<1>3. PICK d \in Seq(Units), e \in Seq(Units) :
        d = SubSeq(c, k + 1, Len(c)) /\ e = SubSeq(b, (k - Len(a)) + 1, Len(b))
  BY <1>0, Suffix
<1>4. /\ Len(d) = Len(c) - k /\ \A i \in 1 .. Len(c) - k : d[i] = c[k + i]
      /\ Len(e) = Len(b) - (k - Len(a))
      /\ \A i \in 1 .. Len(b) - (k - Len(a)) : e[i] = b[(k - Len(a)) + i]
  BY <1>0, <1>3, Suffix
<1>5. Len(d) = Len(e)
  BY <1>0, <1>2, <1>4
<1>6. ASSUME NEW i \in 1 .. Len(d) PROVE d[i] = e[i]
  <2>1. PICK j : j = (k - Len(a)) + i
    OBVIOUS
  <2>2. /\ j \in 1 .. Len(b) /\ k + i = Len(a) + j
        /\ i \in 1 .. Len(c) - k /\ i \in 1 .. Len(b) - (k - Len(a))
    BY <2>1, <1>0, <1>2, <1>4
  <2>3. d[i] = c[Len(a) + j] /\ e[i] = b[j]
    BY <2>1, <2>2, <1>4
  <2> QED BY <2>2, <2>3, <1>2
<1>7. d = e
  BY <1>5, <1>6, SeqEqual
<1> QED BY <1>0, <1>1, <1>3, <1>7

\* raise_uncomplete: the rest of the packet at the head leaves the low list.
RestOf(L) == IF L = <<>> \/ L[1][2] = 1 THEN 0 ELSE PacketSize + 1 - L[1][2]
LEMMA WithinRest ==
  ASSUME NEW n \in Int, NEW c \in Int, NEW i \in Int, NEW m \in Int, NEW e \in Int,
         m = n + 1 - c, i \in 1 .. m, e \in 0 .. n - ((c - 1) + i)
  PROVE  i + e \in 1 .. m /\ (c - 1) + (i + e) = ((c - 1) + i) + e
OBVIOUS

LEMMA RaiseIs ==
  ASSUME NEW L \in Seq(Units), Whole(L), Distinct(L), Ordered(L)
  PROVE  LET a == SubSeq(L, 1, RestOf(L))
             b == SubSeq(L, RestOf(L) + 1, Len(L))
         IN /\ RestOf(L) \in 0 .. Len(L)
            /\ a \in Seq(Units) /\ b \in Seq(Units) /\ L = a \o b
            /\ Whole(a) /\ Whole(b) /\ Distinct(a) /\ Distinct(b) /\ Apart(a, b)
            /\ Ordered(b) /\ (b # <<>> => b[1][2] = 1)
<1>1. PICK m : m = RestOf(L)
  OBVIOUS
<1>2. Len(L) \in Nat /\ DOMAIN L = 1 .. Len(L)
  BY SeqUnits
<1>3. CASE L = <<>> \/ L[1][2] = 1
  <2>1. m = 0
    BY <1>1, <1>3 DEF RestOf
  <2>2. SubSeq(L, 1, m) = <<>> /\ SubSeq(L, m + 1, Len(L)) = L
    BY <2>1, <1>2, SubSeqEmpty, SubSeqFull
  <2>3. L = <<>> \o L /\ m \in 0 .. Len(L)
    BY <2>1, <1>2, ConcatEmptySeq
  <2>4. Apart(<<>>, L)
    BY NoPackets DEF Apart
  <2> QED BY <2>2, <2>3, <2>4, <1>1, <1>3, NoPackets, NoUnits
<1>4. CASE ~(L = <<>> \/ L[1][2] = 1)
  <2>1. 1 \in DOMAIN L /\ m = PacketSize + 1 - L[1][2]
    BY <1>1, <1>2, <1>4 DEF RestOf
  <2>2. PICK p, c : c = L[1][2] /\ p = L[1][1]
    OBVIOUS
  <2>3. c \in 2 .. PacketSize /\ p \in Packets /\ m = PacketSize + 1 - c
    BY <2>1, <2>2, <1>4, SeqUnits, SocketAssumption
  <2>4. m \in 1 .. Len(L) /\ \A i \in 1 .. m : L[i] = <<p, (c - 1) + i>>
    <3>1. ASSUME NEW i \in 1 .. m PROVE i \in DOMAIN L /\ L[i] = <<p, (c - 1) + i>>
      <4>1. i - 1 \in 0 .. PacketSize - L[1][2] /\ 1 + (i - 1) = i
        BY <2>2, <2>3, SocketAssumption
      <4>2. i \in DOMAIN L /\ L[i] = <<p, c + (i - 1)>>
        BY <4>1, <2>1, <2>2 DEF Whole
      <4> QED BY <4>2, <2>3
    <3>2. m \in 1 .. m /\ m \in Nat
      BY <2>3, SocketAssumption
    <3> QED BY <3>1, <3>2, <1>2
  <2>5. PICK a \in Seq(Units), b \in Seq(Units) :
          a = SubSeq(L, 1, m) /\ b = SubSeq(L, m + 1, Len(L))
    <3>1. m \in 0 .. Len(L)
      BY <2>4, <1>2
    <3> QED BY <3>1, Prefix, Suffix
  <2>6. /\ Len(a) = m /\ DOMAIN a = 1 .. m /\ \A i \in 1 .. m : a[i] = L[i]
        /\ Len(b) = Len(L) - m /\ DOMAIN b = 1 .. Len(L) - m
        /\ \A i \in 1 .. Len(L) - m : b[i] = L[m + i]
    <3>1. m \in 0 .. Len(L)
      BY <2>4, <1>2
    <3>2. Len(a) = m /\ \A i \in 1 .. m : a[i] = L[i]
      BY <3>1, <2>5, Prefix
    <3>3. Len(b) = Len(L) - m /\ \A i \in 1 .. Len(L) - m : b[i] = L[m + i]
      BY <3>1, <2>5, Suffix
    <3> QED BY <3>2, <3>3, SeqUnits
  <2>7. L = a \o b
    <3>1. SubSeq(L, 1, m) \o SubSeq(L, m + 1, Len(L)) = SubSeq(L, 1, Len(L))
      <4>1. /\ 1 \in 1 .. Len(L) + 1 /\ m \in 1 - 1 .. Len(L) /\ Len(L) \in m .. Len(L)
        BY <2>4, <1>2
      <4> QED BY <4>1, ConcatAdjacentSubSeq
    <3> QED BY <3>1, <2>5, SubSeqFull
  <2>8. \A i \in 1 .. m : a[i] = <<p, (c - 1) + i>> /\ a[i][1] = p /\ a[i][2] = (c - 1) + i
    BY <2>4, <2>6
  <2>9. Whole(a)
    <3>1. ASSUME NEW i \in DOMAIN a, NEW e \in 0 .. PacketSize - a[i][2]
          PROVE  i + e \in DOMAIN a /\ a[i + e] = <<a[i][1], a[i][2] + e>>
      <4>1. i \in 1 .. m /\ a[i][1] = p /\ a[i][2] = (c - 1) + i
        BY <2>6, <2>8
      <4>2. i + e \in 1 .. m /\ (c - 1) + (i + e) = ((c - 1) + i) + e
        <5>1. e \in 0 .. PacketSize - ((c - 1) + i)
          BY <4>1
        <5>2. PICK f \in Int, j \in Int : f = e /\ j = i
          BY <4>1, <5>1, <2>3, SocketAssumption
        <5>3. PacketSize \in Int /\ c \in Int /\ m \in Int
          BY <2>3, SocketAssumption
        <5>4. j \in 1 .. m /\ m = PacketSize + 1 - c /\ f \in 0 .. PacketSize - ((c - 1) + j)
          BY <4>1, <5>1, <5>2, <2>3
        <5>5. j + f \in 1 .. m /\ (c - 1) + (j + f) = ((c - 1) + j) + f
          BY <5>3, <5>4, WithinRest
        <5> QED BY <5>2, <5>5
      <4> QED BY <4>1, <4>2, <2>6, <2>8
    <3> QED BY <3>1 DEF Whole
  <2>10. Distinct(a)
    <3>1. ASSUME NEW i \in DOMAIN a, NEW j \in DOMAIN a, a[i] = a[j] PROVE i = j
      <4>1. (c - 1) + i = (c - 1) + j
        BY <3>1, <2>6, <2>8
      <4> QED BY <4>1, <2>3, <2>6
    <3> QED BY <3>1 DEF Distinct
  <2>11. Whole(b) /\ Ordered(b) /\ Distinct(b)
    <3>1. m \in 0 .. Len(L)
      BY <2>4, <1>2
    <3> QED BY <3>1, <2>5, SuffixWhole, SuffixDistinct
  <2>12. Apart(a, b)
    <3>1. ASSUME NEW x \in PacketsIn(a), x \in PacketsIn(b) PROVE FALSE
      <4>1. x = p
        <5>1. PICK i \in DOMAIN a : a[i][1] = x
          BY InPackets
        <5> QED BY <5>1, <2>6, <2>8
      <4>2. PICK j \in DOMAIN b : b[j][1] = p
        BY <3>1, <4>1, InPackets
      <4>3. m + j \in DOMAIN L /\ L[m + j][1] = p
        BY <4>2, <2>4, <2>6, <1>2
      <4>4. PICK l \in DOMAIN L : l >= m + j /\ L[l] = <<p, PacketSize>>
        BY <4>3, LastUnit
      <4>5. m \in DOMAIN L /\ L[m] = <<p, PacketSize>>
        <5>1. m \in 1 .. m /\ (c - 1) + m = PacketSize
          BY <2>3, <2>4, <1>2, SocketAssumption
        <5> QED BY <5>1, <2>4, <1>2
      <4>6. l = m
        BY <4>4, <4>5 DEF Distinct
      <4> QED BY <4>2, <4>4, <4>6, <2>4, <2>6, <1>2
    <3> QED BY <3>1 DEF Apart
  <2>13. ASSUME b # <<>> PROVE b[1][2] = 1
    <3>1. 1 \in DOMAIN b
      BY <2>13, SeqUnits
    <3>2. m + 1 \in DOMAIN L /\ b[1] = L[m + 1] /\ m \in DOMAIN L
      BY <3>1, <2>4, <2>6, <1>2
    <3>3. L[m][2] = PacketSize
      <4>1. m \in 1 .. m /\ (c - 1) + m = PacketSize
        BY <2>3, <2>4, <1>2, SocketAssumption
      <4> QED BY <4>1, <2>4
    <3> QED BY <3>2, <3>3 DEF Ordered
  <2>14. m \in 0 .. Len(L)
    BY <2>4, <1>2
  <2> QED BY <2>5, <2>7, <2>9, <2>10, <2>11, <2>12, <2>13, <2>14, <1>1
<1> QED BY <1>3, <1>4

\* The queues of a slot: dw_buffer, the high and the low list.
LEMMA BacklogIs ==
  ASSUME TypeOK, NEW s \in Slot
  PROVE  /\ slot[s].dw \in Seq(Units) /\ slot[s].high \in Seq(Units)
         /\ slot[s].low \in Seq(Units) /\ HighList(s) \in Seq(Units)
         /\ Backlog(s) \in Seq(Units)
         /\ PacketsIn(HighList(s)) = PacketsIn(slot[s].dw) \cup PacketsIn(slot[s].high)
         /\ PacketsIn(slot[s].high \o slot[s].low)
              = PacketsIn(slot[s].high) \cup PacketsIn(slot[s].low)
         /\ PacketsIn(Backlog(s)) = PacketsIn(slot[s].dw) \cup PacketsIn(slot[s].high)
                                      \cup PacketsIn(slot[s].low)
<1>1. slot[s] \in Sockets
  BY DEF TypeOK
<1>2. PICK d \in Seq(Units), h \in Seq(Units), l \in Seq(Units) :
        d = slot[s].dw /\ h = slot[s].high /\ l = slot[s].low
  BY <1>1 DEF Sockets
<1>3. d \o h \in Seq(Units) /\ (d \o h) \o l \in Seq(Units)
  BY Joined
<1>4. PacketsIn((d \o h) \o l) = PacketsIn(d \o h) \cup PacketsIn(l)
  BY <1>3, JoinedPackets
<1>5. PacketsIn(d \o h) = PacketsIn(d) \cup PacketsIn(h)
  BY JoinedPackets
<1>6. PacketsIn(h \o l) = PacketsIn(h) \cup PacketsIn(l)
  BY JoinedPackets
<1>7. HighList(s) = d \o h /\ Backlog(s) = (d \o h) \o l
  BY <1>2 DEF HighList, Backlog
<1> QED BY <1>2, <1>3, <1>4, <1>5, <1>6, <1>7

\* The parts of Lists that a write or a close does not concern.
Sound(d, h, l) ==
  /\ Whole(d) /\ Whole(h) /\ Whole(l) /\ Distinct(d) /\ Distinct(h) /\ Distinct(l)
  /\ Apart(d, h) /\ Apart(d, l) /\ Apart(h, l)
  /\ Ordered(l) /\ (l # <<>> => l[1][2] = 1)

\* The lists a and b after k units of the high list H, with dw_buffer, and the
\* low list l were written.
WriteOf(H, l, k, a, b) ==
  LET L == SubSeq(l, k - Len(H) + 1, Len(l))
  IN /\ a = IF k < Len(H) THEN SubSeq(H, k + 1, Len(H)) ELSE SubSeq(L, 1, RestOf(L))
     /\ b = IF k < Len(H) THEN l ELSE SubSeq(L, RestOf(L) + 1, Len(L))
WriteDone(H, l, k, a, b) ==
  /\ a \in Seq(Units) /\ b \in Seq(Units) /\ Sound(<<>>, a, b)
  /\ a \o b = SubSeq(H \o l, k + 1, Len(H \o l))
  /\ PacketsIn(a \o b) = PacketsIn(H \o l) \ Finished(SubSeq(H \o l, 1, k))
  /\ Finished(SubSeq(H \o l, 1, k)) \subseteq PacketsIn(H \o l)

\* send_buffer keeps the queues sound, and drops what is finished.
LEMMA WriteQueues ==
  ASSUME NEW d \in Seq(Units), NEW h \in Seq(Units), NEW l \in Seq(Units), Sound(d, h, l),
         NEW H, H = d \o h, NEW k \in 0 .. Len(H \o l), NEW a, NEW b,
         WriteOf(H, l, k, a, b)
  PROVE  WriteDone(H, l, k, a, b)
<1> DEFINE L == SubSeq(l, k - Len(H) + 1, Len(l))
<1>0. /\ a = IF k < Len(H) THEN SubSeq(H, k + 1, Len(H)) ELSE SubSeq(L, 1, RestOf(L))
      /\ b = IF k < Len(H) THEN l ELSE SubSeq(L, RestOf(L) + 1, Len(L))
  BY DEF WriteOf
<1> HIDE DEF L
<1>1. H \in Seq(Units)
  BY Joined
<1>2. /\ Whole(H) /\ Distinct(H) /\ Apart(H, l)
  BY <1>1, JoinedWhole, JoinedDistinct, JoinedPackets DEF Sound, Apart
<1>3. PICK q \in Seq(Units) : q = H \o l
  BY Joined
<1>4. Whole(q) /\ Distinct(q) /\ Len(q) = Len(H) + Len(l) /\ Len(H) \in Nat /\ Len(l) \in Nat
  BY <1>2, <1>3, JoinedWhole, JoinedDistinct, Joined, SeqUnits DEF Sound
<1>5. k \in 0 .. Len(q)
  BY <1>1, <1>3
<1>6. /\ PacketsIn(SubSeq(q, k + 1, Len(q))) = PacketsIn(q) \ Finished(SubSeq(q, 1, k))
      /\ Finished(SubSeq(q, 1, k)) \subseteq PacketsIn(q)
  BY <1>4, <1>5, WrittenPackets
<1>7. CASE k < Len(H)
  <2>2. k \in 0 .. Len(H)
    BY <1>4, <1>5, <1>7
  <2>1. a = SubSeq(H, k + 1, Len(H)) /\ b = l /\ a \in Seq(Units)
    BY <2>2, <1>0, <1>1, <1>7, Suffix
  <2>6. SubSeq(H \o l, k + 1, Len(H \o l)) = SubSeq(H, k + 1, Len(H)) \o l
    BY <2>2, <1>1, SuffixLeft
  <2>3. a \o l = SubSeq(q, k + 1, Len(q))
    BY <2>1, <2>6, <1>3
  <2>4. Whole(a) /\ Distinct(a) /\ PacketsIn(a) \subseteq PacketsIn(H)
    BY <2>1, <2>2, <1>1, <1>2, SuffixWhole, SuffixDistinct, SuffixPackets
  <2>5. Sound(<<>>, a, l)
    BY <2>4, <1>2, NoPackets DEF Sound, Apart
  <2> QED BY <2>1, <2>3, <2>5, <1>3, <1>6 DEF WriteDone
<1>8. CASE ~(k < Len(H))
  <2>1. k \in Len(H) .. Len(H \o l)
    BY <1>3, <1>4, <1>5, <1>8
  <2>2. /\ k - Len(H) \in 0 .. Len(l)
        /\ SubSeq(q, k + 1, Len(q)) = SubSeq(l, (k - Len(H)) + 1, Len(l))
    BY <2>1, <1>1, <1>3, SuffixRight
  <2>3. L = SubSeq(l, (k - Len(H)) + 1, Len(l)) /\ L \in Seq(Units)
    BY <2>2, Suffix DEF L
  <2>4. Whole(L) /\ Distinct(L) /\ Ordered(L)
    BY <2>2, <2>3, SuffixWhole, SuffixDistinct DEF Sound
  <2>5. a = SubSeq(L, 1, RestOf(L)) /\ b = SubSeq(L, RestOf(L) + 1, Len(L))
    BY <1>0, <1>8
  <2>6. /\ a \in Seq(Units) /\ b \in Seq(Units) /\ L = a \o b
        /\ Whole(a) /\ Whole(b) /\ Distinct(a) /\ Distinct(b) /\ Apart(a, b)
        /\ Ordered(b) /\ (b # <<>> => b[1][2] = 1)
    BY <2>3, <2>4, <2>5, RaiseIs
  <2>7. Sound(<<>>, a, b)
    BY <2>6, NoPackets DEF Sound, Apart
  <2> QED BY <2>2, <2>3, <2>6, <2>7, <1>3, <1>6 DEF WriteDone
<1> QED BY <1>7, <1>8

\* What a slot is after a write of k units that does not close it.
LEMMA AfterWriteIs ==
  ASSUME TypeOK, NEW s \in Slot, Lists(s), NEW k \in 0 .. Len(Backlog(s)),
         slot' = [slot EXCEPT ![s] = IF Drained(s, k)
                                 THEN [AfterWrite(s, k) EXCEPT !.wr = FALSE, !.warn = 0]
                                 ELSE AfterWrite(s, k)]
  PROVE  /\ Only(s) /\ slot'[s].type = slot[s].type /\ SameCount(s)
         /\ slot'[s].dw = <<>> /\ Sound(<<>>, slot'[s].high, slot'[s].low)
         /\ slot'[s].high \o slot'[s].low
              = SubSeq(Backlog(s), k + 1, Len(Backlog(s)))
         /\ PacketsIn(slot'[s].high \o slot'[s].low)
              = PacketsIn(Backlog(s)) \ Finished(SubSeq(Backlog(s), 1, k))
         /\ Finished(SubSeq(Backlog(s), 1, k)) \subseteq PacketsIn(Backlog(s))
<1>1. slot[s] \in Sockets
  BY DEF TypeOK
<1>2. PICK d \in Seq(Units), h \in Seq(Units), l \in Seq(Units) :
        d = slot[s].dw /\ h = slot[s].high /\ l = slot[s].low
  BY <1>1 DEF Sockets
<1>3. HighList(s) = d \o h /\ Backlog(s) = (d \o h) \o l /\ Sound(d, h, l)
  BY <1>2 DEF HighList, Backlog, Lists, Sound
<1>4. PICK H : H = d \o h
  OBVIOUS
<1>5. PICK L, a, b :
        /\ L = SubSeq(l, k - Len(H) + 1, Len(l))
        /\ a = IF k < Len(H) THEN SubSeq(H, k + 1, Len(H)) ELSE SubSeq(L, 1, RestOf(L))
        /\ b = IF k < Len(H) THEN l ELSE SubSeq(L, RestOf(L) + 1, Len(L))
  OBVIOUS
<1>6. WriteDone(H, l, k, a, b)
  <2>1. k \in 0 .. Len(H \o l)
    BY <1>3, <1>4
  <2>2. WriteOf(H, l, k, a, b)
    BY <1>5 DEF WriteOf
  <2> QED BY <2>1, <2>2, <1>3, <1>4, WriteQueues
<1>7. AfterWrite(s, k) = IF k < Len(H) THEN [slot[s] EXCEPT !.dw = <<>>, !.high = a]
                         ELSE [slot[s] EXCEPT !.dw = <<>>, !.high = a, !.low = b]
  <2>0. HighList(s) = H /\ slot[s].low = l
    BY <1>2, <1>3, <1>4
  <2>1. CASE k < Len(H)
    <3>1. a = SubSeq(H, k + 1, Len(H))
      BY <2>1, <1>5
    <3>2. AfterWrite(s, k) = [slot[s] EXCEPT !.dw = <<>>, !.high = SubSeq(H, k + 1, Len(H))]
      BY <2>0, <2>1 DEF AfterWrite
    <3> QED BY <2>1, <3>1, <3>2
  <2>2. CASE ~(k < Len(H))
    <3>1. a = SubSeq(L, 1, RestOf(L)) /\ b = SubSeq(L, RestOf(L) + 1, Len(L))
      BY <2>2, <1>5
    <3>2. AfterWrite(s, k) = [slot[s] EXCEPT !.dw = <<>>, !.high = SubSeq(L, 1, RestOf(L)),
                                             !.low = SubSeq(L, RestOf(L) + 1, Len(L))]
      BY <2>0, <2>2, <1>5 DEF AfterWrite, RestOf
    <3> QED BY <2>2, <3>1, <3>2
  <2> QED BY <2>1, <2>2
<1>8. PICK r : r = IF Drained(s, k) THEN [AfterWrite(s, k) EXCEPT !.wr = FALSE, !.warn = 0]
                   ELSE AfterWrite(s, k)
  OBVIOUS
<1>9. /\ r \in Sockets /\ r.type = slot[s].type /\ r.id = slot[s].id /\ r.tcp = slot[s].tcp
      /\ r.tag = slot[s].tag /\ r.sending = slot[s].sending
      /\ r.dw = <<>> /\ r.high = a /\ r.low = b
  <2>1. CASE k < Len(H)
    <3>1. b = slot[s].low
      BY <2>1, <1>2, <1>5
    <3>2. PICK x : x = [slot[s] EXCEPT !.dw = <<>>, !.high = a]
      OBVIOUS
    <3>3. x \in Sockets /\ x.high = a /\ x.low = b /\ x.dw = <<>>
          /\ x.type = slot[s].type /\ x.id = slot[s].id /\ x.tcp = slot[s].tcp
          /\ x.tag = slot[s].tag /\ x.sending = slot[s].sending
      BY <3>1, <3>2, <1>1, <1>6, NoUnits DEF Sockets, WriteDone
    <3>4. r = x \/ r = [x EXCEPT !.wr = FALSE, !.warn = 0]
      BY <3>2, <2>1, <1>7, <1>8
    <3>5. CASE r = x
      BY <3>3, <3>5
    <3>6. CASE r = [x EXCEPT !.wr = FALSE, !.warn = 0]
      BY <3>3, <3>6 DEF Sockets
    <3> QED BY <3>4, <3>5, <3>6
  <2>2. CASE ~(k < Len(H))
    <3>2. PICK x : x = [slot[s] EXCEPT !.dw = <<>>, !.high = a, !.low = b]
      OBVIOUS
    <3>3. x \in Sockets /\ x.high = a /\ x.low = b /\ x.dw = <<>>
          /\ x.type = slot[s].type /\ x.id = slot[s].id /\ x.tcp = slot[s].tcp
          /\ x.tag = slot[s].tag /\ x.sending = slot[s].sending
      BY <3>2, <1>1, <1>6, NoUnits DEF Sockets, WriteDone
    <3>4. r = x \/ r = [x EXCEPT !.wr = FALSE, !.warn = 0]
      BY <3>2, <2>2, <1>7, <1>8
    <3>5. CASE r = x
      BY <3>3, <3>5
    <3>6. CASE r = [x EXCEPT !.wr = FALSE, !.warn = 0]
      BY <3>3, <3>6 DEF Sockets
    <3> QED BY <3>4, <3>5, <3>6
  <2> QED BY <2>1, <2>2
<1>10. Only(s) /\ slot'[s] = r
  BY <1>8, <1>9, PutSocket
<1> QED BY <1>3, <1>4, <1>6, <1>9, <1>10 DEF SameCount, SameTag, WriteDone

\* send_socket on a socket that takes the packet; dec_sending_ref counts it.
LEMMA AppendedIs ==
  ASSUME TypeOK, NEW s \in Slot, NEW p \in Packets, Lists(s), p \notin PacketsIn(Backlog(s))
  PROVE  LET r == Appended(s, p)
         IN /\ r \in Sockets /\ r.type = slot[s].type /\ r.id = slot[s].id
            /\ r.tcp = slot[s].tcp /\ r.tag = slot[s].tag /\ r.sending = slot[s].sending
            /\ r.dw = slot[s].dw /\ Sound(r.dw, r.high, r.low)
            /\ PacketsIn(r.high \o r.low) =
                 PacketsIn(slot[s].high \o slot[s].low) \cup {p}
            /\ \/ r.high = slot[s].high /\ r.low = slot[s].low \o UnitsOf(p) /\ packet[p].low
               \/ r.high = slot[s].high \o UnitsOf(p) /\ r.low = slot[s].low
<1>1. slot[s] \in Sockets
  BY DEF TypeOK
<1>2. PICK d \in Seq(Units), h \in Seq(Units), l \in Seq(Units) :
        d = slot[s].dw /\ h = slot[s].high /\ l = slot[s].low
  BY <1>1 DEF Sockets
<1>3. Sound(d, h, l)
  BY <1>2 DEF Lists, Sound
<1>4. p \notin PacketsIn(d) /\ p \notin PacketsIn(h) /\ p \notin PacketsIn(l)
  BY <1>2, BacklogIs
<1> DEFINE first == send_buffer_empty(s) /\ slot[s].type = "CONNECTED"
           x == IF packet[p].low /\ ~first
                THEN [slot[s] EXCEPT !.low = @ \o UnitsOf(p)]
                ELSE [slot[s] EXCEPT !.high = @ \o UnitsOf(p), !.wr = @ \/ first]
           w == IF x.warn = 0 THEN 2 * WarningSize ELSE 2 * x.warn
           r == Appended(s, p)
<1>5. r = x \/ r = [x EXCEPT !.warn = w]
  BY DEF Appended
<1>6. /\ x \in Sockets /\ x.type = slot[s].type /\ x.id = slot[s].id
      /\ x.tcp = slot[s].tcp /\ x.tag = slot[s].tag /\ x.sending = slot[s].sending
      /\ x.dw = d /\ Sound(d, x.high, x.low)
      /\ PacketsIn(x.high \o x.low) = PacketsIn(h \o l) \cup {p}
      /\ \/ x.high = h /\ x.low = l \o UnitsOf(p) /\ packet[p].low
         \/ x.high = h \o UnitsOf(p) /\ x.low = l
  <2>1. CASE packet[p].low /\ ~first
    <3>1. PICK m : m = l \o UnitsOf(p)
      OBVIOUS
    <3>2. /\ m \in Seq(Units) /\ PacketsIn(m) = PacketsIn(l) \cup {p}
          /\ Whole(m) /\ Distinct(m) /\ Ordered(m) /\ m[1][2] = 1
      BY <3>1, <1>3, <1>4, AppendPacket DEF Sound
    <3>3. Sound(d, h, m)
      BY <3>2, <1>3, <1>4 DEF Sound, Apart
    <3>4. PICK y : y = [slot[s] EXCEPT !.low = m]
      OBVIOUS
    <3>5. /\ y \in Sockets /\ y.type = slot[s].type /\ y.id = slot[s].id
          /\ y.tcp = slot[s].tcp /\ y.tag = slot[s].tag /\ y.sending = slot[s].sending
          /\ y.dw = d /\ y.high = h /\ y.low = m
      BY <3>2, <3>4, <1>1, <1>2 DEF Sockets
    <3>6. x = y
      BY <2>1, <3>1, <3>4, <1>2
    <3>7. PacketsIn(h \o m) = PacketsIn(h \o l) \cup {p}
      BY <3>2, JoinedPackets
    <3> QED BY <2>1, <3>1, <3>3, <3>5, <3>6, <3>7
  <2>2. CASE ~(packet[p].low /\ ~first)
    <3>1. PICK m : m = h \o UnitsOf(p)
      OBVIOUS
    <3>2. /\ m \in Seq(Units) /\ PacketsIn(m) = PacketsIn(h) \cup {p}
          /\ Whole(m) /\ Distinct(m)
      BY <3>1, <1>3, <1>4, AppendPacket DEF Sound
    <3>3. Sound(d, m, l)
      BY <3>2, <1>3, <1>4 DEF Sound, Apart
    <3>4. PICK c \in BOOLEAN : c = (slot[s].wr \/ first)
      OBVIOUS
    <3>5. PICK y : y = [slot[s] EXCEPT !.high = m, !.wr = c]
      OBVIOUS
    <3>6. /\ y \in Sockets /\ y.type = slot[s].type /\ y.id = slot[s].id
          /\ y.tcp = slot[s].tcp /\ y.tag = slot[s].tag /\ y.sending = slot[s].sending
          /\ y.dw = d /\ y.high = m /\ y.low = l
      BY <3>2, <3>5, <1>1, <1>2 DEF Sockets
    <3>7. x = y
      BY <2>2, <3>1, <3>4, <3>5, <1>2
    <3>8. PacketsIn(m \o l) = PacketsIn(h \o l) \cup {p}
      BY <3>2, JoinedPackets
    <3> QED BY <3>1, <3>3, <3>6, <3>7, <3>8
  <2> QED BY <2>1, <2>2
<1> HIDE DEF x, r
<1>7. w \in Nat
  <2>1. x.warn \in Nat
    BY <1>6 DEF Sockets
  <2> QED BY <2>1, SocketAssumption
<1> HIDE DEF w
<1>8. /\ r \in Sockets /\ r.type = x.type /\ r.id = x.id /\ r.tcp = x.tcp /\ r.tag = x.tag
      /\ r.sending = x.sending /\ r.dw = x.dw /\ r.high = x.high /\ r.low = x.low
  BY <1>5, <1>6, <1>7 DEF Sockets
<1>9. /\ r.type = slot[s].type /\ r.id = slot[s].id
      /\ r.tcp = slot[s].tcp /\ r.tag = slot[s].tag /\ r.sending = slot[s].sending
      /\ r.dw = slot[s].dw /\ Sound(r.dw, r.high, r.low)
      /\ PacketsIn(r.high \o r.low) = PacketsIn(slot[s].high \o slot[s].low) \cup {p}
      /\ \/ r.high = slot[s].high /\ r.low = slot[s].low \o UnitsOf(p) /\ packet[p].low
         \/ r.high = slot[s].high \o UnitsOf(p) /\ r.low = slot[s].low
  BY <1>2, <1>6, <1>8
<1> QED BY <1>8, <1>9 DEF r

-----------------------------------------------------------------------------
(* Control: steps that reserve no slot.                                    *)

\* The slot keeps its id, and is reserved neither by this step nor any longer.
Calm(t) ==
  /\ SameTag(t)
  /\ slot[t].type = "RESERVE" <=> slot'[t].type = "RESERVE"
  /\ slot[t].type = "INVALID" => slot'[t].type = "INVALID"

\* The ids that are known, the packets that were sent and the packets that were
\* overtaken become only more, and what they are for stays.
Grows ==
  /\ known \subseteq known' /\ sent' \in Nat /\ sent <= sent'
  /\ \A p \in 1 .. sent : packet'[p] = packet[p]
  /\ overtaken \subseteq overtaken'
\* A new known id has a socket.
KnownOpen == \A id \in known' \ known : \E t \in Slot : slot[t].id = id /\ ~Vacant(t)

\* The fields of a step that are numbers.
LEMMA Numbers ==
  ASSUME TypeOK
  PROVE  /\ alloc \in Nat /\ sent \in Nat /\ sent <= MaxSend
         /\ \A s \in Slot : slot[s] \in Sockets /\ slot[s].id \in Nat
         /\ \A w \in Workers : worker[w].id \in Nat /\ HASH_ID(worker[w].id) \in Slot
         /\ Len(pipe) \in Nat /\ DOMAIN pipe = 1 .. Len(pipe)
         /\ \A i \in DOMAIN pipe : /\ pipe[i] \in Requests /\ pipe[i].id \in Ids
                                   /\ HASH_ID(pipe[i].id) \in Slot
<1>1. alloc \in Nat /\ sent \in Nat /\ sent <= MaxSend
  BY SocketAssumption DEF TypeOK
<1>2. \A s \in Slot : slot[s] \in Sockets /\ slot[s].id \in Nat
  BY SocketAssumption DEF TypeOK, Sockets
<1>3. \A w \in Workers : worker[w].id \in Nat
  BY SocketAssumption DEF TypeOK
<1>4. Len(pipe) \in Nat /\ DOMAIN pipe = 1 .. Len(pipe)
      /\ \A i \in DOMAIN pipe : pipe[i] \in Requests
  BY DEF TypeOK
<1>5. \A i \in DOMAIN pipe : pipe[i].id \in Ids
  BY <1>4 DEF Requests
<1> QED BY <1>1, <1>2, <1>3, <1>4, <1>5, HashIn, IdsIn

\* The socket of an id that is not vacant is in the slot of the id.
LEMMA AtHome ==
  ASSUME TypeOK, Control, NEW t \in Slot, ~Vacant(t)
  PROVE  slot[t].tcp /\ HASH_ID(slot[t].id) = t /\ slot[t].id \in Ids
BY DEF Control, Slotted

\* An id whose slot is reserved for it becomes known by no other step.
LEMMA StaysUnknown ==
  ASSUME TypeOK, Control, KnownOpen, NEW id, id \notin known,
         slot[HASH_ID(id)].type = "RESERVE"
  PROVE  id \notin known'
<1> SUFFICES ASSUME id \in known' PROVE FALSE
  OBVIOUS
<1>1. PICK t \in Slot : slot[t].id = id /\ ~Vacant(t)
  BY DEF KnownOpen
<1>2. HASH_ID(id) = t
  BY <1>1, AtHome
<1> QED BY <1>1, <1>2 DEF Vacant

LEMMA SlottedCalm ==
  ASSUME TypeOK, Control, NEW t \in Slot, Calm(t), alloc' = alloc,
         Vacant(t)' => Bare(t),
         slot'[t].type \in Types
  PROVE  Slotted(t)'
<1>1. Slotted(t)
  BY DEF Control
<1>2. ~Vacant(t)' => ~Vacant(t)
  BY DEF Calm, Vacant
<1>3. /\ slot'[t].id <= alloc'
      /\ slot'[t].tcp => /\ slot'[t].id \in Ids /\ HASH_ID(slot'[t].id) = t
                         /\ slot'[t].tag = ID_TAG16(slot'[t].id)
  BY <1>1 DEF Slotted, Calm, SameTag
<1>4. ~Vacant(t)' => slot'[t].tcp
  BY <1>1, <1>2 DEF Slotted, Calm, SameTag
<1> QED BY <1>3, <1>4 DEF Slotted, Bare

\* A worker that does not step.
LEMMA WorkingCalm ==
  ASSUME TypeOK, Control, NEW w \in Workers, worker'[w] = worker[w],
         \A t \in Slot : Calm(t), alloc' = alloc, Grows, KnownOpen
  PROVE  Working(w)'
<1>1. Working(w)
  BY DEF Control
<1>2. PICK x : x = worker[w]
  OBVIOUS
<1>3. PICK s \in Slot : s = HASH_ID(x.id)
  BY <1>2, Numbers
<1>4. Calm(s) /\ sent \in Nat /\ sent' \in Nat /\ sent <= sent'
  BY Numbers DEF Grows
<1>5. Sends(w) => /\ x.id \in known' /\ x.pkt \in 1 .. sent'
                  /\ packet'[x.pkt].to = x.id
  BY <1>1, <1>2, <1>4 DEF Working, Grows
<1>6. Reserves(w) => /\ x.id \in 1 .. alloc' /\ x.id \notin known' /\ x.id \in Ids
                     /\ slot'[s].type = "RESERVE"
  <2>1. SUFFICES ASSUME Reserves(w) PROVE x.id \notin known' /\ slot'[s].type = "RESERVE"
    BY <1>1, <1>2 DEF Working
  <2>2. slot[s].type = "RESERVE" /\ x.id \notin known
    BY <2>1, <1>1, <1>2, <1>3 DEF Working
  <2> QED BY <2>2, <1>3, <1>4, StaysUnknown DEF Calm
<1>7. x.pc = "open" => slot'[s].id = x.id
  BY <1>1, <1>2, <1>3, <1>4 DEF Working, Calm, SameTag
<1>8. x.pc = "c2b" => slot'[s].id = x.id \/ x.pkt \in overtaken'
  BY <1>1, <1>2, <1>3, <1>4 DEF Working, Calm, SameTag, Grows
<1>9. ~Sends(w) => x.pkt = None
  BY <1>1, <1>2 DEF Working
<1>10. worker'[w] = x
  BY <1>2
<1>11. (Sends(w)' <=> Sends(w)) /\ (Reserves(w)' <=> Reserves(w))
  BY DEF Sends, Reserves
<1> QED BY <1>3, <1>5, <1>6, <1>7, <1>8, <1>9, <1>10, <1>11 DEF Working

\* A command that stays, at another place in the pipe.
LEMMA AskedCalm ==
  ASSUME TypeOK, Control, NEW i \in DOMAIN pipe, NEW j, pipe'[j] = pipe[i],
         \A t \in Slot : Calm(t), alloc' = alloc, Grows, KnownOpen
  PROVE  Asked(j)'
<1>1. Asked(i)
  BY DEF Control
<1>2. PICK x : x = pipe[i]
  OBVIOUS
<1>3. PICK s \in Slot : s = HASH_ID(x.id)
  BY <1>2, Numbers
<1>4. Calm(s) /\ sent \in Nat /\ sent' \in Nat /\ sent <= sent'
  BY Numbers DEF Grows
<1>5. x.cmd = "O" => /\ x.id <= alloc' /\ x.id \notin known' /\ slot'[s].type = "RESERVE"
                     /\ slot'[s].id = x.id
  <2>1. SUFFICES ASSUME x.cmd = "O"
                 PROVE  x.id \notin known' /\ slot'[s].type = "RESERVE" /\ slot'[s].id = x.id
    BY <1>1, <1>2 DEF Asked
  <2>2. slot[s].type = "RESERVE" /\ x.id \notin known /\ slot[s].id = x.id
    BY <2>1, <1>1, <1>2, <1>3 DEF Asked
  <2> QED BY <2>2, <1>3, <1>4, StaysUnknown DEF Calm, SameTag
<1>6. x.cmd # "O" => x.id \in known'
  BY <1>1, <1>2 DEF Asked, Grows
<1>7. x.cmd \notin {"D", "P"} => x.pkt = None
  BY <1>1, <1>2 DEF Asked
<1>8. x.cmd \in {"D", "P"} => x.pkt \in 1 .. sent' /\ packet'[x.pkt].to = x.id
  BY <1>1, <1>2, <1>4 DEF Asked, Grows
<1>9. pipe'[j] = x
  BY <1>2
<1> QED BY <1>3, <1>5, <1>6, <1>7, <1>8, <1>9 DEF Asked

\* The pipe has lost its first d commands.
Shifted(d) ==
  /\ d \in {0, 1} /\ pipe' \in Seq(Requests) /\ Len(pipe') = Len(pipe) - d
  /\ DOMAIN pipe' = 1 .. Len(pipe) - d
  /\ \A j \in DOMAIN pipe' : j + d \in DOMAIN pipe /\ pipe'[j] = pipe[j + d]

LEMMA PipeSame == ASSUME TypeOK, pipe' = pipe PROVE Shifted(0)
BY Numbers DEF Shifted, TypeOK

LEMMA PipeTaken ==
  ASSUME TypeOK, pipe # <<>>, pipe' = Tail(pipe)
  PROVE  Shifted(1) /\ 1 \in DOMAIN pipe /\ Request = pipe[1]
<1>1. pipe \in Seq(Requests)
  BY DEF TypeOK
<1>2. Len(pipe) \in Nat \ {0} /\ DOMAIN pipe = 1 .. Len(pipe)
  BY <1>1
<1>3. /\ Tail(pipe) \in Seq(Requests) /\ Len(Tail(pipe)) = Len(pipe) - 1
      /\ \A i \in 1 .. Len(Tail(pipe)) : Tail(pipe)[i] = pipe[i + 1]
  BY <1>1, HeadTailProperties
<1>4. DOMAIN pipe' = 1 .. Len(pipe) - 1
  BY <1>3
<1>5. \A j \in DOMAIN pipe' : j + 1 \in DOMAIN pipe /\ pipe'[j] = pipe[j + 1]
  BY <1>2, <1>3, <1>4
<1>6. Head(pipe) = pipe[1]
  BY <1>1
<1> QED BY <1>2, <1>3, <1>4, <1>5, <1>6 DEF Shifted, Request

LEMMA PipePushed ==
  ASSUME TypeOK, NEW c \in Requests, pipe' = Append(pipe, c)
  PROVE  /\ pipe' \in Seq(Requests) /\ Len(pipe') = Len(pipe) + 1
         /\ DOMAIN pipe' = 1 .. Len(pipe) + 1
         /\ \A j \in DOMAIN pipe : j \in DOMAIN pipe' /\ pipe'[j] = pipe[j]
         /\ pipe'[Len(pipe) + 1] = c
         /\ \A j \in DOMAIN pipe' : j \in DOMAIN pipe \/ j = Len(pipe) + 1
<1>1. pipe \in Seq(Requests) /\ Len(pipe) \in Nat /\ DOMAIN pipe = 1 .. Len(pipe)
  BY Numbers DEF TypeOK
<1>2. /\ pipe' \in Seq(Requests) /\ Len(pipe') = Len(pipe) + 1
      /\ \A j \in 1 .. Len(pipe) : pipe'[j] = pipe[j]
      /\ pipe'[Len(pipe) + 1] = c
  BY <1>1, AppendProperties
<1>3. DOMAIN pipe' = 1 .. Len(pipe) + 1
  BY <1>2
<1> QED BY <1>1, <1>2, <1>3

\* Slots that are vacant have no buffers.
Emptied == \A t \in Slot : Vacant(t)' => Bare(t)

\* The steps of the socket thread that open no socket.
LEMMA ControlThread ==
  ASSUME TypeOK, Control, slot' \in [Slot -> Sockets], \A t \in Slot : Calm(t), Emptied,
         worker' = worker, alloc' = alloc, Grows, KnownOpen, NEW d, Shifted(d), Closing',
         known' \subseteq 1 .. alloc
  PROVE  Control'
<1>1. ASSUME NEW t \in Slot PROVE Slotted(t)'
  <2>1. slot'[t].type \in Types
    BY DEF Sockets
  <2> QED BY <2>1, SlottedCalm DEF Emptied
<1>2. ASSUME NEW w \in Workers PROVE Working(w)'
  BY WorkingCalm
<1>3. ASSUME NEW j \in DOMAIN pipe' PROVE Asked(j)'
  <2>1. PICK i \in DOMAIN pipe : pipe'[j] = pipe[i]
    BY DEF Shifted
  <2> QED BY <2>1, AskedCalm
<1>4. Alone'
  <2>1. \A w \in Workers : Reserves(w)' <=> Reserves(w)
    BY DEF Reserves
  <2>2. \A w, v \in Workers : Reserves(w)' /\ Reserves(v)'
          /\ HASH_ID(worker'[w].id) = HASH_ID(worker'[v].id) => w = v
    BY <2>1 DEF Control, Alone
  <2>3. ASSUME NEW i \in DOMAIN pipe', NEW j \in DOMAIN pipe', pipe'[i].cmd = "O",
               pipe'[j].cmd = "O", HASH_ID(pipe'[i].id) = HASH_ID(pipe'[j].id)
        PROVE  i = j
    <3>1. /\ i + d \in DOMAIN pipe /\ pipe'[i] = pipe[i + d]
          /\ j + d \in DOMAIN pipe /\ pipe'[j] = pipe[j + d]
      BY DEF Shifted
    <3>2. i + d = j + d
      BY <2>3, <3>1 DEF Control, Alone
    <3>3. i \in Int /\ j \in Int /\ d \in Int
      BY Numbers DEF Shifted
    <3> QED BY <3>2, <3>3
  <2>4. ASSUME NEW w \in Workers, NEW i \in DOMAIN pipe', Reserves(w)', pipe'[i].cmd = "O"
        PROVE  HASH_ID(worker'[w].id) # HASH_ID(pipe'[i].id)
    <3>1. i + d \in DOMAIN pipe /\ pipe'[i] = pipe[i + d]
      BY DEF Shifted
    <3> QED BY <2>1, <2>4, <3>1 DEF Control, Alone
  <2> QED BY <2>2, <2>3, <2>4 DEF Alone
<1> QED BY <1>1, <1>2, <1>3, <1>4 DEF Control

\* The steps of a worker w that is not in reserve_id afterwards.
LEMMA ControlWorker ==
  ASSUME TypeOK, Control, slot' \in [Slot -> Sockets], \A t \in Slot : Calm(t), Emptied,
         NEW w \in Workers, \A v \in Workers : v # w => worker'[v] = worker[v],
         ~Reserves(w)', Working(w)', alloc' = alloc, Grows, known' = known,
         UNCHANGED <<st, ev>>,
         \A t \in Slot : /\ slot'[t].type = slot[t].type
                         /\ slot'[t].high = slot[t].high /\ slot'[t].low = slot[t].low,
         \/ pipe' = pipe
         \/ \E c \in Requests : \E n : /\ pipe' = Append(pipe, c) /\ n = Len(pipe) + 1
                                   /\ Asked(n)' /\ c.cmd # "O"
  PROVE  Control'
<1>0. KnownOpen
  BY DEF KnownOpen
<1>1. ASSUME NEW t \in Slot PROVE Slotted(t)'
  <2>1. slot'[t].type \in Types
    BY DEF Sockets
  <2> QED BY <2>1, SlottedCalm DEF Emptied
<1>2. ASSUME NEW v \in Workers PROVE Working(v)'
  BY <1>0, WorkingCalm
<1>3. /\ \A i \in DOMAIN pipe : i \in DOMAIN pipe' /\ pipe'[i] = pipe[i]
      /\ \A i \in DOMAIN pipe' : i \in DOMAIN pipe \/ (Asked(i)' /\ pipe'[i].cmd # "O")
  <2>1. CASE pipe' = pipe
    BY <2>1
  <2>2. CASE pipe' # pipe
    <3>1. PICK c, n : /\ c \in Requests /\ pipe' = Append(pipe, c) /\ n = Len(pipe) + 1
                      /\ Asked(n)' /\ c.cmd # "O"
      BY <2>2
    <3>2. /\ \A j \in DOMAIN pipe : j \in DOMAIN pipe' /\ pipe'[j] = pipe[j]
          /\ pipe'[Len(pipe) + 1] = c
          /\ \A j \in DOMAIN pipe' : j \in DOMAIN pipe \/ j = Len(pipe) + 1
      BY <3>1, PipePushed
    <3>3. ASSUME NEW i \in DOMAIN pipe', i \notin DOMAIN pipe
          PROVE  Asked(i)' /\ pipe'[i].cmd # "O"
      <4>1. i = n /\ pipe'[n] = c
        BY <3>1, <3>2, <3>3
      <4> QED BY <4>1, <3>1, <3>2 DEF Asked
    <3> QED BY <3>2, <3>3
  <2> QED BY <2>1, <2>2
<1>4. ASSUME NEW i \in DOMAIN pipe' PROVE Asked(i)'
  BY <1>0, <1>3, AskedCalm
<1>5. Alone'
  <2>1. \A v \in Workers : Reserves(v)' => Reserves(v) /\ worker'[v] = worker[v]
    BY DEF Reserves
  <2>2. \A i \in DOMAIN pipe' : pipe'[i].cmd = "O" => i \in DOMAIN pipe /\ pipe'[i] = pipe[i]
    BY <1>3
  <2> QED BY <2>1, <2>2 DEF Alone, Control
<1>6. Closing'
  <2>1. Closing /\ st.s \in Slot
    BY DEF Control, TypeOK
  <2>2. ~Vacant(st.s)' <=> ~Vacant(st.s)
    BY <2>1 DEF Vacant
  <2>3. \A t \in Slot : slot'[t].id = slot[t].id
    BY DEF Calm, SameTag
  <2> QED BY <2>1, <2>2, <2>3 DEF Closing
<1>7. known' \subseteq 1 .. alloc'
  BY DEF Control
<1> QED BY <1>1, <1>2, <1>4, <1>5, <1>6, <1>7 DEF Control

-----------------------------------------------------------------------------
(* The count of packets on their way.                                      *)

\* The two parts of the count for an id.
Announced(id) == {w \in Workers : worker[w].pc = "pipe" /\ worker[w].id = id}
Carried(id) == InPipe({"D", "P"}, id)
OnTheirWay(id) == Cardinality(Announced(id)) + Cardinality(Carried(id))

LEMMA FiniteParts ==
  ASSUME TypeOK, NEW id
  PROVE  /\ IsFiniteSet(Announced(id)) /\ Cardinality(Announced(id)) \in Nat
         /\ IsFiniteSet(Carried(id)) /\ Cardinality(Carried(id)) \in Nat
<1>1. Announced(id) \in SUBSET Workers
  BY DEF Announced
<1>2. IsFiniteSet(Announced(id))
  BY <1>1, SocketAssumption, FS_Subset
<1>3. Carried(id) \in SUBSET (1 .. Len(pipe))
  BY Numbers DEF Carried, InPipe
<1>4. IsFiniteSet(1 .. Len(pipe))
  BY Numbers, FS_Interval
<1>5. IsFiniteSet(Carried(id))
  BY <1>3, <1>4, FS_Subset
<1> QED BY <1>2, <1>5, FS_CardinalityType

LEMMA PackageCount ==
  SendingExact <=> \A s \in Slot : slot[s].tcp => slot[s].sending = OnTheirWay(slot[s].id)
BY DEF SendingExact, OnTheirWay, Announced, Carried

\* A set of places moves up as the first is taken.
LEMMA ShiftedCount ==
  ASSUME NEW n \in Nat, NEW S \in SUBSET (2 .. n + 1)
  PROVE  LET T == {i \in 1 .. n : i + 1 \in S}
         IN IsFiniteSet(T) /\ Cardinality(T) = Cardinality(S)
<1> DEFINE T == {i \in 1 .. n : i + 1 \in S}
           f == [i \in T |-> i + 1]
<1>1. IsFiniteSet(T)
  <2>1. T \in SUBSET (1 .. n) /\ IsFiniteSet(1 .. n)
    BY FS_Interval
  <2> QED BY <2>1, FS_Subset
<1>2. f \in [T -> S]
  OBVIOUS
<1>3. \A a, b \in T : f[a] = f[b] => a = b
  OBVIOUS
<1>4. \A j \in S : \E a \in T : f[a] = j
  <2> TAKE j \in S
  <2>1. j - 1 \in T /\ (j - 1) + 1 = j
    OBVIOUS
  <2> QED BY <2>1
<1>5. f \in Bijection(T, S)
  <2> HIDE DEF f, T
  <2> QED BY <1>2, <1>3, <1>4 DEF Bijection, Injection, Surjection, IsInjective
<1>6. Cardinality(T) = Cardinality(S)
  BY <1>1, <1>5, FS_Bijection DEF ExistsBijection
<1> QED BY <1>1, <1>6

\* A command is taken from the pipe.
LEMMA CarriedTaken ==
  ASSUME TypeOK, Shifted(1), 1 \in DOMAIN pipe, NEW id
  PROVE  /\ pipe[1].cmd \in {"D", "P"} /\ pipe[1].id = id =>
              Cardinality(Carried(id)') = Cardinality(Carried(id)) - 1
         /\ ~(pipe[1].cmd \in {"D", "P"} /\ pipe[1].id = id) =>
              Cardinality(Carried(id)') = Cardinality(Carried(id))
<1>1. PICK n : n = Len(pipe) - 1
  OBVIOUS
<1>2. n \in Nat /\ Len(pipe) = n + 1 /\ DOMAIN pipe' = 1 .. n /\ DOMAIN pipe = 1 .. n + 1
  BY <1>1, Numbers DEF Shifted
<1>3. PICK S : S = Carried(id) \ {1}
  OBVIOUS
<1>4. S \in SUBSET (2 .. n + 1) /\ \A i \in 1 .. n + 1 : i \in S <=> i # 1 /\ i \in Carried(id)
  BY <1>2, <1>3 DEF Carried, InPipe
<1>5. Carried(id)' = {i \in 1 .. n : i + 1 \in S}
  <2>1. ASSUME NEW i \in 1 .. n PROVE i \in Carried(id)' <=> i + 1 \in S
    <3>1. i + 1 \in DOMAIN pipe /\ pipe'[i] = pipe[i + 1] /\ i \in DOMAIN pipe' /\ i + 1 # 1
      BY <1>2 DEF Shifted
    <3>2. i + 1 \in S <=> i + 1 \in Carried(id)
      BY <3>1, <1>3
    <3> QED BY <3>1, <3>2 DEF Carried, InPipe
  <2>2. Carried(id)' \subseteq 1 .. n
    BY <1>2 DEF Carried, InPipe
  <2> QED BY <2>1, <2>2
<1>6. Cardinality(Carried(id)') = Cardinality(S)
  BY <1>2, <1>4, <1>5, ShiftedCount
<1>7. IsFiniteSet(Carried(id)) /\ Cardinality(Carried(id)) \in Nat
  BY FiniteParts
<1>8. CASE pipe[1].cmd \in {"D", "P"} /\ pipe[1].id = id
  <2>1. 1 \in Carried(id)
    BY <1>8 DEF Carried, InPipe
  <2>2. Cardinality(S) = Cardinality(Carried(id)) - 1
    BY <2>1, <1>3, <1>7, FS_RemoveElement
  <2> QED BY <2>2, <1>6, <1>8
<1>9. CASE ~(pipe[1].cmd \in {"D", "P"} /\ pipe[1].id = id)
  <2>1. S = Carried(id)
    BY <1>3, <1>9 DEF Carried, InPipe
  <2> QED BY <2>1, <1>6, <1>9
<1> QED BY <1>8, <1>9

\* A command is written to the pipe.
LEMMA CarriedPushed ==
  ASSUME TypeOK, NEW c \in Requests, pipe' = Append(pipe, c), NEW id
  PROVE  /\ c.cmd \in {"D", "P"} /\ c.id = id =>
              Cardinality(Carried(id)') = Cardinality(Carried(id)) + 1
         /\ ~(c.cmd \in {"D", "P"} /\ c.id = id) => Carried(id)' = Carried(id)
<1>1. PICK n : n = Len(pipe) + 1
  OBVIOUS
<1>2. /\ \A j \in DOMAIN pipe : j \in DOMAIN pipe' /\ pipe'[j] = pipe[j]
      /\ n \in DOMAIN pipe' /\ pipe'[n] = c /\ n \notin DOMAIN pipe
      /\ \A j \in DOMAIN pipe' : j \in DOMAIN pipe \/ j = n
  BY <1>1, PipePushed, Numbers
<1>3. CASE c.cmd \in {"D", "P"} /\ c.id = id
  <2>1. Carried(id)' = Carried(id) \cup {n} /\ n \notin Carried(id)
    BY <1>2, <1>3 DEF Carried, InPipe
  <2> QED BY <2>1, <1>3, FiniteParts, FS_AddElement
<1>4. CASE ~(c.cmd \in {"D", "P"} /\ c.id = id)
  <2>1. Carried(id)' = Carried(id)
    BY <1>2, <1>4 DEF Carried, InPipe
  <2> QED BY <2>1, <1>4
<1> QED BY <1>3, <1>4

\* The steps after which the count of every id is what it was.
LEMMA CountKept ==
  ASSUME TypeOK, SendingExact, slot' \in [Slot -> Sockets],
         \A id : OnTheirWay(id)' = OnTheirWay(id),
         \A t \in Slot : SameCount(t) \/ ~slot'[t].tcp
  PROVE  SendingExact'
<1>2. ASSUME NEW t \in Slot, slot'[t].tcp
      PROVE  slot'[t].sending = OnTheirWay(slot[t].id) /\ slot'[t].id = slot[t].id
  BY <1>2, PackageCount DEF SameCount, SameTag
<1>3. ASSUME NEW t \in Slot, slot'[t].tcp
      PROVE  \E id : slot'[t].id = id /\ slot'[t].sending = OnTheirWay(id)'
  <2>1. PICK id : id = slot[t].id
    OBVIOUS
  <2>2. slot'[t].sending = OnTheirWay(id) /\ slot'[t].id = id
    BY <2>1, <1>2, <1>3
  <2> QED BY <2>2
<1> QED BY <1>3 DEF SendingExact, OnTheirWay, Announced, Carried

\* The steps that move no packet of any id.
LEMMA CountSame ==
  ASSUME TypeOK, SendingExact, slot' \in [Slot -> Sockets],
         \A id : Announced(id)' = Announced(id),
         \A id : Cardinality(Carried(id)') = Cardinality(Carried(id)),
         \A t \in Slot : SameCount(t) \/ ~slot'[t].tcp
  PROVE  SendingExact'
<1>1. \A id : OnTheirWay(id)' = OnTheirWay(id)
  BY DEF OnTheirWay
<1> QED BY <1>1, CountKept

-----------------------------------------------------------------------------
(* The queues and the wire.                                                *)

LEMMA AddressedStays ==
  ASSUME TypeOK, Grows, NEW p \in Packets, NEW id, Addressed(p, id)
  PROVE  Addressed(p, id)'
<1>1. sent \in Nat /\ sent' \in Nat /\ sent <= sent' /\ p \in Nat /\ p >= 1
  BY Numbers, SocketAssumption DEF Grows, Packets
<1>2. p \in 1 .. sent
  BY <1>1 DEF Addressed
<1> QED BY <1>1, <1>2 DEF Addressed, Grows

\* A slot whose queues have been written, closed, or given a packet.
LEMMA ListsNew ==
  ASSUME TypeOK, NEW t \in Slot, Grows, slot' \in [Slot -> Sockets], NEW id, slot'[t].id = id,
         Sound(slot'[t].dw, slot'[t].high, slot'[t].low),
         \A p \in PacketsIn(slot'[t].dw) \cup PacketsIn(slot'[t].high \o slot'[t].low) :
           Addressed(p, id)
  PROVE  Lists(t)'
<1>1. PICK d \in Seq(Units), h \in Seq(Units), l \in Seq(Units) :
        d = slot'[t].dw /\ h = slot'[t].high /\ l = slot'[t].low
  BY DEF Sockets
<1>2. Backlog(t)' = (d \o h) \o l /\ (d \o h) \in Seq(Units)
  BY <1>1, Joined DEF Backlog, HighList
<1>3. PacketsIn((d \o h) \o l) = PacketsIn(d) \cup PacketsIn(h \o l)
  <2>1. PacketsIn((d \o h) \o l) = PacketsIn(d \o h) \cup PacketsIn(l)
    BY <1>2, JoinedPackets
  <2>2. PacketsIn(d \o h) = PacketsIn(d) \cup PacketsIn(h)
    BY JoinedPackets
  <2>3. PacketsIn(h \o l) = PacketsIn(h) \cup PacketsIn(l)
    BY JoinedPackets
  <2> QED BY <2>1, <2>2, <2>3
<1>4. ASSUME NEW p \in PacketsIn((d \o h) \o l) PROVE Addressed(p, id)'
  <2>1. p \in Packets
    BY <1>2, Joined, InPackets
  <2>2. Addressed(p, id)
    BY <1>1, <1>3
  <2> QED BY <2>1, <2>2, AddressedStays
<1> QED BY <1>1, <1>2, <1>4 DEF Lists, Sound, PacketsIn, Addressed

\* A slot whose queues this step does not touch.
LEMMA ListsSame ==
  ASSUME TypeOK, slot' \in [Slot -> Sockets], NEW t \in Slot, Lists(t), SameLists(t),
         slot'[t].id = slot[t].id, Grows
  PROVE  Lists(t)'
<1>1. Sound(slot'[t].dw, slot'[t].high, slot'[t].low)
  BY DEF Lists, Sound, SameLists
<1>2. \A p \in PacketsIn(slot'[t].dw) \cup PacketsIn(slot'[t].high \o slot'[t].low) :
        Addressed(p, slot[t].id)
  BY BacklogIs DEF Lists, SameLists
<1> QED BY <1>1, <1>2, ListsNew

LEMMA WiredSame ==
  ASSUME TypeOK, Grows, NEW id \in Ids, Wired(id), wire'[id] = wire[id]
  PROVE  Wired(id)'
<1>1. wire[id] \in Seq(Units)
  BY DEF TypeOK
<1>2. ASSUME NEW p \in PacketsIn(wire[id]) PROVE Addressed(p, id)'
  BY <1>1, InPackets, AddressedStays DEF Wired
<1> QED BY <1>2 DEF Wired, PacketsIn

LEMMA WiredMore ==
  ASSUME TypeOK, Grows, NEW id \in Ids, Wired(id), NEW q \in Seq(Units),
         \A p \in PacketsIn(q) : Addressed(p, id), wire' = [wire EXCEPT ![id] = @ \o q]
  PROVE  Wired(id)' /\ wire' \in [Ids -> Seq(Units)] /\ \A i \in Ids : i # id => wire'[i] = wire[i]
<1>1. wire[id] \in Seq(Units) /\ wire \in [Ids -> Seq(Units)]
  BY DEF TypeOK
<1>2. wire'[id] = wire[id] \o q /\ wire[id] \o q \in Seq(Units)
  BY <1>1, Joined
<1>3. PacketsIn(wire[id] \o q) = PacketsIn(wire[id]) \cup PacketsIn(q)
  BY <1>1, JoinedPackets
<1>4. ASSUME NEW p \in PacketsIn(wire[id] \o q) PROVE Addressed(p, id)'
  BY <1>2, <1>3, InPackets, AddressedStays DEF Wired
<1>5. Wired(id)'
  BY <1>2, <1>4 DEF Wired, PacketsIn
<1> QED BY <1>1, <1>2, <1>5

-----------------------------------------------------------------------------
(* The owner of a buffer.                                                  *)

InList(p, s) == p \in PacketsIn(slot[s].high \o slot[s].low)
InDirect(p, s) == p \in PacketsIn(slot[s].dw)
SameWorkers(p) == \A w \in Workers : worker'[w].pkt = p <=> worker[w].pkt = p
SamePlace(p, s) == (InList(p, s)' <=> InList(p, s)) /\ (InDirect(p, s)' <=> InDirect(p, s))
NotFirst(p, d) == d = 1 => pipe[1].pkt # p

\* The owner of the buffer of p, in terms of these.
LEMMA HeldByIs ==
  ASSUME NEW p, NEW kind, NEW x
  PROVE  HeldBy(p, kind, x) <=>
           /\ \A w \in Workers : worker[w].pkt = p <=> kind = "worker" /\ x = w
           /\ \A i \in DOMAIN pipe : pipe[i].pkt = p <=> kind = "pipe" /\ x = i
           /\ \A s \in Slot : InList(p, s) <=> kind = "list" /\ x = s
           /\ \A s \in Slot : InDirect(p, s) <=> kind = "dw" /\ x = s
BY DEF HeldBy, InList, InDirect

\* Nobody touches p; the pipe may lose its first command.
LEMMA OwnedSame ==
  ASSUME TypeOK, NEW p, Owned(p), freed'[p] = freed[p], NEW d, Shifted(d), NotFirst(p, d),
         SameWorkers(p), \A s \in Slot : SamePlace(p, s)
  PROVE  Owned(p)'
<1>0. /\ d \in {0, 1} /\ Len(pipe) \in Nat /\ DOMAIN pipe = 1 .. Len(pipe)
      /\ DOMAIN pipe' = 1 .. Len(pipe) - d
      /\ \A j \in DOMAIN pipe' : j + d \in DOMAIN pipe /\ pipe'[j] = pipe[j + d]
  BY Numbers DEF Shifted
<1>1. CASE freed[p] = 1 /\ HeldBy(p, "none", 0)
  <2>1. HeldBy(p, "none", 0)'
    BY <1>0, <1>1, HeldByIs DEF HeldBy, InList, InDirect, SameWorkers, SamePlace
  <2> QED BY <2>1, <1>1 DEF Owned
<1>2. CASE freed[p] = 0 /\ \E kind, x : Place(kind, x) /\ HeldBy(p, kind, x)
  <2>1. PICK kind, x : Place(kind, x) /\ HeldBy(p, kind, x)
    BY <1>2
  <2>2. PICK y : y = IF kind = "pipe" THEN x - d ELSE x
    OBVIOUS
  <2>3. CASE kind = "pipe"
    <3>1. x \in DOMAIN pipe /\ pipe[x].pkt = p /\ y = x - d
      BY <2>1, <2>2, <2>3 DEF Place, HeldBy
    <3>2. y \in DOMAIN pipe' /\ y + d = x
      <4>1. x # 1 \/ d = 0
        BY <3>1, <1>0 DEF NotFirst
      <4> QED BY <4>1, <3>1, <1>0
    <3>3. \A i \in DOMAIN pipe' : pipe'[i].pkt = p <=> y = i
      <4> TAKE i \in DOMAIN pipe'
      <4>1. pipe'[i] = pipe[i + d] /\ i + d \in DOMAIN pipe
        BY <1>0
      <4>2. pipe[i + d].pkt = p <=> x = i + d
        BY <4>1, <2>1, <2>3 DEF HeldBy
      <4>3. x = i + d <=> y = i
        BY <3>1, <3>2, <1>0
      <4> QED BY <4>1, <4>2, <4>3
    <3>4. HeldBy(p, kind, y)'
      BY <3>3, <2>1, <2>3 DEF HeldBy, InList, InDirect, SameWorkers, SamePlace
    <3>5. Place(kind, y)'
      BY <3>2, <2>3 DEF Place
    <3> QED BY <3>4, <3>5, <1>2 DEF Owned
  <2>4. CASE kind # "pipe"
    <3>1. \A i \in DOMAIN pipe' : pipe'[i].pkt # p
      BY <2>1, <2>4, <1>0 DEF HeldBy
    <3>2. HeldBy(p, kind, x)'
      BY <3>1, <2>1, <2>4 DEF HeldBy, InList, InDirect, SameWorkers, SamePlace
    <3>3. Place(kind, x)'
      BY <2>1, <2>4 DEF Place
    <3> QED BY <3>2, <3>3, <1>2 DEF Owned
  <2> QED BY <2>3, <2>4
<1> QED BY <1>1, <1>2 DEF Owned

\* Nobody touches p; the pipe gets a command of another packet.
LEMMA OwnedPushed ==
  ASSUME TypeOK, NEW p, Owned(p), freed'[p] = freed[p], NEW c \in Requests,
         pipe' = Append(pipe, c), c.pkt # p,
         SameWorkers(p), \A s \in Slot : SamePlace(p, s)
  PROVE  Owned(p)'
<1>0. /\ \A j \in DOMAIN pipe : j \in DOMAIN pipe' /\ pipe'[j] = pipe[j]
      /\ \A j \in DOMAIN pipe' : j \in DOMAIN pipe \/ pipe'[j].pkt # p
  BY PipePushed
<1>1. \A kind, x : Place(kind, x) => Place(kind, x)'
  BY <1>0 DEF Place
<1>2. ASSUME NEW kind, NEW x, HeldBy(p, kind, x), Place(kind, x) \/ kind = "none"
      PROVE  HeldBy(p, kind, x)'
  <2>1. \A i \in DOMAIN pipe' : pipe'[i].pkt = p <=> kind = "pipe" /\ x = i
    <3>1. kind = "pipe" => x \in DOMAIN pipe
      BY <1>2 DEF Place
    <3> QED BY <3>1, <1>0, <1>2 DEF HeldBy
  <2> QED BY <2>1, <1>2 DEF HeldBy, InList, InDirect, SameWorkers, SamePlace
<1> QED BY <1>1, <1>2 DEF Owned

\* The socket thread frees p, or moves it within slot s.
LEMMA OwnedSlot ==
  ASSUME TypeOK, NEW p, Owned(p), NEW d, Shifted(d), NotFirst(p, d), SameWorkers(p),
         NEW s \in Slot, \A t \in Slot : t # s => SamePlace(p, t),
         InList(p, s) \/ InDirect(p, s),
         \/ freed'[p] = freed[p] + 1 /\ ~InList(p, s)' /\ ~InDirect(p, s)'
         \/ freed'[p] = freed[p] /\ InList(p, s)' /\ ~InDirect(p, s)'
  PROVE  Owned(p)'
<1>0. /\ d \in {0, 1} /\ Len(pipe) \in Nat /\ DOMAIN pipe = 1 .. Len(pipe)
      /\ \A j \in DOMAIN pipe' : j + d \in DOMAIN pipe /\ pipe'[j] = pipe[j + d]
  BY Numbers DEF Shifted
<1>1. ~(freed[p] = 1 /\ HeldBy(p, "none", 0))
  BY DEF HeldBy, InList, InDirect
<1>2. PICK kind, x : Place(kind, x) /\ HeldBy(p, kind, x) /\ freed[p] = 0
  BY <1>1 DEF Owned
<1>3. kind \in {"list", "dw"} /\ x = s
  BY <1>2 DEF HeldBy, InList, InDirect
<1>4. /\ \A w \in Workers : worker'[w].pkt # p
      /\ \A i \in DOMAIN pipe' : pipe'[i].pkt # p
      /\ \A t \in Slot : t # s => ~InList(p, t)' /\ ~InDirect(p, t)'
  <2>1. \A w \in Workers : worker[w].pkt # p
    BY <1>2, <1>3 DEF HeldBy
  <2>2. \A i \in DOMAIN pipe : pipe[i].pkt # p
    BY <1>2, <1>3 DEF HeldBy
  <2>3. \A t \in Slot : t # s => ~InList(p, t) /\ ~InDirect(p, t)
    BY <1>2, <1>3 DEF HeldBy, InList, InDirect
  <2> QED BY <2>1, <2>2, <2>3, <1>0 DEF SameWorkers, SamePlace
<1>5. CASE freed'[p] = freed[p] + 1 /\ ~InList(p, s)' /\ ~InDirect(p, s)'
  <2>1. HeldBy(p, "none", 0)'
    BY <1>4, <1>5 DEF HeldBy, InList, InDirect
  <2> QED BY <2>1, <1>2, <1>5 DEF Owned
<1>6. CASE freed'[p] = freed[p] /\ InList(p, s)' /\ ~InDirect(p, s)'
  <2>1. HeldBy(p, "list", s)'
    BY <1>4, <1>6 DEF HeldBy, InList, InDirect
  <2>2. Place("list", s)'
    BY DEF Place
  <2> QED BY <2>1, <2>2, <1>2, <1>6 DEF Owned
<1> QED BY <1>5, <1>6

-----------------------------------------------------------------------------
(* The workers.                                                            *)

\* The parts of the invariant that a step that touches no slot leaves alone.
LEMMA SlotsSame ==
  ASSUME TypeOK, Control, slot' = slot
  PROVE  /\ slot' \in [Slot -> Sockets] /\ Emptied
         /\ \A t \in Slot : Calm(t) /\ SameCount(t) /\ SameLists(t)
         /\ \A t \in Slot : \A p : SamePlace(p, t)
BY DEF TypeOK, Control, Slotted, Emptied, Bare, Vacant, Calm, SameCount, SameTag, SameLists,
       SamePlace, InList, InDirect

LEMMA QueuedSame ==
  ASSUME TypeOK, Queued, slot' \in [Slot -> Sockets], Grows, wire' = wire,
         \A t \in Slot : SameLists(t) /\ slot'[t].id = slot[t].id
  PROVE  Queued'
<1>1. \A t \in Slot : Lists(t)'
  BY ListsSame DEF Queued
<1>2. \A id \in Ids : Wired(id)'
  BY WiredSame DEF Queued
<1> QED BY <1>1, <1>2 DEF Queued

\* The packets that were sent are the owned ones.
LEMMA OwnershipSame ==
  ASSUME TypeOK, Ownership, sent' = sent, freed' = freed, NEW d, Shifted(d),
         \A p \in Packets : NotFirst(p, d) /\ SameWorkers(p),
         \A t \in Slot : \A p : SamePlace(p, t)
  PROVE  Ownership'
<1>1. ASSUME NEW p \in Packets, p <= sent PROVE Owned(p)'
  <2>1. Owned(p)
    BY <1>1 DEF Ownership
  <2> QED BY <2>1, OwnedSame
<1> QED BY <1>1 DEF Ownership

\* A worker goes on in the same send, and has not announced the packet.
LEMMA GotoStep ==
  ASSUME IInv, torn' = FALSE, NEW w \in Workers, NEW pc \in {"c1b", "trylock", "c2b", "inc"},
         worker[w].pc \in {"c1a", "c1b", "trylock", "c2b"}, Goto(w, pc), WorkerOnly,
         pc = "c2b" => slot[HASH_ID(worker[w].id)].id = worker[w].id,
         lock' \in [Slot -> Workers \cup {None}]
  PROVE  IInv'
<1> USE DEF WorkerOnly, ghosts
<1>0. TypeOK /\ Control /\ Queued /\ Ownership /\ SendingExact /\ Asserts
  BY DEF IInv
<1>1. /\ worker' \in [Workers -> [pc : {"idle", "init", "open", "c1a", "c1b", "trylock",
                                   "c2b", "inc", "pipe"},
                             id : 0 .. MaxId, pkt : Packets \cup {None}]]
      /\ \A v \in Workers : v # w => worker'[v] = worker[v]
      /\ worker'[w].pc = pc /\ worker'[w].id = worker[w].id /\ worker'[w].pkt = worker[w].pkt
  BY <1>0 DEF TypeOK, Goto
<1>2. TypeOK'
  BY <1>0, <1>1 DEF TypeOK
<1>3. Grows
  BY <1>0, Numbers DEF Grows
<1>4. /\ slot' \in [Slot -> Sockets] /\ Emptied
      /\ \A t \in Slot : Calm(t) /\ SameCount(t) /\ SameLists(t)
      /\ \A t \in Slot : \A p : SamePlace(p, t)
  BY <1>0, SlotsSame
<1>5. Control'
  <2>1. ~Reserves(w)'
    BY <1>1 DEF Reserves
  <2>2. Working(w)'
    <3>1. Working(w) /\ Sends(w) /\ Sends(w)'
      BY <1>0, <1>1 DEF Control, Sends
    <3> QED BY <2>1, <3>1, <1>1 DEF Working
  <2> QED BY <2>1, <2>2, <1>0, <1>1, <1>3, <1>4, ControlWorker
<1>6. Queued'
  <2>1. \A t \in Slot : slot'[t].id = slot[t].id
    BY <1>0
  <2> QED BY <2>1, <1>0, <1>3, <1>4, QueuedSame
<1>7. Ownership'
  <2>1. Shifted(0)
    BY <1>0, PipeSame
  <2>2. \A p \in Packets : NotFirst(p, 0) /\ SameWorkers(p)
    BY <1>1 DEF NotFirst, SameWorkers
  <2> QED BY <2>1, <2>2, <1>0, <1>4, OwnershipSame
<1>8. SendingExact'
  <2>1. \A id : Announced(id)' = Announced(id)
    BY <1>1 DEF Announced
  <2>2. \A id : Carried(id)' = Carried(id)
    BY DEF Carried, InPipe
  <2> QED BY <2>1, <2>2, <1>0, <1>4, CountSame
<1> QED BY <1>0, <1>2, <1>5, <1>6, <1>7, <1>8 DEF IInv, Asserts

LEMMA ChecksStep ==
  ASSUME IInv, torn' = FALSE, NEW w \in Workers, Check1a(w) \/ Check1b(w) \/ TryLock(w) \/ Check2Fail(w)
  PROVE  IInv'
<1>0. lock \in [Slot -> Workers \cup {None}]
  BY DEF IInv, TypeOK
<1>1. CASE Check1a(w)
  BY <1>0, <1>1, GotoStep DEF Check1a
<1>2. CASE Check1b(w)
  BY <1>0, <1>2, GotoStep DEF Check1b
<1>3. CASE TryLock(w)
  <2>1. CASE /\ lock[HASH_ID(worker[w].id)] = None /\ FirstLoads(w)
             /\ lock' = [lock EXCEPT ![HASH_ID(worker[w].id)] = w] /\ Goto(w, "c2b")
    <3>1. slot[HASH_ID(worker[w].id)].id = worker[w].id
      BY <2>1 DEF FirstLoads
    <3>2. lock' \in [Slot -> Workers \cup {None}]
      BY <2>1, <1>0
    <3> QED BY <2>1, <3>1, <3>2, <1>3, GotoStep DEF TryLock
  <2>2. CASE Goto(w, "inc") /\ UNCHANGED lock
    BY <2>2, <1>0, <1>3, GotoStep DEF TryLock
  <2> QED BY <2>1, <2>2, <1>3 DEF TryLock
<1>4. CASE Check2Fail(w)
  <2>1. lock' \in [Slot -> Workers \cup {None}]
    BY <1>0, <1>4 DEF Check2Fail
  <2> QED BY <2>1, <1>4, GotoStep DEF Check2Fail
<1> QED BY <1>1, <1>2, <1>3, <1>4

\* inc_sending_ref announces the packet to the socket of its id, if there is one.
LEMMA IncStep ==
  ASSUME IInv, torn' = FALSE, NEW w \in Workers, Inc(w)
  PROVE  IInv'
<1> USE DEF ghosts
<1>0. TypeOK /\ Control /\ Queued /\ Ownership /\ SendingExact /\ Asserts
  BY DEF IInv
<1>1. PICK s \in Slot, id \in Nat : s = HASH_ID(worker[w].id) /\ id = worker[w].id
  BY <1>0, Numbers
<1>2. /\ worker[w].pc = "inc"
      /\ UNCHANGED <<lock, alloc, pipe, st, ev, known, closed, cut, overtaken, ctrls, sent,
                     packet, freed, wire, failed>>
  BY DEF Inc
<1>3. PICK n : n = IF IncSending(s, id) THEN slot[s].sending + 1 ELSE slot[s].sending
  OBVIOUS
<1>4. n \in Nat /\ slot' = [slot EXCEPT ![s].sending = n]
  <2>1. slot[s] \in Sockets /\ slot[s].sending \in Nat
    BY <1>0 DEF TypeOK, Sockets
  <2>2. n \in Nat
    BY <2>1, <1>3
  <2>3. slot' = [slot EXCEPT ![s].sending = IF IncSending(s, id) THEN @ + 1 ELSE @]
    BY <1>1 DEF Inc
  <2>4. slot[s].sending = slot[s]["sending"]
    BY <2>1
  <2> QED BY <2>1, <2>2, <2>3, <1>0, <1>3 DEF TypeOK
<1>5. /\ Only(s) /\ slot'[s].type = slot[s].type /\ SameTag(s) /\ SameLists(s)
      /\ slot'[s].sending = n /\ slot'[s].poll = slot[s].poll
  BY <1>0, <1>4, SendingIs
<1>6. /\ slot' \in [Slot -> Sockets]
      /\ \A t \in Slot : t # s => slot'[t] = slot[t]
      /\ \A t \in Slot : slot'[t].type = slot[t].type /\ SameTag(t) /\ SameLists(t)
  BY <1>5 DEF Only, SameTag, SameLists
<1>7. /\ \A t \in Slot : Calm(t)
      /\ \A t \in Slot : \A p : SamePlace(p, t)
      /\ Emptied
  <2>1. \A t \in Slot : Calm(t)
    BY <1>6 DEF Calm
  <2>2. \A t \in Slot : \A p : SamePlace(p, t)
    BY <1>6 DEF SamePlace, SameLists, InList, InDirect
  <2>3. \A t \in Slot : Vacant(t)' => Bare(t)
    <3> TAKE t \in Slot
    <3>1. slot'[t].poll = slot[t].poll
      BY <1>5, <1>6
    <3> QED BY <3>1, <1>0, <1>6 DEF Bare, Vacant, SameLists, Control, Slotted
  <2> QED BY <2>1, <2>2, <2>3 DEF Emptied
<1>8. /\ worker' \in [Workers -> [pc : {"idle", "init", "open", "c1a", "c1b", "trylock",
                                   "c2b", "inc", "pipe"},
                             id : 0 .. MaxId, pkt : Packets \cup {None}]]
      /\ \A v \in Workers : v # w => worker'[v] = worker[v]
      /\ worker'[w].pc = "pipe" /\ worker'[w].id = id /\ worker'[w].pkt = worker[w].pkt
  BY <1>0, <1>1 DEF TypeOK, Inc, Goto
<1>9. TypeOK'
  BY <1>0, <1>2, <1>6, <1>8 DEF TypeOK
<1>10. Grows
  BY <1>0, <1>2, Numbers DEF Grows
<1>11. Control'
  <2>1. ~Reserves(w)'
    BY <1>8 DEF Reserves
  <2>2. Working(w)'
    <3>1. Working(w) /\ Sends(w) /\ Sends(w)'
      BY <1>0, <1>2, <1>8 DEF Control, Sends
    <3> QED BY <2>1, <3>1, <1>1, <1>2, <1>8 DEF Working
  <2>3. \A t \in Slot : slot'[t].high = slot[t].high /\ slot'[t].low = slot[t].low
    BY <1>6 DEF SameLists
  <2> QED BY <2>1, <2>2, <2>3, <1>0, <1>2, <1>6, <1>7, <1>8, <1>10, ControlWorker
<1>12. Queued'
  BY <1>0, <1>2, <1>6, <1>10, QueuedSame DEF SameTag
<1>13. Ownership'
  <2>1. Shifted(0)
    BY <1>0, <1>2, PipeSame
  <2>2. \A p \in Packets : NotFirst(p, 0) /\ SameWorkers(p)
    BY <1>8 DEF NotFirst, SameWorkers
  <2> QED BY <2>1, <2>2, <1>0, <1>2, <1>7, OwnershipSame
<1>14. SendingExact'
  <2>1. Announced(id)' = Announced(id) \cup {w} /\ w \notin Announced(id)
    BY <1>2, <1>8 DEF Announced
  <2>2. \A i : i # id => Announced(i)' = Announced(i)
    BY <1>1, <1>2, <1>8 DEF Announced
  <2>3. \A i : Carried(i)' = Carried(i)
    BY <1>2 DEF Carried, InPipe
  <2>4. Cardinality(Announced(id)') = Cardinality(Announced(id)) + 1
    BY <2>1, <1>0, FiniteParts, FS_AddElement
  <2>5. ASSUME NEW t \in Slot, slot'[t].tcp
        PROVE  \E i : slot'[t].id = i /\ slot'[t].sending = OnTheirWay(i)'
    <3>1. PICK i : i = slot[t].id
      OBVIOUS
    <3>2. slot[t].tcp /\ slot[t].sending = OnTheirWay(i) /\ slot'[t].id = i
          /\ HASH_ID(i) = t /\ slot[t].tag = ID_TAG16(i) /\ i \in Nat
      BY <2>5, <3>1, <1>0, <1>6, PackageCount, IdsIn DEF SameTag, Control, Slotted
    <3>3. CASE i = id
      <4>1. t = s /\ n = slot[s].sending + 1
        BY <3>1, <3>2, <3>3, <1>1, <1>3 DEF IncSending
      <4>2. slot'[t].sending = OnTheirWay(i) + 1
        BY <4>1, <3>2, <1>5
      <4>3. OnTheirWay(i)' = OnTheirWay(i) + 1
        BY <3>3, <2>3, <2>4, <1>0, FiniteParts DEF OnTheirWay
      <4> QED BY <3>2, <4>2, <4>3
    <3>4. CASE i # id
      <4>1. slot'[t].sending = slot[t].sending
        <5>1. CASE t = s
          <6>1. ~IncSending(s, id)
            <7>1. id \in Nat
              BY <1>0, <1>1, Numbers
            <7> QED BY <7>1, <5>1, <3>2, <3>4, <1>1, HashTag DEF IncSending
          <6> QED BY <6>1, <5>1, <1>3, <1>5
        <5>2. CASE t # s
          BY <5>2, <1>6
        <5> QED BY <5>1, <5>2
      <4>2. OnTheirWay(i)' = OnTheirWay(i)
        BY <3>4, <2>2, <2>3 DEF OnTheirWay
      <4> QED BY <3>2, <4>1, <4>2
    <3> QED BY <3>3, <3>4
  <2> QED BY <2>5 DEF SendingExact, OnTheirWay, Announced, Carried
<1> QED BY <1>0, <1>2, <1>9, <1>11, <1>12, <1>13, <1>14 DEF IInv, Asserts

-----------------------------------------------------------------------------
(* Workers that send and call.                                             *)

Threads == [pc : {"idle", "init", "open", "c1a", "c1b", "trylock", "c2b", "inc", "pipe"},
            id : 0 .. MaxId, pkt : Packets \cup {None}]

\* Only worker w steps.
OnlyWorker(w) == /\ worker' \in [Workers -> Threads]
                 /\ \A v \in Workers : v # w => worker'[v] = worker[v]

LEMMA NoneIs == None \notin Workers /\ None \notin Packets /\ None # 0
BY SocketAssumption DEF Packets

\* A worker that returns from its call.
LEMMA IdleIs ==
  ASSUME TypeOK, NEW w \in Workers, worker' = [worker EXCEPT ![w] = Idle]
  PROVE  /\ OnlyWorker(w) /\ worker'[w].pc = "idle" /\ worker'[w].pkt = None
         /\ Working(w)' /\ ~Reserves(w)'
<1>1. Idle \in Threads /\ Idle.pc = "idle" /\ Idle.pkt = None
  BY SocketAssumption DEF Idle, Threads
<1>2. worker'[w] = Idle /\ OnlyWorker(w)
  BY <1>1 DEF TypeOK, OnlyWorker, Threads
<1>3. Working(w)' /\ ~Reserves(w)'
  BY <1>1, <1>2 DEF Working, Sends, Reserves
<1> QED BY <1>1, <1>2, <1>3

\* A worker in a send has the buffer.
LEMMA WorkerHolds ==
  ASSUME TypeOK, Control, Ownership, NEW w \in Workers, Sends(w)
  PROVE  /\ worker[w].id \in known /\ worker[w].id \in Ids
         /\ worker[w].pkt \in Packets /\ worker[w].pkt \in 1 .. sent
         /\ packet[worker[w].pkt].to = worker[w].id
         /\ freed[worker[w].pkt] = 0 /\ HeldBy(worker[w].pkt, "worker", w)
<1>1. Working(w)
  BY DEF Control
<1>2. PICK p : p = worker[w].pkt
  OBVIOUS
<1>3. p \in 1 .. sent /\ worker[w].id \in known /\ packet[p].to = worker[w].id
  BY <1>1, <1>2 DEF Working
<1>4. p \in Packets /\ p <= sent /\ worker[w].id \in Ids
  BY <1>3, Numbers, SocketAssumption DEF Packets, TypeOK
<1>5. Owned(p)
  BY <1>4 DEF Ownership
<1>6. ~HeldBy(p, "none", 0)
  BY <1>2 DEF HeldBy
<1>7. PICK kind, x : HeldBy(p, kind, x) /\ freed[p] = 0
  BY <1>5, <1>6 DEF Owned
<1>8. kind = "worker" /\ x = w
  BY <1>2, <1>7 DEF HeldBy
<1> QED BY <1>2, <1>3, <1>4, <1>7, <1>8

\* A packet that was not sent yet is nowhere.
LEMMA NotHeld ==
  ASSUME TypeOK, Control, Queued, NEW p \in Packets, ~(p <= sent)
  PROVE  HeldBy(p, "none", 0)
<1>0. sent \in Nat /\ p \in Nat /\ p # None
  BY Numbers, IdsIn, NoneIs
<1>1. \A w \in Workers : worker[w].pkt # p
  <2> TAKE w \in Workers
  <2>1. Working(w)
    BY DEF Control
  <2> QED BY <2>1, <1>0 DEF Working
<1>2. \A i \in DOMAIN pipe : pipe[i].pkt # p
  <2> TAKE i \in DOMAIN pipe
  <2>1. Asked(i)
    BY DEF Control
  <2> QED BY <2>1, <1>0 DEF Asked
<1>3. ASSUME NEW s \in Slot
      PROVE  p \notin PacketsIn(slot[s].high \o slot[s].low) /\ p \notin PacketsIn(slot[s].dw)
  <2>1. p \notin PacketsIn(Backlog(s))
    BY DEF Queued, Lists, Addressed
  <2> QED BY <2>1, BacklogIs
<1> QED BY <1>1, <1>2, <1>3 DEF HeldBy

\* The packet of a send is written to the pipe.
LEMMA SendRequestStep ==
  ASSUME IInv, torn' = FALSE, NEW w \in Workers, SendRequest(w)
  PROVE  IInv'
<1> USE DEF ghosts
<1>0. TypeOK /\ Control /\ Queued /\ Ownership /\ SendingExact /\ Asserts
  BY DEF IInv
<1>1. PICK p, id, c : /\ p = worker[w].pkt /\ id = worker[w].id
                      /\ c = [cmd |-> IF packet[p].low THEN "P" ELSE "D", id |-> id, pkt |-> p]
  OBVIOUS
<1>2. /\ worker[w].pc = "pipe" /\ pipe' = Append(pipe, c)
      /\ worker' = [worker EXCEPT ![w] = Idle]
      /\ UNCHANGED <<slot, lock, alloc, st, ev, known, closed, cut, overtaken, ctrls, sent,
                     packet, freed, wire, failed>>
  BY <1>1 DEF SendRequest, Command
<1>3. /\ id \in known /\ id \in Ids /\ p \in Packets /\ p \in 1 .. sent /\ packet[p].to = id
      /\ freed[p] = 0 /\ HeldBy(p, "worker", w)
  BY <1>0, <1>1, <1>2, WorkerHolds DEF Sends
<1>4. c \in Requests /\ c.id = id /\ c.pkt = p /\ c.cmd \in {"D", "P"}
  BY <1>1, <1>3 DEF Requests
<1>5. OnlyWorker(w) /\ worker'[w].pc = "idle" /\ worker'[w].pkt = None
      /\ Working(w)' /\ ~Reserves(w)'
  BY <1>0, <1>2, IdleIs
<1>6. PICK n : n = Len(pipe) + 1
  OBVIOUS
<1>7. /\ pipe' \in Seq(Requests) /\ n \in DOMAIN pipe' /\ pipe'[n] = c /\ n \notin DOMAIN pipe
      /\ \A j \in DOMAIN pipe : j \in DOMAIN pipe' /\ pipe'[j] = pipe[j]
      /\ \A j \in DOMAIN pipe' : j \in DOMAIN pipe \/ j = n
  BY <1>0, <1>2, <1>4, <1>6, PipePushed, Numbers
<1>8. TypeOK'
  BY <1>0, <1>2, <1>5, <1>7 DEF TypeOK, OnlyWorker, Threads
<1>9. Grows
  BY <1>0, <1>2, Numbers DEF Grows
<1>10. /\ slot' \in [Slot -> Sockets] /\ Emptied
       /\ \A t \in Slot : Calm(t) /\ SameCount(t) /\ SameLists(t)
       /\ \A t \in Slot : \A q : SamePlace(q, t)
  BY <1>0, <1>2, SlotsSame
<1>11. Control'
  <2>1. Asked(n)'
    BY <1>2, <1>3, <1>4, <1>7 DEF Asked
  <2>2. c.cmd # "O"
    BY <1>4
  <2>3. \A t \in Slot : slot'[t].type = slot[t].type /\ slot'[t].high = slot[t].high
                        /\ slot'[t].low = slot[t].low
    BY <1>2
  <2>4. \E a \in Requests : \E b : /\ pipe' = Append(pipe, a) /\ b = Len(pipe) + 1
                                   /\ Asked(b)' /\ a.cmd # "O"
    BY <2>1, <2>2, <1>2, <1>4, <1>6
  <2> QED BY <2>3, <2>4, <1>0, <1>2, <1>5, <1>9, <1>10, ControlWorker DEF OnlyWorker
<1>12. Queued'
  BY <1>0, <1>2, <1>9, <1>10, QueuedSame
<1>13. Ownership'
  <2>1. ASSUME NEW q \in Packets, q <= sent, q # p PROVE Owned(q)'
    <3>1. Owned(q)
      BY <2>1, <1>0 DEF Ownership
    <3>2. SameWorkers(q)
      BY <2>1, <1>1, <1>5, NoneIs DEF SameWorkers, OnlyWorker
    <3> QED BY <2>1, <3>1, <3>2, <1>0, <1>2, <1>4, <1>10, OwnedPushed
  <2>2. Owned(p)'
    <3>1. HeldBy(p, "pipe", n)'
      <4>1. \A v \in Workers : worker'[v].pkt # p
        BY <1>3, <1>5, NoneIs DEF OnlyWorker, HeldBy
      <4>2. \A i \in DOMAIN pipe' : pipe'[i].pkt = p <=> i = n
        BY <1>3, <1>4, <1>7 DEF HeldBy
      <4> QED BY <4>1, <4>2, <1>2, <1>3 DEF HeldBy
    <3>2. Place("pipe", n)'
      BY <1>7 DEF Place
    <3> QED BY <3>1, <3>2, <1>2, <1>3 DEF Owned
  <2> QED BY <2>1, <2>2, <1>0, <1>2 DEF Ownership
<1>14. SendingExact'
  <2>1. \A i : OnTheirWay(i)' = OnTheirWay(i)
    <3> TAKE i
    <3>1. CASE i = id
      <4>1. Announced(i)' = Announced(i) \ {w} /\ w \in Announced(i)
        BY <3>1, <1>1, <1>2, <1>5 DEF Announced, OnlyWorker
      <4>2. Cardinality(Announced(i)') = Cardinality(Announced(i)) - 1
        BY <4>1, <1>0, FiniteParts, FS_RemoveElement
      <4>3. Cardinality(Carried(i)') = Cardinality(Carried(i)) + 1
        BY <3>1, <1>0, <1>2, <1>4, CarriedPushed
      <4> QED BY <4>2, <4>3, <1>0, FiniteParts DEF OnTheirWay
    <3>2. CASE i # id
      <4>1. Announced(i)' = Announced(i)
        BY <3>2, <1>1, <1>2, <1>5 DEF Announced, OnlyWorker
      <4>2. Carried(i)' = Carried(i)
        BY <3>2, <1>0, <1>2, <1>4, CarriedPushed
      <4> QED BY <4>1, <4>2 DEF OnTheirWay
    <3> QED BY <3>1, <3>2
  <2> QED BY <2>1, <1>0, <1>10, CountKept
<1> QED BY <1>0, <1>2, <1>8, <1>11, <1>12, <1>13, <1>14 DEF IInv, Asserts

\* A control command: nothing moves but the pipe.
LEMMA CtrlRequestStep ==
  ASSUME IInv, torn' = FALSE, NEW w \in Workers, NEW k \in {"S", "K", "X"}, NEW id \in known,
         CtrlRequest(w, k, id)
  PROVE  IInv'
<1> USE DEF ghosts
<1>0. TypeOK /\ Control /\ Queued /\ Ownership /\ SendingExact /\ Asserts
  BY DEF IInv
<1>1. PICK c : c = [cmd |-> k, id |-> id, pkt |-> None]
  OBVIOUS
<1>2. /\ pipe' = Append(pipe, c) /\ ctrls < MaxCtrl /\ ctrls' = ctrls + 1
      /\ UNCHANGED <<slot, lock, alloc, worker, st, ev, known, closed, cut, overtaken, sent,
                     packet, freed, wire, failed>>
  BY <1>1 DEF CtrlRequest, Command
<1>3. id \in Ids
  BY <1>0 DEF TypeOK
<1>4. c \in Requests /\ c.id = id /\ c.pkt = None /\ c.cmd = k
  BY <1>1, <1>3 DEF Requests
<1>6. PICK n : n = Len(pipe) + 1
  OBVIOUS
<1>7. pipe' \in Seq(Requests) /\ n \in DOMAIN pipe' /\ pipe'[n] = c
  BY <1>0, <1>2, <1>4, <1>6, PipePushed, Numbers
<1>8. TypeOK'
  <2>1. ctrls' \in 0 .. MaxCtrl
    BY <1>0, <1>2, SocketAssumption DEF TypeOK
  <2> QED BY <2>1, <1>0, <1>2, <1>7 DEF TypeOK
<1>9. Grows
  BY <1>0, <1>2, Numbers DEF Grows
<1>10. /\ slot' \in [Slot -> Sockets] /\ Emptied
       /\ \A t \in Slot : Calm(t) /\ SameCount(t) /\ SameLists(t)
       /\ \A t \in Slot : \A q : SamePlace(q, t)
  BY <1>0, <1>2, SlotsSame
<1>11. Control'
  <2>1. Asked(n)'
    BY <1>2, <1>4, <1>7 DEF Asked
  <2>2. c.cmd # "O"
    BY <1>4
  <2>3. \A t \in Slot : slot'[t].type = slot[t].type /\ slot'[t].high = slot[t].high
                        /\ slot'[t].low = slot[t].low
    BY <1>2
  <2>4. \E a \in Requests : \E b : /\ pipe' = Append(pipe, a) /\ b = Len(pipe) + 1
                                   /\ Asked(b)' /\ a.cmd # "O"
    BY <2>1, <2>2, <1>2, <1>4, <1>6
  <2>5. worker[w].pc = "idle"
    BY DEF CtrlRequest
  <2>6. ~Reserves(w)'
    BY <2>5, <1>2 DEF Reserves
  <2>7. Working(w)'
    <3>1. KnownOpen
      BY <1>2 DEF KnownOpen
    <3> QED BY <3>1, <1>0, <1>2, <1>9, <1>10, WorkingCalm
  <2> QED BY <2>3, <2>4, <2>6, <2>7, <1>0, <1>2, <1>9, <1>10, ControlWorker
<1>12. Queued'
  BY <1>0, <1>2, <1>9, <1>10, QueuedSame
<1>13. Ownership'
  <2>1. ASSUME NEW q \in Packets, q <= sent PROVE Owned(q)'
    <3>1. Owned(q)
      BY <2>1, <1>0 DEF Ownership
    <3>2. SameWorkers(q) /\ q # None
      BY <1>2, NoneIs DEF SameWorkers
    <3> QED BY <2>1, <3>1, <3>2, <1>0, <1>2, <1>4, <1>10, OwnedPushed
  <2> QED BY <2>1, <1>0, <1>2 DEF Ownership
<1>14. SendingExact'
  <2>1. \A i : Announced(i)' = Announced(i)
    BY <1>2 DEF Announced
  <2>2. \A i : Carried(i)' = Carried(i)
    BY <1>0, <1>2, <1>4, CarriedPushed
  <2> QED BY <2>1, <2>2, <1>0, <1>10, CountSame
<1> QED BY <1>0, <1>2, <1>8, <1>11, <1>12, <1>13, <1>14 DEF IInv, Asserts

\* The command that opens the reserved slot.
LEMMA OpenRequestStep ==
  ASSUME IInv, torn' = FALSE, NEW w \in Workers, OpenRequest(w)
  PROVE  IInv'
<1> USE DEF ghosts
<1>0. TypeOK /\ Control /\ Queued /\ Ownership /\ SendingExact /\ Asserts
  BY DEF IInv
<1>1. PICK id, c : id = worker[w].id /\ c = [cmd |-> "O", id |-> id, pkt |-> None]
  OBVIOUS
<1>2. /\ worker[w].pc = "open" /\ pipe' = Append(pipe, c)
      /\ worker' = [worker EXCEPT ![w] = Idle]
      /\ UNCHANGED <<slot, lock, alloc, st, ev, known, closed, cut, overtaken, ctrls, sent,
                     packet, freed, wire, failed>>
  BY <1>1 DEF OpenRequest, Command
<1>3. /\ Reserves(w) /\ id \in Ids /\ id \in 1 .. alloc /\ id \notin known
      /\ slot[HASH_ID(id)].type = "RESERVE" /\ slot[HASH_ID(id)].id = id
      /\ worker[w].pkt = None
  BY <1>0, <1>1, <1>2 DEF Control, Working, Reserves, Sends
<1>4. c \in Requests /\ c.id = id /\ c.pkt = None /\ c.cmd = "O"
  BY <1>1, <1>3 DEF Requests
<1>5. OnlyWorker(w) /\ worker'[w].pc = "idle" /\ worker'[w].pkt = None
      /\ Working(w)' /\ ~Reserves(w)'
  BY <1>0, <1>2, IdleIs
<1>6. PICK n : n = Len(pipe) + 1
  OBVIOUS
<1>7. /\ pipe' \in Seq(Requests) /\ n \in DOMAIN pipe' /\ pipe'[n] = c /\ n \notin DOMAIN pipe
      /\ \A j \in DOMAIN pipe : j \in DOMAIN pipe' /\ pipe'[j] = pipe[j]
      /\ \A j \in DOMAIN pipe' : j \in DOMAIN pipe \/ j = n
  BY <1>0, <1>2, <1>4, <1>6, PipePushed, Numbers
<1>8. TypeOK'
  BY <1>0, <1>2, <1>5, <1>7 DEF TypeOK, OnlyWorker, Threads
<1>9. Grows /\ KnownOpen
  BY <1>0, <1>2, Numbers DEF Grows, KnownOpen
<1>10. /\ slot' \in [Slot -> Sockets] /\ Emptied
       /\ \A t \in Slot : Calm(t) /\ SameCount(t) /\ SameLists(t)
       /\ \A t \in Slot : \A q : SamePlace(q, t)
  BY <1>0, <1>2, SlotsSame
<1>11. Control'
  <2>1. \A t \in Slot : Slotted(t)'
    BY <1>0, <1>2 DEF Control, Slotted, Vacant
  <2>2. ASSUME NEW v \in Workers PROVE Working(v)'
    BY <1>0, <1>2, <1>5, <1>9, <1>10, WorkingCalm DEF OnlyWorker
  <2>3. Asked(n)'
    BY <1>0, <1>2, <1>3, <1>4, <1>7, Numbers DEF Asked
  <2>4. ASSUME NEW j \in DOMAIN pipe' PROVE Asked(j)'
    <3>1. CASE j = n
      BY <2>3, <3>1
    <3>2. CASE j # n
      <4>1. j \in DOMAIN pipe /\ pipe'[j] = pipe[j]
        BY <3>2, <1>7
      <4> QED BY <4>1, <1>0, <1>2, <1>9, <1>10, AskedCalm
    <3> QED BY <3>1, <3>2
  <2>5. Alone'
    <3>1. \A v \in Workers : Reserves(v)' =>
            v # w /\ Reserves(v) /\ worker'[v] = worker[v]
      BY <1>5 DEF OnlyWorker, Reserves
    <3>2. \A v \in Workers : Reserves(v)' => HASH_ID(worker'[v].id) # HASH_ID(id)
      BY <3>1, <1>0, <1>1, <1>3 DEF Control, Alone
    <3>3. \A j \in DOMAIN pipe : pipe[j].cmd = "O" => HASH_ID(pipe[j].id) # HASH_ID(id)
      BY <1>0, <1>1, <1>3 DEF Control, Alone
    <3>4. \A v, u \in Workers : Reserves(v)' /\ Reserves(u)'
            /\ HASH_ID(worker'[v].id) = HASH_ID(worker'[u].id) => v = u
      BY <3>1, <1>0 DEF Control, Alone
    <3>5. \A i, j \in DOMAIN pipe' : pipe'[i].cmd = "O" /\ pipe'[j].cmd = "O"
            /\ HASH_ID(pipe'[i].id) = HASH_ID(pipe'[j].id) => i = j
      BY <3>3, <1>0, <1>4, <1>7 DEF Control, Alone
    <3>6. \A v \in Workers, i \in DOMAIN pipe' : Reserves(v)' /\ pipe'[i].cmd = "O"
            => HASH_ID(worker'[v].id) # HASH_ID(pipe'[i].id)
      BY <3>1, <3>2, <1>0, <1>4, <1>7 DEF Control, Alone
    <3> QED BY <3>4, <3>5, <3>6 DEF Alone
  <2>6. Closing'
    BY <1>0, <1>2 DEF Control, Closing, Vacant
  <2>7. known' \subseteq 1 .. alloc'
    BY <1>0, <1>2 DEF Control
  <2> QED BY <2>1, <2>2, <2>4, <2>5, <2>6, <2>7 DEF Control
<1>12. Queued'
  BY <1>0, <1>2, <1>9, <1>10, QueuedSame
<1>13. Ownership'
  <2>1. ASSUME NEW q \in Packets, q <= sent PROVE Owned(q)'
    <3>1. Owned(q)
      BY <2>1, <1>0 DEF Ownership
    <3>2. SameWorkers(q) /\ q # None
      BY <1>3, <1>5, NoneIs DEF SameWorkers, OnlyWorker
    <3> QED BY <2>1, <3>1, <3>2, <1>0, <1>2, <1>4, <1>10, OwnedPushed
  <2> QED BY <2>1, <1>0, <1>2 DEF Ownership
<1>14. SendingExact'
  <2>1. \A i : Announced(i)' = Announced(i)
    BY <1>2, <1>5 DEF Announced, OnlyWorker
  <2>2. \A i : Carried(i)' = Carried(i)
    BY <1>0, <1>2, <1>4, CarriedPushed
  <2> QED BY <2>1, <2>2, <1>0, <1>10, CountSame
<1> QED BY <1>0, <1>2, <1>8, <1>11, <1>12, <1>13, <1>14 DEF IInv, Asserts

\* A packet enters the system, or is freed at once.
LEMMA SendCallStep ==
  ASSUME IInv, torn' = FALSE, NEW w \in Workers, NEW id \in known, NEW low \in BOOLEAN, SendCall(w, id, low)
  PROVE  IInv'
<1> USE DEF ghosts
<1>0. TypeOK /\ Control /\ Queued /\ Ownership /\ SendingExact /\ Asserts
  BY DEF IInv
<1>1. PICK p, x : /\ p = sent + 1
                  /\ x = [pc |-> IF low THEN "inc" ELSE "c1a", id |-> id, pkt |-> p]
  OBVIOUS
<1>2. /\ worker[w].pc = "idle" /\ sent' = p /\ sent < MaxSend
      /\ packet' = [packet EXCEPT ![p] = [to |-> id, by |-> w, low |-> low]]
      /\ \/ worker' = [worker EXCEPT ![w] = x] /\ freed' = freed
         \/ FreeAll({p}) /\ worker' = worker
      /\ UNCHANGED <<slot, lock, alloc, pipe, st, ev, known, closed, cut, overtaken, ctrls,
                     wire, failed>>
  BY <1>1 DEF SendCall
<1>3. /\ id \in Ids /\ id \in 0 .. MaxId /\ sent \in Nat /\ p \in Packets /\ ~(p <= sent)
      /\ p \in 1 .. p /\ p \in Nat
  BY <1>0, <1>1, <1>2, Numbers, SocketAssumption DEF TypeOK, Ids, Packets
<1>4. x \in Threads /\ x.id = id /\ x.pkt = p /\ x.pc \in {"inc", "c1a"}
  BY <1>1, <1>3 DEF Threads
<1>5. /\ OnlyWorker(w)
      /\ \/ worker'[w] = x /\ freed' = freed
         \/ FreeAll({p}) /\ worker' = worker
  <2>1. worker \in [Workers -> Threads]
    BY <1>0 DEF TypeOK, Threads
  <2>2. CASE worker' = [worker EXCEPT ![w] = x] /\ freed' = freed
    BY <2>1, <2>2, <1>4 DEF OnlyWorker
  <2>3. CASE FreeAll({p}) /\ worker' = worker
    BY <2>1, <2>3 DEF OnlyWorker
  <2> QED BY <2>2, <2>3, <1>2
<1>6. /\ packet' \in [Packets -> [to : 0 .. MaxId, by : Workers \cup {None}, low : BOOLEAN]]
      /\ packet'[p].to = id /\ \A q \in Packets : q # p => packet'[q] = packet[q]
  <2>1. PICK y : y = [to |-> id, by |-> w, low |-> low]
    OBVIOUS
  <2>2. y \in [to : 0 .. MaxId, by : Workers \cup {None}, low : BOOLEAN] /\ y.to = id
    BY <2>1, <1>3
  <2>3. packet' = [packet EXCEPT ![p] = y]
    BY <2>1, <1>2
  <2> QED BY <2>2, <2>3, <1>0, <1>3 DEF TypeOK
<1>7. /\ freed[p] = 0 /\ HeldBy(p, "none", 0)
  BY <1>0, <1>3, NotHeld DEF Ownership
<1>8. /\ freed' \in [Packets -> 0 .. 2] /\ \A q \in Packets : q # p => freed'[q] = freed[q]
      /\ FreeAll({p}) => freed'[p] = 1
  <2>1. freed \in [Packets -> 0 .. 2]
    BY <1>0 DEF TypeOK
  <2>2. CASE freed' = freed
    BY <2>1, <2>2, <1>3, <1>7 DEF FreeAll
  <2>3. CASE FreeAll({p})
    <3>1. freed' = [q \in Packets |-> IF q = p THEN 1 ELSE freed[q]]
      BY <2>3, <1>7 DEF FreeAll
    <3> QED BY <3>1, <2>1, <1>3
  <2> QED BY <2>2, <2>3, <1>5
<1>9. TypeOK'
  <2>1. sent' \in 0 .. MaxSend
    BY <1>1, <1>2, <1>3, SocketAssumption
  <2> QED BY <2>1, <1>0, <1>2, <1>5, <1>6, <1>8 DEF TypeOK, OnlyWorker, Threads
<1>10. Grows /\ KnownOpen
  <2>1. \A q \in 1 .. sent : packet'[q] = packet[q]
    <3> TAKE q \in 1 .. sent
    <3>1. q \in Packets /\ q # p
      BY <1>1, <1>2, <1>3, SocketAssumption DEF Packets
    <3> QED BY <3>1, <1>6
  <2>2. sent' \in Nat /\ sent <= sent'
    BY <1>1, <1>2, <1>3
  <2> QED BY <2>1, <2>2, <1>2 DEF Grows, KnownOpen
<1>11. /\ slot' \in [Slot -> Sockets] /\ Emptied
       /\ \A t \in Slot : Calm(t) /\ SameCount(t) /\ SameLists(t)
       /\ \A t \in Slot : \A q : SamePlace(q, t)
  BY <1>0, <1>2, SlotsSame
<1>12. Control'
  <2>1. Working(w)' /\ ~Reserves(w)'
    <3>1. CASE worker'[w] = x
      <4>1. Sends(w)' /\ ~Reserves(w)' /\ worker'[w].pc # "c2b" /\ worker'[w].pc # "open"
        BY <3>1, <1>4 DEF Sends, Reserves
      <4> QED BY <4>1, <3>1, <1>2, <1>3, <1>4, <1>6 DEF Working
    <3>2. CASE worker' = worker
      <4>1. Working(w)'
        BY <3>2, <1>0, <1>2, <1>10, <1>11, WorkingCalm
      <4> QED BY <4>1, <3>2, <1>2 DEF Reserves
    <3> QED BY <3>1, <3>2, <1>5
  <2>3. \A t \in Slot : slot'[t].type = slot[t].type /\ slot'[t].high = slot[t].high
                        /\ slot'[t].low = slot[t].low
    BY <1>2
  <2> QED BY <2>1, <2>3, <1>0, <1>2, <1>5, <1>10, <1>11, ControlWorker DEF OnlyWorker
<1>13. Queued'
  BY <1>0, <1>2, <1>10, <1>11, QueuedSame
<1>14. Ownership'
  <2>0. worker[w].pkt = None
    BY <1>0, <1>2 DEF Control, Working, Sends
  <2>1. ASSUME NEW q \in Packets, q <= sent PROVE Owned(q)'
    <3>1. Owned(q) /\ q # p
      BY <2>1, <1>0, <1>3 DEF Ownership
    <3>2. SameWorkers(q)
      BY <2>0, <3>1, <1>4, <1>5, NoneIs DEF SameWorkers, OnlyWorker
    <3>3. Shifted(0) /\ NotFirst(q, 0)
      BY <1>0, <1>2, PipeSame DEF NotFirst
    <3> QED BY <3>1, <3>2, <3>3, <1>0, <1>8, <1>11, OwnedSame
  <2>2. Owned(p)'
    <3>1. CASE worker'[w] = x /\ freed' = freed
      <4>1. HeldBy(p, "worker", w)'
        <5>1. \A v \in Workers : worker'[v].pkt = p <=> v = w
          BY <3>1, <1>4, <1>5, <1>7 DEF OnlyWorker, HeldBy
        <5> QED BY <5>1, <1>2, <1>7 DEF HeldBy
      <4>2. Place("worker", w)'
        BY DEF Place
      <4> QED BY <4>1, <4>2, <3>1, <1>7 DEF Owned
    <3>2. CASE FreeAll({p}) /\ worker' = worker
      <4>1. HeldBy(p, "none", 0)'
        BY <3>2, <1>2, <1>7 DEF HeldBy
      <4> QED BY <4>1, <3>2, <1>8 DEF Owned
    <3> QED BY <3>1, <3>2, <1>5
  <2>3. ASSUME NEW q \in Packets, ~(q <= sent') PROVE freed'[q] = 0
    <3>1. q # p /\ ~(q <= sent)
      BY <2>3, <1>1, <1>2, <1>3, IdsIn
    <3> QED BY <3>1, <1>0, <1>8 DEF Ownership
  <2>4. ASSUME NEW q \in Packets, q <= sent' PROVE q <= sent \/ q = p
    BY <2>4, <1>1, <1>2, <1>3, IdsIn
  <2> QED BY <2>1, <2>2, <2>3, <2>4 DEF Ownership
<1>15. SendingExact'
  <2>1. \A i : Announced(i)' = Announced(i)
    BY <1>2, <1>4, <1>5 DEF Announced, OnlyWorker
  <2>2. \A i : Carried(i)' = Carried(i)
    BY <1>2 DEF Carried, InPipe
  <2> QED BY <2>1, <2>2, <1>0, <1>11, CountSame
<1> QED BY <1>0, <1>2, <1>9, <1>12, <1>13, <1>14, <1>15 DEF IInv, Asserts

\* A step that changes one slot.
LEMMA OneSlot ==
  ASSUME TypeOK, Control, NEW s \in Slot, Only(s),
         Vacant(s)' => Bare(s)
  PROVE  /\ slot' \in [Slot -> Sockets] /\ Emptied
         /\ \A t \in Slot : t # s => /\ slot'[t] = slot[t]
                                     /\ Calm(t) /\ SameCount(t) /\ SameLists(t)
                                     /\ \A q : SamePlace(q, t)
<1>1. slot' \in [Slot -> Sockets] /\ \A t \in Slot : t # s => slot'[t] = slot[t]
  BY DEF Only
<1>2. ASSUME NEW t \in Slot, t # s
      PROVE Calm(t) /\ SameCount(t) /\ SameLists(t) /\ \A q : SamePlace(q, t)
  BY <1>1, <1>2 DEF Calm, SameCount, SameTag, SameLists, SamePlace, InList, InDirect
<1>3. ASSUME NEW t \in Slot, t # s, Vacant(t)'
      PROVE Bare(t)
  <2>1. slot'[t] = slot[t]
    BY <1>1, <1>3
  <2>2. Vacant(t)
    BY <2>1, <1>3 DEF Vacant
  <2> QED BY <2>1, <2>2 DEF Control, Slotted, Bare
<1>4. Emptied
  BY <1>3 DEF Emptied
<1> QED BY <1>1, <1>2, <1>4

\* A slot without buffers.
LEMMA ListsEmpty ==
  ASSUME TypeOK, NEW t \in Slot, Grows, slot' \in [Slot -> Sockets],
         slot'[t].high = <<>>, slot'[t].low = <<>>, slot'[t].dw = <<>>
  PROVE  Lists(t)'
<1>1. PICK id : id = slot'[t].id
  OBVIOUS
<1>2. Sound(slot'[t].dw, slot'[t].high, slot'[t].low)
  BY NoPackets DEF Sound, Apart
<1>3. PacketsIn(<<>> \o <<>>) = {}
  BY NoPackets, NoUnits, JoinedPackets
<1> QED BY <1>1, <1>2, <1>3, NoPackets, ListsNew

LEMMA ListsOne ==
  ASSUME TypeOK, Control, Queued, Grows, NEW s \in Slot, Only(s), Lists(s)',
         \A id \in Ids : Wired(id)'
  PROVE  Queued'
<1>1. ASSUME NEW t \in Slot, t # s PROVE Lists(t)'
  <2>1. slot'[t] = slot[t] /\ slot' \in [Slot -> Sockets]
    BY <1>1 DEF Only
  <2>2. Lists(t) /\ SameLists(t)
    BY <2>1 DEF Queued, SameLists
  <2> QED BY <2>1, <2>2, ListsSame
<1> QED BY <1>1 DEF Queued

\* The buffers of the packets of P are freed.
LEMMA FreeIs ==
  ASSUME TypeOK, Ownership, NEW P \in SUBSET Packets, FreeAll(P),
         \A p \in P : freed[p] = 0
  PROVE  /\ freed' \in [Packets -> 0 .. 2]
         /\ \A p \in P : freed'[p] = freed[p] + 1 /\ freed'[p] = 1
         /\ \A p \in Packets \ P : freed'[p] = freed[p]
<1>1. freed \in [Packets -> 0 .. 2]
  BY DEF TypeOK
<1>2. freed' = [p \in Packets |-> IF p \in P THEN 1 ELSE freed[p]]
  BY <1>1 DEF FreeAll
<1> QED BY <1>1, <1>2

\* n units of the packet of w are on the wire; the rest is in dw_buffer.
LEMMA DirectWriteStep ==
  ASSUME IInv, torn' = FALSE, NEW w \in Workers, NEW n \in 0 .. PacketSize, DirectWrite(w, n)
  PROVE  IInv'
<1> USE DEF ghosts
<1>0. TypeOK /\ Control /\ Queued /\ Ownership /\ SendingExact /\ Asserts
  BY DEF IInv
<1>1. PICK s \in Slot, p \in Packets \cup {None}, id \in Nat :
        s = HASH_ID(worker[w].id) /\ p = worker[w].pkt /\ id = slot[s].id
  <2>1. worker[w].pkt \in Packets \cup {None}
    BY <1>0 DEF TypeOK
  <2> QED BY <2>1, <1>0, Numbers
<1>2. /\ worker[w].pc = "c2b" /\ LastLoads(w)
      /\ wire' = [wire EXCEPT ![id] = @ \o SubSeq(UnitsOf(p), 1, n)]
      /\ IF n = PacketSize
         THEN FreeAll({p}) /\ slot' = slot
         ELSE /\ slot' = [slot EXCEPT ![s].dw = SubSeq(UnitsOf(p), n + 1, PacketSize),
                                      ![s].wr = @ \/ TRUE]
              /\ freed' = freed
      /\ lock' = [lock EXCEPT ![s] = None]
      /\ worker' = [worker EXCEPT ![w] = Idle]
      /\ UNCHANGED <<alloc, pipe, st, ev, known, closed, cut, overtaken, ctrls, sent, packet,
                     failed>>
  BY <1>1 DEF DirectWrite, WriteDirect
<1>3. /\ p \in Packets /\ p \in 1 .. sent /\ freed[p] = 0 /\ HeldBy(p, "worker", w)
      /\ packet[p].to = worker[w].id
  BY <1>0, <1>1, <1>2, WorkerHolds DEF Sends
<1>4. slot[s].dw = <<>> /\ slot[s].type = "CONNECTED" /\ ~Vacant(s)
  BY <1>1, <1>2 DEF LastLoads, NothingInFlight, Vacant
<1>5. id \in Ids
  BY <1>0, <1>1, <1>4, AtHome
<1>6. Addressed(p, id)
  <2>1. Working(w)
    BY <1>0 DEF Control
  <2>2. id = worker[w].id \/ p \in overtaken
    BY <2>1, <1>1, <1>2 DEF Working
  <2>3. p <= sent
    BY <1>0, <1>3, Numbers
  <2> QED BY <2>2, <2>3, <1>3 DEF Addressed
<1>7. PICK q : q = IF n = PacketSize THEN <<>> ELSE SubSeq(UnitsOf(p), n + 1, PacketSize)
  OBVIOUS
<1>8. /\ q \in Seq(Units) /\ Whole(q) /\ Distinct(q)
      /\ PacketsIn(q) = IF n = PacketSize THEN {} ELSE {p}
  BY <1>3, <1>7, NoUnits, NoPackets, RestOfIs
<1>9. /\ Only(s) /\ slot'[s].type = slot[s].type /\ SameCount(s)
      /\ slot'[s].high = slot[s].high /\ slot'[s].low = slot[s].low
      /\ slot'[s].dw = q
  <2>1. CASE n = PacketSize
    BY <2>1, <1>0, <1>2, <1>4, <1>7 DEF Only, SameCount, SameTag, TypeOK
  <2>2. CASE n # PacketSize
    <3>1. slot' = [slot EXCEPT ![s].dw = q, ![s].wr = @ \/ TRUE]
      BY <2>2, <1>2, <1>7
    <3> QED BY <3>1, <1>0, <1>8, DirectIs
  <2> QED BY <2>1, <2>2
<1>10. /\ freed' \in [Packets -> 0 .. 2]
       /\ freed'[p] = IF n = PacketSize THEN 1 ELSE 0
       /\ \A r \in Packets : r # p => freed'[r] = freed[r]
  <2>1. CASE n = PacketSize
    BY <2>1, <1>0, <1>2, <1>3, FreeIs
  <2>2. CASE n # PacketSize
    BY <2>2, <1>0, <1>2, <1>3 DEF TypeOK
  <2> QED BY <2>1, <2>2
<1>11. OnlyWorker(w) /\ worker'[w].pc = "idle" /\ worker'[w].pkt = None
       /\ Working(w)' /\ ~Reserves(w)'
  BY <1>0, <1>2, IdleIs
<1>12. Grows
  BY <1>0, <1>2, Numbers DEF Grows
<1>13. ~Vacant(s)'
  BY <1>4, <1>9 DEF Vacant
<1>14. /\ slot' \in [Slot -> Sockets] /\ Emptied
       /\ \A t \in Slot : t # s => /\ slot'[t] = slot[t]
                                   /\ Calm(t) /\ SameCount(t) /\ SameLists(t)
                                   /\ \A r : SamePlace(r, t)
  BY <1>0, <1>9, <1>13, OneSlot
<1>15. Calm(s)
  BY <1>9 DEF Calm, SameCount
<1>16. /\ Wired(id)' /\ wire' \in [Ids -> Seq(Units)]
       /\ \A i \in Ids : i # id => wire'[i] = wire[i]
  <2>1. PICK u : u = SubSeq(UnitsOf(p), 1, n)
    OBVIOUS
  <2>2. UnitsOf(p) \in Seq(Units) /\ n \in 0 .. Len(UnitsOf(p)) /\ PacketsIn(UnitsOf(p)) = {p}
    BY <1>3, UnitsOfIs
  <2>3. u \in Seq(Units) /\ PacketsIn(u) \subseteq {p}
    BY <2>1, <2>2, Prefix, PrefixPackets
  <2>4. wire' = [wire EXCEPT ![id] = @ \o u]
    BY <2>1, <1>2
  <2>5. Wired(id)
    BY <1>0, <1>5 DEF Queued
  <2> QED BY <2>3, <2>4, <2>5, <1>0, <1>5, <1>6, <1>12, WiredMore
<1>17. TypeOK'
  <2>1. lock' \in [Slot -> Workers \cup {None}]
    BY <1>0, <1>2 DEF TypeOK
  <2> QED BY <2>1, <1>0, <1>2, <1>10, <1>11, <1>14, <1>16 DEF TypeOK, OnlyWorker, Threads
<1>18. Control'
  <2>1. \A t \in Slot : /\ slot'[t].type = slot[t].type
                        /\ slot'[t].high = slot[t].high /\ slot'[t].low = slot[t].low
    BY <1>9, <1>14
  <2>2. \A t \in Slot : Calm(t)
    BY <1>14, <1>15
  <2> QED BY <2>1, <2>2, <1>0, <1>2, <1>11, <1>12, <1>14, ControlWorker DEF OnlyWorker
<1>19. Queued'
  <2>0. Lists(s) /\ PacketsIn(slot[s].high) \cup PacketsIn(slot[s].low)
                      = PacketsIn(slot[s].high \o slot[s].low)
        /\ PacketsIn(slot[s].high \o slot[s].low) \subseteq PacketsIn(Backlog(s))
    BY <1>0, BacklogIs DEF Queued
  <2>1. p \notin PacketsIn(slot[s].high \o slot[s].low)
    BY <1>3 DEF HeldBy
  <2>2. Sound(slot'[s].dw, slot'[s].high, slot'[s].low)
    BY <2>0, <2>1, <1>8, <1>9 DEF Lists, Sound, Apart
  <2>3. \A r \in PacketsIn(slot'[s].dw) \cup PacketsIn(slot'[s].high \o slot'[s].low) :
          Addressed(r, id)
    BY <2>0, <1>1, <1>6, <1>8, <1>9 DEF Lists
  <2>4. slot'[s].id = id
    BY <1>1, <1>9 DEF SameCount, SameTag
  <2>5. Lists(s)'
    BY <2>2, <2>3, <2>4, <1>0, <1>12, <1>14, ListsNew
  <2>6. \A i \in Ids : Wired(i)'
    BY <1>0, <1>12, <1>16, WiredSame DEF Queued
  <2> QED BY <2>5, <2>6, <1>0, <1>9, <1>12, ListsOne
<1>20. Ownership'
  <2>1. ASSUME NEW r \in Packets, r <= sent, r # p PROVE Owned(r)'
    <3>1. Owned(r)
      BY <2>1, <1>0 DEF Ownership
    <3>2. SameWorkers(r)
      BY <2>1, <1>1, <1>11, NoneIs DEF SameWorkers, OnlyWorker
    <3>3. Shifted(0) /\ NotFirst(r, 0)
      BY <1>0, <1>2, PipeSame DEF NotFirst
    <3>4. SamePlace(r, s)
      BY <2>1, <1>4, <1>8, <1>9, NoPackets DEF SamePlace, InList, InDirect
    <3> QED BY <2>1, <3>1, <3>2, <3>3, <3>4, <1>0, <1>10, <1>14, OwnedSame
  <2>2. /\ \A v \in Workers : worker'[v].pkt # p
        /\ \A i \in DOMAIN pipe' : pipe'[i].pkt # p
        /\ \A t \in Slot : ~InList(p, t)'
        /\ \A t \in Slot : InDirect(p, t)' <=> t = s /\ n # PacketSize
    <3>1. \A v \in Workers : worker'[v].pkt # p
      BY <1>3, <1>11, NoneIs DEF OnlyWorker, HeldBy
    <3>2. \A i \in DOMAIN pipe' : pipe'[i].pkt # p
      BY <1>2, <1>3 DEF HeldBy
    <3>3. \A t \in Slot : ~InList(p, t) /\ ~InDirect(p, t)
      BY <1>3 DEF HeldBy, InList, InDirect
    <3>4. \A t \in Slot : t # s => ~InList(p, t)' /\ ~InDirect(p, t)'
      BY <3>3, <1>14 DEF SamePlace
    <3>5. ~InList(p, s)' /\ (InDirect(p, s)' <=> n # PacketSize)
      BY <3>3, <1>8, <1>9 DEF InList, InDirect
    <3> QED BY <3>1, <3>2, <3>4, <3>5
  <2>3. Owned(p)'
    <3>1. CASE n = PacketSize
      <4>1. HeldBy(p, "none", 0)'
        BY <2>2, <3>1 DEF HeldBy, InList, InDirect
      <4> QED BY <4>1, <3>1, <1>10 DEF Owned
    <3>2. CASE n # PacketSize
      <4>1. HeldBy(p, "dw", s)' /\ Place("dw", s)'
        BY <2>2, <3>2 DEF HeldBy, InList, InDirect, Place
      <4> QED BY <4>1, <3>2, <1>10 DEF Owned
    <3> QED BY <3>1, <3>2
  <2>4. ASSUME NEW r \in Packets, ~(r <= sent) PROVE freed'[r] = 0
    <3>1. r # p
      BY <2>4, <1>0, <1>3, Numbers
    <3> QED BY <2>4, <3>1, <1>0, <1>10 DEF Ownership
  <2> QED BY <2>1, <2>3, <2>4, <1>2 DEF Ownership
<1>21. SendingExact'
  <2>1. \A i : Announced(i)' = Announced(i)
    BY <1>2, <1>11 DEF Announced, OnlyWorker
  <2>2. \A i : Carried(i)' = Carried(i)
    BY <1>2 DEF Carried, InPipe
  <2>3. \A t \in Slot : SameCount(t)
    BY <1>9, <1>14
  <2> QED BY <2>1, <2>2, <2>3, <1>0, <1>14, CountSame
<1> QED BY <1>0, <1>2, <1>17, <1>18, <1>19, <1>20, <1>21 DEF IInv, Asserts

-----------------------------------------------------------------------------
(* reserve_id.                                                             *)

\* The CAS takes a slot that no worker and no command has.
LEMMA ReserveCasStep ==
  ASSUME IInv, torn' = FALSE, NEW w \in Workers, ReserveCas(w)
  PROVE  IInv'
<1> USE DEF ghosts
<1>0. TypeOK /\ Control /\ Queued /\ Ownership /\ SendingExact /\ Asserts
  BY DEF IInv
<1>1. PICK id, s : id = NextId /\ s = HASH_ID(id)
  OBVIOUS
<1>2. /\ worker[w].pc = "idle" /\ Probes # {} /\ id \in Ids /\ alloc' = id
      /\ slot' = [slot EXCEPT ![s].type = "RESERVE"]
      /\ worker' = [worker EXCEPT ![w] = [Idle EXCEPT !.pc = "init", !.id = id]]
      /\ UNCHANGED <<lock, pipe, st, ev, known, closed, cut, overtaken, ctrls, sent, packet,
                     freed, wire, failed>>
  BY <1>1 DEF ReserveCas
<1>3. id \in Nat /\ id > alloc /\ s \in Slot /\ slot[s].type = "INVALID" /\ alloc \in Nat
      /\ id \in 0 .. MaxId /\ id >= 1
  <2>1. id \in Nat /\ id > alloc /\ s \in Slot /\ slot[s].type = "INVALID"
    BY <1>0, <1>1, <1>2, NextFree
  <2>2. alloc \in Nat
    BY <1>0, Numbers
  <2> QED BY <2>1, <2>2, <1>2 DEF Ids
<1>4. Only(s) /\ slot'[s].type = "RESERVE" /\ SameCount(s) /\ SameLists(s)
      /\ slot'[s].poll = slot[s].poll
  <2>1. "RESERVE" \in Types
    BY DEF Types
  <2> QED BY <2>1, <1>0, <1>2, <1>3, TypeIs, TypeOnly
<1>5. OnlyWorker(w) /\ worker'[w].pc = "init" /\ worker'[w].id = id /\ worker'[w].pkt = None
  <2>1. PICK x : x = [Idle EXCEPT !.pc = "init", !.id = id]
    OBVIOUS
  <2>2. x \in Threads /\ x.pc = "init" /\ x.id = id /\ x.pkt = None
    BY <2>1, <1>3 DEF Idle, Threads
  <2>3. worker' = [worker EXCEPT ![w] = x]
    BY <2>1, <1>2
  <2> QED BY <2>2, <2>3, <1>0 DEF TypeOK, OnlyWorker, Threads
<1>6. /\ slot' \in [Slot -> Sockets] /\ Emptied
      /\ \A t \in Slot : t # s => /\ slot'[t] = slot[t]
                                  /\ Calm(t) /\ SameCount(t) /\ SameLists(t)
                                  /\ \A r : SamePlace(r, t)
  <2>1. Bare(s)
    BY <1>0, <1>3, <1>4 DEF Control, Slotted, Vacant, SameLists, Bare
  <2> QED BY <2>1, <1>0, <1>3, <1>4, OneSlot
<1>7. TypeOK'
  BY <1>0, <1>2, <1>3, <1>5, <1>6 DEF TypeOK, OnlyWorker, Threads
<1>8. Grows
  BY <1>0, <1>2, Numbers DEF Grows
<1>9. \A t \in Slot : slot'[t].id = slot[t].id /\ SameLists(t) /\ SameCount(t)
  BY <1>4, <1>6 DEF SameCount, SameTag
<1>10. Control'
  <2>1. ASSUME NEW t \in Slot PROVE Slotted(t)'
    <3>1. slot[t].id \in Nat /\ slot[t].id <= alloc'
      BY <1>0, <1>2, <1>3, Numbers DEF Control, Slotted
    <3>2. CASE t = s
      <4>1. Vacant(t) /\ Vacant(t)' /\ Slotted(t)
        BY <3>2, <1>0, <1>3, <1>4 DEF Vacant, Control
      <4> QED BY <3>1, <3>2, <4>1, <1>4 DEF Slotted, SameCount, SameTag, SameLists
    <3>3. CASE t # s
      <4>1. Slotted(t) /\ slot'[t] = slot[t]
        BY <3>3, <1>0, <1>6 DEF Control
      <4> QED BY <3>1, <4>1 DEF Slotted, Vacant
    <3> QED BY <3>2, <3>3
  <2>2. ASSUME NEW v \in Workers, v # w PROVE Working(v)'
    <3>1. Working(v) /\ worker'[v] = worker[v]
      BY <2>2, <1>0, <1>5 DEF Control, OnlyWorker
    <3>2. PICK t \in Slot, i \in Nat : t = HASH_ID(worker[v].id) /\ i = worker[v].id
      BY <1>0, Numbers
    <3>3. slot'[t].id = slot[t].id
      BY <1>9
    <3>4. Reserves(v) => slot'[t].type = "RESERVE" /\ i \in 1 .. alloc'
      <4>1. Reserves(v) => slot[t].type = "RESERVE" /\ i \in 1 .. alloc
        BY <3>1, <3>2 DEF Working
      <4>2. slot[t].type = "RESERVE" => slot'[t].type = "RESERVE"
        BY <1>4, <1>6
      <4> QED BY <4>1, <4>2, <1>2, <1>3
    <3>5. (Sends(v)' <=> Sends(v)) /\ (Reserves(v)' <=> Reserves(v))
      BY <3>1 DEF Sends, Reserves
    <3> QED BY <3>1, <3>2, <3>3, <3>4, <3>5, <1>2 DEF Working
  <2>3. Working(w)'
    <3>1. id \notin known
      BY <1>0, <1>3 DEF Control
    <3>2. ~Sends(w)' /\ Reserves(w)'
      BY <1>5 DEF Sends, Reserves
    <3>3. id \in 1 .. alloc'
      BY <1>2, <1>3
    <3> QED BY <3>1, <3>2, <3>3, <1>1, <1>2, <1>3, <1>4, <1>5 DEF Working
  <2>4. ASSUME NEW j \in DOMAIN pipe' PROVE Asked(j)'
    <3>1. Asked(j) /\ j \in DOMAIN pipe /\ pipe'[j] = pipe[j]
      BY <1>0, <1>2 DEF Control
    <3>2. PICK t \in Slot, i \in Nat : t = HASH_ID(pipe[j].id) /\ i = pipe[j].id
      BY <3>1, <1>0, Numbers, IdsIn
    <3>3. slot'[t].id = slot[t].id
      BY <1>9
    <3>4. slot[t].type = "RESERVE" => slot'[t].type = "RESERVE"
      BY <1>4, <1>6
    <3>5. i <= alloc => i <= alloc'
      BY <1>2, <1>3
    <3> QED BY <3>1, <3>2, <3>3, <3>4, <3>5, <1>2 DEF Asked
  <2>5. Alone'
    <3>1. \A v \in Workers : v # w /\ Reserves(v)' =>
            Reserves(v) /\ worker'[v] = worker[v] /\ HASH_ID(worker'[v].id) # s
      BY <1>0, <1>3, <1>5 DEF OnlyWorker, Reserves, Control, Working
    <3>2. \A j \in DOMAIN pipe : pipe[j].cmd = "O" => HASH_ID(pipe[j].id) # s
      BY <1>0, <1>3 DEF Control, Asked
    <3>3. HASH_ID(worker'[w].id) = s
      BY <1>1, <1>5
    <3>4. \A v, u \in Workers : Reserves(v)' /\ Reserves(u)'
            /\ HASH_ID(worker'[v].id) = HASH_ID(worker'[u].id) => v = u
      BY <3>1, <3>3, <1>0 DEF Control, Alone
    <3>5. \A i, j \in DOMAIN pipe' : pipe'[i].cmd = "O" /\ pipe'[j].cmd = "O"
            /\ HASH_ID(pipe'[i].id) = HASH_ID(pipe'[j].id) => i = j
      BY <1>0, <1>2 DEF Control, Alone
    <3>6. \A v \in Workers, i \in DOMAIN pipe' : Reserves(v)' /\ pipe'[i].cmd = "O"
            => HASH_ID(worker'[v].id) # HASH_ID(pipe'[i].id)
      BY <3>1, <3>2, <3>3, <1>0, <1>2 DEF Control, Alone
    <3> QED BY <3>4, <3>5, <3>6 DEF Alone
  <2>6. Closing'
    <3>1. Closing /\ st.s \in Slot
      BY <1>0 DEF Control, TypeOK
    <3>2. st.pc \in {"close", "force", "open", "quiet"} => st.s # s
      BY <3>1, <1>3 DEF Closing, Vacant
    <3>3. \A t \in Slot : slot'[t].type = "INVALID" => t # s
      BY <1>4
    <3>4. \A t \in Slot : t # s => slot'[t] = slot[t]
      BY <1>6
    <3> QED BY <3>1, <3>2, <3>3, <3>4, <1>2 DEF Closing, Vacant
  <2>7. known' \subseteq 1 .. alloc'
    <3>1. known \subseteq 1 .. alloc /\ 1 .. alloc \subseteq 1 .. alloc'
      BY <1>0, <1>2, <1>3 DEF Control
    <3> QED BY <3>1, <1>2
  <2> QED BY <2>1, <2>2, <2>3, <2>4, <2>5, <2>6, <2>7 DEF Control
<1>11. Queued'
  BY <1>0, <1>2, <1>6, <1>8, <1>9, QueuedSame
<1>12. Ownership'
  <2>1. Shifted(0)
    BY <1>0, <1>2, PipeSame
  <2>2. worker[w].pkt = None
    BY <1>0, <1>2 DEF Control, Working, Sends
  <2>3. \A p \in Packets : NotFirst(p, 0) /\ SameWorkers(p)
    BY <2>2, <1>5 DEF NotFirst, SameWorkers, OnlyWorker
  <2>4. \A t \in Slot : \A p : SamePlace(p, t)
    BY <1>9 DEF SamePlace, SameLists, InList, InDirect
  <2> QED BY <2>1, <2>3, <2>4, <1>0, <1>2, OwnershipSame
<1>13. SendingExact'
  <2>1. \A i : Announced(i)' = Announced(i)
    BY <1>2, <1>5 DEF Announced, OnlyWorker
  <2>2. \A i : Carried(i)' = Carried(i)
    BY <1>2 DEF Carried, InPipe
  <2> QED BY <2>1, <2>2, <1>0, <1>6, <1>9, CountSame
<1> QED BY <1>0, <1>2, <1>7, <1>10, <1>11, <1>12, <1>13 DEF IInv, Asserts

\* A worker between the loads of its check has a packet.
LEMMA BetweenIs ==
  ASSUME TypeOK, Control, Ownership, NEW s
  PROVE  /\ BetweenLoads(s) \subseteq Packets
         /\ \A v \in Workers : worker[v].pc = "c2b" /\ HASH_ID(worker[v].id) = s
              => worker[v].pkt \in BetweenLoads(s)
<1>1. \A v \in Workers : worker[v].pc = "c2b" => worker[v].pkt \in Packets
  BY WorkerHolds DEF Sends
<1> QED BY <1>1 DEF BetweenLoads

\* The slot gets its new id; the counts of the old one are forgotten.
LEMMA ReserveInitStep ==
  ASSUME IInv, torn' = FALSE, NEW w \in Workers, ReserveInit(w)
  PROVE  IInv'
<1> USE DEF kernel
<1>0. TypeOK /\ Control /\ Queued /\ Ownership /\ SendingExact /\ Asserts
  BY DEF IInv
<1>1. PICK s \in Slot, id \in Nat : s = HASH_ID(worker[w].id) /\ id = worker[w].id
  BY <1>0, Numbers
<1>2. /\ worker[w].pc = "init"
      /\ slot' = [slot EXCEPT ![s].id = id, ![s].tcp = FALSE]
      /\ worker' = [worker EXCEPT ![w].pc = "open"]
      /\ overtaken' = overtaken \cup BetweenLoads(s)
      /\ UNCHANGED <<lock, alloc, pipe, st, ev, known, closed, ctrls, sent, packet, freed,
                     wire, cut, failed>>
  BY <1>1 DEF ReserveInit
<1>3. /\ Reserves(w) /\ id \in Ids /\ id \in 1 .. alloc /\ id \notin known
      /\ slot[s].type = "RESERVE" /\ worker[w].pkt = None
  BY <1>0, <1>1, <1>2 DEF Control, Working, Reserves, Sends
<1>4. /\ Only(s) /\ slot'[s].type = "RESERVE" /\ slot'[s].id = id /\ slot'[s].tcp = FALSE
      /\ SameLists(s) /\ slot'[s].poll = slot[s].poll
  BY <1>0, <1>2, <1>3, InitIs
<1>5. OnlyWorker(w) /\ worker'[w].pc = "open" /\ worker'[w].id = id /\ worker'[w].pkt = None
  BY <1>0, <1>1, <1>2, <1>3 DEF TypeOK, OnlyWorker, Threads
<1>6. Bare(s)
  BY <1>0, <1>3, <1>4 DEF Control, Slotted, Vacant, SameLists, Bare
<1>7. /\ slot' \in [Slot -> Sockets] /\ Emptied
      /\ \A t \in Slot : t # s => /\ slot'[t] = slot[t]
                                  /\ Calm(t) /\ SameCount(t) /\ SameLists(t)
                                  /\ \A r : SamePlace(r, t)
  BY <1>0, <1>4, <1>6, OneSlot
<1>8. TypeOK'
  <2>1. overtaken' \subseteq Packets
    BY <1>0, <1>2, BetweenIs DEF TypeOK
  <2> QED BY <2>1, <1>0, <1>2, <1>5, <1>7 DEF TypeOK, OnlyWorker, Threads
<1>9. Grows
  BY <1>0, <1>2, Numbers DEF Grows
<1>10. Control'
  <2>1. ASSUME NEW t \in Slot PROVE Slotted(t)'
    <3>1. CASE t = s
      <4>1. id <= alloc /\ Vacant(t)'
        BY <3>1, <1>0, <1>3, <1>4, Numbers DEF Vacant
      <4> QED BY <3>1, <4>1, <1>2, <1>4, <1>6 DEF Slotted, Bare
    <3>2. CASE t # s
      <4>1. Slotted(t) /\ slot'[t] = slot[t]
        BY <3>2, <1>0, <1>7 DEF Control
      <4> QED BY <4>1, <1>2 DEF Slotted, Vacant
    <3> QED BY <3>1, <3>2
  <2>2. ASSUME NEW v \in Workers, v # w PROVE Working(v)'
    <3>1. Working(v) /\ worker'[v] = worker[v]
      BY <2>2, <1>0, <1>5 DEF Control, OnlyWorker
    <3>2. PICK t \in Slot : t = HASH_ID(worker[v].id)
      BY <1>0, Numbers
    <3>3. Reserves(v) => t # s
      BY <2>2, <3>2, <1>0, <1>1, <1>3 DEF Control, Alone
    <3>4. worker[v].pc = "open" => slot'[t].id = worker[v].id
      <4>1. worker[v].pc = "open" => Reserves(v)
        BY DEF Reserves
      <4> QED BY <3>1, <3>2, <3>3, <4>1, <1>7 DEF Working
    <3>5. Reserves(v) => slot'[t].type = "RESERVE"
      BY <3>1, <3>2, <3>3, <1>7 DEF Working
    <3>6. worker[v].pc = "c2b" => slot'[t].id = worker[v].id \/ worker[v].pkt \in overtaken'
      <4>1. CASE t = s
        BY <3>2, <4>1, <1>0, <1>2, BetweenIs
      <4>2. CASE t # s
        BY <3>1, <3>2, <4>2, <1>2, <1>7 DEF Working
      <4> QED BY <4>1, <4>2
    <3>7. (Sends(v)' <=> Sends(v)) /\ (Reserves(v)' <=> Reserves(v))
      BY <3>1 DEF Sends, Reserves
    <3> QED BY <3>1, <3>2, <3>4, <3>5, <3>6, <3>7, <1>2 DEF Working
  <2>3. Working(w)'
    <3>1. ~Sends(w)' /\ Reserves(w)'
      BY <1>5 DEF Sends, Reserves
    <3>2. HASH_ID(worker'[w].id) = s /\ alloc' = alloc /\ known' = known
          /\ worker'[w].pc # "c2b"
      BY <1>1, <1>2, <1>5
    <3> QED BY <3>1, <3>2, <1>3, <1>4, <1>5 DEF Working
  <2>4. ASSUME NEW j \in DOMAIN pipe' PROVE Asked(j)'
    <3>1. Asked(j) /\ j \in DOMAIN pipe /\ pipe'[j] = pipe[j]
      BY <1>0, <1>2 DEF Control
    <3>2. PICK t \in Slot : t = HASH_ID(pipe[j].id)
      BY <3>1, <1>0, Numbers
    <3>3. pipe[j].cmd = "O" => t # s
      BY <3>1, <3>2, <1>0, <1>1, <1>3 DEF Control, Alone
    <3>4. pipe[j].cmd = "O" => slot'[t] = slot[t]
      BY <3>3, <1>7
    <3> QED BY <3>1, <3>2, <3>4, <1>2 DEF Asked
  <2>5. Alone'
    <3>1. \A v \in Workers : (Reserves(v)' <=> Reserves(v)) /\ worker'[v].id = worker[v].id
      BY <1>1, <1>2, <1>5 DEF OnlyWorker, Reserves
    <3> QED BY <3>1, <1>0, <1>2 DEF Control, Alone
  <2>6. Closing'
    <3>1. Closing /\ st.s \in Slot
      BY <1>0 DEF Control, TypeOK
    <3>2. st.pc \in {"close", "force", "open", "quiet"} => st.s # s
      BY <3>1, <1>3 DEF Closing, Vacant
    <3>3. \A t \in Slot : slot'[t].type = "INVALID" => t # s
      BY <1>4
    <3>4. \A t \in Slot : t # s => slot'[t] = slot[t]
      BY <1>7
    <3> QED BY <3>1, <3>2, <3>3, <3>4, <1>2 DEF Closing, Vacant
  <2>7. known' \subseteq 1 .. alloc'
    BY <1>0, <1>2 DEF Control
  <2> QED BY <2>1, <2>2, <2>3, <2>4, <2>5, <2>6, <2>7 DEF Control
<1>11. Queued'
  <2>1. Lists(s)'
    BY <1>0, <1>4, <1>6, <1>7, <1>9, ListsEmpty DEF Bare
  <2>2. \A i \in Ids : Wired(i)'
    BY <1>0, <1>2, <1>9, WiredSame DEF Queued
  <2> QED BY <2>1, <2>2, <1>0, <1>4, <1>9, ListsOne
<1>12. Ownership'
  <2>1. Shifted(0)
    BY <1>0, <1>2, PipeSame
  <2>2. \A p \in Packets : NotFirst(p, 0) /\ SameWorkers(p)
    BY <1>3, <1>5 DEF NotFirst, SameWorkers, OnlyWorker
  <2>3. \A t \in Slot : \A p : SamePlace(p, t)
    BY <1>4, <1>7 DEF SamePlace, SameLists, InList, InDirect
  <2> QED BY <2>1, <2>2, <2>3, <1>0, <1>2, OwnershipSame
<1>13. SendingExact'
  <2>1. \A i : Announced(i)' = Announced(i)
    BY <1>2, <1>5 DEF Announced, OnlyWorker
  <2>2. \A i : Carried(i)' = Carried(i)
    BY <1>2 DEF Carried, InPipe
  <2>3. \A t \in Slot : SameCount(t) \/ ~slot'[t].tcp
    BY <1>4, <1>7
  <2> QED BY <2>1, <2>2, <2>3, <1>0, <1>7, CountSame
<1> QED BY <1>0, <1>2, <1>8, <1>10, <1>11, <1>12, <1>13 DEF IInv, Asserts

-----------------------------------------------------------------------------
(* The socket thread: what its steps do to one slot.                       *)

\* A buffer stays where it is, moves from dw_buffer to the lists, or is freed.
Moves(p, s) ==
  \/ SamePlace(p, s) /\ freed'[p] = freed[p]
  \/ /\ InList(p, s) \/ InDirect(p, s)
     /\ ~InDirect(p, s)'
     /\ \/ freed'[p] = freed[p] + 1 /\ ~InList(p, s)'
        \/ freed'[p] = freed[p] /\ InList(p, s)'

\* The socket of slot s keeps its id and its count, and no slot is reserved.
SlotStep(s) ==
  /\ Only(s) /\ Calm(s) /\ SameCount(s)
  /\ Vacant(s)' => Bare(s)
  /\ Lists(s)'
  /\ \A p \in Packets : Moves(p, s)
  /\ freed' \in [Packets -> 0 .. 2]
WireStep == wire' \in [Ids -> Seq(Units)] /\ \A id \in Ids : Wired(id)'

\* The buffers of a slot are not freed yet.
LEMMA SlotHolds ==
  ASSUME TypeOK, Queued, Ownership, NEW s \in Slot
  PROVE  /\ PacketsIn(Backlog(s)) \subseteq Packets
         /\ \A p \in Packets : p \in PacketsIn(Backlog(s)) <=> InList(p, s) \/ InDirect(p, s)
         /\ \A p \in PacketsIn(Backlog(s)) : p <= sent /\ freed[p] = 0
<1>1. PacketsIn(Backlog(s)) \subseteq Packets
  BY BacklogIs, InPackets
<1>2. \A p \in Packets : p \in PacketsIn(Backlog(s)) <=> InList(p, s) \/ InDirect(p, s)
  BY BacklogIs DEF InList, InDirect
<1>3. ASSUME NEW p \in PacketsIn(Backlog(s)) PROVE p <= sent /\ freed[p] = 0
  <2>1. p <= sent
    BY DEF Queued, Lists, Addressed
  <2>2. Owned(p)
    BY <2>1, <1>1 DEF Ownership
  <2>3. ~HeldBy(p, "none", 0)
    BY <1>1, <1>2 DEF HeldBy, InList, InDirect
  <2> QED BY <2>1, <2>2, <2>3 DEF Owned
<1> QED BY <1>1, <1>2, <1>3

\* Nothing of the slot changes but its type.
LEMMA StepType ==
  ASSUME TypeOK, Control, Queued, Grows, NEW s \in Slot, Only(s), Calm(s), SameCount(s),
         SameLists(s), freed' = freed,
         Vacant(s)' => Vacant(s) /\ slot'[s].poll = slot[s].poll
  PROVE  SlotStep(s)
<1>1. Lists(s)'
  BY ListsSame DEF Queued, Only, SameCount, SameTag
<1>2. Vacant(s)' => Bare(s)
  BY DEF Control, Slotted, SameLists, Bare
<1>3. \A p \in Packets : Moves(p, s)
  BY DEF Moves, SamePlace, InList, InDirect, SameLists
<1> QED BY <1>1, <1>2, <1>3 DEF SlotStep, TypeOK

LEMMA StepNothing ==
  ASSUME TypeOK, Control, Queued, Grows, NEW s \in Slot, slot' = slot, freed' = freed
  PROVE  SlotStep(s)
<1>1. Only(s) /\ Calm(s) /\ SameCount(s) /\ SameLists(s)
  BY SlotsSame DEF Only
<1>2. Vacant(s)' => Vacant(s) /\ slot'[s].poll = slot[s].poll
  BY DEF Vacant
<1> QED BY <1>1, <1>2, StepType

LEMMA WireNothing ==
  ASSUME TypeOK, Queued, Grows, wire' = wire
  PROVE  WireStep
BY WiredSame DEF WireStep, Queued, TypeOK

\* A part of the backlog is written.
LEMMA WirePart ==
  ASSUME TypeOK, Control, Queued, Grows, NEW s \in Slot, ~Vacant(s),
         NEW k \in 0 .. Len(Backlog(s)),
         wire' = [wire EXCEPT ![slot[s].id] = @ \o SubSeq(Backlog(s), 1, k)]
  PROVE  WireStep
<1>1. PICK id \in Ids, u \in {SubSeq(Backlog(s), 1, k)} : id = slot[s].id
  BY AtHome
<1>2. Backlog(s) \in Seq(Units)
  BY BacklogIs
<1>3. u \in Seq(Units) /\ PacketsIn(u) \subseteq PacketsIn(Backlog(s))
  BY <1>1, <1>2, Prefix, PrefixPackets
<1>4. \A p \in PacketsIn(u) : Addressed(p, id)
  BY <1>1, <1>3 DEF Queued, Lists
<1>5. Wired(id)
  BY DEF Queued
<1>6. wire' = [wire EXCEPT ![id] = @ \o u]
  BY <1>1
<1>7. /\ Wired(id)' /\ wire' \in [Ids -> Seq(Units)]
      /\ \A i \in Ids : i # id => wire'[i] = wire[i]
  BY <1>3, <1>4, <1>5, <1>6, WiredMore
<1> QED BY <1>7, WiredSame DEF WireStep, Queued

\* force_close before its lock.
LEMMA StepForce ==
  ASSUME TypeOK, Control, Queued, Ownership, Grows, NEW s \in Slot, ~Vacant(s),
         slot' = [slot EXCEPT ![s].high = <<>>, ![s].low = <<>>],
         FreeAll(PacketsIn(slot[s].high \o slot[s].low))
  PROVE  /\ SlotStep(s) /\ slot'[s].type = slot[s].type
         /\ slot'[s].high = <<>> /\ slot'[s].low = <<>>
<1>1. /\ Only(s) /\ slot'[s].type = slot[s].type /\ SameCount(s)
      /\ slot'[s].high = <<>> /\ slot'[s].low = <<>> /\ slot'[s].dw = slot[s].dw
  BY EmptyIs
<1>2. PICK P : P = PacketsIn(slot[s].high \o slot[s].low)
  OBVIOUS
<1>3. P \in SUBSET Packets /\ P \subseteq PacketsIn(Backlog(s))
      /\ PacketsIn(slot[s].dw) \subseteq PacketsIn(Backlog(s))
  BY <1>2, SlotHolds, BacklogIs
<1>4. /\ freed' \in [Packets -> 0 .. 2]
      /\ \A p \in P : freed'[p] = freed[p] + 1 /\ freed'[p] = 1
      /\ \A p \in Packets \ P : freed'[p] = freed[p]
  BY <1>2, <1>3, SlotHolds, FreeIs
<1>5. PacketsIn(<<>> \o <<>>) = {}
  BY NoPackets, NoUnits, JoinedPackets
<1>6. P \cap PacketsIn(slot[s].dw) = {}
  BY <1>2, BacklogIs DEF Queued, Lists, Apart
<1>7. ASSUME NEW p \in Packets PROVE Moves(p, s)
  <2>1. CASE p \in P
    <3>1. InList(p, s) /\ ~InDirect(p, s)' /\ ~InList(p, s)' /\ freed'[p] = freed[p] + 1
      BY <2>1, <1>1, <1>2, <1>4, <1>5, <1>6 DEF InList, InDirect
    <3> QED BY <3>1 DEF Moves
  <2>2. CASE p \notin P
    <3>1. SamePlace(p, s) /\ freed'[p] = freed[p]
      BY <2>2, <1>1, <1>2, <1>4, <1>5 DEF InList, InDirect, SamePlace
    <3> QED BY <3>1 DEF Moves
  <2> QED BY <2>1, <2>2
<1>8. Lists(s)'
  <2>1. slot'[s].id = slot[s].id /\ slot' \in [Slot -> Sockets]
    BY <1>1 DEF SameCount, SameTag, Only
  <2>2. Sound(slot'[s].dw, slot'[s].high, slot'[s].low)
    BY <1>1, NoPackets DEF Queued, Lists, Sound, Apart
  <2>3. \A p \in PacketsIn(slot'[s].dw) \cup PacketsIn(slot'[s].high \o slot'[s].low) :
          Addressed(p, slot[s].id)
    BY <1>1, <1>3, <1>5 DEF Queued, Lists
  <2> QED BY <2>1, <2>2, <2>3, ListsNew
<1>9. Calm(s) /\ ~Vacant(s)'
  BY <1>1 DEF Calm, SameCount, Vacant
<1> QED BY <1>1, <1>4, <1>7, <1>8, <1>9 DEF SlotStep

\* send_buffer.
LEMMA StepWritten ==
  ASSUME TypeOK, Control, Queued, Ownership, Grows, NEW s \in Slot, ~Vacant(s),
         NEW k \in 0 .. Len(Backlog(s)), Written(s, k)
  PROVE  SlotStep(s) /\ WireStep /\ slot'[s].type = slot[s].type
<1>0. Lists(s)
  BY DEF Queued
<1>1. PICK F : F = Finished(SubSeq(Backlog(s), 1, k))
  OBVIOUS
<1>2. /\ Only(s) /\ slot'[s].type = slot[s].type /\ SameCount(s)
      /\ slot'[s].dw = <<>> /\ Sound(<<>>, slot'[s].high, slot'[s].low)
      /\ PacketsIn(slot'[s].high \o slot'[s].low) = PacketsIn(Backlog(s)) \ F
      /\ F \subseteq PacketsIn(Backlog(s))
  BY <1>0, <1>1, AfterWriteIs DEF Written
<1>3. F \in SUBSET Packets /\ \A p \in F : freed[p] = 0
  BY <1>2, SlotHolds
<1>4. /\ freed' \in [Packets -> 0 .. 2]
      /\ \A p \in F : freed'[p] = freed[p] + 1 /\ freed'[p] = 1
      /\ \A p \in Packets \ F : freed'[p] = freed[p]
  BY <1>1, <1>3, FreeIs DEF Written
<1>5. ASSUME NEW p \in Packets PROVE Moves(p, s)
  <2>0. ~InDirect(p, s)' /\ (InList(p, s)' <=> p \in PacketsIn(Backlog(s)) /\ p \notin F)
    BY <1>2, NoPackets DEF InList, InDirect
  <2>1. CASE p \in PacketsIn(Backlog(s))
    <3>1. InList(p, s) \/ InDirect(p, s)
      BY <2>1, SlotHolds
    <3> QED BY <2>0, <2>1, <3>1, <1>4 DEF Moves
  <2>2. CASE p \notin PacketsIn(Backlog(s))
    <3>1. ~InList(p, s) /\ ~InDirect(p, s) /\ p \notin F
      BY <2>2, <1>2, SlotHolds
    <3> QED BY <2>0, <2>2, <3>1, <1>4 DEF Moves, SamePlace
  <2> QED BY <2>1, <2>2
<1>6. Lists(s)'
  <2>1. slot'[s].id = slot[s].id /\ slot' \in [Slot -> Sockets]
    BY <1>2 DEF SameCount, SameTag, Only
  <2>2. \A p \in PacketsIn(slot'[s].dw) \cup PacketsIn(slot'[s].high \o slot'[s].low) :
          Addressed(p, slot[s].id)
    BY <1>0, <1>2, NoPackets DEF Lists
  <2> QED BY <2>1, <2>2, <1>2, ListsNew
<1>7. Calm(s) /\ ~Vacant(s)'
  BY <1>2 DEF Calm, SameCount, Vacant
<1>8. WireStep
  BY WirePart DEF Written
<1> QED BY <1>2, <1>4, <1>5, <1>6, <1>7, <1>8 DEF SlotStep

\* force_close under its lock.
LEMMA StepGone ==
  ASSUME TypeOK, Control, Queued, Ownership, Grows, NEW s \in Slot, ~Vacant(s),
         slot' = [slot EXCEPT ![s] = Gone(@)], FreeAll(PacketsIn(Backlog(s)))
  PROVE  SlotStep(s) /\ slot'[s].type = "INVALID"
<1>1. /\ Only(s) /\ slot'[s].type = "INVALID" /\ SameCount(s)
      /\ Bare(s)
  BY GoneIs
<1>2. PICK P : P = PacketsIn(Backlog(s))
  OBVIOUS
<1>3. P \in SUBSET Packets /\ \A p \in P : freed[p] = 0
  BY <1>2, SlotHolds
<1>4. /\ freed' \in [Packets -> 0 .. 2]
      /\ \A p \in P : freed'[p] = freed[p] + 1 /\ freed'[p] = 1
      /\ \A p \in Packets \ P : freed'[p] = freed[p]
  BY <1>2, <1>3, FreeIs
<1>5. PacketsIn(<<>> \o <<>>) = {} /\ PacketsIn(<<>>) = {}
  BY NoPackets, NoUnits, JoinedPackets
<1>6. ASSUME NEW p \in Packets PROVE Moves(p, s)
  <2>0. ~InDirect(p, s)' /\ ~InList(p, s)'
    BY <1>1, <1>5 DEF InList, InDirect, Bare
  <2>1. CASE p \in P
    BY <2>0, <2>1, <1>2, <1>4, SlotHolds DEF Moves
  <2>2. CASE p \notin P
    <3>1. ~InList(p, s) /\ ~InDirect(p, s)
      BY <2>2, <1>2, SlotHolds
    <3> QED BY <2>0, <2>2, <3>1, <1>4 DEF Moves, SamePlace
  <2> QED BY <2>1, <2>2
<1>7. Lists(s)'
  BY <1>1, ListsEmpty DEF Only, Bare
<1>8. Calm(s)
  BY <1>1 DEF Calm, SameCount, Vacant
<1> QED BY <1>1, <1>4, <1>6, <1>7, <1>8 DEF SlotStep

\* What every step of the socket thread leaves alone.
ThreadFrame == UNCHANGED <<lock, alloc, worker, ctrls, sent, packet, overtaken>>
\* The types of what it may change.
ThreadTypes ==
  /\ st' \in [pc : {"idle", "close", "force", "clear", "open", "quiet"}, s : Slot, id : 0 .. MaxId,
              flag : BOOLEAN]
  /\ ev' \in [Slot -> [of : 0 .. MaxId, read : BOOLEAN, write : BOOLEAN]]
  /\ closed' \subseteq Ids /\ cut' \subseteq Ids
  /\ failed' = "no"
\* An id that becomes known is that of a socket.
Knows == /\ known \subseteq known'
         /\ \A id \in known' \ known : \E t \in Slot : slot[t].id = id /\ ~Vacant(t)

LEMMA KnowsIs ==
  ASSUME TypeOK, Control, ThreadFrame, Knows
  PROVE  Grows /\ KnownOpen /\ known' \subseteq 1 .. alloc /\ known' \subseteq Ids
<1>1. Grows /\ KnownOpen
  BY Numbers DEF Grows, KnownOpen, Knows, ThreadFrame
<1>2. ASSUME NEW id \in known', id \notin known PROVE id \in 1 .. alloc /\ id \in Ids
  <2>1. PICK t \in Slot : slot[t].id = id /\ ~Vacant(t)
    BY <1>2 DEF Knows
  <2>2. id \in Ids /\ id <= alloc /\ alloc \in Nat
    BY <2>1, AtHome, Numbers DEF Control, Slotted
  <2> QED BY <2>2, IdsIn DEF Ids
<1> QED BY <1>1, <1>2 DEF Control, TypeOK

\* The steps of the socket thread but for those that open a socket or take a
\* packet from the pipe.
LEMMA ThreadStep ==
  ASSUME IInv, torn' = FALSE, NEW s \in Slot, NEW d, Shifted(d),
         d = 1 => 1 \in DOMAIN pipe /\ pipe[1].cmd \notin {"D", "P"},
         ThreadFrame, ThreadTypes, Knows, SlotStep(s), WireStep, Closing'
  PROVE  IInv'
<1>0. TypeOK /\ Control /\ Queued /\ Ownership /\ SendingExact
  BY DEF IInv
<1>1. Grows /\ KnownOpen /\ known' \subseteq 1 .. alloc /\ known' \subseteq Ids
  BY <1>0, KnowsIs
<1>2. UNCHANGED <<lock, alloc, worker, ctrls, sent, packet, overtaken>>
  BY DEF ThreadFrame
<1>3. /\ Only(s) /\ Calm(s) /\ SameCount(s) /\ Lists(s)'
      /\ \A p \in Packets : Moves(p, s)
      /\ freed' \in [Packets -> 0 .. 2]
  BY DEF SlotStep
<1>4. /\ slot' \in [Slot -> Sockets] /\ Emptied
      /\ \A t \in Slot : t # s => /\ slot'[t] = slot[t]
                                  /\ Calm(t) /\ SameCount(t) /\ SameLists(t)
                                  /\ \A r : SamePlace(r, t)
  BY <1>0, OneSlot DEF SlotStep
<1>5. pipe' \in Seq(Requests)
  BY DEF Shifted
<1>6. TypeOK'
  BY <1>0, <1>1, <1>2, <1>3, <1>4, <1>5 DEF TypeOK, ThreadTypes, WireStep
<1>7. Asserts'
  BY DEF Asserts, ThreadTypes
<1>8. Control'
  <2>1. \A t \in Slot : Calm(t)
    BY <1>3, <1>4
  <2> QED BY <2>1, <1>0, <1>1, <1>2, <1>4, ControlThread
<1>9. Queued'
  BY <1>0, <1>1, <1>3, ListsOne DEF WireStep
<1>10. Ownership'
  <2>0. ASSUME NEW p \in Packets PROVE NotFirst(p, d) /\ SameWorkers(p)
    <3>1. d = 1 => pipe[1].pkt = None
      BY <1>0 DEF Control, Asked
    <3> QED BY <3>1, <1>2, NoneIs DEF NotFirst, SameWorkers
  <2>1. ASSUME NEW p \in Packets, p <= sent PROVE Owned(p)'
    <3>0. Owned(p) /\ NotFirst(p, d) /\ SameWorkers(p)
      BY <2>0, <2>1, <1>0 DEF Ownership
    <3>1. CASE SamePlace(p, s) /\ freed'[p] = freed[p]
      <4>1. \A t \in Slot : SamePlace(p, t)
        BY <3>1, <1>4
      <4> QED BY <3>0, <3>1, <4>1, <1>0, OwnedSame
    <3>2. CASE /\ InList(p, s) \/ InDirect(p, s)
               /\ ~InDirect(p, s)'
               /\ \/ freed'[p] = freed[p] + 1 /\ ~InList(p, s)'
                  \/ freed'[p] = freed[p] /\ InList(p, s)'
      BY <3>0, <3>2, <1>0, <1>4, OwnedSlot
    <3> QED BY <3>1, <3>2, <1>3 DEF Moves
  <2>2. ASSUME NEW p \in Packets, ~(p <= sent) PROVE freed'[p] = 0
    <3>1. HeldBy(p, "none", 0)
      BY <2>2, <1>0, NotHeld
    <3>2. ~InList(p, s) /\ ~InDirect(p, s)
      BY <3>1 DEF HeldBy, InList, InDirect
    <3>3. freed'[p] = freed[p]
      BY <3>2, <1>3 DEF Moves
    <3> QED BY <2>2, <3>3, <1>0 DEF Ownership
  <2> QED BY <2>1, <2>2, <1>2 DEF Ownership
<1>11. SendingExact'
  <2>1. \A i : Announced(i)' = Announced(i)
    BY <1>2 DEF Announced
  <2>2. ASSUME NEW i PROVE Cardinality(Carried(i)') = Cardinality(Carried(i))
    <3>1. CASE d = 0
      <4>1. DOMAIN pipe' = DOMAIN pipe /\ \A j \in DOMAIN pipe : pipe'[j] = pipe[j]
        BY <3>1, <1>0, Numbers DEF Shifted
      <4>2. Carried(i)' = Carried(i)
        BY <4>1 DEF Carried, InPipe
      <4> QED BY <4>2
    <3>2. CASE d = 1
      BY <3>2, <1>0, CarriedTaken
    <3> QED BY <3>1, <3>2 DEF Shifted
  <2>3. \A t \in Slot : SameCount(t)
    BY <1>3, <1>4
  <2> QED BY <2>1, <2>2, <2>3, <1>0, <1>4, CountSame
<1> QED BY <1>6, <1>7, <1>8, <1>9, <1>10, <1>11 DEF IInv

-----------------------------------------------------------------------------
(* The socket thread: its steps.                                           *)

States == [pc : {"idle", "close", "force", "clear", "open", "quiet"}, s : Slot, id : 0 .. MaxId, flag : BOOLEAN]
Events == [of : 0 .. MaxId, read : BOOLEAN, write : BOOLEAN]

LEMMA NoForceIs == NoForce \in States /\ NoForce.pc = "idle" /\ NoEvent \in Events
BY SocketAssumption DEF NoForce, States, NoEvent, Events, Slot

LEMMA IdIn == ASSUME TypeOK, NEW s \in Slot PROVE slot[s].id \in 0 .. MaxId
BY DEF TypeOK, Sockets

\* No event is left on a slot without a socket.
LEMMA NoLeft ==
  ASSUME Control, st.pc # "clear"
  PROVE  \A t \in Slot : slot[t].type = "INVALID" => ev[t] = NoEvent
BY DEF Control, Closing

\* What a command reads from the pipe.
LEMMA CtrlIs ==
  ASSUME IInv, torn' = FALSE, NEW c, Ctrl(c)
  PROVE  /\ st.pc = "idle" /\ Shifted(1) /\ 1 \in DOMAIN pipe
         /\ pipe[1] = Request /\ Request.cmd = c /\ Request.id \in Ids /\ At \in Slot
         /\ c \in {"K", "X", "D", "P"} /\ Live(At, Request.id) => ~Vacant(At)
<1>0. TypeOK
  BY DEF IInv
<1>1. st.pc = "idle" /\ Shifted(1) /\ 1 \in DOMAIN pipe /\ pipe[1] = Request /\ Request.cmd = c
  BY <1>0, PipeTaken DEF Ctrl
<1>2. Request.id \in Ids /\ At \in Slot
  BY <1>0, <1>1, Numbers DEF At
<1>3. c \in {"K", "X", "D", "P"} /\ Live(At, Request.id) => ~Vacant(At)
  <2>1. ~Torn
    BY DEF Ctrl
  <2> QED BY <2>1, <1>1 DEF Torn, Live, Vacant
<1> QED BY <1>1, <1>2, <1>3

\* A step that touches no slot and reports no socket.
LEMMA RestStep ==
  ASSUME IInv, torn' = FALSE, NEW d, Shifted(d), d = 1 => 1 \in DOMAIN pipe /\ pipe[1].cmd \notin {"D", "P"},
         ThreadFrame, ThreadTypes, slot' = slot, freed' = freed, wire' = wire,
         known' = known, Closing'
  PROVE  IInv'
<1>0. TypeOK /\ Control /\ Queued
  BY DEF IInv
<1>1. 0 \in Slot
  BY SocketAssumption DEF Slot
<1>2. Knows
  BY DEF Knows
<1>3. Grows
  BY <1>0, <1>2, KnowsIs
<1>4. SlotStep(0) /\ WireStep
  BY <1>0, <1>1, <1>3, StepNothing, WireNothing
<1> QED BY <1>1, <1>2, <1>4, ThreadStep

\* The same for steps that take no command.
LEMMA ThreadStay ==
  ASSUME IInv, torn' = FALSE, NEW s \in Slot, pipe' = pipe, ThreadFrame, ThreadTypes, Knows,
         SlotStep(s), WireStep, Closing'
  PROVE  IInv'
<1>1. Shifted(0)
  BY PipeSame DEF IInv
<1>2. 0 = 1 => 1 \in DOMAIN pipe /\ pipe[1].cmd \notin {"D", "P"}
  BY SMT
<1> QED BY <1>1, <1>2, ThreadStep

LEMMA RestStay ==
  ASSUME IInv, torn' = FALSE, pipe' = pipe, ThreadFrame, ThreadTypes, slot' = slot,
         freed' = freed, wire' = wire, known' = known, Closing'
  PROVE  IInv'
<1>1. Shifted(0)
  BY PipeSame DEF IInv
<1>2. 0 = 1 => 1 \in DOMAIN pipe /\ pipe[1].cmd \notin {"D", "P"}
  BY SMT
<1> QED BY <1>1, <1>2, RestStep

\* A command for a socket that is gone.
LEMMA ReportStep ==
  ASSUME IInv, torn' = FALSE, NEW d, Shifted(d), d = 1 => 1 \in DOMAIN pipe /\ pipe[1].cmd \notin {"D", "P"},
         NEW s \in Slot, NEW id \in Ids, ReportClosed(s, id), st.pc = "idle",
         ThreadFrame, UNCHANGED <<slot, freed, wire, cut, failed, known, ev>>
  PROVE  IInv'
<1>0. TypeOK /\ Control /\ Asserts
  BY DEF IInv
<1>1. st' \in States /\ st'.pc = "clear" /\ closed' = closed \cup {id}
  BY SocketAssumption DEF ReportClosed, States, Ids
<1>2. ThreadTypes
  BY <1>0, <1>1 DEF ThreadTypes, TypeOK, States, Asserts
<1>3. Closing'
  BY <1>0, <1>1, NoLeft DEF Closing
<1> QED BY <1>2, <1>3, RestStep

\* force_close begins.
LEMMA ForceStep ==
  ASSUME IInv, torn' = FALSE, NEW d, Shifted(d), d = 1 => 1 \in DOMAIN pipe /\ pipe[1].cmd \notin {"D", "P"},
         NEW s \in Slot, NEW ctrl \in BOOLEAN, ~Vacant(s), ForceStart(s, ctrl),
         st.pc # "clear", ThreadFrame, UNCHANGED <<wire, known, closed>>,
         ev' \in [Slot -> Events], \A t \in Slot : ev'[t] = ev[t] \/ ev'[t] = NoEvent,
         ~ctrl => ev'[s] = NoEvent
  PROVE  IInv'
<1>0. TypeOK /\ Control /\ Queued /\ Ownership /\ Asserts
  BY DEF IInv
<1>1. /\ slot' = [slot EXCEPT ![s].high = <<>>, ![s].low = <<>>]
      /\ FreeAll(PacketsIn(slot[s].high \o slot[s].low))
      /\ cut' = IF send_buffer_empty(s) THEN cut ELSE cut \cup {slot[s].id}
      /\ st' = [pc |-> "force", s |-> s, id |-> slot[s].id, flag |-> ctrl]
      /\ failed' = failed
  BY DEF ForceStart, Vacant
<1>2. Knows
  BY DEF Knows
<1>3. Grows
  BY <1>0, <1>2, KnowsIs
<1>4. /\ SlotStep(s) /\ slot'[s].type = slot[s].type
      /\ slot'[s].high = <<>> /\ slot'[s].low = <<>>
  BY <1>0, <1>1, <1>3, StepForce
<1>5. slot[s].id \in Ids /\ slot[s].id \in 0 .. MaxId
  BY <1>0, AtHome, IdIn
<1>6. st' \in States /\ st'.pc = "force" /\ st'.s = s /\ st'.id = slot[s].id /\ st'.flag = ctrl
  BY <1>1, <1>5 DEF States
<1>7. ThreadTypes
  <2>1. cut' \subseteq Ids
    BY <1>0, <1>1, <1>5 DEF TypeOK
  <2> QED BY <2>1, <1>0, <1>1, <1>6 DEF ThreadTypes, TypeOK, States, Events, Asserts
<1>8. Closing'
  <2>1. ~Vacant(s)' /\ slot'[s].id = slot[s].id
    BY <1>4 DEF Vacant, SlotStep, SameCount, SameTag
  <2>2. \A t \in Slot : slot'[t].type = slot[t].type
    BY <1>4 DEF SlotStep, Only
  <2>3. \A t \in Slot : slot'[t].type = "INVALID" => ev'[t] = NoEvent
    BY <2>2, <1>0, NoLeft
  <2> QED BY <2>1, <2>3, <1>4, <1>6 DEF Closing, Vacant
<1>9. WireStep
  BY <1>0, <1>3, WireNothing
<1> QED BY <1>2, <1>4, <1>7, <1>8, <1>9, ThreadStep

LEMMA StartSocketStep ==
  ASSUME IInv, torn' = FALSE, start_socket
  PROVE  IInv'
<1>0. TypeOK /\ Control /\ Queued /\ Asserts
  BY DEF IInv
<1>1. PICK id, s : id = Request.id /\ s = At
  OBVIOUS
<1>2. Ctrl("S") /\ ThreadFrame /\ UNCHANGED <<ev, known, wire>>
  BY DEF start_socket, ThreadFrame
<1>3. /\ st.pc = "idle" /\ Shifted(1) /\ 1 \in DOMAIN pipe
      /\ pipe[1].cmd \notin {"D", "P"} /\ id \in Ids /\ s \in Slot
  <2>1. pipe[1].cmd = "S"
    BY <1>2, CtrlIs
  <2> QED BY <2>1, <1>1, <1>2, CtrlIs
<1>4. CASE ReportClosed(s, id) /\ UNCHANGED <<slot, freed, cut, failed>>
  BY <1>2, <1>3, <1>4, ReportStep
<1>5. CASE /\ Live(s, id) /\ slot[s].type = "PACCEPT"
           /\ slot' = [slot EXCEPT ![s].type = "CONNECTED", ![s].poll = TRUE]
           /\ UNCHANGED <<st, closed, freed, cut, failed>>
  <2>1. Only(s) /\ slot'[s].type = "CONNECTED" /\ SameCount(s) /\ SameLists(s)
    <3>1. "CONNECTED" \in Types
      BY DEF Types
    <3> QED BY <3>1, <1>0, <1>3, <1>5, TypeIs
  <2>2. Calm(s) /\ ~Vacant(s)'
    BY <2>1, <1>5 DEF Calm, SameCount, Vacant
  <2>3. Knows
    BY <1>2 DEF Knows
  <2>4. Grows
    BY <2>3, <1>0, <1>2, KnowsIs
  <2>5. SlotStep(s) /\ WireStep
    BY <2>1, <2>2, <2>4, <1>0, <1>2, <1>3, <1>5, StepType, WireNothing
  <2>6. Closing'
    <3>1. \A t \in Slot : slot'[t].type = "INVALID" => slot[t].type = "INVALID"
      BY <2>1 DEF Only
    <3> QED BY <3>1, <1>0, <1>2, <1>3, <1>5, NoLeft DEF Closing
  <2>7. ThreadTypes
    BY <1>0, <1>2, <1>5 DEF ThreadTypes, TypeOK, Asserts
  <2> QED BY <2>3, <2>5, <2>6, <2>7, <1>2, <1>3, ThreadStep
<1>6. CASE slot[s].type = "PACCEPT" /\ ForceStart(s, TRUE) /\ closed' = closed
  BY <1>0, <1>2, <1>3, <1>6, ForceStep DEF TypeOK, Events, Vacant
<1>7. CASE UNCHANGED <<slot, st, closed, freed, cut, failed>>
  <2>1. ThreadTypes
    BY <1>0, <1>2, <1>7 DEF ThreadTypes, TypeOK, Asserts
  <2>2. Closing'
    BY <1>0, <1>2, <1>3, <1>7, NoLeft DEF Closing
  <2> QED BY <2>1, <2>2, <1>2, <1>3, <1>7, RestStep
<1> QED BY <1>1, <1>4, <1>5, <1>6, <1>7 DEF start_socket

\* Types of st after a command.
LEMMA StateIs ==
  ASSUME NEW pc \in {"close", "clear", "open"}, NEW s \in Slot, NEW id \in Ids, NEW b \in BOOLEAN,
         st' = [pc |-> pc, s |-> s, id |-> id, flag |-> b]
  PROVE  st' \in States /\ st'.pc = pc /\ st'.s = s /\ st'.id = id
BY SocketAssumption DEF States, Ids

\* send_buffer closes the socket.
LEMMA WrittenAndClosedIs ==
  ASSUME TypeOK, Control, Queued, Ownership, Grows, NEW s \in Slot, ~Vacant(s),
         NEW k \in 0 .. Len(Backlog(s)), WrittenAndClosed(s, k)
  PROVE  /\ SlotStep(s) /\ WireStep /\ slot'[s].type = "INVALID"
         /\ closed' \subseteq Ids /\ failed' = failed
<1>0. /\ slot' = [slot EXCEPT ![s] = Gone(@)]
      /\ FreeAll(PacketsIn(Backlog(s)))
      /\ closed' = closed \cup {slot[s].id}
      /\ failed' = failed
  BY DEF WrittenAndClosed, ForceLocked, Vacant
<1>1. SlotStep(s) /\ slot'[s].type = "INVALID"
  BY <1>0, StepGone
<1>2. WireStep
  BY WirePart DEF WrittenAndClosed
<1>3. slot[s].id \in Ids
  BY AtHome
<1> QED BY <1>0, <1>1, <1>2, <1>3 DEF TypeOK

LEMMA CloseSocketStep ==
  ASSUME IInv, torn' = FALSE, NEW shutdown \in BOOLEAN, close_socket(shutdown)
  PROVE  IInv'
<1>0. TypeOK /\ Control /\ Queued /\ Ownership /\ Asserts
  BY DEF IInv
<1>1. PICK id, s, c : id = Request.id /\ s = At /\ c = IF shutdown THEN "X" ELSE "K"
  OBVIOUS
<1>2. Ctrl(c) /\ ThreadFrame /\ UNCHANGED <<ev, known>>
  BY <1>1 DEF close_socket, ThreadFrame
<1>3. /\ st.pc = "idle" /\ Shifted(1) /\ 1 \in DOMAIN pipe
      /\ pipe[1].cmd \notin {"D", "P"} /\ id \in Ids /\ s \in Slot
      /\ Live(s, id) => ~Vacant(s)
  <2>1. c \in {"X", "K"}
    BY <1>1
  <2> QED BY <2>1, <1>1, <1>2, CtrlIs
<1>4. Knows
  BY <1>2 DEF Knows
<1>5. Grows
  BY <1>0, <1>2, <1>4, KnowsIs
<1>6. CASE ReportClosed(s, id) /\ UNCHANGED <<slot, freed, kernel, failed>>
  BY <1>2, <1>3, <1>6, ReportStep DEF kernel
<1>8. CASE /\ Live(s, id)
           /\ \/ UNCHANGED <<slot, freed, wire>>
              \/ \E k \in 0 .. Len(Backlog(s)) : Written(s, k)
           /\ st' = [pc |-> "close", s |-> s, id |-> id, flag |-> shutdown]
           /\ UNCHANGED <<closed, cut, failed>>
  <2>1. ~Vacant(s) /\ slot[s].id = id
    BY <1>3, <1>8 DEF Live
  <2>2. SlotStep(s) /\ WireStep /\ slot'[s].type = slot[s].type
    <3>1. CASE UNCHANGED <<slot, freed, wire>>
      BY <3>1, <1>0, <1>3, <1>5, StepNothing, WireNothing
    <3>2. CASE \E k \in 0 .. Len(Backlog(s)) : Written(s, k)
      BY <2>1, <3>2, <1>0, <1>3, <1>5, StepWritten
    <3> QED BY <3>1, <3>2, <1>8
  <2>3. st' \in States /\ st'.pc = "close" /\ st'.s = s /\ st'.id = id
    BY <1>3, <1>8, StateIs
  <2>4. Closing'
    <3>1. ~Vacant(s)' /\ slot'[s].id = id
      BY <2>1, <2>2 DEF Vacant, SlotStep, SameCount, SameTag
    <3>2. \A t \in Slot : slot'[t].type = slot[t].type
      BY <2>2 DEF SlotStep, Only
    <3>3. \A t \in Slot : slot'[t].type = "INVALID" => ev'[t] = NoEvent
      BY <3>2, <1>0, <1>2, <1>3, NoLeft
    <3> QED BY <2>3, <3>1, <3>3 DEF Closing, Vacant
  <2>5. ThreadTypes
    BY <2>3, <1>0, <1>2, <1>8 DEF ThreadTypes, TypeOK, States, Asserts
  <2> QED BY <2>2, <2>4, <2>5, <1>2, <1>3, <1>4, ThreadStep
<1>9. CASE /\ Live(s, id)
           /\ \E k \in 0 .. Len(Backlog(s)) : WrittenAndClosed(s, k)
           /\ st' = [pc |-> "clear", s |-> s, id |-> id, flag |-> TRUE]
           /\ cut' = cut
  <2>1. ~Vacant(s) /\ slot[s].id = id
    BY <1>3, <1>9 DEF Live
  <2>2. /\ SlotStep(s) /\ WireStep /\ slot'[s].type = "INVALID" /\ closed' \subseteq Ids
        /\ failed' = failed
    BY <2>1, <1>0, <1>3, <1>5, <1>9, WrittenAndClosedIs
  <2>3. st' \in States /\ st'.pc = "clear" /\ st'.s = s /\ st'.id = id
    BY <1>3, <1>9, StateIs
  <2>4. Closing'
    <3>1. slot'[s].id = id
      BY <2>1, <2>2 DEF SlotStep, SameCount, SameTag
    <3>2. \A t \in Slot : t # s => slot'[t].type = slot[t].type
      BY <2>2 DEF SlotStep, Only
    <3>3. \A t \in Slot : slot'[t].type = "INVALID" => ev'[t] = NoEvent \/ t = s
      BY <3>2, <1>0, <1>2, <1>3, NoLeft
    <3> QED BY <2>3, <3>1, <3>3 DEF Closing
  <2>5. ThreadTypes
    BY <2>2, <2>3, <1>0, <1>2, <1>9 DEF ThreadTypes, TypeOK, States, Asserts
  <2> QED BY <2>2, <2>4, <2>5, <1>2, <1>3, <1>4, ThreadStep
<1> QED BY <1>1, <1>6, <1>8, <1>9 DEF close_socket

\* force_close begins in a step that takes no command.
LEMMA ForceStay ==
  ASSUME IInv, torn' = FALSE, pipe' = pipe, NEW s \in Slot, NEW ctrl \in BOOLEAN, ~Vacant(s),
         ForceStart(s, ctrl), st.pc # "clear", ThreadFrame, UNCHANGED <<wire, known, closed>>,
         ev' \in [Slot -> Events], \A t \in Slot : ev'[t] = ev[t] \/ ev'[t] = NoEvent,
         ~ctrl => ev'[s] = NoEvent
  PROVE  IInv'
<1>1. Shifted(0)
  BY PipeSame DEF IInv
<1>2. 0 = 1 => 1 \in DOMAIN pipe /\ pipe[1].cmd \notin {"D", "P"}
  OBVIOUS
<1> QED BY <1>1, <1>2, ForceStep

LEMMA CloseDecideStep ==
  ASSUME IInv, torn' = FALSE, CloseDecide
  PROVE  IInv'
<1>0. TypeOK /\ Control /\ Queued /\ Asserts /\ st.s \in Slot
  BY DEF IInv, TypeOK
<1>1. PICK s \in Slot : s = st.s
  BY <1>0
<1>2. st.pc = "close" /\ ThreadFrame /\ UNCHANGED <<pipe, ev, known, closed, wire>>
  BY DEF CloseDecide, ThreadFrame
<1>3. ~Vacant(s) /\ Shifted(0)
  BY <1>0, <1>1, <1>2, PipeSame DEF Control, Closing
<1>4. CASE ForceStart(s, TRUE)
  <2>1. ev' \in [Slot -> Events] /\ \A t \in Slot : ev'[t] = ev[t]
    BY <1>0, <1>2 DEF TypeOK, Events
  <2>2. st.pc # "clear"
    BY <1>2
  <2> QED BY <2>1, <2>2, <1>2, <1>3, <1>4, ForceStay
<1>5. CASE /\ slot' = [slot EXCEPT ![s].type = "HALFCLOSE"]
           /\ st' = NoForce
           /\ UNCHANGED <<freed, cut, failed>>
  <2>1. Only(s) /\ slot'[s].type = "HALFCLOSE" /\ SameCount(s) /\ SameLists(s)
    <3>1. "HALFCLOSE" \in Types
      BY DEF Types
    <3> QED BY <3>1, <1>0, <1>5, TypeIs
  <2>2. Calm(s) /\ ~Vacant(s)'
    BY <2>1, <1>3 DEF Calm, SameCount, Vacant
  <2>3. Knows
    BY <1>2 DEF Knows
  <2>4. Grows
    BY <2>3, <1>0, <1>2, KnowsIs
  <2>5. SlotStep(s) /\ WireStep
    BY <2>1, <2>2, <2>4, <1>0, <1>2, <1>5, StepType, WireNothing
  <2>6. Closing'
    <3>1. \A t \in Slot : slot'[t].type = "INVALID" => slot[t].type = "INVALID"
      BY <2>1 DEF Only
    <3> QED BY <3>1, <1>0, <1>2, <1>5, NoLeft, NoForceIs DEF Closing
  <2>7. ThreadTypes
    BY <1>0, <1>2, <1>5, NoForceIs DEF ThreadTypes, TypeOK, Asserts, States
  <2> QED BY <2>3, <2>5, <2>6, <2>7, <1>2, <1>3, ThreadStay
<1> QED BY <1>1, <1>4, <1>5 DEF CloseDecide

LEMMA ForceCloseStep ==
  ASSUME IInv, torn' = FALSE, ForceClose
  PROVE  IInv'
<1>0. TypeOK /\ Control /\ Queued /\ Ownership /\ Asserts /\ st \in States
  BY DEF IInv, TypeOK, States
<1>1. PICK s \in Slot, id \in 0 .. MaxId : s = st.s /\ id = st.id
  BY <1>0 DEF States
<1>2. /\ st.pc = "force" /\ ThreadFrame
      /\ slot' = [slot EXCEPT ![s] = Gone(@)] /\ FreeAll(PacketsIn(slot[s].dw))
      /\ closed' = closed \cup {id}
      /\ st' = IF st.flag THEN [st EXCEPT !.pc = "clear"] ELSE NoForce
      /\ UNCHANGED <<pipe, ev, known, wire, cut, failed>>
  BY <1>1 DEF ForceClose, ThreadFrame, kernel
<1>3. /\ ~Vacant(s) /\ slot[s].id = id /\ slot[s].high = <<>> /\ slot[s].low = <<>>
      /\ ~st.flag => ev[s] = NoEvent
  BY <1>0, <1>1, <1>2 DEF Control, Closing
<1>4. Shifted(0) /\ Knows /\ id \in Ids
  BY <1>0, <1>2, <1>3, PipeSame, AtHome DEF Knows
<1>5. Grows
  BY <1>0, <1>2, <1>4, KnowsIs
<1>6. PacketsIn(slot[s].dw) = PacketsIn(Backlog(s))
  BY <1>0, <1>3, BacklogIs, NoPackets
<1>7. SlotStep(s) /\ slot'[s].type = "INVALID" /\ WireStep
  BY <1>0, <1>2, <1>3, <1>5, <1>6, StepGone, WireNothing
<1>8. /\ st' \in States
      /\ st.flag => st'.pc = "clear" /\ st'.s = s /\ st'.id = id
      /\ ~st.flag => st'.pc = "idle"
  BY <1>0, <1>1, <1>2, NoForceIs DEF States
<1>9. ThreadTypes
  BY <1>0, <1>2, <1>4, <1>8 DEF ThreadTypes, TypeOK, Asserts, States
<1>10. Closing'
  <2>1. slot'[s].id = id
    BY <1>3, <1>7 DEF SlotStep, SameCount, SameTag
  <2>2. \A t \in Slot : t # s => slot'[t].type = slot[t].type
    BY <1>7 DEF SlotStep, Only
  <2>3. \A t \in Slot : slot'[t].type = "INVALID" => ev'[t] = NoEvent \/ t = s
    BY <2>2, <1>0, <1>2, NoLeft
  <2>4. CASE st.flag
    BY <2>1, <2>3, <2>4, <1>8 DEF Closing
  <2>5. CASE ~st.flag
    BY <2>3, <2>5, <1>2, <1>3, <1>8 DEF Closing
  <2> QED BY <2>4, <2>5
<1> QED BY <1>2, <1>4, <1>7, <1>9, <1>10, ThreadStay

LEMMA ClearStep ==
  ASSUME IInv, torn' = FALSE, clear_closed_event
  PROVE  IInv'
<1>0. TypeOK /\ Control /\ Asserts /\ st.s \in Slot /\ ev \in [Slot -> Events]
  BY DEF IInv, TypeOK, Events
<1>1. /\ st.pc = "clear" /\ ThreadFrame /\ st' = NoForce
      /\ ev' = [ev EXCEPT ![st.s] = IF slot[st.s].type = "INVALID" /\ slot[st.s].id = st.id
                                    THEN NoEvent ELSE @]
      /\ UNCHANGED <<slot, pipe, known, closed, cut, freed, wire, failed>>
  BY DEF clear_closed_event, ThreadFrame, ghosts
<1>2. /\ ev' \in [Slot -> Events]
      /\ \A t \in Slot : t # st.s => ev'[t] = ev[t]
      /\ slot[st.s].type = "INVALID" /\ slot[st.s].id = st.id => ev'[st.s] = NoEvent
      /\ ev'[st.s] = ev[st.s] \/ ev'[st.s] = NoEvent
  BY <1>0, <1>1, NoForceIs
<1>3. ThreadTypes
  BY <1>0, <1>1, <1>2, NoForceIs DEF ThreadTypes, TypeOK, Asserts, States, Events
<1>4. Closing'
  <2>1. \A t \in Slot : slot[t].type = "INVALID" => ev'[t] = NoEvent
    BY <1>0, <1>2 DEF Control, Closing
  <2> QED BY <2>1, <1>1, NoForceIs DEF Closing
<1> QED BY <1>0, <1>1, <1>3, <1>4, RestStay

LEMMA PollEventStep ==
  ASSUME IInv, torn' = FALSE, NEW s \in Slot, NEW read \in BOOLEAN, NEW write \in BOOLEAN,
         PollEvent(s, read, write)
  PROVE  IInv'
<1>0. TypeOK /\ Control /\ Asserts /\ ev \in [Slot -> Events] /\ slot[s].id \in 0 .. MaxId
  BY IdIn DEF IInv, TypeOK, Events
<1>1. /\ st.pc = "idle" /\ slot[s].poll /\ ThreadFrame
      /\ ev' = [ev EXCEPT ![s] = [of |-> slot[s].id, read |-> read, write |-> write]]
      /\ UNCHANGED <<slot, pipe, st, known, closed, cut, freed, wire, failed>>
  BY DEF PollEvent, ThreadFrame, ghosts
<1>2. /\ ev' \in [Slot -> Events] /\ \A t \in Slot : t # s => ev'[t] = ev[t]
  <2>1. PICK x : x = [of |-> slot[s].id, read |-> read, write |-> write]
    OBVIOUS
  <2>2. x \in Events
    BY <2>1, <1>0 DEF Events
  <2> QED BY <2>1, <2>2, <1>0, <1>1
<1>3. ThreadTypes
  BY <1>0, <1>1, <1>2 DEF ThreadTypes, TypeOK, Asserts, Events
<1>4. Closing'
  <2>1. slot[s].type # "INVALID"
    BY <1>0, <1>1 DEF Control, Slotted, Vacant
  <2>2. \A t \in Slot : slot[t].type = "INVALID" => ev'[t] = NoEvent
    BY <2>1, <1>0, <1>1, <1>2, NoLeft
  <2> QED BY <2>2, <1>1 DEF Closing
<1> QED BY <1>0, <1>1, <1>3, <1>4, RestStay

\* An event that is not stale.
LEMMA Fits ==
  ASSUME torn' = FALSE, NEW s \in Slot, ev[s] # NoEvent, EventFrame(s)
  PROVE  slot[s].type # "RESERVE"
<1>1. ~Stale(s)
  BY DEF EventFrame
<1> QED BY <1>1 DEF Stale

\* An event that is handled.
LEMMA HandledIs ==
  ASSUME TypeOK, NEW s \in Slot, Handled(s)
  PROVE  /\ ev' \in [Slot -> Events] /\ ev'[s] = NoEvent
         /\ \A t \in Slot : ev'[t] = ev[t] \/ ev'[t] = NoEvent
BY NoForceIs DEF TypeOK, Handled, Events

LEMMA ReportConnectStep ==
  ASSUME IInv, torn' = FALSE, NEW s \in Slot, report_connect(s)
  PROVE  IInv'
<1>0. TypeOK /\ Control /\ Queued /\ Asserts
  BY DEF IInv
<1>1. /\ st.pc = "idle" /\ slot[s].type = "CONNECTING" /\ ThreadFrame
      /\ UNCHANGED <<pipe, known, closed, wire>>
  BY DEF report_connect, Handles, ThreadFrame, EventFrame
<1>2. /\ ev' \in [Slot -> Events] /\ ev'[s] = NoEvent
      /\ \A t \in Slot : ev'[t] = ev[t] \/ ev'[t] = NoEvent
  BY <1>0, HandledIs DEF report_connect
<1>3. ~Vacant(s) /\ Shifted(0)
  BY <1>0, <1>1, PipeSame DEF Vacant
<1>4. CASE ForceStart(s, FALSE)
  <2>1. st.pc # "clear"
    BY <1>1
  <2> QED BY <2>1, <1>1, <1>2, <1>3, <1>4, ForceStay
<1>5. CASE /\ slot' = [slot EXCEPT ![s].type = "CONNECTED"]
           /\ st' = [pc |-> "open", s |-> s, id |-> slot[s].id, flag |-> FALSE]
           /\ UNCHANGED <<freed, cut, failed>>
  <2>1. Only(s) /\ slot'[s].type = "CONNECTED" /\ SameCount(s) /\ SameLists(s)
    <3>1. "CONNECTED" \in Types
      BY DEF Types
    <3> QED BY <3>1, <1>0, <1>5, TypeIs
  <2>2. Calm(s) /\ ~Vacant(s)'
    BY <2>1, <1>1 DEF Calm, SameCount, Vacant
  <2>3. Knows
    BY <1>1 DEF Knows
  <2>4. Grows
    BY <2>3, <1>0, <1>1, KnowsIs
  <2>5. SlotStep(s) /\ WireStep
    BY <2>1, <2>2, <2>4, <1>0, <1>1, <1>5, StepType, WireNothing
  <2>6. st' \in States /\ st'.pc = "open" /\ st'.s = s /\ st'.id = slot[s].id
    BY <1>0, <1>3, <1>5, AtHome, StateIs
  <2>7. Closing'
    <3>1. \A t \in Slot : slot'[t].type = "INVALID" => slot[t].type = "INVALID"
      BY <2>1 DEF Only
    <3>2. \A t \in Slot : slot'[t].type = "INVALID" => ev'[t] = NoEvent
      BY <3>1, <1>0, <1>1, <1>2, NoLeft
    <3>3. slot'[s].id = slot[s].id
      BY <2>1 DEF SameCount, SameTag
    <3> QED BY <2>2, <2>6, <3>2, <3>3 DEF Closing, Vacant
  <2>8. ThreadTypes
    BY <2>6, <1>0, <1>1, <1>2, <1>5 DEF ThreadTypes, TypeOK, Asserts, Events, States
  <2> QED BY <2>3, <2>5, <2>7, <2>8, <1>1, <1>3, ThreadStay
<1> QED BY <1>4, <1>5 DEF report_connect

\* The last steps of report_connect leave the slot to its socket.
LEMMA ConnectStep ==
  ASSUME IInv, torn' = FALSE, st.pc \in {"open", "quiet"}, ThreadFrame, st' \in States,
         st'.pc \in {"idle", "quiet"}, st'.pc = "quiet" => st'.s = st.s /\ st'.id = st.id,
         known' = known \/ known' = known \cup {st.id},
         Only(st.s), slot'[st.s].type = slot[st.s].type, SameCount(st.s), SameLists(st.s),
         slot'[st.s].poll = slot[st.s].poll,
         UNCHANGED <<pipe, ev, closed, cut, freed, wire, failed>>
  PROVE  IInv'
<1>0. TypeOK /\ Control /\ Queued /\ Asserts /\ st \in States
  BY DEF IInv, TypeOK, States
<1>1. PICK s \in Slot : s = st.s
  BY <1>0 DEF States
<1>2. ~Vacant(s) /\ slot[s].id = st.id /\ Shifted(0)
  BY <1>0, <1>1, PipeSame DEF Control, Closing
<1>3. Knows
  BY <1>1, <1>2 DEF Knows
<1>4. Grows
  BY <1>0, <1>3, KnowsIs
<1>5. Calm(s) /\ ~Vacant(s)'
  BY <1>1, <1>2 DEF Calm, SameCount, Vacant
<1>6. SlotStep(s) /\ WireStep
  BY <1>0, <1>1, <1>4, <1>5, StepType, WireNothing
<1>7. Closing'
  <2>1. \A t \in Slot : slot'[t].type = "INVALID" => ev'[t] = NoEvent
    BY <1>0, <1>1, NoLeft DEF Only
  <2>2. slot'[s].id = slot[s].id
    BY <1>1 DEF SameCount, SameTag
  <2> QED BY <2>1, <2>2, <1>1, <1>2, <1>5 DEF Closing, Vacant
<1>8. ThreadTypes
  BY <1>0 DEF ThreadTypes, TypeOK, Asserts, States
<1> QED BY <1>2, <1>3, <1>6, <1>7, <1>8, ThreadStay

LEMMA ConnectTestStep ==
  ASSUME IInv, torn' = FALSE, ConnectTest
  PROVE  IInv'
<1>0. TypeOK /\ st \in States /\ st.s \in Slot
  BY DEF IInv, TypeOK, States
<1>1. /\ st.pc = "open" /\ ThreadFrame
      /\ UNCHANGED <<slot, pipe, ev, closed, cut, freed, wire, failed>>
  BY DEF ConnectTest, ThreadFrame, kernel
<1>2. /\ st' \in States /\ st'.pc \in {"idle", "quiet"}
      /\ st'.pc = "quiet" => st'.s = st.s /\ st'.id = st.id
      /\ known' = known \/ known' = known \cup {st.id}
  BY <1>0, NoForceIs DEF ConnectTest, States
<1>3. Only(st.s) /\ SameCount(st.s) /\ SameLists(st.s) /\ slot'[st.s] = slot[st.s]
  BY <1>0, <1>1 DEF Only, SameCount, SameTag, SameLists, TypeOK
<1> QED BY <1>1, <1>2, <1>3, ConnectStep

LEMMA ConnectQuietStep ==
  ASSUME IInv, torn' = FALSE, ConnectQuiet
  PROVE  IInv'
<1>0. TypeOK /\ st \in States /\ st.s \in Slot
  BY DEF IInv, TypeOK, States
<1>1. /\ st.pc = "quiet" /\ ThreadFrame /\ st' = NoForce /\ known' = known \cup {st.id}
      /\ slot' = [slot EXCEPT ![st.s].wr = FALSE]
      /\ UNCHANGED <<pipe, ev, closed, cut, freed, wire, failed>>
  BY DEF ConnectQuiet, ThreadFrame, kernel
<1>2. PICK s \in Slot : s = st.s
  BY <1>0
<1>3. slot[s] \in Sockets
  BY <1>0 DEF TypeOK
<1> DEFINE r == [slot[s] EXCEPT !.wr = FALSE]
<1>4. r \in Sockets
  BY <1>3 DEF Sockets
<1>5. /\ r.type = slot[s].type /\ r.id = slot[s].id /\ r.tcp = slot[s].tcp
      /\ r.tag = slot[s].tag /\ r.sending = slot[s].sending /\ r.poll = slot[s].poll
      /\ r.high = slot[s].high /\ r.low = slot[s].low /\ r.dw = slot[s].dw
  BY <1>3 DEF Sockets
<1>6. slot' = [slot EXCEPT ![s] = r]
  BY <1>0, <1>1, <1>2, <1>3 DEF TypeOK, Sockets
<1> HIDE DEF r
<1>7. Only(s) /\ slot'[s] = r
  BY <1>0, <1>4, <1>6, PutSocket
<1>8. SameCount(s) /\ SameLists(s)
  BY <1>5, <1>7 DEF SameCount, SameTag, SameLists
<1> QED BY <1>1, <1>2, <1>5, <1>7, <1>8, NoForceIs, ConnectStep

LEMMA ReadDataStep ==
  ASSUME IInv, torn' = FALSE, NEW s \in Slot, ReadData(s)
  PROVE  IInv'
<1>0. TypeOK /\ Control /\ Asserts /\ ev \in [Slot -> Events]
  BY DEF IInv, TypeOK, Events
<1>1. /\ st.pc = "idle" /\ ThreadFrame
      /\ ev' = [ev EXCEPT ![s] = IF @.write /\ slot[s].type # "INVALID"
                                 THEN [@ EXCEPT !.read = FALSE] ELSE NoEvent]
      /\ UNCHANGED <<slot, pipe, st, known, closed, cut, freed, wire, failed>>
  BY DEF ReadData, Handles, ThreadFrame, EventFrame, kernel
<1>2. /\ ev' \in [Slot -> Events] /\ \A t \in Slot : t # s => ev'[t] = ev[t]
      /\ slot[s].type = "INVALID" => ev'[s] = NoEvent
  <2>1. PICK x : x = IF ev[s].write /\ slot[s].type # "INVALID"
                     THEN [ev[s] EXCEPT !.read = FALSE] ELSE NoEvent
    OBVIOUS
  <2>2. x \in Events
    BY <2>1, <1>0, NoForceIs DEF Events
  <2>3. ev' = [ev EXCEPT ![s] = x]
    BY <2>1, <1>0, <1>1
  <2> QED BY <2>1, <2>2, <2>3, <1>0
<1>3. ThreadTypes
  BY <1>0, <1>1, <1>2 DEF ThreadTypes, TypeOK, Asserts, Events
<1>4. Closing'
  <2>1. \A t \in Slot : slot[t].type = "INVALID" => ev'[t] = NoEvent
    BY <1>0, <1>1, <1>2, NoLeft
  <2> QED BY <2>1, <1>1 DEF Closing
<1> QED BY <1>0, <1>1, <1>3, <1>4, RestStay

LEMMA ReadCloseStep ==
  ASSUME IInv, torn' = FALSE, NEW s \in Slot, ReadClose(s)
  PROVE  IInv'
<1>0. TypeOK
  BY DEF IInv
<1>1. /\ st.pc = "idle" /\ slot[s].type # "INVALID" /\ ThreadFrame
      /\ ForceStart(s, FALSE) /\ UNCHANGED <<pipe, closed, wire, known>>
  BY DEF ReadClose, Handles, ThreadFrame, EventFrame
<1>2. /\ ev' \in [Slot -> Events] /\ ev'[s] = NoEvent
      /\ \A t \in Slot : ev'[t] = ev[t] \/ ev'[t] = NoEvent
  BY <1>0, HandledIs DEF ReadClose
<1>3. ~Vacant(s) /\ Shifted(0)
  BY <1>0, <1>1, PipeSame, Fits DEF Vacant, ReadClose, Handles
<1>4. st.pc # "clear"
  BY <1>1
<1> QED BY <1>1, <1>2, <1>3, <1>4, ForceStay

LEMMA WriteEventStep ==
  ASSUME IInv, torn' = FALSE, NEW s \in Slot, WriteEvent(s)
  PROVE  IInv'
<1>0. TypeOK /\ Control /\ Queued /\ Ownership /\ Asserts
  BY DEF IInv
<1>1. /\ st.pc = "idle" /\ slot[s].type # "INVALID" /\ ThreadFrame
      /\ \/ UNCHANGED <<slot, freed, wire, closed, failed>>
         \/ (\E k \in 0 .. Len(Backlog(s)) : Written(s, k)) /\ UNCHANGED <<closed, failed>>
         \/ \E k \in 0 .. Len(Backlog(s)) : WrittenAndClosed(s, k)
      /\ UNCHANGED <<pipe, st, known, cut>>
  BY DEF WriteEvent, Handles, ThreadFrame, EventFrame
<1>2. /\ ev' \in [Slot -> Events] /\ ev'[s] = NoEvent
      /\ \A t \in Slot : ev'[t] = ev[t] \/ ev'[t] = NoEvent
  BY <1>0, HandledIs DEF WriteEvent
<1>3. ~Vacant(s) /\ Shifted(0) /\ Knows
  BY <1>0, <1>1, PipeSame, Fits DEF Vacant, Knows, WriteEvent, Handles
<1>4. Grows
  BY <1>0, <1>1, <1>3, KnowsIs
<1>5. /\ SlotStep(s) /\ WireStep /\ closed' \subseteq Ids /\ failed' = failed
  <2>1. CASE UNCHANGED <<slot, freed, wire, closed, failed>>
    BY <2>1, <1>0, <1>4, StepNothing, WireNothing DEF TypeOK
  <2>2. CASE (\E k \in 0 .. Len(Backlog(s)) : Written(s, k)) /\ UNCHANGED <<closed, failed>>
    BY <2>2, <1>0, <1>3, <1>4, StepWritten DEF TypeOK
  <2>3. CASE \E k \in 0 .. Len(Backlog(s)) : WrittenAndClosed(s, k)
    BY <2>3, <1>0, <1>3, <1>4, WrittenAndClosedIs
  <2> QED BY <2>1, <2>2, <2>3, <1>1
<1>6. ThreadTypes
  BY <1>0, <1>1, <1>2, <1>5 DEF ThreadTypes, TypeOK, Asserts, Events
<1>7. Closing'
  <2>1. \A t \in Slot : t # s => slot'[t].type = slot[t].type
    BY <1>5 DEF SlotStep, Only
  <2>2. \A t \in Slot : slot'[t].type = "INVALID" => ev'[t] = NoEvent
    BY <2>1, <1>0, <1>1, <1>2, NoLeft
  <2> QED BY <2>2, <1>1 DEF Closing
<1> QED BY <1>1, <1>3, <1>5, <1>6, <1>7, ThreadStay

-----------------------------------------------------------------------------
(* send_socket.                                                            *)

\* A command that carries a packet has its buffer.
LEMMA CommandHolds ==
  ASSUME TypeOK, Control, Ownership, 1 \in DOMAIN pipe, pipe[1].cmd \in {"D", "P"}
  PROVE  /\ pipe[1].id \in known /\ pipe[1].pkt \in Packets /\ pipe[1].pkt \in 1 .. sent
         /\ packet[pipe[1].pkt].to = pipe[1].id
         /\ freed[pipe[1].pkt] = 0 /\ HeldBy(pipe[1].pkt, "pipe", 1)
<1>1. Asked(1)
  BY DEF Control
<1>2. PICK p : p = pipe[1].pkt
  OBVIOUS
<1>3. p \in 1 .. sent /\ pipe[1].id \in known /\ packet[p].to = pipe[1].id
  BY <1>1, <1>2 DEF Asked
<1>4. p \in Packets /\ p <= sent
  BY <1>3, Numbers, SocketAssumption DEF Packets
<1>5. Owned(p)
  BY <1>4 DEF Ownership
<1>6. ~HeldBy(p, "none", 0)
  BY <1>2 DEF HeldBy
<1>7. PICK kind, x : HeldBy(p, kind, x) /\ freed[p] = 0
  BY <1>5, <1>6 DEF Owned
<1>8. kind = "pipe" /\ x = 1
  BY <1>2, <1>7 DEF HeldBy
<1> QED BY <1>2, <1>3, <1>4, <1>7, <1>8

\* What dec_sending_ref changes.
LEMMA DecIs ==
  ASSUME NEW r \in Sockets, NEW id, r.id = id /\ r.tcp => r.sending # 0
  PROVE  LET x == DecSendingRef(r, id)
         IN /\ x \in Sockets /\ x.type = r.type /\ x.id = r.id /\ x.tcp = r.tcp /\ x.tag = r.tag
            /\ x.high = r.high /\ x.low = r.low /\ x.dw = r.dw /\ x.poll = r.poll
            /\ x.sending = IF r.id = id /\ r.tcp THEN r.sending - 1 ELSE r.sending
<1>1. CASE r.id = id /\ r.tcp
  <2>1. r.sending \in Nat /\ r.sending - 1 \in Nat
    BY <1>1 DEF Sockets
  <2>2. DecSendingRef(r, id) = [r EXCEPT !.sending = r.sending - 1]
    BY <1>1 DEF DecSendingRef, Sockets
  <2> QED BY <1>1, <2>1, <2>2 DEF Sockets
<1>2. CASE ~(r.id = id /\ r.tcp)
  <2>1. DecSendingRef(r, id) = r
    BY <1>2 DEF DecSendingRef
  <2> QED BY <1>2, <2>1
<1> QED BY <1>1, <1>2

LEMMA SendSocketStep ==
  ASSUME IInv, torn' = FALSE, send_socket
  PROVE  IInv'
<1>0. TypeOK /\ Control /\ Queued /\ Ownership /\ SendingExact /\ Asserts
  BY DEF IInv
<1>1. PICK id, p, s, r : /\ id = Request.id /\ p = Request.pkt /\ s = At
                         /\ r = IF Refuses(s, id) THEN slot[s] ELSE Appended(s, p)
  OBVIOUS
<1>2. /\ Ctrl("D") \/ Ctrl("P")
      /\ IF Refuses(s, id) THEN FreeAll({p}) ELSE freed' = freed
      /\ IF r.id = id /\ r.tcp /\ r.sending = 0
         THEN failed' = "dec_sending_ref" /\ slot' = slot
         ELSE slot' = [slot EXCEPT ![s] = DecSendingRef(r, id)] /\ failed' = failed
      /\ UNCHANGED <<lock, alloc, worker, st, ev, known, closed, cut, overtaken, ctrls, sent,
                     packet, wire>>
  BY <1>1 DEF send_socket
<1>3. /\ st.pc = "idle" /\ Shifted(1) /\ 1 \in DOMAIN pipe /\ pipe[1].cmd \in {"D", "P"}
      /\ pipe[1].id = id /\ pipe[1].pkt = p /\ id \in Ids /\ s \in Slot
      /\ Live(s, id) => ~Vacant(s)
  <2>1. CASE Ctrl("D")
    BY <2>1, <1>1, CtrlIs
  <2>2. CASE Ctrl("P")
    BY <2>2, <1>1, CtrlIs
  <2> QED BY <2>1, <2>2, <1>2
<1>4. /\ p \in Packets /\ p \in 1 .. sent /\ packet[p].to = id /\ freed[p] = 0
      /\ HeldBy(p, "pipe", 1) /\ p <= sent
  <2>1. /\ p \in Packets /\ p \in 1 .. sent /\ packet[p].to = id /\ freed[p] = 0
        /\ HeldBy(p, "pipe", 1)
    BY <1>0, <1>3, CommandHolds
  <2> QED BY <2>1, <1>0, Numbers
<1>5. s = HASH_ID(id)
  BY <1>1 DEF At
<1>6. ~InList(p, s) /\ ~InDirect(p, s) /\ p \notin PacketsIn(Backlog(s)) /\ Lists(s)
      /\ slot[s] \in Sockets
  <2>1. ~InList(p, s) /\ ~InDirect(p, s)
    BY <1>3, <1>4 DEF HeldBy, InList, InDirect
  <2> QED BY <2>1, <1>0, <1>3, <1>4, SlotHolds DEF Queued, TypeOK
<1>7. /\ r \in Sockets /\ r.type = slot[s].type /\ r.id = slot[s].id
      /\ r.tcp = slot[s].tcp /\ r.tag = slot[s].tag /\ r.sending = slot[s].sending
      /\ r.dw = slot[s].dw /\ Sound(r.dw, r.high, r.low)
      /\ PacketsIn(r.high \o r.low) = IF Refuses(s, id) THEN PacketsIn(slot[s].high \o slot[s].low)
                                      ELSE PacketsIn(slot[s].high \o slot[s].low) \cup {p}
      /\ Refuses(s, id) => r.high = slot[s].high /\ r.low = slot[s].low /\ r.poll = slot[s].poll
  <2>1. CASE Refuses(s, id)
    BY <2>1, <1>1, <1>6 DEF Lists, Sound
  <2>2. CASE ~Refuses(s, id)
    BY <2>2, <1>0, <1>1, <1>3, <1>4, <1>6, AppendedIs
  <2> QED BY <2>1, <2>2
<1>8. r.id = id /\ r.tcp => r.sending # 0
  <2>1. SUFFICES ASSUME r.id = id, r.tcp PROVE r.sending # 0
    OBVIOUS
  <2>2. r.sending = OnTheirWay(id)
    BY <2>1, <1>0, <1>3, <1>7, PackageCount
  <2>3. 1 \in Carried(id) /\ IsFiniteSet(Carried(id)) /\ Cardinality(Carried(id)) \in Nat
        /\ Cardinality(Announced(id)) \in Nat
    BY <1>0, <1>3, FiniteParts DEF Carried, InPipe
  <2>4. Cardinality(Carried(id)) # 0
    BY <2>3, FS_EmptySet
  <2> QED BY <2>2, <2>3, <2>4 DEF OnTheirWay
<1>9. PICK x : x = DecSendingRef(r, id)
  OBVIOUS
<1>10. /\ x \in Sockets /\ x.type = r.type /\ x.id = r.id /\ x.tcp = r.tcp /\ x.tag = r.tag
       /\ x.high = r.high /\ x.low = r.low /\ x.dw = r.dw /\ x.poll = r.poll
       /\ x.sending = IF r.id = id /\ r.tcp THEN r.sending - 1 ELSE r.sending
  BY <1>7, <1>8, <1>9, DecIs
<1>11. slot' = [slot EXCEPT ![s] = x] /\ failed' = failed
  BY <1>2, <1>8, <1>9
<1>12. Only(s) /\ slot'[s] = x
  BY <1>0, <1>3, <1>10, <1>11, PutSocket
<1>13. SameTag(s) /\ slot'[s].type = slot[s].type /\ Calm(s)
  BY <1>7, <1>10, <1>12 DEF SameTag, Calm
<1>14. Vacant(s)' => Bare(s)
  <2>1. SUFFICES ASSUME Vacant(s)' PROVE Bare(s)
    OBVIOUS
  <2>2. Vacant(s)
    BY <2>1, <1>13 DEF Vacant
  <2>3. Refuses(s, id)
    BY <2>2, <1>3 DEF Refuses
  <2> QED BY <2>2, <2>3, <1>0, <1>3, <1>7, <1>10, <1>12 DEF Bare, Control, Slotted
<1>15. /\ slot' \in [Slot -> Sockets] /\ Emptied
       /\ \A t \in Slot : t # s => /\ slot'[t] = slot[t]
                                   /\ Calm(t) /\ SameCount(t) /\ SameLists(t)
                                   /\ \A q : SamePlace(q, t)
  BY <1>0, <1>3, <1>12, <1>14, OneSlot
<1>16. Knows /\ Grows /\ KnownOpen /\ known' \subseteq 1 .. alloc
  <2>1. Knows /\ ThreadFrame
    BY <1>2 DEF Knows, ThreadFrame
  <2> QED BY <2>1, <1>0, KnowsIs
<1>17. /\ freed' \in [Packets -> 0 .. 2]
       /\ freed'[p] = IF Refuses(s, id) THEN 1 ELSE 0
       /\ \A q \in Packets : q # p => freed'[q] = freed[q]
  <2>1. CASE Refuses(s, id)
    BY <2>1, <1>0, <1>2, <1>4, FreeIs
  <2>2. CASE ~Refuses(s, id)
    BY <2>2, <1>0, <1>2, <1>4 DEF TypeOK
  <2> QED BY <2>1, <2>2
<1>18. TypeOK'
  BY <1>0, <1>2, <1>3, <1>11, <1>15, <1>17 DEF TypeOK, Shifted
<1>19. Control'
  <2>1. Closing'
    <3>1. \A t \in Slot : slot'[t].type = slot[t].type
      BY <1>13, <1>15
    <3> QED BY <3>1, <1>0, <1>2, <1>3, NoLeft DEF Closing
  <2>2. \A t \in Slot : Calm(t)
    BY <1>13, <1>15
  <2> QED BY <2>1, <2>2, <1>0, <1>2, <1>3, <1>15, <1>16, ControlThread
<1>20. Queued'
  <2>1. slot'[s].id = slot[s].id
    BY <1>13 DEF SameTag
  <2>2. ASSUME NEW q \in PacketsIn(slot'[s].dw) \cup PacketsIn(slot'[s].high \o slot'[s].low)
        PROVE  Addressed(q, slot[s].id)
    <3>1. q \in PacketsIn(slot[s].dw) \cup PacketsIn(slot[s].high \o slot[s].low)
          \/ (q = p /\ ~Refuses(s, id))
      BY <1>7, <1>10, <1>12
    <3>2. CASE q \in PacketsIn(slot[s].dw) \cup PacketsIn(slot[s].high \o slot[s].low)
      BY <3>2, <1>0, <1>3, <1>6, BacklogIs DEF Lists
    <3>3. CASE q = p /\ ~Refuses(s, id)
      BY <3>3, <1>4 DEF Refuses, Live, Addressed
    <3> QED BY <3>1, <3>2, <3>3
  <2>3. Sound(slot'[s].dw, slot'[s].high, slot'[s].low)
    BY <1>7, <1>10, <1>12
  <2>4. Lists(s)'
    BY <2>1, <2>2, <2>3, <1>0, <1>3, <1>15, <1>16, ListsNew
  <2>5. \A i \in Ids : Wired(i)'
    BY <1>0, <1>2, <1>16, WiredSame DEF Queued
  <2> QED BY <2>4, <2>5, <1>0, <1>3, <1>12, <1>16, ListsOne
<1>21. Ownership'
  <2>1. ASSUME NEW q \in Packets, q <= sent, q # p PROVE Owned(q)'
    <3>1. Owned(q) /\ SameWorkers(q) /\ NotFirst(q, 1) /\ freed'[q] = freed[q]
      BY <2>1, <1>0, <1>2, <1>3, <1>17 DEF Ownership, SameWorkers, NotFirst
    <3>2. SamePlace(q, s)
      BY <2>1, <1>7, <1>10, <1>12 DEF SamePlace, InList, InDirect
    <3>3. \A t \in Slot : SamePlace(q, t)
      BY <3>2, <1>15
    <3> QED BY <3>1, <3>3, <1>0, <1>3, OwnedSame
  <2>2. /\ \A w \in Workers : worker'[w].pkt # p
        /\ \A i \in DOMAIN pipe' : pipe'[i].pkt # p
        /\ \A t \in Slot : ~InDirect(p, t)'
        /\ \A t \in Slot : InList(p, t)' <=> t = s /\ ~Refuses(s, id)
    <3>1. \A w \in Workers : worker'[w].pkt # p
      BY <1>2, <1>4 DEF HeldBy
    <3>2. ASSUME NEW i \in DOMAIN pipe' PROVE pipe'[i].pkt # p
      <4>1. i + 1 \in DOMAIN pipe /\ pipe'[i] = pipe[i + 1] /\ i + 1 # 1
        BY <1>0, <1>3, Numbers DEF Shifted
      <4> QED BY <4>1, <1>4 DEF HeldBy
    <3>3. \A t \in Slot : ~InList(p, t) /\ ~InDirect(p, t)
      BY <1>4 DEF HeldBy, InList, InDirect
    <3>4. \A t \in Slot : t # s => ~InList(p, t)' /\ ~InDirect(p, t)'
      BY <3>3, <1>15 DEF SamePlace
    <3>5. ~InDirect(p, s)' /\ (InList(p, s)' <=> ~Refuses(s, id))
      BY <1>6, <1>7, <1>10, <1>12 DEF InList, InDirect
    <3> QED BY <3>1, <3>2, <3>4, <3>5
  <2>3. Owned(p)'
    <3>1. CASE Refuses(s, id)
      <4>1. HeldBy(p, "none", 0)'
        BY <2>2, <3>1 DEF HeldBy, InList, InDirect
      <4> QED BY <4>1, <3>1, <1>17 DEF Owned
    <3>2. CASE ~Refuses(s, id)
      <4>1. HeldBy(p, "list", s)' /\ Place("list", s)'
        BY <2>2, <3>2, <1>3 DEF HeldBy, InList, InDirect, Place
      <4> QED BY <4>1, <3>2, <1>17 DEF Owned
    <3> QED BY <3>1, <3>2
  <2>4. ASSUME NEW q \in Packets, ~(q <= sent) PROVE freed'[q] = 0
    BY <2>4, <1>0, <1>4, <1>17 DEF Ownership
  <2> QED BY <2>1, <2>3, <2>4, <1>2 DEF Ownership
<1>22. SendingExact'
  <2>1. \A i : Announced(i)' = Announced(i)
    BY <1>2 DEF Announced
  <2>2. ASSUME NEW t \in Slot, slot'[t].tcp
        PROVE  \E i : slot'[t].id = i /\ slot'[t].sending = OnTheirWay(i)'
    <3>1. PICK i : i = slot[t].id
      OBVIOUS
    <3>2. slot'[t].id = i /\ slot[t].tcp
      BY <2>2, <3>1, <1>13, <1>15 DEF SameTag, SameCount
    <3>3. slot[t].sending = OnTheirWay(i) /\ HASH_ID(i) = t
      BY <3>1, <3>2, <1>0, PackageCount DEF Control, Slotted
    <3>4. CASE i = id
      <4>1. t = s
        BY <3>3, <3>4, <1>5
      <4>2. slot'[t].sending = slot[t].sending - 1
        BY <3>1, <3>2, <3>4, <4>1, <1>7, <1>10, <1>12
      <4>3. Cardinality(Carried(i)') = Cardinality(Carried(i)) - 1
        BY <3>4, <1>0, <1>3, CarriedTaken
      <4>4. OnTheirWay(i)' = OnTheirWay(i) - 1
        BY <2>1, <4>3, <1>0, FiniteParts DEF OnTheirWay
      <4> QED BY <3>2, <3>3, <4>2, <4>4
    <3>5. CASE i # id
      <4>1. slot'[t].sending = slot[t].sending
        <5>1. CASE t = s
          BY <3>1, <3>5, <5>1, <1>7, <1>10, <1>12
        <5>2. CASE t # s
          BY <5>2, <1>15
        <5> QED BY <5>1, <5>2
      <4>2. Cardinality(Carried(i)') = Cardinality(Carried(i))
        BY <3>5, <1>0, <1>3, CarriedTaken
      <4>3. OnTheirWay(i)' = OnTheirWay(i)
        BY <2>1, <4>2 DEF OnTheirWay
      <4> QED BY <3>2, <3>3, <4>1, <4>3
    <3> QED BY <3>4, <3>5
  <2> QED BY <2>2 DEF SendingExact, OnTheirWay, Announced, Carried
<1> QED BY <1>0, <1>11, <1>18, <1>19, <1>20, <1>21, <1>22 DEF IInv, Asserts

-----------------------------------------------------------------------------
(* open_socket and report_accept.                                          *)

\* Slot s gets a socket, or is given up by the one that reserved it.
LEMMA ControlOpens ==
  ASSUME TypeOK, Control, NEW s \in Slot, Only(s), Slotted(s)', NEW d, Shifted(d),
         worker' = worker, alloc' \in Nat, alloc <= alloc', Grows, known' \subseteq 1 .. alloc',
         Closing', \A id \in known' \ known : HASH_ID(id) = s,
         \A w \in Workers : Reserves(w) => HASH_ID(worker[w].id) # s,
         \A j \in DOMAIN pipe' : pipe'[j].cmd = "O" => HASH_ID(pipe'[j].id) # s,
         \A w \in Workers : worker[w].pc = "c2b" /\ HASH_ID(worker[w].id) = s
           => slot'[s].id = slot[s].id \/ worker[w].pkt \in overtaken'
  PROVE  Control'
<1>0. /\ \A t \in Slot : t # s => slot'[t] = slot[t]
      /\ alloc \in Nat /\ sent \in Nat /\ sent' \in Nat /\ sent <= sent'
  BY Numbers DEF Only, Grows
<1>1. ASSUME NEW t \in Slot, t # s PROVE Slotted(t)'
  <2>1. Slotted(t) /\ slot'[t] = slot[t] /\ slot[t].id \in Nat
    BY <1>0, <1>1, Numbers DEF Control
  <2>2. slot[t].id <= alloc'
    BY <2>1, <1>0 DEF Slotted
  <2> QED BY <2>1, <2>2 DEF Slotted, Vacant
<1>2. ASSUME NEW w \in Workers PROVE Working(w)'
  <2>1. Working(w)
    BY DEF Control
  <2>2. PICK x, t : x = worker[w] /\ t = HASH_ID(x.id) /\ t \in Slot
    BY Numbers
  <2>3. (Sends(w)' <=> Sends(w)) /\ (Reserves(w)' <=> Reserves(w)) /\ worker'[w] = x
    BY <2>2 DEF Sends, Reserves
  <2>4. Sends(w) => x.id \in known' /\ x.pkt \in 1 .. sent' /\ packet'[x.pkt].to = x.id
    <3>1. Sends(w) => x.id \in known /\ x.pkt \in 1 .. sent /\ packet[x.pkt].to = x.id
      BY <2>1, <2>2 DEF Working
    <3>2. \A q \in 1 .. sent : q \in 1 .. sent' /\ packet'[q] = packet[q]
      BY <1>0 DEF Grows
    <3> QED BY <3>1, <3>2 DEF Grows
  <2>5. Reserves(w) => /\ x.id \in 1 .. alloc' /\ x.id \notin known' /\ x.id \in Ids
                       /\ slot'[t].type = "RESERVE"
    <3>1. SUFFICES ASSUME Reserves(w)
                   PROVE  /\ x.id \in 1 .. alloc' /\ x.id \notin known' /\ x.id \in Ids
                          /\ slot'[t].type = "RESERVE"
      OBVIOUS
    <3>2. t # s /\ x.id \in 1 .. alloc /\ x.id \notin known /\ slot[t].type = "RESERVE"
          /\ x.id \in Ids
      BY <2>1, <2>2, <3>1 DEF Working
    <3> QED BY <2>2, <3>2, <1>0
  <2>6. x.pc = "open" => slot'[t].id = x.id
    <3>1. x.pc = "open" => Reserves(w)
      BY <2>2 DEF Reserves
    <3> QED BY <2>1, <2>2, <3>1, <1>0 DEF Working
  <2>7. x.pc = "c2b" => slot'[t].id = x.id \/ x.pkt \in overtaken'
    BY <2>1, <2>2, <1>0 DEF Working, Grows
  <2>8. ~Sends(w) => x.pkt = None
    BY <2>1, <2>2 DEF Working
  <2> QED BY <2>2, <2>3, <2>4, <2>5, <2>6, <2>7, <2>8 DEF Working
<1>3. ASSUME NEW j \in DOMAIN pipe' PROVE Asked(j)'
  <2>1. PICK i \in DOMAIN pipe : pipe'[j] = pipe[i]
    BY DEF Shifted
  <2>2. PICK x, t : x = pipe[i] /\ t = HASH_ID(x.id) /\ t \in Slot /\ x.id \in Nat
    BY Numbers, IdsIn
  <2>3. Asked(i) /\ pipe'[j] = x
    BY <2>1, <2>2 DEF Control
  <2>4. x.cmd = "O" => t # s
    BY <2>2, <2>3
  <2>5. x.cmd = "O" => /\ x.id <= alloc' /\ x.id \notin known' /\ slot'[t].type = "RESERVE"
                       /\ slot'[t].id = x.id
    <3>1. SUFFICES ASSUME x.cmd = "O"
                   PROVE  /\ x.id <= alloc' /\ x.id \notin known' /\ slot'[t].type = "RESERVE"
                          /\ slot'[t].id = x.id
      OBVIOUS
    <3>2. x.id <= alloc /\ x.id \notin known /\ slot[t].type = "RESERVE" /\ slot[t].id = x.id
      BY <2>2, <2>3, <3>1 DEF Asked
    <3> QED BY <2>2, <2>4, <3>1, <3>2, <1>0
  <2>6. x.cmd # "O" => x.id \in known'
    BY <2>2, <2>3 DEF Asked, Grows
  <2>7. x.cmd \notin {"D", "P"} => x.pkt = None
    BY <2>2, <2>3 DEF Asked
  <2>8. x.cmd \in {"D", "P"} => x.pkt \in 1 .. sent' /\ packet'[x.pkt].to = x.id
    BY <2>2, <2>3, <1>0 DEF Asked, Grows
  <2> QED BY <2>2, <2>3, <2>5, <2>6, <2>7, <2>8 DEF Asked
<1>4. Alone'
  <2>1. \A w \in Workers : Reserves(w)' <=> Reserves(w)
    BY DEF Reserves
  <2>2. \A w, v \in Workers : Reserves(w)' /\ Reserves(v)'
          /\ HASH_ID(worker'[w].id) = HASH_ID(worker'[v].id) => w = v
    BY <2>1 DEF Control, Alone
  <2>3. ASSUME NEW i \in DOMAIN pipe', NEW j \in DOMAIN pipe', pipe'[i].cmd = "O",
               pipe'[j].cmd = "O", HASH_ID(pipe'[i].id) = HASH_ID(pipe'[j].id)
        PROVE  i = j
    <3>1. /\ i + d \in DOMAIN pipe /\ pipe'[i] = pipe[i + d]
          /\ j + d \in DOMAIN pipe /\ pipe'[j] = pipe[j + d]
      BY DEF Shifted
    <3>2. i + d = j + d
      BY <2>3, <3>1 DEF Control, Alone
    <3>3. i \in Int /\ j \in Int /\ d \in Int
      BY Numbers DEF Shifted
    <3> QED BY <3>2, <3>3
  <2>4. ASSUME NEW w \in Workers, NEW i \in DOMAIN pipe', Reserves(w)', pipe'[i].cmd = "O"
        PROVE  HASH_ID(worker'[w].id) # HASH_ID(pipe'[i].id)
    <3>1. i + d \in DOMAIN pipe /\ pipe'[i] = pipe[i + d]
      BY DEF Shifted
    <3> QED BY <2>1, <2>4, <3>1 DEF Control, Alone
  <2> QED BY <2>2, <2>3, <2>4 DEF Alone
<1> QED BY <1>1, <1>2, <1>3, <1>4 DEF Control

\* No packet is on its way to an id that was not reported.
LEMMA Fresh ==
  ASSUME TypeOK, Control, NEW id, id \notin known
  PROVE  OnTheirWay(id) = 0
<1>1. Announced(id) = {}
  BY DEF Announced, Control, Working, Sends
<1>2. Carried(id) = {}
  BY DEF Carried, InPipe, Control, Asked
<1> QED BY <1>1, <1>2, FS_EmptySet DEF OnTheirWay

\* The parts of the invariant about packets, when slot s gets a socket.
LEMMA OpenedSlot ==
  ASSUME TypeOK, Control, Queued, Ownership, SendingExact, NEW s \in Slot, Vacant(s), Only(s),
         slot'[s].high = <<>>, slot'[s].low = <<>>, slot'[s].dw = <<>>,
         NEW d, Shifted(d), d = 1 => 1 \in DOMAIN pipe /\ pipe[1].cmd \notin {"D", "P"},
         UNCHANGED <<worker, sent, freed, wire>>, Grows,
         SameCount(s) \/ \E id : id \notin known /\ slot'[s].id = id /\ slot'[s].sending = 0
  PROVE  Queued' /\ Ownership' /\ SendingExact'
<1>1. /\ slot' \in [Slot -> Sockets]
      /\ \A t \in Slot : t # s => slot'[t] = slot[t]
  BY DEF Only
<1>2. Queued'
  <2>1. Lists(s)'
    BY <1>1, ListsEmpty
  <2>2. \A i \in Ids : Wired(i)'
    BY WiredSame DEF Queued
  <2> QED BY <2>1, <2>2, ListsOne
<1>3. Ownership'
  <2>1. \A p \in Packets : NotFirst(p, d) /\ SameWorkers(p)
    <3>1. d = 1 => pipe[1].pkt = None
      BY DEF Control, Asked
    <3> QED BY <3>1, NoneIs DEF NotFirst, SameWorkers
  <2>2. \A t \in Slot : \A p : SamePlace(p, t)
    <3>1. slot[s].high = <<>> /\ slot[s].low = <<>> /\ slot[s].dw = <<>>
      BY DEF Control, Slotted
    <3> QED BY <3>1, <1>1 DEF SamePlace, InList, InDirect
  <2> QED BY <2>1, <2>2, OwnershipSame
<1>4. SendingExact'
  <2>1. ASSUME NEW i PROVE OnTheirWay(i)' = OnTheirWay(i)
    <3>1. Announced(i)' = Announced(i)
      BY DEF Announced
    <3>2. Cardinality(Carried(i)') = Cardinality(Carried(i))
      <4>1. CASE d = 0
        <5>1. DOMAIN pipe' = DOMAIN pipe /\ \A j \in DOMAIN pipe : pipe'[j] = pipe[j]
          BY <4>1, Numbers DEF Shifted
        <5>2. Carried(i)' = Carried(i)
          BY <5>1 DEF Carried, InPipe
        <5> QED BY <5>2
      <4>2. CASE d = 1
        BY <4>2, CarriedTaken
      <4> QED BY <4>1, <4>2 DEF Shifted
    <3> QED BY <3>1, <3>2 DEF OnTheirWay
  <2>2. CASE SameCount(s)
    <3>1. \A t \in Slot : SameCount(t)
      BY <2>2, <1>1 DEF SameCount, SameTag
    <3> QED BY <2>1, <3>1, <1>1, CountKept
  <2>3. CASE \E id : id \notin known /\ slot'[s].id = id /\ slot'[s].sending = 0
    <3>1. ASSUME NEW t \in Slot, slot'[t].tcp
          PROVE  \E i : slot'[t].id = i /\ slot'[t].sending = OnTheirWay(i)'
      <4>1. CASE t = s
        <5>1. PICK id : id \notin known /\ slot'[s].id = id /\ slot'[s].sending = 0
          BY <2>3
        <5>2. OnTheirWay(id)' = 0
          BY <5>1, <2>1, Fresh
        <5> QED BY <4>1, <5>1, <5>2
      <4>2. CASE t # s
        <5>1. PICK i : i = slot[t].id
          OBVIOUS
        <5>2. slot'[t] = slot[t] /\ slot[t].sending = OnTheirWay(i)
          BY <3>1, <4>2, <5>1, <1>1, PackageCount
        <5> QED BY <5>1, <5>2, <2>1
      <4> QED BY <4>1, <4>2
    <3> QED BY <3>1 DEF SendingExact, OnTheirWay, Announced, Carried
  <2> QED BY <2>2, <2>3
<1> QED BY <1>2, <1>3, <1>4

LEMMA OpenSocketStep ==
  ASSUME IInv, torn' = FALSE, open_socket
  PROVE  IInv'
<1>0. TypeOK /\ Control /\ Queued /\ Ownership /\ SendingExact /\ Asserts
  BY DEF IInv
<1>1. PICK id, s : id = Request.id /\ s = At
  OBVIOUS
<1>2. /\ Ctrl("O")
      /\ UNCHANGED <<lock, alloc, worker, ev, ctrls, sent, packet, freed, wire, cut, overtaken>>
  BY DEF open_socket, kernel
<1>3. /\ st.pc = "idle" /\ Shifted(1) /\ 1 \in DOMAIN pipe /\ pipe[1].cmd = "O"
      /\ pipe[1].id = id /\ id \in Ids /\ s \in Slot /\ s = HASH_ID(id)
  BY <1>1, <1>2, CtrlIs DEF At
<1>4. /\ id \notin known /\ id <= alloc /\ slot[s].type = "RESERVE" /\ slot[s].id = id
  BY <1>0, <1>3 DEF Control, Asked
<1>5. /\ Vacant(s) /\ slot[s].high = <<>> /\ slot[s].low = <<>> /\ slot[s].dw = <<>>
      /\ ~slot[s].poll /\ NewFdOk(s)
  BY <1>0, <1>3, <1>4 DEF Control, Slotted, Vacant, NewFdOk, send_buffer_empty
<1>6. /\ \A w \in Workers : Reserves(w) => HASH_ID(worker[w].id) # s
      /\ \A j \in DOMAIN pipe' : pipe'[j].cmd = "O" => HASH_ID(pipe'[j].id) # s
  <2>1. \A w \in Workers : Reserves(w) => HASH_ID(worker[w].id) # s
    BY <1>0, <1>3 DEF Control, Alone
  <2>2. ASSUME NEW j \in DOMAIN pipe', pipe'[j].cmd = "O" PROVE HASH_ID(pipe'[j].id) # s
    <3>1. j + 1 \in DOMAIN pipe /\ pipe'[j] = pipe[j + 1] /\ j + 1 # 1
      BY <1>0, <1>3, Numbers DEF Shifted
    <3> QED BY <2>2, <3>1, <1>0, <1>3 DEF Control, Alone
  <2> QED BY <2>1, <2>2
<1>7. id \in 1 .. alloc /\ alloc \in Nat /\ id \in Nat
  BY <1>0, <1>3, <1>4, Numbers, IdsIn DEF Ids
\* What is left to show once the fields of the slot are known.
<1>8. ASSUME Only(s), slot'[s].id = id, slot'[s].high = <<>>, slot'[s].low = <<>>,
             slot'[s].dw = <<>>, Slotted(s)', Closing',
             SameCount(s) \/ slot'[s].sending = 0,
             known' = known \/ known' = known \cup {id},
             st' \in States, closed' \subseteq Ids, failed' = "no"
      PROVE  IInv'
  <2>1. Grows
    BY <1>0, <1>2, <1>8, Numbers DEF Grows
  <2>2. \A i \in known' \ known : HASH_ID(i) = s
    BY <1>3, <1>8
  <2>3. known' \subseteq 1 .. alloc' /\ known' \subseteq Ids
    BY <1>0, <1>2, <1>3, <1>7, <1>8 DEF Control, TypeOK
  <2>4. slot'[s].id = slot[s].id /\ alloc' \in Nat /\ alloc <= alloc'
    BY <1>2, <1>4, <1>7, <1>8
  <2>5. Control'
    BY <2>1, <2>2, <2>3, <2>4, <1>0, <1>2, <1>3, <1>6, <1>8, ControlOpens
  <2>6. pipe[1].cmd \notin {"D", "P"}
    BY <1>3
  <2>7. Queued' /\ Ownership' /\ SendingExact'
    <3>1. SameCount(s) \/ \E i : i \notin known /\ slot'[s].id = i /\ slot'[s].sending = 0
      BY <1>4, <1>8
    <3> QED BY <2>1, <2>6, <3>1, <1>0, <1>2, <1>3, <1>5, <1>8, OpenedSlot
  <2>8. TypeOK'
    BY <2>3, <1>0, <1>2, <1>3, <1>8 DEF TypeOK, Only, Shifted, States
  <2>9. Asserts'
    BY <1>8 DEF Asserts
  <2> QED BY <2>5, <2>7, <2>8, <2>9 DEF IInv
<1>9. CASE /\ slot' = [slot EXCEPT ![s].type = "INVALID"]
           /\ ReportClosed(s, id)
           /\ UNCHANGED <<known, failed>>
  <2>0. "INVALID" \in Types
    BY DEF Types
  <2>1. /\ Only(s) /\ slot'[s].type = "INVALID" /\ SameCount(s) /\ SameLists(s)
        /\ slot'[s].poll = slot[s].poll
    BY <2>0, <1>0, <1>3, <1>9, TypeIs, TypeOnly
  <2>2. /\ slot'[s].id = id /\ slot'[s].high = <<>> /\ slot'[s].low = <<>>
        /\ slot'[s].dw = <<>> /\ ~slot'[s].poll
    BY <2>1, <1>4, <1>5 DEF SameCount, SameTag, SameLists
  <2>3. Slotted(s)'
    <3>1. Slotted(s) /\ Vacant(s)'
      BY <2>1, <1>0, <1>3 DEF Control, Vacant
    <3> QED BY <2>1, <2>2, <3>1, <1>2, <1>4 DEF Slotted, SameCount, SameTag
  <2>4. /\ st' = [pc |-> "clear", s |-> s, id |-> id, flag |-> TRUE]
        /\ closed' = closed \cup {id}
    BY <1>9 DEF ReportClosed
  <2>5. st' \in States /\ st'.pc = "clear" /\ st'.s = s /\ st'.id = id
    BY <2>4, <1>3, StateIs
  <2>6. Closing'
    <3>1. \A t \in Slot : t # s => slot'[t] = slot[t]
      BY <2>1 DEF Only
    <3>2. \A t \in Slot : slot'[t].type = "INVALID" => ev'[t] = NoEvent \/ t = s
      BY <3>1, <1>0, <1>2, <1>3, NoLeft
    <3> QED BY <2>2, <2>5, <3>2 DEF Closing
  <2>7. closed' \subseteq Ids /\ failed' = "no"
    BY <2>4, <1>0, <1>3, <1>9 DEF TypeOK, Asserts
  <2> QED BY <2>1, <2>2, <2>3, <2>5, <2>6, <2>7, <1>8, <1>9
<1>10. ASSUME /\ Only(s) /\ slot'[s].type \in {"CONNECTING", "CONNECTED"} /\ slot'[s].id = id
              /\ slot'[s].tcp = TRUE /\ slot'[s].tag = ID_TAG16(id) /\ slot'[s].sending = 0
              /\ slot'[s].high = slot[s].high /\ slot'[s].low = slot[s].low
              /\ slot'[s].dw = <<>>,
              failed' = IF NewFdOk(s) THEN "no" ELSE "new_fd",
              known' = known \/ known' = known \cup {id},
              UNCHANGED <<st, closed>>
       PROVE  IInv'
  <2>2. slot'[s].high = <<>> /\ slot'[s].low = <<>> /\ failed' = "no"
    BY <1>5, <1>10
  <2>3. ~Vacant(s)' /\ slot'[s].type # "INVALID"
    BY <1>10 DEF Vacant
  <2>4. Slotted(s)'
    BY <2>3, <1>2, <1>3, <1>4, <1>10 DEF Slotted
  <2>5. Closing'
    <3>1. \A t \in Slot : slot'[t].type = "INVALID" => slot[t].type = "INVALID"
      BY <2>3, <1>10 DEF Only
    <3> QED BY <3>1, <1>0, <1>2, <1>3, <1>10, NoLeft DEF Closing
  <2>6. st' \in States /\ closed' \subseteq Ids /\ failed' = "no"
    BY <2>2, <1>0, <1>10 DEF TypeOK, States
  <2> QED BY <2>2, <2>4, <2>5, <2>6, <1>8, <1>10
<1>11. CASE /\ failed' = IF NewFdOk(s) THEN "no" ELSE "new_fd"
            /\ slot' = [slot EXCEPT ![s] = NewFd(s, id, "CONNECTING", TRUE, TRUE)]
            /\ UNCHANGED <<st, known, closed>>
  <2>1. "CONNECTING" \in Types
    BY DEF Types
  <2>2. /\ Only(s) /\ slot'[s].type = "CONNECTING" /\ slot'[s].id = id
        /\ slot'[s].tcp = TRUE /\ slot'[s].tag = ID_TAG16(id) /\ slot'[s].sending = 0
        /\ slot'[s].high = slot[s].high /\ slot'[s].low = slot[s].low /\ slot'[s].dw = <<>>
    <3>1. slot' = [slot EXCEPT ![s] = NewFd(s, id, "CONNECTING", TRUE, TRUE)]
      BY <1>11
    <3>2. TypeOK /\ id \in Ids /\ s \in Slot /\ TRUE \in BOOLEAN
      BY <1>0, <1>3
    <3> QED BY <2>1, <3>1, <3>2, NewFdIs
  <2> QED BY <2>2, <1>10, <1>11
<1>12. CASE /\ failed' = IF NewFdOk(s) THEN "no" ELSE "new_fd"
            /\ slot' = [slot EXCEPT ![s] = NewFd(s, id, "CONNECTED", TRUE, FALSE)]
            /\ known' = known \cup {id}
            /\ UNCHANGED <<st, closed>>
  <2>1. "CONNECTED" \in Types
    BY DEF Types
  <2>2. /\ Only(s) /\ slot'[s].type = "CONNECTED" /\ slot'[s].id = id
        /\ slot'[s].tcp = TRUE /\ slot'[s].tag = ID_TAG16(id) /\ slot'[s].sending = 0
        /\ slot'[s].high = slot[s].high /\ slot'[s].low = slot[s].low /\ slot'[s].dw = <<>>
    <3>1. slot' = [slot EXCEPT ![s] = NewFd(s, id, "CONNECTED", TRUE, FALSE)]
      BY <1>12
    <3>2. TypeOK /\ id \in Ids /\ s \in Slot /\ TRUE \in BOOLEAN
      BY <1>0, <1>3
    <3> QED BY <2>1, <3>1, <3>2, NewFdIs
  <2> QED BY <2>2, <1>10, <1>12
<1> QED BY <1>1, <1>9, <1>11, <1>12 DEF open_socket

LEMMA ReportAcceptStep ==
  ASSUME IInv, torn' = FALSE, report_accept
  PROVE  IInv'
<1>0. TypeOK /\ Control /\ Queued /\ Ownership /\ SendingExact /\ Asserts
  BY DEF IInv
<1>1. PICK id, s : id = NextId /\ s = HASH_ID(id)
  OBVIOUS
<1>2. /\ st.pc = "idle" /\ Probes # {} /\ id \in Ids /\ alloc' = id
      /\ slot' = [slot EXCEPT ![s] = NewFd(s, id, "PACCEPT", FALSE, FALSE)]
      /\ known' = known \cup {id}
      /\ overtaken' = overtaken \cup BetweenLoads(s)
      /\ failed' = IF send_buffer_empty(s) THEN "no" ELSE "new_fd"
      /\ UNCHANGED <<lock, pipe, worker, st, ev, closed, ctrls, sent, packet, freed, wire, cut>>
  BY <1>1 DEF report_accept, kernel
<1>3. id \in Nat /\ id > alloc /\ s \in Slot /\ slot[s].type = "INVALID" /\ alloc \in Nat
      /\ id >= 1
  <2>1. id \in Nat /\ id > alloc /\ s \in Slot /\ slot[s].type = "INVALID"
    BY <1>0, <1>1, <1>2, NextFree
  <2>2. alloc \in Nat
    BY <1>0, Numbers
  <2> QED BY <2>1, <2>2
<1>4. id \notin known
  BY <1>0, <1>3 DEF Control
<1>5. /\ Vacant(s) /\ slot[s].high = <<>> /\ slot[s].low = <<>> /\ slot[s].dw = <<>>
      /\ send_buffer_empty(s)
  BY <1>0, <1>3 DEF Control, Slotted, Vacant, send_buffer_empty
<1>6. /\ Only(s) /\ slot'[s].type = "PACCEPT" /\ slot'[s].id = id /\ slot'[s].tcp = TRUE
      /\ slot'[s].tag = ID_TAG16(id) /\ slot'[s].sending = 0
      /\ slot'[s].high = <<>> /\ slot'[s].low = <<>> /\ slot'[s].dw = <<>>
  <2>1. "PACCEPT" \in Types
    BY DEF Types
  <2> QED BY <2>1, <1>0, <1>2, <1>3, <1>5, NewFdIs
<1>7. Grows /\ Shifted(0)
  BY <1>0, <1>2, Numbers, PipeSame DEF Grows
<1>8. Control'
  <2>1. ~Vacant(s)' /\ slot'[s].type # "INVALID"
    BY <1>6 DEF Vacant
  <2>2. Slotted(s)'
    <3>1. alloc' = id /\ id \in Ids /\ id <= id
      BY <1>2, <1>3
    <3>2. s = HASH_ID(id)
      BY <1>1
    <3>3. /\ slot'[s].id = id /\ slot'[s].tcp = TRUE /\ slot'[s].tag = ID_TAG16(id)
          /\ slot'[s].type = "PACCEPT"
      BY <1>6
    <3> QED BY <2>1, <3>1, <3>2, <3>3 DEF Slotted
  <2>3. Closing'
    <3>1. \A t \in Slot : slot'[t].type = "INVALID" => slot[t].type = "INVALID"
      BY <2>1, <1>6 DEF Only
    <3> QED BY <3>1, <1>0, <1>2, NoLeft DEF Closing
  <2>4. known' \subseteq 1 .. alloc' /\ alloc' \in Nat /\ alloc <= alloc'
    <3>1. known \subseteq 1 .. alloc
      BY <1>0 DEF Control
    <3>2. 1 .. alloc \subseteq 1 .. id /\ id \in 1 .. id
      BY <1>3
    <3> QED BY <3>1, <3>2, <1>2, <1>3
  <2>5. \A w \in Workers : Reserves(w) => HASH_ID(worker[w].id) # s
    BY <1>0, <1>3 DEF Control, Working
  <2>6. \A j \in DOMAIN pipe' : pipe'[j].cmd = "O" => HASH_ID(pipe'[j].id) # s
    BY <1>0, <1>2, <1>3 DEF Control, Asked
  <2>7. \A w \in Workers : worker[w].pc = "c2b" /\ HASH_ID(worker[w].id) = s
          => worker[w].pkt \in overtaken'
    BY <1>0, <1>2, BetweenIs
  <2>8. \A i \in known' \ known : HASH_ID(i) = s
    BY <1>1, <1>2
  <2> QED BY <2>2, <2>3, <2>4, <2>5, <2>6, <2>7, <2>8, <1>0, <1>2, <1>3, <1>6, <1>7,
             ControlOpens
<1>9. Queued' /\ Ownership' /\ SendingExact'
  <2>1. 0 = 1 => 1 \in DOMAIN pipe /\ pipe[1].cmd \notin {"D", "P"}
    OBVIOUS
  <2>2. \E i : i \notin known /\ slot'[s].id = i /\ slot'[s].sending = 0
    BY <1>4, <1>6
  <2> QED BY <2>1, <2>2, <1>0, <1>2, <1>3, <1>5, <1>6, <1>7, OpenedSlot
<1>10. TypeOK'
  <2>1. overtaken' \subseteq Packets /\ known' \subseteq Ids /\ alloc' \in Nat
        /\ failed' = "no"
    BY <1>0, <1>2, <1>3, <1>5, BetweenIs DEF TypeOK
  <2> QED BY <2>1, <1>0, <1>2, <1>6 DEF TypeOK, Only
<1>11. Asserts'
  BY <1>2, <1>5 DEF Asserts
<1> QED BY <1>8, <1>9, <1>10, <1>11 DEF IInv

-----------------------------------------------------------------------------
(* The initial state, and every step.                                      *)

LEMMA InitHolds == Init => IInv
<1> SUFFICES ASSUME Init PROVE IInv
  OBVIOUS
<1>1. Unused \in Sockets /\ 0 \in Slot
  BY SocketAssumption, NoUnits DEF Unused, Sockets, Types, Slot
<1>2. /\ \A s \in Slot : slot[s] = Unused /\ lock[s] = None /\ ev[s] = NoEvent
      /\ \A w \in Workers : worker[w] = Idle
      /\ \A i \in Ids : wire[i] = <<>>
      /\ \A p \in Packets : freed[p] = 0
      /\ pipe = <<>> /\ DOMAIN pipe = {} /\ alloc = 0 /\ sent = 0 /\ known = {}
      /\ st = NoForce /\ failed = "no"
  BY DEF Init
<1>3. TypeOK
  <2>1. slot \in [Slot -> Sockets] /\ lock \in [Slot -> Workers \cup {None}]
    BY <1>1 DEF Init
  <2>2. alloc \in Nat /\ ctrls \in 0 .. MaxCtrl /\ sent \in 0 .. MaxSend
    BY SocketAssumption DEF Init
  <2>3. /\ pipe \in Seq(Requests)
        /\ worker \in [Workers -> [pc : {"idle", "init", "open", "c1a", "c1b", "trylock",
                                         "c2b", "inc", "pipe"},
                                   id : 0 .. MaxId, pkt : Packets \cup {None}]]
    BY SocketAssumption DEF Init, Idle
  <2>4. st \in States /\ ev \in [Slot -> Events]
    BY NoForceIs DEF Init
  <2>5. /\ packet \in [Packets -> [to : 0 .. MaxId, by : Workers \cup {None}, low : BOOLEAN]]
        /\ freed \in [Packets -> 0 .. 2] /\ wire \in [Ids -> Seq(Units)]
    BY SocketAssumption, NoUnits DEF Init, NoPacket
  <2>6. /\ known \subseteq Ids /\ closed \subseteq Ids /\ cut \subseteq Ids
        /\ overtaken \subseteq Packets /\ failed = "no" /\ torn = FALSE
    BY DEF Init
  <2> QED BY <2>1, <2>2, <2>3, <2>4, <2>5, <2>6 DEF TypeOK, States, Events
<1>4. Control
  <2>1. \A s \in Slot : Slotted(s)
    BY <1>2 DEF Slotted, Vacant, Unused
  <2>2. \A w \in Workers : Working(w)
    BY <1>2 DEF Working, Sends, Reserves, Idle
  <2>3. Alone
    BY <1>2 DEF Alone, Reserves, Idle
  <2>4. Closing
    BY <1>2 DEF Closing, NoForce
  <2> QED BY <2>1, <2>2, <2>3, <2>4, <1>2 DEF Control
<1>5. Queued
  <2>1. \A s \in Slot : slot[s].high = <<>> /\ slot[s].low = <<>> /\ slot[s].dw = <<>>
    BY <1>2 DEF Unused
  <2>2. PacketsIn((<<>> \o <<>>) \o <<>>) = {} /\ PacketsIn(<<>>) = {}
    <3>1. PacketsIn(<<>> \o <<>>) = {} /\ <<>> \o <<>> \in Seq(Units)
      BY NoPackets, NoUnits, JoinedPackets
    <3> QED BY <3>1, NoPackets, NoUnits, JoinedPackets
  <2>3. ASSUME NEW s \in Slot PROVE Lists(s)
    BY <2>1, <2>2, NoPackets DEF Lists, Apart, Backlog, HighList
  <2>4. \A i \in Ids : Wired(i)
    BY <2>2, <1>2 DEF Wired
  <2> QED BY <2>3, <2>4 DEF Queued
<1>6. Ownership
  <2>1. \A p \in Packets : ~(p <= sent)
    BY <1>2, SocketAssumption DEF Packets
  <2> QED BY <2>1, <1>2 DEF Ownership
<1>7. SendingExact
  BY <1>2 DEF SendingExact, Unused
<1>8. Asserts
  BY <1>2 DEF Asserts
<1> QED BY <1>3, <1>4, <1>5, <1>6, <1>7, <1>8 DEF IInv

\* What torn may do.
LEMMA TornStep == torn \in BOOLEAN /\ [Next]_vars => torn' = torn \/ torn' = TRUE
<1> SUFFICES ASSUME torn \in BOOLEAN, [Next]_vars PROVE torn' = torn \/ torn' = TRUE
  OBVIOUS
<1> USE DEF ghosts, WorkerOnly
<1>1. ASSUME NEW w \in Workers, Calls(w) PROVE torn' = torn
  BY <1>1 DEF Calls, ReserveCas, CtrlRequest, SendCall
<1>2. ASSUME NEW w \in Workers, Worker(w) PROVE torn' = torn
  BY <1>2 DEF Worker, ReserveInit, OpenRequest, Check1a, Check1b, TryLock, Check2Fail, Inc,
              SendRequest, DirectWrite, WriteDirect
<1>3. ASSUME NEW c, Ctrl(c) PROVE torn' = torn \/ torn' = TRUE
  BY <1>3 DEF Ctrl
<1>4. CASE Commands
  BY <1>3, <1>4 DEF Commands, open_socket, start_socket, close_socket, send_socket,
                    CloseDecide, ForceClose, clear_closed_event, ConnectTest, ConnectQuiet
<1>5. ASSUME NEW s \in Slot, EventFrame(s) PROVE torn' = torn \/ torn' = TRUE
  BY <1>5 DEF EventFrame
<1>6. ASSUME NEW s \in Slot, Polls(s) \/ HandleEvent(s) PROVE torn' = torn \/ torn' = TRUE
  BY <1>5, <1>6 DEF Polls, PollEvent, HandleEvent, report_connect, ReadData, ReadClose,
                    WriteEvent
<1>7. CASE report_accept
  BY <1>7 DEF report_accept
<1>8. CASE UNCHANGED vars
  BY <1>8 DEF vars
<1> QED BY <1>1, <1>2, <1>4, <1>6, <1>7, <1>8 DEF Next

LEMMA StepHolds == IInv /\ [Next]_vars /\ torn' = FALSE => IInv'
<1> SUFFICES ASSUME IInv, [Next]_vars, torn' = FALSE PROVE IInv'
  OBVIOUS
<1>1. ASSUME NEW w \in Workers, Calls(w) PROVE IInv'
  BY <1>1, ReserveCasStep, CtrlRequestStep, SendCallStep DEF Calls
<1>2. ASSUME NEW w \in Workers, Worker(w) PROVE IInv'
  BY <1>2, ReserveInitStep, OpenRequestStep, ChecksStep, IncStep, SendRequestStep,
     DirectWriteStep DEF Worker
<1>3. CASE Commands
  <2>1. ASSUME NEW b \in BOOLEAN, close_socket(b) PROVE IInv'
    BY <2>1, CloseSocketStep
  <2> QED BY <2>1, <1>3, OpenSocketStep, StartSocketStep, SendSocketStep, CloseDecideStep,
             ForceCloseStep, ClearStep, ConnectTestStep, ConnectQuietStep DEF Commands
<1>4. ASSUME NEW s \in Slot, Polls(s) PROVE IInv'
  BY <1>4, PollEventStep DEF Polls
<1>5. ASSUME NEW s \in Slot, HandleEvent(s) PROVE IInv'
  BY <1>5, ReportConnectStep, ReadDataStep, ReadCloseStep, WriteEventStep DEF HandleEvent
<1>6. CASE UNCHANGED vars
  <2>1. /\ UNCHANGED <<slot, lock, alloc, pipe, worker, st, ev, known, closed, ctrls, sent>>
        /\ UNCHANGED <<packet, freed, wire, cut, overtaken, torn, failed>>
    BY <1>6 DEF vars
  <2>2. TypeOK' /\ Asserts'
    BY <2>1 DEF IInv, TypeOK, Asserts
  <2>3. Control'
    BY <2>1 DEF IInv, Control, Slotted, Vacant, Working, Sends, Reserves, Asked, Alone, Closing
  <2>4. Queued'
    BY <2>1 DEF IInv, Queued, Lists, Wired, Addressed, Backlog, HighList
  <2>5. Ownership'
    BY <2>1 DEF IInv, Ownership, Owned, HeldBy, Place
  <2>6. SendingExact'
    BY <2>1 DEF IInv, SendingExact, InPipe
  <2> QED BY <2>2, <2>3, <2>4, <2>5, <2>6 DEF IInv
<1> QED BY <1>1, <1>2, <1>3, <1>4, <1>5, <1>6, ReportAcceptStep DEF Next

-----------------------------------------------------------------------------
(* The theorems.                                                           *)

\* The inductive invariant holds at every step of the workers and the socket
\* thread of socket_server.c, as long as the socket thread has taken no command or
\* event of an old socket for a slot that is reserved again.
THEOREM Invariance == Spec => [](~torn => IInv)
<1> DEFINE Safe == torn \in BOOLEAN /\ (torn = FALSE => IInv)
<1>1. Init => Safe
  BY InitHolds DEF Init
<1>2. Safe /\ [Next]_vars => Safe'
  BY TornStep, StepHolds
<1>3. Safe => (~torn => IInv)
  OBVIOUS
<1> QED BY <1>1, <1>2, <1>3, PTL DEF Spec

\* One place has the buffer of a packet, or none.
LEMMA HoldersAre ==
  ASSUME NEW p, NEW kind, NEW x, HeldBy(p, kind, x)
  PROVE  /\ kind = "none" => Holders(p) = {}
         /\ Place(kind, x) => Holders(p) = {<<kind, x>>}
<1>1. /\ {v \in Workers : worker[v].pkt = p}
           = IF kind = "worker" /\ x \in Workers THEN {x} ELSE {}
      /\ {j \in DOMAIN pipe : pipe[j].pkt = p}
           = IF kind = "pipe" /\ x \in DOMAIN pipe THEN {x} ELSE {}
      /\ {t \in Slot : p \in PacketsIn(slot[t].high \o slot[t].low)}
           = IF kind = "list" /\ x \in Slot THEN {x} ELSE {}
      /\ {t \in Slot : p \in PacketsIn(slot[t].dw)}
           = IF kind = "dw" /\ x \in Slot THEN {x} ELSE {}
  BY DEF HeldBy
<1>2. CASE kind = "none"
  BY <1>1, <1>2 DEF Holders, Place
<1>3. CASE kind = "worker" /\ x \in Workers
  BY <1>1, <1>3 DEF Holders
<1>4. CASE kind = "pipe" /\ x \in DOMAIN pipe
  BY <1>1, <1>4 DEF Holders
<1>5. CASE kind = "list" /\ x \in Slot
  BY <1>1, <1>5 DEF Holders
<1>6. CASE kind = "dw" /\ x \in Slot
  BY <1>1, <1>6 DEF Holders
<1> QED BY <1>2, <1>3, <1>4, <1>5, <1>6 DEF Place

\* s->sending counts exactly the packets announced for the id of the slot that the
\* socket thread has not taken over, so dec_sending_ref never meets 0; and the
\* buffer of every packet has one owner (the sending worker, the pipe, a list of a
\* socket or its dw_buffer) until it is freed, once.  For any number of workers,
\* slots, ids and packets, and as long as the socket thread has not met a slot in the
\* moment in which it is reserved again.
THEOREM Accounting == Spec => []PacketsAccounted
<1>1. (~torn => IInv) => PacketsAccounted
  <2>1. SUFFICES ASSUME IInv, NEW p \in 1 .. sent
                 PROVE  Cardinality(Holders(p)) + freed[p] = 1
    BY DEF PacketsAccounted, BufferOnce, IInv
  <2>2. p \in Packets /\ p <= sent
    BY <2>1, Numbers, SocketAssumption DEF IInv, Packets
  <2>3. Owned(p)
    BY <2>1, <2>2 DEF IInv, Ownership
  <2>4. CASE freed[p] = 1 /\ HeldBy(p, "none", 0)
    <3>1. Holders(p) = {}
      BY <2>4, HoldersAre
    <3> QED BY <2>4, <3>1, FS_EmptySet
  <2>5. CASE freed[p] = 0 /\ \E kind, x : Place(kind, x) /\ HeldBy(p, kind, x)
    <3>1. PICK kind, x : Place(kind, x) /\ HeldBy(p, kind, x)
      BY <2>5
    <3>2. Holders(p) = {<<kind, x>>}
      BY <3>1, HoldersAre
    <3>3. Cardinality(Holders(p)) = 1
      BY <3>2, FS_Singleton
    <3> QED BY <2>5, <3>3
  <2> QED BY <2>3, <2>4, <2>5 DEF Owned
<1> QED BY <1>1, Invariance, PTL

\* What is written to a connection was sent to it: neither the pipe, nor a list,
\* nor a direct write carries a unit from the old id of a slot to the socket that
\* has the slot now, except for a sender that was overtaken between two loads of
\* can_direct_write.
THEOREM NoMixUp == Spec => []RightSocket
<1>1. (~torn => IInv) => RightSocket
  <2>1. SUFFICES ASSUME IInv, NEW id \in Ids, NEW u \in ToSet(wire[id])
                 PROVE  packet[u[1]].to = id \/ u[1] \in overtaken
    BY DEF RightSocket
  <2>2. u[1] \in PacketsIn(wire[id])
    BY <2>1 DEF PacketsIn
  <2> QED BY <2>1, <2>2 DEF IInv, Queued, Wired, Addressed
<1> QED BY <1>1, Invariance, PTL

\* As long as no command and no event of an old socket was taken for a slot that is
\* reserved again, the variables keep their types, the asserts of force_close, new_fd, send_buffer_
\* and dec_sending_ref hold, and socket_server_poll never handles an event of a slot
\* that has no socket, however commands, events and reserve_id interleave.
THEOREM Soundness == Spec => []EventsSound
<1>1. (~torn => IInv) => EventsSound
  <2>1. SUFFICES ASSUME IInv PROVE NoInvalidEvent
    BY DEF EventsSound, LowUntouched, IInv, Queued, Lists
  <2>2. st.pc # "clear" => \A s \in Slot : slot[s].type = "INVALID" => ev[s] = NoEvent
    BY <2>1, NoLeft DEF IInv
  <2> QED BY <2>2 DEF NoInvalidEvent, Handles
<1> QED BY <1>1, Invariance, PTL
=============================================================================
