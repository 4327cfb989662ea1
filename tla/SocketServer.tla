---------------------------- MODULE SocketServer ----------------------------
(***************************************************************************)
(* The socket server of socket_server.c for TCP: slots that are reused     *)
(* under new ids, the pipe of commands from the worker threads to the      *)
(* socket thread, the count of packets on their way (s->sending), direct   *)
(* writes by the workers under dw_lock, the two write buffer lists, half   *)
(* close, and the batch of events of one sp_wait.                          *)
(*                                                                         *)
(* A packet is PacketSize units; a list of write buffers is the sequence   *)
(* of the units still to be written.  A write moves any number of units to *)
(* the wire.  What the code reads in several loads without a lock is read  *)
(* in several steps here: can_direct_write in two, reserve_id in two,      *)
(* report_connect in three, and force_close frees the lists before it      *)
(* takes the lock.                                                         *)
(*                                                                         *)
(* Services use an id once it is reported open or accepted, and may go on  *)
(* using it after it is closed.  UDP, bind and the listening socket itself *)
(* are left out: a client that connects is the action report_accept.       *)
(***************************************************************************)
EXTENDS Integers, Sequences, FiniteSets, SequencesExt

CONSTANTS
  Workers,      \* threads that call socket_server_*
  MaxSend,      \* bound on the number of packets they send
  Slots,        \* MAX_SOCKET
  MaxId,        \* bound on the ids that are allocated
  MaxCtrl,      \* bound on the start, close and shutdown commands
  PacketSize,   \* units in a packet
  WarningSize,  \* WARNING_SIZE, in units
  None

ASSUME SocketAssumption ==
  /\ Slots \in Nat \ {0} /\ MaxId \in Nat /\ MaxCtrl \in Nat /\ MaxSend \in Nat
  /\ PacketSize \in Nat \ {0} /\ WarningSize \in Nat \ {0}
  /\ IsFiniteSet(Workers) /\ None \notin Workers \cup (0 .. MaxSend)

VARIABLES
  slot,      \* ss->slot
  lock,      \* the worker that holds dw_lock of a slot, or None
  alloc,     \* ss->alloc_id
  pipe,      \* commands written to sendctrl_fd
  worker,    \* per worker: where it is in its call
  st,        \* the socket thread inside close_socket, force_close (flag: for a
             \* command), clear_closed_event and report_connect
  ev,        \* per slot: the event of this batch that is not handled yet
  known,     \* ids that were reported open or accepted
  closed,    \* ids for which SOCKET_CLOSE or SOCKET_ERR was reported
  ctrls,     \* number of start, close and shutdown calls
  sent,      \* number of packets passed to send; they are numbered in that order
  packet,    \* per packet: destination, sender and priority
  freed,     \* how often the buffer of a packet was freed
  wire,      \* per id: the units written to its fd
  cut,       \* ids whose unsent buffers were dropped by force_close
  overtaken, \* packets whose sender was between two loads of can_direct_write
             \* when their slot got its next id
  torn,      \* the socket thread took a command or an event of an old socket
             \* for a slot that was reserved again
  failed     \* "no", or the assert that ended the process

vars == <<slot, lock, alloc, pipe, worker, st, ev, known, closed, ctrls, sent,
          packet, freed, wire, cut, overtaken, torn, failed>>
kernel == <<wire, cut>>
ghosts == <<known, closed, cut, overtaken, torn>>

Ids == 1 .. MaxId
Packets == 1 .. MaxSend
Slot == 0 .. Slots - 1
HASH_ID(id) == id % Slots
ID_TAG16(id) == id \div Slots
Units == Packets \X (1 .. PacketSize)
UnitsOf(p) == [k \in 1 .. PacketSize |-> <<p, k>>]
Types == {"INVALID", "RESERVE", "CONNECTING", "CONNECTED", "HALFCLOSE", "PACCEPT"}

Unused == [type |-> "INVALID", id |-> 0, tcp |-> FALSE, tag |-> 0, sending |-> 0,
           high |-> <<>>, low |-> <<>>, dw |-> <<>>, poll |-> FALSE,
           wr |-> FALSE, warn |-> 0]
Idle == [pc |-> "idle", id |-> 0, pkt |-> None]
NoForce == [pc |-> "idle", s |-> 0, id |-> 0, flag |-> FALSE]
NoEvent == [of |-> 0, read |-> FALSE, write |-> FALSE]
NoPacket == [to |-> 0, by |-> None, low |-> FALSE]

Sockets == [type : Types, id : 0 .. MaxId, tcp : BOOLEAN, tag : Nat, sending : Nat,
            high : Seq(Units), low : Seq(Units), dw : Seq(Units), poll : BOOLEAN,
            wr : BOOLEAN, warn : Nat]
Requests == [cmd : {"O", "S", "K", "X", "D", "P"}, id : Ids, pkt : Packets \cup {None}]

TypeOK ==
  /\ slot \in [Slot -> Sockets]
  /\ lock \in [Slot -> Workers \cup {None}]
  /\ alloc \in Nat /\ ctrls \in 0 .. MaxCtrl
  /\ pipe \in Seq(Requests)
  /\ worker \in [Workers -> [pc : {"idle", "init", "open", "c1a", "c1b", "trylock",
                                   "c2b", "inc", "pipe"},
                             id : 0 .. MaxId, pkt : Packets \cup {None}]]
  /\ st \in [pc : {"idle", "close", "force", "clear", "open", "quiet"}, s : Slot, id : 0 .. MaxId,
             flag : BOOLEAN]
  /\ torn \in BOOLEAN
  /\ ev \in [Slot -> [of : 0 .. MaxId, read : BOOLEAN, write : BOOLEAN]]
  /\ known \subseteq Ids /\ closed \subseteq Ids /\ cut \subseteq Ids
  /\ sent \in 0 .. MaxSend
  /\ packet \in [Packets -> [to : 0 .. MaxId, by : Workers \cup {None}, low : BOOLEAN]]
  /\ freed \in [Packets -> 0 .. 2]
  /\ wire \in [Ids -> Seq(Units)]
  /\ overtaken \subseteq Packets
  /\ failed \in {"no", "force_close", "new_fd", "dec_sending_ref"}

Init ==
  /\ slot = [s \in Slot |-> Unused]
  /\ lock = [s \in Slot |-> None]
  /\ alloc = 0
  /\ pipe = <<>>
  /\ worker = [w \in Workers |-> Idle]
  /\ st = NoForce
  /\ ev = [s \in Slot |-> NoEvent]
  /\ known = {} /\ closed = {} /\ cut = {} /\ overtaken = {}
  /\ ctrls = 0
  /\ sent = 0
  /\ packet = [p \in Packets |-> NoPacket]
  /\ freed = [p \in Packets |-> 0]
  /\ wire = [i \in Ids |-> <<>>]
  /\ torn = FALSE
  /\ failed = "no"

-----------------------------------------------------------------------------
(* Helpers.                                                                *)

send_buffer_empty(s) == slot[s].high = <<>> /\ slot[s].low = <<>>
NothingInFlight(s) == slot[s].dw = <<>> /\ slot[s].sending = 0
nomore_sending_data(s) == send_buffer_empty(s) /\ NothingInFlight(s)

Live(s, id) == slot[s].id = id /\ slot[s].type # "INVALID"

PacketsIn(q) == {u[1] : u \in ToSet(q)}
FreeAll(P) == freed' = [p \in Packets |-> IF p \in P THEN freed[p] + 1 ELSE freed[p]]

\* The slot of the next id whose slot is free; each probe takes an id.
Probes == {k \in 1 .. Slots : slot[HASH_ID(alloc + k)].type = "INVALID"}
NextId == alloc + (CHOOSE k \in Probes : \A j \in Probes : k <= j)

\* Packets of slot s whose sender is between two loads of the locked check.
BetweenLoads(s) == {worker[w].pkt : w \in {v \in Workers : worker[v].pc = "c2b"
                                              /\ HASH_ID(worker[v].id) = s}}

\* What new_fd sets in the slot (poll: sp_add, wr: the write event is on); the
\* caller stores the type.
NewFd(s, id, type, poll, wr) ==
  [slot[s] EXCEPT !.type = type, !.id = id, !.tcp = TRUE, !.tag = ID_TAG16(id),
                  !.sending = 0, !.dw = <<>>, !.poll = poll, !.wr = wr, !.warn = 0]
NewFdOk(s) == slot[s].type = "RESERVE" /\ send_buffer_empty(s)

-----------------------------------------------------------------------------
(* socket_server_connect: reserve_id and the 'O' command.                  *)

\* The CAS of reserve_id.
ReserveCas(w) ==
  LET s == HASH_ID(NextId)
  IN /\ worker[w].pc = "idle"
     /\ Probes # {} /\ NextId \in Ids
     /\ alloc' = NextId
     /\ slot' = [slot EXCEPT ![s].type = "RESERVE"]
     /\ worker' = [worker EXCEPT ![w] = [Idle EXCEPT !.pc = "init", !.id = NextId]]
     /\ UNCHANGED <<lock, pipe, st, ev, ghosts, ctrls, sent, packet, freed, wire, failed>>

\* The stores of reserve_id that follow the CAS.
ReserveInit(w) ==
  /\ worker[w].pc = "init"
  /\ slot' = [slot EXCEPT ![HASH_ID(worker[w].id)].id = worker[w].id,
                          ![HASH_ID(worker[w].id)].tcp = FALSE]
  /\ worker' = [worker EXCEPT ![w].pc = "open"]
  /\ overtaken' = overtaken \cup BetweenLoads(HASH_ID(worker[w].id))
  /\ UNCHANGED <<lock, alloc, pipe, st, ev, known, closed, ctrls, sent, packet, freed,
                 kernel, torn, failed>>

Command(c, id, p) == pipe' = Append(pipe, [cmd |-> c, id |-> id, pkt |-> p])

OpenRequest(w) ==
  /\ worker[w].pc = "open"
  /\ Command("O", worker[w].id, None)
  /\ worker' = [worker EXCEPT ![w] = Idle]
  /\ UNCHANGED <<slot, lock, alloc, st, ev, ghosts, ctrls, sent, packet, freed, wire,
                 failed>>

\* socket_server_start 'S', _close 'K' and _shutdown (here 'X').
CtrlRequest(w, c, id) ==
  /\ worker[w].pc = "idle" /\ id \in known /\ ctrls < MaxCtrl
  /\ ctrls' = ctrls + 1
  /\ Command(c, id, None)
  /\ UNCHANGED <<slot, lock, alloc, worker, st, ev, ghosts, sent, packet, freed, wire,
                 failed>>

-----------------------------------------------------------------------------
(* socket_server_send and socket_server_send_lowpriority.                  *)

\* The call: a socket that is gone frees the buffer and returns -1.
SendCall(w, id, low) ==
  LET live == Live(HASH_ID(id), id)
      p == sent + 1
  IN /\ worker[w].pc = "idle" /\ id \in known /\ sent < MaxSend
     /\ sent' = p
     /\ packet' = [packet EXCEPT ![p] = [to |-> id, by |-> w, low |-> low]]
     /\ IF live
        THEN /\ worker' = [worker EXCEPT ![w] = [pc |-> IF low THEN "inc" ELSE "c1a",
                                                 id |-> id, pkt |-> p]]
             /\ UNCHANGED freed
        ELSE FreeAll({p}) /\ UNCHANGED worker
     /\ UNCHANGED <<slot, lock, alloc, pipe, st, ev, ghosts, ctrls, wire, failed>>

Goto(w, pc) == worker' = [worker EXCEPT ![w].pc = pc]
WorkerOnly == UNCHANGED <<slot, alloc, pipe, st, ev, ghosts, ctrls, sent, packet, freed,
                          wire, failed>>

\* can_direct_write, first loads: the id and the two lists.
FirstLoadsAnyId(w) == send_buffer_empty(HASH_ID(worker[w].id))
FirstLoads(w) == LET s == HASH_ID(worker[w].id)
                 IN slot[s].id = worker[w].id /\ send_buffer_empty(s)

\* can_direct_write, the rest: dw_buffer, sending and the type.
LastLoads(w) == LET s == HASH_ID(worker[w].id)
                IN NothingInFlight(s) /\ slot[s].type = "CONNECTED"

Check1a(w) ==
  /\ worker[w].pc = "c1a"
  /\ Goto(w, IF FirstLoads(w) THEN "c1b" ELSE "inc")
  /\ WorkerOnly /\ UNCHANGED lock

Check1bSkipped(w) ==
  /\ worker[w].pc = "c1b"
  /\ Goto(w, "trylock")
  /\ WorkerOnly /\ UNCHANGED lock
Check1b(w) ==
  /\ worker[w].pc = "c1b"
  /\ Goto(w, IF LastLoads(w) THEN "trylock" ELSE "inc")
  /\ WorkerOnly /\ UNCHANGED lock

\* socket_trylock and the first loads of the double check.  It fails if
\* another worker has the lock, or the socket thread inside send_buffer (one
\* step here, so that may always be the case).
TryLock(w) ==
  LET s == HASH_ID(worker[w].id)
  IN /\ worker[w].pc = "trylock"
     /\ \/ /\ lock[s] = None /\ FirstLoads(w)
           /\ lock' = [lock EXCEPT ![s] = w]
           /\ Goto(w, "c2b")
        \/ /\ Goto(w, "inc")
           /\ UNCHANGED lock
     /\ WorkerOnly

\* The double check fails: unlock and send through the pipe.
Check2Fail(w) ==
  /\ worker[w].pc = "c2b" /\ ~LastLoads(w)
  /\ lock' = [lock EXCEPT ![HASH_ID(worker[w].id)] = None]
  /\ Goto(w, "inc")
  /\ WorkerOnly

\* n units of the packet are written; the rest is left to the socket thread.
WriteDirect(w, n, event) ==
  LET s == HASH_ID(worker[w].id)
      p == worker[w].pkt
  IN /\ worker[w].pc = "c2b" /\ LastLoads(w)
     /\ wire' = [wire EXCEPT ![slot[s].id] = @ \o SubSeq(UnitsOf(p), 1, n)]
     /\ IF n = PacketSize
        THEN FreeAll({p}) /\ UNCHANGED slot
        ELSE /\ slot' = [slot EXCEPT ![s].dw = SubSeq(UnitsOf(p), n + 1, PacketSize),
                                     ![s].wr = @ \/ event]
             /\ UNCHANGED freed
     /\ lock' = [lock EXCEPT ![s] = None]
     /\ worker' = [worker EXCEPT ![w] = Idle]
     /\ UNCHANGED <<alloc, pipe, st, ev, ghosts, ctrls, sent, packet, failed>>

DirectWriteNoEvent(w, n) == WriteDirect(w, n, FALSE)
DirectWrite(w, n) == WriteDirect(w, n, TRUE)

\* inc_sending_ref: only for the same id, and not before new_fd.
IncSendingUntagged(s, id) == slot[s].tcp
IncSending(s, id) == slot[s].tcp /\ slot[s].tag = ID_TAG16(id)

Inc(w) ==
  LET s == HASH_ID(worker[w].id)
  IN /\ worker[w].pc = "inc"
     /\ slot' = [slot EXCEPT ![s].sending =
                               IF IncSending(s, worker[w].id) THEN @ + 1 ELSE @]
     /\ Goto(w, "pipe")
     /\ UNCHANGED <<lock, alloc, pipe, st, ev, ghosts, ctrls, sent, packet, freed, wire,
                    failed>>

SendRequest(w) ==
  LET p == worker[w].pkt
  IN /\ worker[w].pc = "pipe"
     /\ Command(IF packet[p].low THEN "P" ELSE "D", worker[w].id, p)
     /\ worker' = [worker EXCEPT ![w] = Idle]
     /\ UNCHANGED <<slot, lock, alloc, st, ev, ghosts, ctrls, sent, packet, freed, wire,
                    failed>>

Worker(w) ==
  \/ ReserveInit(w) \/ OpenRequest(w) \/ Check1a(w) \/ Check1b(w) \/ TryLock(w)
  \/ Check2Fail(w) \/ Inc(w) \/ SendRequest(w)
  \/ \E n \in 0 .. PacketSize : DirectWrite(w, n)

-----------------------------------------------------------------------------
(* The socket thread: force_close and send_buffer.                         *)

\* The high list with the rest of a direct write put before its head.
HighList(s) == slot[s].dw \o slot[s].high
Backlog(s) == HighList(s) \o slot[s].low
Finished(q) == {u[1] : u \in {v \in ToSet(q) : v[2] = PacketSize}}

\* The write buffers after k units were written, those of dw_buffer first.
\* The rest of a buffer begun on the low list is raised to the high one.
AfterWrite(s, k) ==
  LET H == HighList(s)
      L == SubSeq(slot[s].low, k - Len(H) + 1, Len(slot[s].low))
      rest == IF L = <<>> \/ L[1][2] = 1 THEN 0 ELSE PacketSize + 1 - L[1][2]
  IN IF k < Len(H)
     THEN [slot[s] EXCEPT !.dw = <<>>, !.high = SubSeq(H, k + 1, Len(H))]
     ELSE [slot[s] EXCEPT !.dw = <<>>, !.high = SubSeq(L, 1, rest),
                          !.low = SubSeq(L, rest + 1, Len(L))]

Drained(s, k) == k = Len(Backlog(s))
Gone(r) == [r EXCEPT !.type = "INVALID", !.high = <<>>, !.low = <<>>, !.dw = <<>>,
                     !.poll = FALSE, !.wr = FALSE]

\* force_close under the lock that send_buffer holds.
ForceLocked(s) ==
  IF slot[s].type = "RESERVE"
  THEN failed' = "force_close" /\ UNCHANGED <<slot, freed, closed>>
  ELSE /\ slot' = [slot EXCEPT ![s] = Gone(@)]
       /\ FreeAll(PacketsIn(Backlog(s)))
       /\ closed' = closed \cup {slot[s].id}
       /\ UNCHANGED failed

\* force_close up to its lock: the lists are freed, dw_buffer is not.
ForceStart(s, ctrl) ==
  IF slot[s].type = "RESERVE"
  THEN failed' = "force_close" /\ UNCHANGED <<slot, freed, cut, st>>
  ELSE /\ slot' = [slot EXCEPT ![s].high = <<>>, ![s].low = <<>>]
       /\ FreeAll(PacketsIn(slot[s].high \o slot[s].low))
       /\ cut' = IF send_buffer_empty(s) THEN cut ELSE cut \cup {slot[s].id}
       /\ st' = [pc |-> "force", s |-> s, id |-> slot[s].id, flag |-> ctrl]
       /\ UNCHANGED failed

\* The rest of force_close, once dw_lock is free.
ForceClose ==
  /\ st.pc = "force" /\ lock[st.s] = None
  /\ slot' = [slot EXCEPT ![st.s] = Gone(@)]
  /\ FreeAll(PacketsIn(slot[st.s].dw))
  /\ closed' = closed \cup {st.id}
  /\ st' = IF st.flag THEN [st EXCEPT !.pc = "clear"] ELSE NoForce
  /\ UNCHANGED <<lock, alloc, pipe, worker, ev, known, ctrls, sent, packet, kernel,
                 overtaken, torn, failed>>

\* clear_closed_event, after a command that reported a close or an error.
ClearNoEvent ==
  /\ st.pc = "clear"
  /\ st' = NoForce
  /\ UNCHANGED <<slot, lock, alloc, pipe, worker, ev, ghosts, ctrls, sent, packet, freed,
                 wire, failed>>
clear_closed_event ==
  /\ st.pc = "clear"
  /\ ev' = [ev EXCEPT ![st.s] =
              IF slot[st.s].type = "INVALID" /\ slot[st.s].id = st.id THEN NoEvent ELSE @]
  /\ st' = NoForce
  /\ UNCHANGED <<slot, lock, alloc, pipe, worker, ghosts, ctrls, sent, packet, freed,
                 wire, failed>>

\* send_buffer writes k units and does not close the socket.  A reserved slot
\* has no open fd: there the write fails.
Written(s, k) ==
  /\ ~(Drained(s, k) /\ slot[s].type = "HALFCLOSE")
  /\ slot[s].type = "RESERVE" => Drained(s, 0)
  /\ slot' = [slot EXCEPT ![s] = IF Drained(s, k)
                                 THEN [AfterWrite(s, k) EXCEPT !.wr = FALSE, !.warn = 0]
                                 ELSE AfterWrite(s, k)]
  /\ FreeAll(Finished(SubSeq(Backlog(s), 1, k)))
  /\ wire' = [wire EXCEPT ![slot[s].id] = @ \o SubSeq(Backlog(s), 1, k)]

\* send_buffer ends in force_close: a write error after k units, or the last
\* unit of a half closed socket.
WrittenAndClosed(s, k) ==
  /\ slot[s].type = "RESERVE" => k = 0
  /\ ForceLocked(s)
  /\ wire' = [wire EXCEPT ![slot[s].id] = @ \o SubSeq(Backlog(s), 1, k)]

-----------------------------------------------------------------------------
(* ctrl_cmd.                                                               *)

Request == Head(pipe)
At == HASH_ID(Request.id)

\* The command is for the old id of a slot whose next id is not stored yet.
Torn == /\ Request.cmd \in {"K", "X", "D", "P"}
        /\ slot[At].type = "RESERVE" /\ slot[At].id = Request.id

Ctrl(c) == /\ st.pc = "idle" /\ pipe # <<>> /\ Request.cmd = c
           /\ pipe' = Tail(pipe)
           /\ torn' = (torn \/ Torn)

\* The command reported a close or an error for id.
ReportClosed(s, id) ==
  /\ closed' = closed \cup {id}
  /\ st' = [pc |-> "clear", s |-> s, id |-> id, flag |-> TRUE]

open_socket ==
  LET id == Request.id
  IN /\ Ctrl("O")
     /\ \/ /\ slot' = [slot EXCEPT ![At].type = "INVALID"]
           /\ ReportClosed(At, id)
           /\ UNCHANGED <<known, failed>>
        \/ /\ failed' = IF NewFdOk(At) THEN "no" ELSE "new_fd"
           /\ slot' = [slot EXCEPT ![At] = NewFd(At, id, "CONNECTING", TRUE, TRUE)]
           /\ UNCHANGED <<st, known, closed>>
        \/ /\ failed' = IF NewFdOk(At) THEN "no" ELSE "new_fd"
           /\ slot' = [slot EXCEPT ![At] = NewFd(At, id, "CONNECTED", TRUE, FALSE)]
           /\ known' = known \cup {id}
           /\ UNCHANGED <<st, closed>>
     /\ UNCHANGED <<lock, alloc, worker, ev, ctrls, sent, packet, freed, kernel, overtaken>>

\* A socket that is connected already is transferred, a half closed one is
\* left to its SOCKET_CLOSE.
start_socket ==
  LET id == Request.id
  IN /\ Ctrl("S")
     /\ \/ /\ ~Live(At, id)
           /\ ReportClosed(At, id)
           /\ UNCHANGED <<slot, freed, cut, failed>>
        \/ /\ Live(At, id) /\ slot[At].type = "PACCEPT"
           /\ slot' = [slot EXCEPT ![At].type = "CONNECTED", ![At].poll = TRUE]
           /\ UNCHANGED <<st, closed, freed, cut, failed>>
        \/ /\ Live(At, id) /\ slot[At].type = "PACCEPT"   \* sp_add fails
           /\ ForceStart(At, TRUE)
           /\ UNCHANGED closed
        \/ /\ Live(At, id) /\ slot[At].type # "PACCEPT"
           /\ UNCHANGED <<slot, st, closed, freed, cut, failed>>
     /\ UNCHANGED <<lock, alloc, worker, ev, known, ctrls, sent, packet, wire, overtaken>>

\* close_socket up to the decision.  send_buffer does nothing while a direct
\* write holds the lock.
close_socket(shutdown) ==
  LET id == Request.id
  IN /\ Ctrl(IF shutdown THEN "X" ELSE "K")
     /\ \/ /\ ~Live(At, id)
           /\ ReportClosed(At, id)
           /\ UNCHANGED <<slot, freed, kernel, failed>>
        \/ /\ Live(At, id)
           /\ \/ /\ nomore_sending_data(At) \/ lock[At] # None
                 /\ UNCHANGED <<slot, freed, wire>>
              \/ /\ ~nomore_sending_data(At) /\ lock[At] = None
                 /\ \E k \in 0 .. Len(Backlog(At)) : Written(At, k)
           /\ st' = [pc |-> "close", s |-> At, id |-> id, flag |-> shutdown]
           /\ UNCHANGED <<closed, cut, failed>>
        \/ /\ Live(At, id) /\ ~nomore_sending_data(At) /\ lock[At] = None
           /\ \E k \in 0 .. Len(Backlog(At)) : WrittenAndClosed(At, k)
           /\ st' = [pc |-> "clear", s |-> At, id |-> id, flag |-> TRUE]
           /\ UNCHANGED cut
     /\ UNCHANGED <<lock, alloc, worker, ev, known, ctrls, sent, packet, overtaken>>

\* Close now, or wait for the rest in the state HALFCLOSE.
CloseDecide ==
  /\ st.pc = "close"
  /\ IF st.flag \/ nomore_sending_data(st.s)
     THEN ForceStart(st.s, TRUE)
     ELSE /\ slot' = [slot EXCEPT ![st.s].type = "HALFCLOSE"]
          /\ st' = NoForce
          /\ UNCHANGED <<freed, cut, failed>>
  /\ UNCHANGED <<lock, alloc, pipe, worker, ev, known, closed, ctrls, sent, packet, wire,
                 overtaken, torn>>

\* The write buffers of slot s with packet p appended by send_socket.  The
\* first packet goes to the high list whatever its priority.
Appended(s, p) ==
  LET first == send_buffer_empty(s) /\ slot[s].type = "CONNECTED"
      r == IF packet[p].low /\ ~first
           THEN [slot[s] EXCEPT !.low = @ \o UnitsOf(p)]
           ELSE [slot[s] EXCEPT !.high = @ \o UnitsOf(p), !.wr = @ \/ first]
      size == Len(r.high \o r.low)
  IN IF size >= WarningSize /\ size >= r.warn
     THEN [r EXCEPT !.warn = IF @ = 0 THEN 2 * WarningSize ELSE 2 * @] ELSE r

\* dec_sending_ref on a slot in state r.
DecSendingRef(r, id) == IF r.id = id /\ r.tcp THEN [r EXCEPT !.sending = @ - 1] ELSE r

Refuses(s, id) == ~Live(s, id) \/ slot[s].type \in {"HALFCLOSE", "PACCEPT"}

\* 'D' and 'P': send_socket, then dec_sending_ref.
send_socket ==
  LET id == Request.id
      p == Request.pkt
      r == IF Refuses(At, id) THEN slot[At] ELSE Appended(At, p)
  IN /\ Ctrl("D") \/ Ctrl("P")
     /\ IF Refuses(At, id) THEN FreeAll({p}) ELSE UNCHANGED freed
     /\ IF r.id = id /\ r.tcp /\ r.sending = 0
        THEN failed' = "dec_sending_ref" /\ UNCHANGED slot
        ELSE slot' = [slot EXCEPT ![At] = DecSendingRef(r, id)] /\ UNCHANGED failed
     /\ UNCHANGED <<lock, alloc, worker, st, ev, known, closed, cut, overtaken, ctrls,
                    sent, packet, wire>>

-----------------------------------------------------------------------------
(* Events of socket_server_poll.                                           *)

\* A client connects to a listening socket: report_accept.
report_accept ==
  LET s == HASH_ID(NextId)
  IN /\ st.pc = "idle" /\ Probes # {} /\ NextId \in Ids
     /\ alloc' = NextId
     /\ slot' = [slot EXCEPT ![s] = NewFd(s, NextId, "PACCEPT", FALSE, FALSE)]
     /\ known' = known \cup {NextId}
     /\ overtaken' = overtaken \cup BetweenLoads(s)
     /\ failed' = IF send_buffer_empty(s) THEN "no" ELSE "new_fd"
     /\ UNCHANGED <<lock, pipe, worker, st, ev, closed, ctrls, sent, packet, freed,
                    kernel, torn>>

\* sp_wait returns an event for the socket in slot s.  Events are polled when
\* the last batch is done; other sockets of the batch may come first.
PollEvent(s, read, write) ==
  /\ st.pc = "idle" /\ ev[s] = NoEvent
  /\ slot[s].poll
  /\ read \/ write
  /\ write => slot[s].wr
  /\ ev' = [ev EXCEPT ![s] = [of |-> slot[s].id, read |-> read, write |-> write]]
  /\ UNCHANGED <<slot, lock, alloc, pipe, worker, st, ghosts, ctrls, sent, packet, freed,
                 wire, failed>>

\* The event belongs to the socket that had the slot before.
Stale(s) == /\ ev[s] # NoEvent /\ slot[s].type # "INVALID"
            /\ ev[s].of # slot[s].id \/ slot[s].type = "RESERVE"

Handles(s) == st.pc = "idle" /\ ev[s] # NoEvent
Handled(s) == ev' = [ev EXCEPT ![s] = NoEvent]
EventFrame(s) == /\ torn' = (torn \/ Stale(s))
                 /\ UNCHANGED <<lock, alloc, pipe, worker, ctrls, sent, packet, overtaken>>

\* The connection is made: the type is stored.  Or it failed.
report_connect(s) ==
  /\ Handles(s) /\ slot[s].type = "CONNECTING"
  /\ Handled(s)
  /\ \/ /\ slot' = [slot EXCEPT ![s].type = "CONNECTED"]
        /\ st' = [pc |-> "open", s |-> s, id |-> slot[s].id, flag |-> FALSE]
        /\ UNCHANGED <<freed, cut, failed>>
     \/ ForceStart(s, FALSE)
  /\ UNCHANGED <<known, closed, wire>> /\ EventFrame(s)

\* report_connect tests for data to be sent, without the lock.
ConnectTest ==
  /\ st.pc = "open"
  /\ IF nomore_sending_data(st.s)
     THEN st' = [st EXCEPT !.pc = "quiet"] /\ UNCHANGED known
     ELSE st' = NoForce /\ known' = known \cup {st.id}
  /\ UNCHANGED <<slot, lock, alloc, pipe, worker, ev, closed, ctrls, sent, packet, freed,
                 kernel, overtaken, torn, failed>>

\* It found none and turns the write event off, whatever came in between.
ConnectQuiet ==
  /\ st.pc = "quiet"
  /\ slot' = [slot EXCEPT ![st.s].wr = FALSE]
  /\ st' = NoForce
  /\ known' = known \cup {st.id}
  /\ UNCHANGED <<lock, alloc, pipe, worker, ev, closed, ctrls, sent, packet, freed,
                 kernel, overtaken, torn, failed>>

\* forward_message_tcp: data, or nothing to read; an event that is also
\* writable stays in the batch for its write.  An event on a slot without a
\* socket is dropped.
ReadData(s) ==
  /\ Handles(s) /\ slot[s].type # "CONNECTING"
  /\ slot[s].type # "INVALID" => ev[s].read
  /\ ev' = [ev EXCEPT ![s] = IF @.write /\ slot[s].type # "INVALID"
                             THEN [@ EXCEPT !.read = FALSE] ELSE NoEvent]
  /\ UNCHANGED <<slot, st, known, closed, freed, kernel, failed>> /\ EventFrame(s)

\* The end of the stream, or an error.
ReadClose(s) ==
  /\ Handles(s) /\ slot[s].type \notin {"CONNECTING", "INVALID"} /\ ev[s].read
  /\ Handled(s)
  /\ ForceStart(s, FALSE)
  /\ UNCHANGED <<known, closed, wire>> /\ EventFrame(s)

\* A writable socket: at least one unit is written, or the write fails.
WriteEvent(s) ==
  /\ Handles(s) /\ slot[s].type \notin {"CONNECTING", "INVALID"} /\ ~ev[s].read
  /\ Handled(s)
  /\ \/ /\ lock[s] # None
        /\ UNCHANGED <<slot, freed, wire, closed, failed>>
     \/ /\ lock[s] = None
        /\ \E k \in 0 .. Len(Backlog(s)) : (Backlog(s) # <<>> => k > 0) /\ Written(s, k)
        /\ UNCHANGED <<closed, failed>>
     \/ /\ lock[s] = None
        /\ \E k \in 0 .. Len(Backlog(s)) :
             /\ Backlog(s) = <<>> => slot[s].type = "HALFCLOSE"
             /\ WrittenAndClosed(s, k)
  /\ UNCHANGED <<st, known, cut>> /\ EventFrame(s)

-----------------------------------------------------------------------------
Calls(w) ==
  \/ ReserveCas(w)
  \/ \E id \in known, c \in {"S", "K", "X"} : CtrlRequest(w, c, id)
  \/ \E id \in known, low \in BOOLEAN : SendCall(w, id, low)

Commands == open_socket \/ start_socket \/ close_socket(TRUE) \/ close_socket(FALSE)
            \/ send_socket \/ CloseDecide \/ ForceClose \/ clear_closed_event
            \/ ConnectTest \/ ConnectQuiet

HandleEvent(s) == report_connect(s) \/ ReadData(s) \/ ReadClose(s)
                  \/ WriteEvent(s)

Polls(s) == \E read, write \in BOOLEAN : PollEvent(s, read, write)

Next ==
  /\ failed = "no"
  /\ \/ \E w \in Workers : Calls(w) \/ Worker(w)
     \/ Commands \/ report_accept
     \/ \E s \in Slot : Polls(s) \/ HandleEvent(s)

Spec == Init /\ [][Next]_vars

\* The threads are scheduled; a socket that is registered for writing becomes
\* writable again and again, or fails: its peer reads or is gone.
FairSpec ==
  /\ Spec
  /\ WF_vars(failed = "no" /\ Commands)
  /\ \A w \in Workers : WF_vars(failed = "no" /\ Worker(w))
  /\ \A s \in Slot : /\ WF_vars(failed = "no" /\ HandleEvent(s))
                     /\ SF_vars(failed = "no" /\ PollEvent(s, FALSE, TRUE))

-----------------------------------------------------------------------------
InPipe(cmds, id) == {i \in DOMAIN pipe : pipe[i].cmd \in cmds /\ pipe[i].id = id}

\* s->sending counts the packets of this id that a worker has announced and
\* the socket thread has not taken over, whatever happened to the slot in
\* between: assert((s->sending & 0xffff) != 0) in dec_sending_ref holds.
SendingExact ==
  \A s \in Slot : slot[s].tcp =>
    slot[s].sending = Cardinality({w \in Workers : worker[w].pc = "pipe"
                                                  /\ worker[w].id = slot[s].id})
                      + Cardinality(InPipe({"D", "P"}, slot[s].id))

Holders(p) ==
  {<<"worker", w>> : w \in {v \in Workers : worker[v].pkt = p}}
    \cup {<<"pipe", i>> : i \in {j \in DOMAIN pipe : pipe[j].pkt = p}}
    \cup {<<"list", s>> : s \in {t \in Slot : p \in PacketsIn(slot[t].high \o slot[t].low)}}
    \cup {<<"dw", s>> : s \in {t \in Slot : p \in PacketsIn(slot[t].dw)}}

\* The buffer of a packet has one owner until it is freed, and is freed once:
\* no leak and no double free between worker, pipe, dw_buffer and lists.
BufferOnce == \A p \in 1 .. sent : Cardinality(Holders(p)) + freed[p] = 1

\* A stale id never reaches the next socket of its slot: every unit is written
\* to the connection its packet was addressed to.  The exception is a sender
\* that holds dw_lock and has read the old id when the slot gets the new one.
RightSocket == ~torn =>
  \A id \in Ids : \A u \in ToSet(wire[id]) : packet[u[1]].to = id \/ u[1] \in overtaken

\* On the wire packets are whole and never interleaved, whether they are
\* written directly, in parts, from the high or from the low list, unless
\* force_close dropped queued data just before a direct write.
WholePackets ==
  \A id \in Ids \ cut : PacketsIn(wire[id]) \cap overtaken = {} =>
    \A i \in 1 .. Len(wire[id]) :
      LET u == wire[id][i] IN
      IF i = 1 THEN u[2] = 1
      ELSE LET v == wire[id][i - 1] IN
           IF u[2] = 1 THEN v[2] = PacketSize ELSE v = <<u[1], u[2] - 1>>

\* The packets that one thread sends to a socket with normal priority are
\* written in the order of the calls: when a packet begins, those before it
\* are written completely or dropped, although they may have taken the slow
\* way through the pipe.
SenderOrder ==
  \A p, q \in 1 .. sent :
    (/\ p < q /\ packet[p].by = packet[q].by /\ packet[p].to = packet[q].to
     /\ ~packet[p].low /\ ~packet[q].low
     /\ q \in PacketsIn(wire[packet[q].to]) \ overtaken)
       => /\ freed[p] > 0
          /\ \A a, b \in DOMAIN wire[packet[q].to] :
               wire[packet[q].to][a][1] = p /\ wire[packet[q].to][b][1] = q => a < b

\* The asserts of force_close (type is not RESERVE), new_fd (type is RESERVE, the
\* lists are empty) and dec_sending_ref hold.
Asserts == failed = "no"

\* The poll never meets an event of a socket that is gone (the case that prints
\* "invalid socket"): a socket is closed by its own event, or by a command and
\* then clear_closed_event finds what is left of it in the batch.
NoInvalidEvent == \A s \in Slot : Handles(s) => slot[s].type # "INVALID"

\* No packet is lost on its way: the sending count of its socket and the owner of
\* its buffer are right at every step, unless a command or an event of the old
\* socket was taken for a slot in the moment in which it is reserved again.
PacketsAccounted == ~torn => SendingExact /\ BufferOnce

\* The peer reads whole packets, in the order in which a thread sent them.
StreamIntact == ~torn => WholePackets /\ SenderOrder

\* assert(!list_uncomplete(&s->low)) at the start of send_buffer_: whatever was
\* written last, the low list begins with a buffer of which nothing is written.
LowUntouched == \A s \in Slot : slot[s].low # <<>> => slot[s].low[1][2] = 1

\* Commands and events meet only slots in the state they expect, and no assert
\* fails, unless the socket thread takes a command of the old id between the CAS
\* of reserve_id and the store of the new id, or an event of the old socket that
\* clear_closed_event did not find because the slot was reserved again: then the
\* asserts do fail (SocketReserve.cfg).
EventsSound == ~torn => TypeOK /\ Asserts /\ LowUntouched /\ NoInvalidEvent

\* Every packet that send accepted is written out or dropped in the end (no more
\* than MaxSend are sent): no buffer waits in a socket that is not registered
\* for writing.  The exception is the rest of an overtaken direct write, whose
\* write event report_connect of the next socket may turn off again.
EverySendSettles ==
  []<>(failed # "no" \/ torn \/ \A p \in (1 .. sent) \ overtaken : freed[p] > 0)

\* A close is answered: SOCKET_CLOSE is sent, later if the socket is half
\* closed.
CloseReported == \A id \in Ids :
  InPipe({"K"}, id) # {} ~> id \in closed \/ failed # "no"
=============================================================================
