# TLA+ models of skynet_server

skynet_server is a game server built on skynet, an actor runtime. A node runs
services; each service has a handle, a private message queue and a callback,
and the node's threads run the callbacks. The runtime is C
(`src/skynet/skynet-src`), its standard services and libraries are Lua and C
(`src/skynet/service*`, `src/skynet/lualib*`), and the application (login, game
and control nodes) is Lua (`src/code`, `src/login`, `src/game`, `src/control`,
`src/service`). The project models the runtime first, because everything else
depends on its promises, then what the application uses of the Lua libraries,
and on top of them registration and login.

## Inventory

| Part | State | Operations | What makes it correct |
|---|---|---|---|
| Contexts, `skynet_server.c` | reference count, `init`, the node's count of contexts | `skynet_context_new`, `_grab`, `_release`, `_push`, `_send`, `_reserve`, `_message_dispatch`, `handle_exit` | exact counts, no use after free, one callback of a service at a time, every killed service is reclaimed |
| Queues, `skynet_mq.c` | `in_global`, `release`, the global list, the ring buffer | push, pop, `mark_release`, `mq_release`, `_drop_queue`, `expand_queue` | a queue with work is always on its way to a worker and in one place only; FIFO across growth |
| Handle table, `skynet_handle.c` | slots, `handle_index`, sorted names | register, retire, retireall, grab, findname, namehandle | a live service is found under its handle and by its names, a dead one is not |
| Lock of the table, `rwlock.h` | `write`, `read` | four lock functions | exclusion; a writer gets in |
| Timer, `skynet_timer.c` | wheel of five levels, 32-bit clock | timeout, update | each timer fires in its tick, in order, across the wrap |
| Threads, `skynet_start.c` | `sleep`, `quit`, mutex and condition | worker, timer, socket and monitor loops | no wake-up is lost for good; all threads end |
| Endless-loop monitor, `skynet_monitor.c` | version, last source and destination | trigger, check | no false alarm |
| Socket server, `socket_server.c` | slots, ids, sending counts, write buffers | commands through a pipe, direct writes, poll | no write to a reused id, data in order, nothing freed twice, everything written or dropped |
| Lua scheduler, `skynet.lua` | sessions, coroutines, error and wake-up queues | call, response, sleep, wakeup, fork, exit | every call is answered once, no coroutine is forgotten or resumed twice |
| Critical section, `queue.lua` | holder, depth, waiters | enter, leave | one inside, handed on in order |
| Launcher, unique services, `launcher.lua`, `service_mgr.lua` | launches not confirmed, entries per name | LAUNCH, LAUNCHOK, ERROR, REMOVE, KILL; launch and query | no request is lost or answered twice; one instance per name |
| Socket channel, `socketchannel.lua` | socket, callers in order, callers that wait for the connection | request, connect, authenticate, dispatch, close | a response reaches the request it answers, also after a broken connection |
| Registration and login, `login_msg.lua`, `generatord.lua`, `redisd.lua` | accounts, numbers and tokens in redis | `on_register`, `on_login`, the generators | accounts are consistent and clients are told the truth |
| Node links, `nodeserver.lua`, `nodeclient.lua`, `gamemgrd.lua`, `controlclientd.lua` | list of game nodes | heartbeat, connect, disconnect | the list follows the nodes |
| Harbor, cluster, gate, multicast, shared data | connections, pending requests | Lua and C services | no request is lost or answered twice |

The parts meet in few places. Services call `skynet_send`, which finds the
destination in the handle table (under the lock), pushes to its queue, and the
queue puts itself on the global list. Workers take queues off the list, grab
the context through the handle table and run the callback. The timer and the
socket thread push messages like any sender, and wake workers. A kill takes the
context out of the table; the last reference deletes it, marks the queue, and
some worker drops the messages, answering each with an error. Workers talk to
the socket thread through a pipe of commands, and around it when they write
directly. The callback of a Lua service is `skynet.dispatch_message`, which
resumes the coroutine that the message is for and then everything it woke; a
response or a socket message is one such message. The login agents call the
generator, which serializes its handlers with `skynet.queue`, and both call the
redis service, whose requests share the connection of a socket channel.

What is hard: the threads interleave between every lock and every atomic
operation; the context and its queue have separate lives; a launch is visible
in the table before it is complete; the clock, the handles and the ring wrap;
sleeping workers are woken without holding the mutex; the slot of a socket is
reused while commands for its old id are under way. In Lua there is one thread,
but every call yields: what a handler read before may be old when it goes on,
and calls fail half way. `PROJECT.json` lists the hazards line by line with the
properties that cover them.

## Modules

| Module | Models | Checked by |
|---|---|---|
| `ServiceCore` | life of contexts and queues, all threads | `service`, `service_launch`; proofs in `ServiceCoreProofs` |
| `RwLock` | `rwlock.h`, one step per memory access | `primitives`; proofs in `HandleStorageProofs` |
| `HandleStorage` | `skynet_handle.c` | `handle_table`, `handle_rehash`; proofs in `HandleStorageProofs` |
| `TimerWheel` | `skynet_timer.c` | `primitives` |
| `Fifo`, `MessageQueue` | promise and implementation of the ring buffer | `primitives`; proofs in `MessageQueueProofs` |
| `WorkerPool` | threads of `skynet_start.c` | `worker_pool`; proofs in `WorkerPoolProofs` |
| `SocketServer` | `socket_server.c` for TCP: workers against the socket thread | `socket_server`, `socket_reserve`, `socket_close`; proofs in `SocketServerProofs` |
| `LuaScheduler`, `LuaQueue` | `skynet.lua`; `queue.lua` on top of it | `lua_queue`; proofs in `LuaQueueProofs` |
| `ServiceDirectory` | launcher and unique services of two nodes | `service_directory`; proofs in `ServiceDirectoryProofs` |
| `SocketChannel`, `Accounts` | `socketchannel.lua`; registration and login on top of it | `accounts`; proofs in `AccountsProofs` |

Each `MC*` module instantiates one of them, but for `MCPrimitives`, which holds the
lock, the ring buffer and the timer wheel: they share no state, so one of them moves
in a behaviour (`part`) and the others rest. `LuaQueue` composes the section with
the scheduler, `Accounts` composes agents, generator and redis with the channel:
both extend the lower module and give its actions the rest of the state.
Operators whose comment names no code and that stand just before the definition
they resemble (`EnlistNever`, `RTestUnchecked`, ...) are deliberate errors:
`PROJECT.json` pairs each with a property that it breaks. Several properties are
conjunctions of parts with names and comments of their own (`QueueOwned`,
`StreamIntact`, `SchedulerSound`, ...).

### ServiceCore

A thread runs nested calls. Its locals that matter are pointers: `hold` maps
the frames worker, launch and op of a thread to the context the frame owns one
reference of, `have` maps q, nq, launch and drain to the queue the frame is
responsible for. A frame moves only when the frames it called have returned, so
a callback can launch a service, whose init can send, whose push can drop the
last reference of a third service and delete it. A critical section under a
spinlock or the rwlock, and an atomic operation, is one step; between them
everything interleaves. The steps of `skynet_context_message_dispatch` are the
actions from `GlobalPop` to `WorkerUnref`; those of `skynet_context_new` are
`Launch` to `FailMqRelease`; a push is `PushGrab`, `MqPush`, `OpUnref`; a
release that reaches zero continues with `MarkRelease` and `FreeContext`.
`Greedy` workers have weight >= 0 and dispatch as many messages as the queue
had after the first one. (The code has no shift by the weight: the weights
0 to 3 behave alike.) Messages are abstracted to their source, which is what
`_drop_queue` needs. Handles stand for services and are not reused: the reuse
of handles is `HandleStorage`'s subject.

`LaunchWith` merges the registration, the creation of the queue and the count
of the context (`skynet_server.c:155-158`): nobody knows the handle before the
init function runs. A sender that guesses a handle is not modelled.

Left out: sessions and payloads, the message that `handle_exit` sends to a service
that watches exits (`skynet_server.c:383-385`, a send like any other), remote
destinations (the harbor service is the reserved context, `HarborSend` pushes to
it), `skynet_context_endless` (a grab and a release without a push), and
`skynet_harbor_exit`, which runs after all threads have been joined.

### HandleStorage

Slots are a function from 0 .. size - 1. A launch has two steps: the slot is taken
under the lock, and `ctx->handle` is stored afterwards. The rehash of a full table
reads `ctx->handle`, so it can meet a context without handle; it can also meet an
empty slot. Both ends of the program are values of `failed`, the line at which it
dies, and nothing happens after that. `RehashAssert` is the assertion of the rehash,
and fails (see Findings). The history variable `strayed` holds the contexts whose
handle was not stored when the table doubled: the rehash puts them into slot 0
(which is the right one by chance for some), and they are not found under the handle
they get. `Findable` and `AbortComplete` except them, and `RehashCauses` says that
the program dies in `skynet_handle_register` only for this reason or at the wrap.
`skynet_handle_retireall` is a process of its own that reads the size without the
lock. `HandleMask` is 3 instead of 2^24 - 1, so that `handle_index` wraps, and the
table starts with one slot, so that it doubles twice.

### TimerWheel

The near wheel and the four levels are functions to sequences of timers; the
clock wraps at `2^(NearShift + 4 LevelShift)`, which is 2^32 in the code and
2^5 here. `left` is the reference: the number of ticks until each timer
is due, counted down independently of the wheel.

### MessageQueue, Fifo

The array, `head` and `tail` are as in the code, with a small initial size;
`ImplementsFifo` maps the cells from head to tail to the abstract queue.
`MaxCap` bounds the growth (two doublings).

### RwLock

One action per access to `lock->write` or `lock->read`. The `__sync`
additions are full barriers, `__sync_lock_test_and_set` and `_release` are an
acquire and a release; the model assumes sequential consistency, which is what
x86 gives these accesses.

### WorkerPool

Services are abstracted to the number of runnable queues and the number of
contexts. `m->sleep` and `m->quit` are read outside the mutex as in the code.
`pthread_cond_wait` may return spuriously. `skynet_socket_poll` may forward an
event or none, and returns 1 or -1 (`more` is set while events of a batch are
left): `PollEvent` pushes or not and goes to the wake-up or to `CHECK_ABORT`, in
any combination, so an event can be pushed without a wake-up.

### SocketServer

Workers call `socket_server_connect`, `_start`, `_close`, `_shutdown` and
`_send`; the socket thread takes one command from the pipe at a time
(`open_socket` to `send_socket`), and handles the events of a batch (`ReadData`,
`ReadClose`, `WriteEvent`, `report_connect`, `report_accept`). A packet is a
number of units; the lists `high` and `low`, `dw_buffer` and the wire are
sequences of units, and a write moves any number of them, so partial writes
happen at every point. What the code does without a lock is split: the two
checks of `can_direct_write`, each in two loads; `reserve_id` between its CAS
and the store of the id; `force_close` between freeing the lists and taking
`dw_lock`; `close_socket` between its attempt to write and its decision;
`report_connect` between setting the type, testing for data and turning the
write event off; `inc_sending_ref` before the command is written to the pipe.

Three races are shown by history variables, and the properties say that nothing else
goes wrong. `overtaken`: a sender has passed the test of the id and holds `dw_lock`
when the slot is reserved again, and writes its packet to the next socket. `cut`:
`force_close` has freed the lists but not yet taken `dw_lock`, so a worker sees
empty lists and writes directly behind a packet whose second half was just dropped.
`torn`: the socket thread executes a command of the old socket in the moment in
which a worker has set the type of the slot but not yet its id, or handles an event
of the old socket that `clear_closed_event` did not find because the slot had been
reserved again. The model follows what the code does then, up to an assertion that
fails (`failed`); `Asserts` is checked without exception by `socket_reserve` and
fails (see Findings), and the other safety properties are claimed for slots that
were not torn. `SenderOrder` (in `StreamIntact`) holds because `socket_server_send`
checks twice, before and under the lock: with one check the socket thread can move a
packet from the pipe to the lists between the loads.

Contract of the callers: an id is used once it was reported open or accepted;
after its close it may be used at any time. Left out: UDP, bind and listen
(a client that connects is the action `report_accept`), setopt, exit, and
statistics. Simplified: `ReserveCas` takes the id and the slot in one step, and
ids do not wrap; the 16-bit count and tag of `inc_sending_ref` are unbounded, so
its busy-wait at 0xffff does not occur; a write on a slot that is only reserved
fails (its file descriptor number may be in use again elsewhere); memory is
sequentially consistent.

### LuaScheduler, LuaQueue

One thread: `mode` says where it is in `dispatch_message` and `suspend`, and a
coroutine runs from one yield to the next as any sequence of the actions of a
running coroutine. The tables keep their names (`session_id_coroutine`,
`sleep_session`, `watching_session`, `wakeup_queue`, `error_queue`,
`fork_queue`, `unresponse`). Peers answer with a response or an error, or go
down; timers come late or after their sleep was cut short ("BREAK").
`AnsweredOnce` counts the answers of `ret`, of response functions, of errors and
of `skynet.exit`. `depth` is the number of `suspend`s around the one that runs.

`skynet.exit` answers everybody who waits, retires the handle and yields QUIT, on
which its `suspend` just returns: an outer one goes on with the error and wake-up
queues, and messages that were in the service's queue (`Arrives`) are still
dispatched. The model goes on with them. `exited` is the first session sent after
the exit, 0 before it. The exit does not clear `session_coroutine_id`, so the error
of a coroutine that runs on answers its request again, and `dispatch_message` may
end with failed calls or wake-ups left in the queues. `ResumeSound`,
`QuietIsDrained` and `HandedOver` are therefore claimed until the exit; TLC checks
the types, `TablesAgree` and the exclusion of the section after it too, where the
proofs stop. `AnsweredOnce` says that no request is answered twice until then and
that the exit itself answers everyone who is left. `NoForkAfterExit`, the comment in
`skynet.exit`, fails (see Findings). Tokens of `sleep` and `wait` are the coroutines
themselves.

A coroutine that is woken twice in one slice is twice in `wakeup_queue`. The
second entry has no session any more and `dispatch_wakeup` returns there, so
later entries stay until the next message. The history variable `doubled` marks
this, and `QuietIsDrained`, `OneInside` and `HandedOver` are claimed without
it. Contract of the application: it does not wake a coroutine that waits in
`skynet.queue`.

### ServiceDirectory

The launcher handles its mailbox without yields, so a message is one step. A service
manager yields in its call and in `skynet.wait`; the waiters it wakes run before its
next message, so the end of a launch and the answers to all waiters are one step.
New services report LAUNCHOK or ERROR, may end by themselves (`Exit` sends REMOVE,
the service lives on until `ExitCommand`, and the two may have any step of the
others between them), be killed through the launcher (KILL), or by name or handle.
Managers of other nodes ask the standalone one (`Master`) for global names. `lost`
are the services killed by name, of which the launcher is told nothing.
`OneInstance` is about services that serve: one that has sent REMOVE is forgotten by
the manager, which may launch the next while it still runs its last lines. A launch
that was lost to a kill by name (`LaunchLost`) excuses every request for its name.

Left out: snax services, LIST, STAT, MEM, GC, the log of LOGLAUNCH, and
`launch_session`, which has the same keys as `instance`.

### SocketChannel, Accounts

The callers of a channel are coroutines of one service, so a step is a slice between
two yields, and `ready` is the wake-up queue: what was woken runs before the next
message. `dispatch` is the coroutine that `connect_once` forks. The server executes
the commands of a connection in order; a connection can be refused or break with
responses under way, and what arrived before stays in the read buffer. Its close is
reported before the next connection opens, because one socket thread does both. The
server may answer any command with an error, the SELECT of the authentication too:
the connection then stays open for the others, or `connect_once` closes it, with the
yields of `socket.close` (`AuthClose`, `AuthClosed`). A bulk response is read in two
steps, its header and its body, and may arrive in two messages (`Part`, then
`Data`); the dispatch thread waits between them. `Accounts` says which responses are
bulk. Init is the channel before its first connect. A connection that breaks in the
authentication, a caller that is popped by the dispatch thread after another
caller's write failed (`__sock` is `false` then, reading raises, and the error path
is taken), and callers that wait while another one connects are all reached. `cut`
is a history variable: a part of a response came for a reader while a caller was in
`socket.close` of the same socket. The closer then removes the socket under the
reader, which never wakes again, and `connect_once` waits for it for ever
(`AwaitDispatch`, `Awaited`); `BufferKept` says that this does not happen, and is
violated (see Findings). `ConnectAlone` includes
that without such a cut the loop of `connect_once` that waits for the old dispatch
thread never has to wait. `block_connect` wakes the waiters with `for i = 2,
#self.__connecting` on a table whose first entry is nil by then; that `#` still
counts the others depends on how Lua finds the border, and the model takes it as
they all are woken.

In `Accounts` an agent handles one message of its client as the sequence of
redis commands and generator calls of `on_register` or `on_login`. An error of
the channel is raised through redisd to whoever called and ends the handler. A
disconnect ends the agent at any point, while its calls go on. One connection
stands for the ten of redisd: a command is atomic in the server anyway. Agents
move between the slices of redisd, with which their steps commute. A client sends
its message again only after an error.

## Runs

| Run | Instance | Shows |
|---|---|---|
| `service` | 2 services, 1 greedy worker, 1 other thread, 2 messages | `CountsExact`, `NoUseAfterFree`, `QueueOwned`, `SerialDispatch`, `EveryMessageHandled`, `KilledIsReclaimed` |
| `service_launch` | 1 service, 1 worker, 1 other thread | violation of `LaunchUsesLiveContext` |
| `primitives`: the lock | 4 threads | `Exclusion`, `WriterGetsIn`, `SomeoneGetsIn` |
| `primitives`: the ring buffer | 2 messages, initial size 2, threshold 1 | `OverloadDoubles`, `ImplementsFifo` |
| `primitives`: the wheel | 2 timers, all delays, 5-bit clock, up to 2 ticks at once | `OnTime`, `SameTickOrder`, `EveryTimerFires` |
| `handle_table` | 4 contexts, 3 launchers, 3 handles, 1 slot at first, 2 names | `Findable`, `AbortComplete`, `NamesSound`, `RehashCauses`, `NamesDropped` |
| `handle_rehash` | 3 contexts, 3 launchers | violation of `RehashAssert` |
| `worker_pool` | 3 workers | `SleepCount`, `NoneAsleepAfterQuit`, `WorkIsTaken`, `AllThreadsEnd` |
| `socket_server` | 2 workers, 1 slot, 2 ids, 2 packets of 2 units, 1 start, close or shutdown | `PacketsAccounted`, `RightSocket`, `StreamIntact`, `EventsSound`, `EverySendSettles` |
| `socket_reserve` | 2 workers, 1 slot, 2 ids, no packets, 2 closes | violation of `Asserts` |
| `socket_close` | as `socket_server`, with 1 id and 1 packet | violation of `CloseReported` |
| `lua_queue` | 3 coroutines, 1 peer, 3 sessions, 1 request, section entered twice, 1 pending wake-up by the application | `SchedulerSound`, `AnsweredOnce`, `OneInside`, `HandedOver` |
| `service_directory` | 3 clients (2 ask a manager, 1 the launcher itself), 2 nodes, 1 name, 2 services | `NothingLost`, `Unique`, `RequestsEnd` |
| `accounts` | 2 agents (register; register the same or another name, or log in), 2 connections, 1 fault | `Matched`, `ConnectAlone`, `AccountsSound`, `LostName`, `HandlersEnd` |

Bounds. In `service` two services and two threads are enough for a sender, a killer
and a dispatcher to meet on one service while a second one is being launched. With
one worker no two dispatchers meet in this instance; the safety properties are
proved for any number of workers, and the same run with two workers, another thread
and one message (96,470 states) passes as well. In `handle_table` four contexts
double a table of one slot twice, three handles wrap, and three launchers are needed
for the failing assertion. In the timer all phases of the clock occur because time
goes on for ever and wraps. In `socket_server` one slot makes every new id a reuse;
two packets let one sender overtake itself or two senders meet, and two units let a
write stop inside a packet. Three packets are out of reach. In `lua_queue` one
coroutine is inside, one is handed the section, and a third arrives in between. A
coroutine that the application wakes twice needs `MaxWakeup = 2`; that instance has
7.7 million states and passes too, and the proofs cover it. In
`service_directory` two clients meet at one name, on one node or on two, and the
third launches besides them. In `accounts` one fault reaches every error path, since
a connection can break, and a command be refused, at every point; the safety
properties also pass with two faults (3.0 million states).

Deadlock is checked only where the system must not stop (lock, timer, queue,
threads). A node whose services are idle and whose bounds are used up may stop,
and so may a program that died in an assertion.

Fairness. `ServiceCore` assumes that every thread goes on with the function it is in
and that callbacks and init functions return; it never assumes that service code
sends, kills or launches. The lock assumes the same of threads that spin or hold it.
`WorkerPool` assumes strong fairness of workers and timer because they compete for a
mutex that is free again and again. The socket thread finishes what follows a poll;
no event has to come, and only the exit command is sure to be read in the end
(strong fairness of `PollExit`: the command is in the pipe and other events cannot
hide it for ever). An event that is pushed without a wake-up is taken because the
timer thread wakes a worker when all of them sleep. `TimerWheel` assumes that the
timer thread is scheduled and the clock goes on. `SocketServer` assumes that workers
finish their calls, that the socket thread executes commands and handles the events
it has, and that a socket registered for writing becomes writable again and again or
fails. `ServiceDirectory` assumes that messages between services arrive, that the
launcher and the managers handle theirs, and that start functions return or fail; no
client has to ask, nothing has to be killed, and no service has to exit. `Accounts`
assumes that redisd and the agents handle their messages, that redis executes what
arrived, and that a connection that broke is reported; nothing has to break, no
command has to be refused, and no response has to come in parts. `LuaQueue` has no
fairness: its properties about progress are stated for the moment at which a message
is dispatched completely.

## Findings

1. `service_launch`: after its release, `skynet_context_new` writes
   `ctx->init`, logs through `ret` and returns it, and `cmd_launch` reads its
   handle, all without a reference. A service that exits in its first message,
   or is killed by one it told its address in init, is freed meanwhile.
2. `socket_close`: a close that finds nothing to write but a packet on its way
   in the pipe half closes the socket. The packet is dropped when it arrives,
   and no SOCKET_CLOSE follows unless the peer closes, although the comment at
   `socket_server.c:1014` says that it will be sent later.
3. `handle_rehash`: `ctx->handle` is 0 between registration and store. If another
   launch doubles the table then, such contexts are rehashed to slot 0: the second
   one fails `assert(new_slot[hash] == NULL)` at `skynet_handle.c:64`, and a first
   one is misplaced and not found.
4. `socket_reserve`: between the CAS and the store of `reserve_id` a slot has the
   type RESERVE and the old id. A command for the old id that the socket thread
   takes then passes its tests, and `assert(s->type != SOCKET_TYPE_RESERVE)` in
   `force_close` (`socket_server.c:418`) fails. A packet for the old id is queued on
   the reserved slot the same way, and `new_fd` then fails on its lists (`:459`); an
   event of the old socket that is left in the batch meets `force_close`.

Two more comments are contradicted by what the models do. No run of the project
is about them; TLC finds a counterexample when the definition named here is added as
an INVARIANT.

- `NoForkAfterExit`, to `LuaQueue.cfg`: `skynet.exit` clears `fork_queue` ("no fork
  coroutine can be execute after skynet.exit", `skynet.lua:297`), but coroutines that
  are resumed after it, by an outer `suspend` or by a message that was in the queue,
  fork again, and the forks run.
- `BufferKept`, to `Accounts.cfg`: the comment at `socket.lua:34` says that
  `socket.close` waits for the last operation on the buffer. The first part of a bulk
  response wakes the reader and the closer (`:36`); the reader waits again, the closer
  removes the socket (`:248`), and the channel's dispatch thread, for which
  `connect_once` waits in a loop (`socketchannel.lua:277`), never ends: the channel
  does not connect again. `HandlersEnd` excepts this case.

## Observations

What the code does without breaking an assertion, a comment or a test of the
repository. The first group is part of the models, the exceptions of their
properties; the second was read and not modelled.

- `skynet_handle.c:44`: at the wrap of `handle_index` the scan skips handle 0;
  a table whose only free slot is slot 0 is doubled, and NULL is dereferenced.
- `socket_server.c:419`, `:1570`: the races `cut` and `overtaken` described above.
- `socket_server.c:1320`: `report_connect` tests for data and then turns the write
  event off. The rest of an overtaken direct write that comes in between waits in
  a socket that is not registered for writing; `EverySendSettles` excepts it.
- `skynet.lua:300`: after an exit the error of a coroutine that is resumed once more
  answers its request a second time (`:170-177`), and failed calls or wake-ups may
  stay in their queues, because the `suspend` of the exit leaves without them.
- `skynet.lua:298`: a service that exits is forgotten by launcher and manager before
  it is dead; the next instance of a unique service may start in between.
- `manager.lua:12`: a service that is killed by name while it starts leaves its
  launcher waiting for ever.
- `service_mgr.lua`: on a node that is not standalone, a query for a global name
  makes a later launch there wait behind it. A manager keeps the handle of a
  unique service that has ended.
- `login_msg.lua:49`: login tests a name with SADD. A login with an unknown name
  takes it, and its registration fails from then on.
- `login_msg.lua:18`: an error or a disconnect between SADD and HSET leaves a
  name without record. `LostName` says that these are the only ways.
- `login_msg.lua:69`: one between SET and EXPIRE leaves a token that does not
  expire.

Not modelled:

- `generatord.lua:14`: the index of a token shares a number with the time and is
  not limited to the 20 bits left for it. `redisd.lua:43` calls `reconnect`, a
  local function that is defined further down, so the call finds nil.
- `nodeserver.lua:37`: disconnect publishes the wrapper `{info, tm}` and not
  what connect published, so `gamemgrd` keeps a dead node. `nodeserver.lua:56`
  traverses `data` with yields while pings insert keys. `controlclientd.lua:46`
  loses the gate's address after a second connect.
- `examples/watchdog.lua:14`: a socket that closes while its agent is launched
  leaves the agent behind.
- `skynet_timer.c:272`: ticks that were missed are applied after the clock that
  services read was advanced, so a timer set meanwhile fires early by as much.
- `skynet_handle.c:235`: a name can be given to a handle that is retired.

## Proofs

`ServiceCoreProofs` proves `TypeCorrect` (`Spec => []TypeOK`) for all finite
sets of services and threads. `TypeOK` is not inductive: whether a pointer that
a step follows is a service depends on the point the thread has reached. The
strengthening `Control` says which local pointer is set at which point of each
function, and that a worker's context and queue belong to the same service
while it dispatches. The proof has one lemma per group of actions.

Its second layer proves `RefCountExact`
(`Spec => []RefCount`). The count alone is not inductive: a step that counts a
reference must find the context allocated, and the step that frees it must find
no reference left. So `RefInv` adds `HoldsLive` (the handle table, the
reservation and every counted pointer refer to allocated contexts) and
`DeletesLast` (a thread inside `delete_context` is the only one there for that
context, and nothing refers to it). Every action has one of seven effects on
the references (none, a grab, a release, a retire, a launch, a reservation, a
free); one lemma per effect does the counting, and the rest shows which action
has which effect.

Its third layer adds the queues and proves every other safety property of
`service`:

| theorem | property |
|---|---|
| `MemorySafe` | `NoUseAfterFree` |
| `QueueInOnePlace` | `QueueOnce` |
| `NoQueueLost` | `NoLostQueue` |
| `MarkedOnce` | `ReleaseOnce` |
| `OneThreadPerService` | `SerialDispatch` |
| `TotalExact` | `TotalCounts` |
| `DeadGetsNothing` | `NoPushToDead` (an action property) |
| `CountsCorrect` | `CountsExact`: `RefCount` and `TotalCounts` |
| `QueueLifeCorrect` | `QueueOwned`: `QueueOnce`, `NoLostQueue` and `ReleaseOnce` |

The strengthening `QueueInv` has four parts. `QueueLife`: a queue is allocated
with its context, and `release` is set exactly when the context is freed or a
thread is about to free it, so whoever holds a reference finds an unmarked
queue. `QueueFlags`: `in_global` or `release` is set exactly when the queue has
an owner (the list or a thread), and a queue without `in_global` is empty; this
is why `skynet_mq_mark_release` may list a sleeping queue and leave `in_global`
at 0.
`QueueOnce` itself. `DrainsMarked`: only a marked queue is drained. Again there
is one lemma per effect (push, pop, mark, free, create, sleep, release, and
four ways for a queue to change hands). `InitKnown`, the last layer, says that a
registered context without `init` still has its queue inside
`skynet_context_new`; a worker that owns the queue therefore finds `init` set.

`MessageQueueProofs` proves `RingIsFifo` (`Spec => ImplementsFifo`, the refinement
of `Fifo`) and `WarningDoubles` (`Spec => []OverloadDoubles`) for every set of
messages, every initial size and every bound on the growth. Each step is mapped
to a push, a pop or a stutter of the sequence from `head` to `tail`; one lemma
shows that a write at `tail` appends, one that the array copied from `head` holds
the same sequence, one that a step of `head` takes the first message. They rest
on the types of the array and its indices, and on growth at the moment the array
is full, so that `head = tail` can only mean empty. For the warning the invariant
adds that the threshold never falls below `MQ_OVERLOAD`. The loop that doubles it
is the least number of doublings that reaches the length, and the factor a
recursive function, `Factor`; that it is well defined and grows beyond every
number is proved by well-founded induction over sets of numbers.

`WorkerPoolProofs` proves `SleepCountExact` (`Spec => []SleepCount`) and
`NoneLeftAsleep` (`Spec => []NoneAsleepAfterQuit`) for every finite set of
workers. `QuitIsFinal` makes the second one inductive: `quit` is set exactly when
the timer thread has left, and nobody waits from then on, because a worker tests
`quit` and starts to wait under the mutex under which the timer thread sets it
and broadcasts. The count is kept by a lemma about one worker that moves and one
about all that are woken; the types need bounds on `work` and `total` that follow
what was pushed.

`LuaQueueProofs` proves the safety properties of `lua_queue`, for any sets of
coroutines and services and any bounds, until the service exits (`exited = 0`), and
that the step of the exit leaves no caller without an answer:

| theorem | property |
|---|---|
| `SchedulerIsSound` | `SchedulerSound`: the types, `TablesAgree`, `ResumeSound`, `QuietIsDrained` |
| `EveryoneAnsweredOnce` | `AnsweredOnce` (an invariant and an action property) |
| `SectionExclusive` | `OneInside` |
| `NoHandOverLost` | `HandedOver` |

The inductive invariant has three layers. `SchedulerInv`: a suspended coroutine
is bound to its session and to no other (`Bound`, `BoundOnce`); a session in the
table belongs to a coroutine that waits for it or to a timer that was cut short
(`Held`); a session in `error_queue` is a call whose answer will not come
(`ErrorsWait`); unless something was woken twice, everyone in `wakeup_queue`
sleeps (`WakeupsSleep`); and `Drained` says for each point of the main thread
which queues are empty behind it. `Kept`: a request is with exactly one
coroutine or response function until it is answered, forgotten or cancelled.
`SectionInv`: `ref` is the number of calls of the holder (`Counted`), and the
waiters are those of `thread_queue` and the one that was handed the section,
which is in `wakeup_queue` (`Queued`). None of the four properties is inductive
without these; `HandedOver` needs all three layers, because a hand-over is kept
by the wake-up queue alone until the new holder is resumed. The proof has one
lemma per action and layer. TLC checks `IInv` on the instance of `lua_queue` too.

`HandleStorageProofs` proves all properties of `handle_table`:

| theorem | property |
|---|---|
| `EveryoneFound` | `Findable` |
| `PassIsComplete` | `AbortComplete` |
| `RehashCausesKnown` | `RehashCauses` |
| `NamesAreSound` | `NamesSound` |
| `NamesGoWithService` | `NamesDropped` (an action property) |

The invariant of the table: its size divides `HANDLE_MASK + 1`; a context is in one
slot (`OnePlace`); one that has its handle, and did not stray, is in the slot of
that handle (`InPlace`); one that waits for it has handle 0 and is in the slot of
the handle it will get (`Launching`); and a pass of `skynet_handle_retireall` that
has retired nothing so far has all its contexts still before it (`PassSound`).
The last part survives an expansion because the remainder modulo twice the size is
never smaller than the one modulo the size. Two lemmas say which slots the scan of
`skynet_handle_register` tries: all of them, or all but slot 0 when it wraps. With
the pigeonhole argument they show that the scan of a doubled table finds a slot,
so the loop of the code runs at most twice; for a table of one slot this needs
`LastOnly`. The search is a recursive function over its rounds: `Recursion`
derives such functions from the induction over sets of numbers, and
`RoundNarrows` is the loop invariant of the binary search.

The lock of the table is proved in the same module, which extends `RwLock` too:
`MutualExclusion` (`LockSpec => []Exclusion`), `ReadCountExact`
(`LockSpec => []ReadCount`) and `LockTypeCorrect`, for every finite set of
threads. The inductive invariant adds to the types that `write` is 1 exactly while a
thread is in `wwait` or `writing`, that there is at most one such thread, and that no
reader has passed its second test while a writer writes. It is needed because
exclusion alone says nothing of a reader between its increment and its test.

`ServiceDirectoryProofs` proves the safety properties of `service_directory`, for any
sets of clients, names and managers: `NoRequestLost` (`Spec => []NothingLost`) and
`UniqueIsUnique` (`Spec => []Unique`). Both count, and the counts are not inductive.
The invariant says instead where things are. `HeldInv`: a client is in the table of
the name and the manager it asked (`AtHome`) and in no other, except that of Master
(`Places`); one that launches on another node has one call behind it, which is on its
way, in the table of Master, or answered (`CallOut`, `CallOnce`, `CallBehind`); an
answer goes to a manager where its client launches, so `request` always finds its
table (`AnswersHeld`). `LaunchInv`: whoever waits for the launcher is in its mailbox,
in `instance` or answered, once, and under the name for which Master launches.
`LifeInv`: what the messages in the mailbox say of the lives of services; a REMOVE
comes from a service that has ended, and a launch nobody has confirmed has a service
that starts and is not being killed, or a message under way (`Heard`, stronger than
`ConfirmationComes`, because a killed service may still finish its start). `UniqueInv`:
a unique service that is alive is still being launched, or Master has it or is about
to, or the launch failed for good (`Known`), which is why a second one is not launched
while it serves (`Single`; a service that has sent its REMOVE serves no more); and
every handle given out, known to a manager or on its way to one is the
one Master has (`Same`). The proof has lemmas about what a step does to the tables, to
the requests, to the answers and to the two kinds of messages, and one lemma per action
and layer on top of them.

`SocketServerProofs` proves three of the safety properties of `socket_server`, for any
finite set of workers and any numbers of slots, ids, packets and units in a packet,
as the properties are stated: as long as no slot was torn. The theorem behind them is
`Spec => [](~torn => IInv)`:

| theorem | property |
|---|---|
| `Accounting` | `PacketsAccounted`: `SendingExact` and `BufferOnce` |
| `NoMixUp` | `RightSocket` |
| `Soundness` | `EventsSound`: the types, `Asserts`, `LowUntouched`, `NoInvalidEvent` |

The inductive invariant `IInv` says what the slots, the workers and the pipe know of
each other. `Control`: a slot without a socket has no buffers (`Slotted`); a worker
sends to an id that was reported, reserves one that was not, and past the locked
test of the id the slot still has it or the packet was overtaken (`Working`); a
command is about a known id or opens a reserved one (`Asked`); a slot is reserved by
one worker or one command (`Alone`); and an event is left on a slot without socket
only between the close by a command and `clear_closed_event` (`Closing`). `Queued`:
the units in `dw_buffer`, `high` and `low` are whole rests of distinct packets, those
in `low` begin with the first unit, and all are for the id of the slot or overtaken.
`Ownership`: a packet is freed or has exactly one place; it is stated with the place as
a witness, so that a step is a move from one place to another. `SendingExact` is
inductive only with them: a count survives the reuse of its slot because no packet
can be under way for an id that nobody was told. The lemmas at the bottom are about
sequences of units (what a write of k units leaves and finishes); above them one
lemma for each effect on a slot, on the wire and on the pipe, and one per action. TLC
checks `IInv` on the instance of `socket_server` too.

`AccountsProofs` proves the safety properties of the channel first, for any callers,
connections and commands and any number of faults: `ResponsesMatched` (`Spec =>
[](cut \/ Matched)`) and `ConnectsAlone` (`Spec => [](cut \/ ConnectAlone)`). Once a
response was cut in two by a close, the channel is on its way to the state in which
nothing is read any more (`BufferKept` is violated), and the orders below do not
survive; TLC checks the properties there too. The code matches responses by order
alone, so the invariant `CInv` has to say that two orders stay the same: on the
channel's connection, and on the one the dispatch thread still reads, the responses
that arrived, those under way and the commands written are, in this order, those of
the callers in `__thread`, behind the one the dispatch thread reads for (`InOrder`);
and while the connection works there are as many. Everything else is what keeps this
true when connections change. `Connects`: the first of `__connecting` connects or
authenticates, the others sleep. `Net`: a connection is free, being made, the
channel's, or being closed by a caller, and at most one is each of these.
`Dispatches`: the dispatch thread is there as long as there is a connection, and
before the next one is used it has ended, is about to take the close signal, or
reads a connection that is being closed (the reader and the closer are woken
together, and a reader that finds nothing to read fails its request before the
closer runs; this is where a part of a response would let it wait again).
`Authenticates`: while a caller authenticates, nobody else waits or writes.
`Scheduled`: who runs and who was woken; the channel relies on wake-ups being taken
in order. TLC checks `CInv` on the instance of `accounts` too.

On top of it the module proves `ClientsToldTrue` (`Spec => [](cut \/
AccountsSound)`) and `NamesAccounted` (`Spec => [](cut \/ LostName)`), for any
agents, names, passwords and messages. The invariant `AInv` of the agents does not
look into the channel: it uses the phase of a request, which is not written yet
(`Pre`), in flight (`InFlight`) or executed with an answer (`Answered`), or lost.
`CInv` makes the phases exclusive and the answer unique, and every step of the
channel is `Calm`: it moves requests on, never makes or exchanges an answer, and may
lose one; only `Execute` turns a request in flight into an answered one. Then `AInv`
is about agents, generator and data base. `Section`: whoever uses redis for the
generator is alone inside its queue. `Tickets`: SADD answers 1 to one registration
of a name only, and until its HSET is executed the name has no record, so a client
that sends its message again after an error finds the name taken and cannot replace
a record. `Told`: an answer that is on its way to an agent is still true when it
arrives, because nobody else may have changed what it says (only a record that HGET
did not find may be there by then). `Uuids`: numbers of records and of handlers that
have one are different and not above the counter, and strictly below it while a
number is between INCR and its handler; the two commands of CMD.uuid make this the
part that needs the queue. `Logins`, `Tokens` and `LostNames` lead to the two
properties. `AInv` also shows that the branch of `on_register` in which HSET answers
0 and SREM gives the name back is never taken: no handler is ever at `srem`. TLC
checked it too on the instance of `accounts`, with the quantifiers over answers
bounded.

Assumed of the constants: the sets of threads, workers and services are finite,
workers are threads and none is one of the node's three other threads, the model
values for "none" are no members of the sets they are used with, bounds are
natural numbers, and sizes, thresholds and the bound on nested calls of a section
are not 0; for the handle table, that `HANDLE_MASK + 1` is a power of two greater
than 2 that the initial size divides; for the channel, that there are two socket ids
(one closes while the next one opens); for the accounts, that the messages of a client
are registrations and logins.

Only model-checked: all liveness properties (fairness is out of the prover's
reach), and so far everything about `TimerWheel` (`OnTime` needs facts about the
bits of a time at every level), and `StreamIntact` of `SocketServer`, which needs an
order of the units of a packet over pipe, buffers and wire on top of `IInv`. For
`Matched`, `ConnectAlone`, `AccountsSound` and `LostName` the states after a cut, and
for the types, `TablesAgree` and the exclusion of `OneInside` those after an exit.

## Plan

The next proofs are `StreamIntact` and the properties of the timer wheel.

## Not modelled

- Node links: `game_main.lua` starts neither `nodeclient` nor `controlclientd`
  at this commit, so no game node ever enters the list that the control node
  keeps; the flaws above are plain in single handlers. Game agents have no
  handlers yet.
- Endless-loop monitor: it writes a log line and a flag that STAT reports.
- Harbor: the application's nodes run with `harbor = 0` and use cluster.
  Cluster, gate, multicast, shared data: left to later work. The channel in
  session mode, which cluster uses, matches by number and not by order.
- Codecs and data base drivers (byte formats without concurrency), loader,
  logging, environment and daemon code (input and output).
- Vendored libraries. Lua, jemalloc, lpeg and md5 are most of the repository's
  lines, so the map covers a small part of them all, and most of the files named
  in the modules table.
