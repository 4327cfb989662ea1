------------------------------ MODULE Accounts ------------------------------
(***************************************************************************)
(* Registration and login (login/login_msg.lua) over the redis channel.    *)
(* An agent handles one message of its client: a sequence of redis         *)
(* commands, with calls of the generator service in between, which runs    *)
(* its handlers in a skynet.queue (service/generatord.lua).  An error of   *)
(* the channel is raised in redisd, comes back to whoever called, and ends *)
(* the handler with nothing undone.  A client that disconnects makes its   *)
(* agent exit at any point; the calls it made go on without it.            *)
(*                                                                         *)
(* One redis connection stands for the ten of redisd: a command is atomic  *)
(* in the server whatever connection brings it.  A token is its index      *)
(* part.  Left out: the clients' wire format, and what the control node    *)
(* answers beyond success or failure.                                      *)
(***************************************************************************)
EXTENDS SocketChannel

CONSTANTS
  Names,      \* account names
  Passwords,
  Messages    \* per agent: what its client may send

VARIABLES
  task,       \* per agent: the message it handles
  pc,         \* per agent: the next call of the handler
  uuid,       \* per agent: local variable of on_register and on_login
  token,      \* per agent: local variable of on_login
  outcome,    \* per agent: what its client is told, or how the handler ended
  left,       \* names with a handler that an error or a disconnect ended (history)
  section,    \* generatord: the callers in its queue, the first one is inside
  index,      \* generatord: local variable
  db          \* what redis stores

handlers == <<task, pc, uuid, token, outcome, left>>
generator == <<section, index>>
vars == <<svars, handlers, generator, db>>

Tasks == [kind : {"register", "login"}, account : Names, password : Passwords]
\* An account: what HSET stores.
Records == [password : Passwords, uuid : Nat]

ASSUME AccountsAssumption ==
  /\ None \notin Names \cup Passwords
             \cup {"registered", "logged_in", "refused", "error", "gone"}
  /\ None \notin Tasks /\ None \notin Records /\ None \notin Nat
  /\ Messages \in [Callers -> SUBSET Tasks]

AgentCommands == {"sadd", "hset", "srem", "hget", "set", "expire"}
GeneratorCommands == {"incr", "get"}

TypeOK ==
  /\ ChannelTypeOK
  /\ task \in [Callers -> Tasks \cup {None}]
  /\ pc \in [Callers -> AgentCommands \cup GeneratorCommands
                        \cup {"idle", "uuid", "token", "token_in", "balance", "end"}]
  /\ \A a \in Callers : uuid[a] \in Nat \cup {None} /\ token[a] \in Nat \cup {None}
  /\ outcome \in [Callers -> {None, "registered", "logged_in", "refused", "error", "gone"}]
  /\ begun \subseteq Conns /\ cut \in BOOLEAN
  /\ left \subseteq Names /\ section \in Seq(Callers) /\ index \in Nat
  /\ db.account_list \subseteq Names /\ db.account_cnt \in Nat
  /\ \A n \in Names : db.account[n] \in Records \cup {None}

Init ==
  /\ ChannelInit
  /\ task = [a \in Callers |-> None] /\ pc = [a \in Callers |-> "idle"]
  /\ uuid = [a \in Callers |-> None] /\ token = [a \in Callers |-> None]
  /\ outcome = [a \in Callers |-> None] /\ left = {}
  /\ section = <<>> /\ index = 0
  /\ db = [account_list |-> {}, account_cnt |-> 0, account |-> [n \in Names |-> None]]

-----------------------------------------------------------------------------
(* Redis (external).                                                       *)

\* A response is a number (0 for OK), or the record of an account.
Number(n) == [number |-> n, info |-> None]
Bit(b) == Number(IF b THEN 1 ELSE 0)
Reply(c) ==
  CASE c.op \in {"select", "set", "expire", "srem"} -> Number(0)
    [] c.op = "sadd" -> Bit(c.account \notin db.account_list)
    [] c.op = "hset" -> Bit(db.account[c.account] = None)
    [] c.op = "hget" -> [number |-> 0, info |-> db.account[c.account]]
    [] c.op = "incr" -> Number(db.account_cnt + 1)
    [] c.op = "get" -> Number(db.account_cnt)
Stored(c) ==
  CASE c.op = "sadd" -> [db EXCEPT !.account_list = @ \cup {c.account}]
    [] c.op = "srem" -> [db EXCEPT !.account_list = @ \ {c.account}]
    [] c.op = "hset" -> [db EXCEPT !.account[c.account] = c.info]
    [] c.op = "incr" -> [db EXCEPT !.account_cnt = @ + 1]
    [] OTHER -> db

\* The server executes the next command of a connection, or refuses it.
Execute(k) ==
  /\ written[k] # <<>>
  /\ LET c == Head(written[k]).cmd IN Serve(k, Reply(c)) /\ db' = Stored(c)
  /\ UNCHANGED <<handlers, generator>>
\* A bulk reply has two parts, the line with its length and the value.
Bulk(r) ==
  /\ r.is = "ok"
  /\ \/ r.to.cmd.op = "get"
     \/ r.to.cmd.op = "hget" /\ r.value.info # None
BulkNext(k) == replies[k] # <<>> /\ Bulk(Head(replies[k]))

-----------------------------------------------------------------------------
(* The handlers.                                                           *)

Gone(a) == outcome[a] = "gone"

\* A message of the client: its first one, or another after an error.
Receive(a, t) ==
  /\ pc[a] \in {"idle", "end"} /\ outcome[a] \in {None, "error"}
  /\ task' = [task EXCEPT ![a] = t]
  /\ pc' = [pc EXCEPT ![a] = "sadd"]
  /\ uuid' = [uuid EXCEPT ![a] = None] /\ token' = [token EXCEPT ![a] = None]
  /\ outcome' = [outcome EXCEPT ![a] = None]
  /\ UNCHANGED <<svars, left, generator, db>>

\* The section of generatord is a's.
InsideAlways(a) == TRUE
Inside(a) == Head(section) = a

\* dbmgr: the call, sent when pc came here, arrives at redisd.
Info(a) == [password |-> task[a].password, uuid |-> uuid[a]]
Call(a) ==
  /\ \/ pc[a] \in AgentCommands
     \/ pc[a] \in GeneratorCommands /\ Inside(a)
  /\ Request(a, [op |-> pc[a], account |-> task[a].account,
                 info |-> IF pc[a] = "hset" THEN Info(a) ELSE None])
  /\ UNCHANGED <<handlers, generator, db>>

\* The handler ends: its client is told, or nothing is done.
End(a, how) ==
  /\ pc' = [pc EXCEPT ![a] = "end"]
  /\ outcome' = [outcome EXCEPT ![a] = IF Gone(a) THEN "gone" ELSE how]
  /\ left' = IF how = "error" THEN left \cup {task[a].account} ELSE left
Then(a, next) ==
  /\ pc' = [pc EXCEPT ![a] = IF Gone(a) THEN "end" ELSE next]
  /\ UNCHANGED <<outcome, left>>

\* A response of redis, taken by on_register or on_login; by CMD.uuid.
Answer(a) == result[a].value.number
Found(a) == result[a].value.info
RegisterGoesInverted(a, n) == IF n = 1 THEN End(a, "refused") ELSE Then(a, "uuid")
RegisterGoes(a, n) == IF n = 0 THEN End(a, "refused") ELSE Then(a, "uuid")
AfterSadd(a) ==
  IF task[a].kind = "register"
  THEN RegisterGoes(a, Answer(a))
  ELSE IF Answer(a) = 1 THEN End(a, "refused") ELSE Then(a, "hget")
AfterHset(a) ==
  IF Answer(a) = 0 THEN Then(a, "srem") ELSE End(a, "registered")
PasswordOk(a, info) == info.password = task[a].password
AfterHget(a) ==
  IF Found(a) = None \/ ~PasswordOk(a, Found(a))
  THEN End(a, "refused")
  ELSE Then(a, "token")

Return(a) ==
  /\ at[a] = "done" /\ pc[a] \in AgentCommands /\ result[a] # Error
  /\ CASE pc[a] = "sadd" -> AfterSadd(a)
       [] pc[a] = "hset" -> AfterHset(a)
       [] pc[a] = "srem" -> End(a, "refused")
       [] pc[a] = "hget" -> AfterHget(a)
       [] pc[a] = "set" -> Then(a, "expire")
       [] pc[a] = "expire" -> Then(a, "balance")
  /\ uuid' = IF pc[a] = "hget" /\ Found(a) # None
             THEN [uuid EXCEPT ![a] = Found(a).uuid] ELSE uuid
  /\ Taken(a)
  /\ UNCHANGED <<task, token, generator, db>>
Raise(a) ==
  /\ at[a] = "done" /\ pc[a] \in AgentCommands /\ result[a] = Error
  /\ End(a, "error")
  /\ Taken(a)
  /\ UNCHANGED <<task, uuid, token, generator, db>>

\* generatord: a call enters its queue.
Enter(a) ==
  /\ pc[a] \in {"uuid", "token"}
  /\ pc' = [pc EXCEPT ![a] = IF pc[a] = "uuid" THEN "incr" ELSE "token_in"]
  /\ section' = Append(section, a)
  /\ UNCHANGED <<svars, task, uuid, token, outcome, left, index, db>>

\* CMD.uuid takes a response, and leaves with the number or with an error.
Generate(a) ==
  /\ at[a] = "done" /\ pc[a] \in GeneratorCommands
  /\ \/ /\ result[a] # Error /\ pc[a] = "incr"
        /\ pc' = [pc EXCEPT ![a] = "get"]
        /\ UNCHANGED <<uuid, outcome, left, section>>
     \/ /\ result[a] # Error /\ pc[a] = "get"
        /\ uuid' = [uuid EXCEPT ![a] = Answer(a) * 4095]
        /\ section' = Tail(section)
        /\ Then(a, "hset")
     \/ /\ result[a] = Error
        /\ section' = Tail(section)
        /\ End(a, "error")
        /\ UNCHANGED uuid
  /\ Taken(a)
  /\ UNCHANGED <<task, token, index, db>>

\* CMD.token.
Token(a) ==
  /\ pc[a] = "token_in" /\ Inside(a)
  /\ token' = [token EXCEPT ![a] = index]
  /\ index' = index + 1
  /\ section' = Tail(section)
  /\ Then(a, "set")
  /\ UNCHANGED <<svars, task, uuid, db>>

\* The control node answers, with a gate or without.
Balance(a) ==
  /\ pc[a] = "balance"
  /\ \E how \in {"logged_in", "refused"} : End(a, how)
  /\ UNCHANGED <<svars, task, uuid, token, generator, db>>

\* CMD.disconnect of the agent, at any time.
Disconnect(a) ==
  /\ pc[a] \notin {"idle", "end"} /\ ~Gone(a)
  /\ outcome' = [outcome EXCEPT ![a] = "gone"]
  /\ left' = left \cup {task[a].account}
  /\ UNCHANGED <<svars, task, pc, uuid, token, generator, db>>

\* Steps of other services than redisd: they touch nothing that a slice of redisd
\* uses, so it is enough to let them happen between two slices.
Agent(a) ==
  Quiet /\ (Call(a) \/ Return(a) \/ Raise(a) \/ Enter(a) \/ Generate(a) \/ Token(a) \/ Balance(a))
Client(a) == Quiet /\ ((\E t \in Messages[a] : Receive(a, t)) \/ Disconnect(a))

Apart == UNCHANGED <<handlers, generator, db>>
Redisd == ((\E a \in Callers : Caller(a) \/ Opening(a) \/ Awaited(a)) \/ Dispatch) /\ Apart
Report(k) == ((BulkNext(k) /\ Part(k)) \/ Data(k) \/ CloseMessage(k)) /\ Apart
Fault(k) == (Break(k) \/ Refuse(k)) /\ Apart

Next ==
  \/ \E a \in Callers : Agent(a) \/ Client(a)
  \/ Redisd
  \/ \E k \in Conns : Execute(k) \/ Report(k) \/ Fault(k)

\* Each service handles its messages in time, the server answers and the socket
\* thread reports; nothing has to break.
Fairness ==
  /\ WF_vars(Redisd)
  /\ \A a \in Callers : WF_vars(Agent(a))
  /\ \A k \in Conns : WF_vars(Execute(k)) /\ WF_vars(Report(k))

Spec == Init /\ [][Next]_vars /\ Fairness

-----------------------------------------------------------------------------
\* Accounts have different numbers: INCR and GET are two commands, and other
\* registrations run between them unless the queue of generatord keeps them out.
UuidUnique ==
  \A m, n \in Names : m # n /\ db.account[m] # None /\ db.account[n] # None
                      => db.account[m].uuid # db.account[n].uuid

\* A client that was told its registration succeeded owns the account: the record
\* has its password and its number, whatever connections broke and whoever else
\* registers the name.
Registered ==
  \A a \in Callers : outcome[a] = "registered" => db.account[task[a].account] = Info(a)

\* A client that was told its login succeeded gave the password of the record, and
\* its token belongs to nobody else.
LoginSound ==
  \A a \in Callers : outcome[a] = "logged_in" =>
    /\ db.account[task[a].account] # None
    /\ db.account[task[a].account].password = task[a].password
    /\ \A b \in Callers \ {a} : token[b] # token[a]

\* What clients are told about accounts is true, and numbers are unique.
AccountsSound == TypeOK /\ UuidUnique /\ Registered /\ LoginSound

\* A name that is taken but has no record is being registered, or lost: its
\* registration failed or was left on the way, or a login asked for it.
LostName ==
  \A n \in db.account_list \ left : db.account[n] = None =>
    \E a \in Callers : /\ task[a] # None /\ task[a].account = n
                       /\ task[a].kind = "login" \/ pc[a] # "end"

\* Every handler ends, although connections break under its requests, others wait
\* for the same connection, and others fail or leave inside the generator; unless a
\* response was cut in two by a close, after which nobody connects any more.
HandlersEnd == \A a \in Callers : pc[a] = "sadd" ~> pc[a] = "end" \/ cut
=============================================================================
