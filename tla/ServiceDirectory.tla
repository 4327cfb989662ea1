-------------------------- MODULE ServiceDirectory --------------------------
(***************************************************************************)
(* Starting services by name: the launcher (service/launcher.lua), the     *)
(* unique services of service/service_mgr.lua on the standalone node       *)
(* (Master) and on other nodes, and what a new Lua service reports while   *)
(* it starts and ends (skynet.init_service, skynet.exit, skynet.kill and   *)
(* launch_cb).                                                             *)
(*                                                                         *)
(* The launcher has one mailbox and none of its handlers yields.  A        *)
(* service_mgr handler yields in its call and in skynet.wait; the waiters  *)
(* it wakes run before its next message (QuietIsDrained of LuaScheduler),  *)
(* so the end of a launch and the answers to all who wait are one step.    *)
(* Clients are coroutines of other services, with one request at a time.   *)
(* Managers other than Master are asked for global names only: for its own *)
(* names each is a Master.  Left out are snax services, LIST, STAT, MEM    *)
(* and GC, and launch_session, which has the entries of instance.          *)
(***************************************************************************)
EXTENDS Integers, Sequences, FiniteSets

CONSTANTS
  Clients, Names,
  Asking,            \* the clients that may ask a manager
  Direct,            \* the clients that may call skynet.newservice themselves
  Managers, Master,  \* the service_mgr of each node, and the standalone one
  MaxHandle,         \* bound on the services launched
  MaxAsk,            \* bound on the requests of a client
  MaxMail,           \* bound on the launcher's mailbox when a service ends
  None

Requests == [to : Managers \cup {"launcher"}, cmd : {"LAUNCH", "QUERY"}, name : Names]

ASSUME DirectoryAssumption ==
  /\ Asking \subseteq Clients /\ Direct \subseteq Clients
  /\ Master \in Managers /\ "launcher" \notin Managers
  /\ MaxHandle \in Nat /\ MaxAsk \in Nat /\ MaxMail \in Nat
  /\ None \notin Clients \cup Managers \cup Names \cup {"launcher"} \cup Requests

VARIABLES
  asked,     \* per client: its request, None when it has no open one
  asks,      \* per client: requests so far
  net,       \* clients whose request is on its way to Master, from its node
  back,      \* answers on their way to a manager
  service,   \* per manager and name: the entry of table service
  mailbox,   \* of the launcher
  instance,  \* per handle: who waits for the confirmation of its launch
  services,  \* the handles the launcher lists
  state,     \* per handle: the life of the service
  killing,   \* handles whose killer has not come to the KILL command yet
  name,      \* per handle: the unique service it is, None for others
  lost,      \* handles killed by name, which tells the launcher nothing
  given      \* per name: the handles that managers gave to clients

vars == <<asked, asks, net, back, service, mailbox, instance, services, state, killing,
          name, lost, given>>

Handles == 1 .. MaxHandle
Nil == 0      \* a nil answer, or an error that service_mgr turned into nil
Failed == -1  \* a call that raised an error
Answers == Handles \cup {Nil, Failed}

\* The entries of table service: nil, a handle, an error string, or the table
\* of those who wait, with the one who launches and the function it called.
NilEntry == [is |-> "nil"]
ErrorEntry == [is |-> "error"]
HandleEntry(h) == [is |-> "handle", handle |-> h]
Table(launch, func, waiting) ==
  [is |-> "table", launch |-> launch, func |-> func, waiting |-> waiting]
EmptyTable == Table(None, None, {})
Funcs == {"newservice", "LAUNCH", "QUERY", None}
Entries == {NilEntry, ErrorEntry} \cup {HandleEntry(h) : h \in Handles}
             \cup {Table(c, f, W) : c \in Clients \cup {None}, f \in Funcs,
                                    W \in SUBSET Clients}

Mails == [cmd : {"LAUNCH"}, client : Clients, name : Names \cup {None}]
           \cup [cmd : {"LAUNCHOK", "ERROR", "REMOVE", "KILLED"}, handle : Handles]

TypeOK ==
  /\ asked \in [Clients -> Requests \cup {None}]
  /\ asks \in [Clients -> 0 .. MaxAsk]
  /\ net \subseteq Clients
  /\ back \subseteq [to : Managers, client : Clients, answer : Answers]
  /\ service \in [Managers -> [Names -> Entries]]
  /\ mailbox \in Seq(Mails)
  /\ instance \in [Handles -> Clients \cup {None}]
  /\ services \subseteq Handles /\ killing \subseteq Handles /\ lost \subseteq Handles
  /\ state \in [Handles -> {"none", "init", "running", "leaving", "dead"}]
  /\ name \in [Handles -> Names \cup {None}]
  /\ given \in [Names -> SUBSET Handles]

Init ==
  /\ asked = [c \in Clients |-> None] /\ asks = [c \in Clients |-> 0]
  /\ net = {} /\ back = {}
  /\ service = [m \in Managers |-> [n \in Names |-> NilEntry]]
  /\ mailbox = <<>>
  /\ instance = [h \in Handles |-> None] /\ services = {}
  /\ state = [h \in Handles |-> "none"] /\ name = [h \in Handles |-> None]
  /\ killing = {} /\ lost = {} /\ given = [n \in Names |-> {}]

(* service_mgr.                                                            *)

\* The answer of manager m to those of C (an error is answered as nil too):
\* it ends their request, or goes to the manager whose waitfor_remote called m.
Ret(m, C, r, sent) ==
  LET home == {c \in C : sent[c].to = m}
      result == IF r = Failed THEN Nil ELSE r
  IN /\ asked' = [c \in Clients |-> IF c \in home THEN None ELSE sent[c]]
     /\ back' = (back \ {b \in back : b.to = m /\ b.client \in C})
                  \cup {[to |-> sent[c].to, client |-> c, answer |-> result] : c \in C \ home}
     /\ given' = [given EXCEPT ![sent[CHOOSE c \in C : TRUE].name] =
                     IF home # {} THEN @ \cup ({r} \cap Handles) ELSE @]

\* The function that waitfor is given, if any.
Func(m, cmd) == CASE m # Master -> cmd
                  [] m = Master /\ cmd = "LAUNCH" -> "newservice"
                  [] OTHER -> None

\* Somebody launches already, or nobody may.
MustWait(s, func) == s.launch # None \/ func = None

\* waitfor up to its yield, for client c that sent these requests.
Waitfor(m, c, cmd, n, sent) ==
  LET e == service[m][n]
      s == IF e.is = "nil" THEN EmptyTable ELSE e
      func == Func(m, cmd)
      Enter(t) == service' = [service EXCEPT ![m][n] = t]
  IN \/ /\ e.is \in {"handle", "error"}
        /\ Ret(m, {c}, IF e.is = "handle" THEN e.handle ELSE Failed, sent)
        /\ net' = net \ {c}
        /\ UNCHANGED <<service, mailbox>>
     \/ /\ e.is \in {"nil", "table"} /\ MustWait(s, func)
        /\ Enter([s EXCEPT !.waiting = @ \cup {c}])
        /\ net' = net \ {c}
        /\ asked' = sent
        /\ UNCHANGED <<mailbox, back, given>>
     \/ /\ e.is \in {"nil", "table"} /\ ~MustWait(s, func)
        /\ Enter([s EXCEPT !.launch = c, !.func = func])
        /\ mailbox' = IF m = Master
                      THEN Append(mailbox, [cmd |-> "LAUNCH", client |-> c, name |-> n])
                      ELSE mailbox
        /\ net' = IF m = Master THEN net \ {c} ELSE net \cup {c}
        /\ asked' = sent
        /\ UNCHANGED <<back, given>>

\* A client asks (uniqueservice, queryservice), and its manager gets to it.
Sent(c, to, cmd, n) ==
  [asked EXCEPT ![c] = [to |-> to, cmd |-> cmd, name |-> n]]
Ask(c, m, cmd, n) ==
  /\ c \in Asking /\ asked[c] = None /\ asks[c] < MaxAsk
  /\ asks' = [asks EXCEPT ![c] = @ + 1]
  /\ Waitfor(m, c, cmd, n, Sent(c, m, cmd, n))
  /\ UNCHANGED <<instance, services, state, killing, name, lost>>

\* skynet.newservice of a client.
NewService(c, n) ==
  /\ c \in Direct /\ asked[c] = None /\ asks[c] < MaxAsk
  /\ asks' = [asks EXCEPT ![c] = @ + 1]
  /\ asked' = Sent(c, "launcher", "LAUNCH", n)
  /\ mailbox' = Append(mailbox, [cmd |-> "LAUNCH", client |-> c, name |-> None])
  /\ UNCHANGED <<net, back, service, instance, services, state, killing, name, lost, given>>

\* The call of waitfor_remote arrives at Master.
Remote(c) ==
  /\ c \in net
  /\ Waitfor(Master, c, asked[c].cmd, asked[c].name, asked)
  /\ UNCHANGED <<asks, instance, services, state, killing, name, lost>>

\* request after its call, and those it wakes: all get the answer.
OutcomeRetries(r) == IF r \in Handles THEN HandleEntry(r) ELSE NilEntry
Outcome(r) == CASE r = Nil -> NilEntry [] r = Failed -> ErrorEntry [] OTHER -> HandleEntry(r)
WokenNone(s) == {}
Woken(s) == s.waiting

Returned(m) ==
  \E b \in back :
    LET n == asked[b.client].name
        s == service[m][n]
    IN /\ b.to = m /\ s.is = "table"
       /\ service' = [service EXCEPT ![m][n] = Outcome(b.answer)]
       /\ Ret(m, {b.client} \cup Woken(s), b.answer, asked)
       /\ UNCHANGED <<asks, net, mailbox, instance, services, state, killing, name, lost>>

-----------------------------------------------------------------------------
(* The launcher.                                                           *)

\* The response of c's LAUNCH: to the manager that launches, or to the client.
Respond(c, r) ==
  IF asked[c].to = "launcher"
  THEN asked' = [asked EXCEPT ![c] = None] /\ UNCHANGED back
  ELSE /\ back' = back \cup {[to |-> Master, client |-> c, answer |-> r]}
       /\ UNCHANGED asked

\* command.LAUNCH: skynet.launch gives a new service or fails.
LAUNCH(q) ==
  \/ \E h \in Handles :
       /\ state[h] = "none" /\ \A g \in 1 .. h - 1 : state[g] # "none"
       /\ state' = [state EXCEPT ![h] = "init"]
       /\ name' = [name EXCEPT ![h] = q.name]
       /\ services' = services \cup {h}
       /\ instance' = [instance EXCEPT ![h] = q.client]
       /\ UNCHANGED <<asked, back>>
  \/ /\ Respond(q.client, Failed)
     /\ UNCHANGED <<instance, services, state, name>>

\* Answer the launch of h with r, once.
Confirm(h, r) ==
  /\ IF instance[h] # None THEN Respond(instance[h], r) ELSE UNCHANGED <<asked, back>>
  /\ instance' = [instance EXCEPT ![h] = None]

LaunchOkUnheard(h) == UNCHANGED <<asked, back, instance, services, state, name>>
LAUNCHOK(h) == Confirm(h, h) /\ UNCHANGED <<services, state, name>>
ERROR(h) == Confirm(h, Failed) /\ services' = services \ {h} /\ UNCHANGED <<state, name>>
REMOVE(h, kill) ==
  /\ Confirm(h, IF kill THEN Failed ELSE Nil)
  /\ services' = services \ {h}
  /\ UNCHANGED <<state, name>>

Launcher ==
  /\ mailbox # <<>>
  /\ mailbox' = Tail(mailbox)
  /\ LET q == Head(mailbox)
     IN \/ q.cmd = "LAUNCH" /\ LAUNCH(q)
        \/ q.cmd = "LAUNCHOK" /\ LAUNCHOK(q.handle)
        \/ q.cmd = "ERROR" /\ ERROR(q.handle)
        \/ q.cmd = "REMOVE" /\ REMOVE(q.handle, FALSE)
        \/ q.cmd = "KILLED" /\ REMOVE(q.handle, TRUE)
  /\ UNCHANGED <<asks, net, service, killing, lost, given>>

-----------------------------------------------------------------------------
(* The services launched, and those who kill them.                         *)

Mail(cmds, h) == mailbox \o [i \in 1 .. Len(cmds) |-> [cmd |-> cmds[i], handle |-> h]]
Alive(h) == state[h] \in {"init", "running", "leaving"}
Becomes(h, s, cmds) ==
  /\ state' = [state EXCEPT ![h] = s]
  /\ mailbox' = Mail(cmds, h)
  /\ UNCHANGED <<asked, asks, net, back, service, instance, services, name, given>>

\* What a service does by itself: end of its start function, an error in it
\* (ERROR, then skynet.exit), an error of the loader in launch_cb, skynet.exit.
\* A service that ends tells the launcher first and is still there until its
\* EXIT command.
Reports(h, from, s, cmds) ==
  state[h] \in from /\ Becomes(h, s, cmds) /\ UNCHANGED <<killing, lost>>
InitDone(h) == Reports(h, {"init"}, "running", <<"LAUNCHOK">>)
InitError(h) == Reports(h, {"init"}, "leaving", <<"ERROR", "REMOVE">>)
LoaderError(h) == Reports(h, {"init"}, "leaving", <<"ERROR">>)
Exit(h) == Reports(h, {"init", "running"}, "leaving", <<"REMOVE">>)
ExitCommand(h) == Reports(h, {"leaving"}, "dead", <<>>)

\* skynet.kill(handle): first the message, then the command; the service runs on
\* in between.
Kill(h) ==
  /\ Alive(h) /\ h \notin killing
  /\ Becomes(h, state[h], <<"KILLED">>)
  /\ killing' = killing \cup {h} /\ UNCHANGED lost
KillCommand(h) ==
  /\ h \in killing
  /\ Becomes(h, "dead", <<>>)
  /\ killing' = killing \ {h} /\ UNCHANGED lost
\* skynet.kill(name), which sends no message.
KillName(h) ==
  /\ Alive(h)
  /\ Becomes(h, "dead", <<>>)
  /\ lost' = lost \cup {h} /\ UNCHANGED killing

Starts(h) == InitDone(h) \/ InitError(h) \/ LoaderError(h)
Ends(h) == Len(mailbox) < MaxMail /\ (Exit(h) \/ Kill(h) \/ KillName(h))

Next ==
  \/ \E c \in Clients :
       \/ \E n \in Names :
            \/ \E m \in Managers, cmd \in {"LAUNCH", "QUERY"} : Ask(c, m, cmd, n)
            \/ NewService(c, n)
       \/ Remote(c)
  \/ \E m \in Managers : Returned(m)
  \/ Launcher
  \/ \E h \in Handles : Starts(h) \/ Ends(h) \/ ExitCommand(h) \/ KillCommand(h)

\* Messages are handled, and the start function of a service ends.  Requests and
\* services are finitely many, so no handler needs a fairness of its own.
Fairness ==
  /\ WF_vars((\E c \in Clients : Remote(c)) \/ \E m \in Managers : Returned(m))
  /\ WF_vars(Launcher)
  /\ WF_vars(\E h \in Handles : Starts(h))

Spec == Init /\ [][Next]_vars /\ Fairness

-----------------------------------------------------------------------------
Waits(m, c) ==
  \E n \in Names : service[m][n].is = "table" /\ c \in service[m][n].waiting
Launches(m, c) ==
  \E n \in Names : service[m][n].is = "table" /\ c = service[m][n].launch
AtLauncher(c) ==
  Cardinality({i \in DOMAIN mailbox : mailbox[i].cmd = "LAUNCH" /\ mailbox[i].client = c})
    + Cardinality({h \in Handles : instance[h] = c})

One(b) == IF b THEN 1 ELSE 0
\* Where the request of client c is at manager m: among those who wait, or the
\* one who launches.
HeldAt(m, c) == One(Waits(m, c)) + One(Launches(m, c))
Answer(m, c) == Cardinality({b \in back : b.to = m /\ b.client = c})

\* Every open request is in one place: its client waits at its manager, and
\* behind one that launches there is one call, to the launcher or to Master.
\* A client without a request is nowhere.
RequestHeld ==
  \A c \in Clients :
    LET to == IF asked[c] = None THEN None ELSE asked[c].to
    IN /\ AtLauncher(c) + Answer(Master, c) =
            One(to = "launcher" \/ Launches(Master, c))
       /\ \A m \in Managers :
            /\ m = to => HeldAt(m, c) = 1
            /\ m \notin {to, Master} => HeldAt(m, c) + Answer(m, c) = 0
            /\ m # Master =>
                 One(Launches(m, c)) = IF m = to
                   THEN One(c \in net) + HeldAt(Master, c) + Answer(m, c) ELSE 0
       /\ to \notin Managers => c \notin net /\ HeldAt(Master, c) = 0

\* The launcher never waits for a confirmation that cannot come: the service
\* still starts, or a message about it is in the mailbox.  The exception is a
\* service killed by name, of which the launcher never hears.
ConfirmationComes ==
  \A h \in Handles :
    instance[h] # None =>
      \/ state[h] = "init" \/ h \in lost
      \/ \E i \in DOMAIN mailbox : mailbox[i].cmd # "LAUNCH" /\ mailbox[i].handle = h

\* Whoever asked, on whichever node, was given the same service.
OneAnswer == \A n \in Names : Cardinality(given[n]) <= 1

\* The start function has not failed and skynet.exit was not called.
Serves(h) == state[h] \in {"init", "running"}

\* A unique service is never started while an earlier one still serves.  One that
\* has called skynet.exit may be there still, between its REMOVE and its EXIT.
OneInstance ==
  \A n \in Names :
    Cardinality({h \in Handles : name[h] = n /\ Serves(h)}) <= 1

Blocked(c) ==
  /\ asked[c].to \in Managers \ {Master}
  /\ LET s == service[asked[c].to][asked[c].name] IN s.is = "table" /\ s.func = "QUERY"
\* The service that c, or somebody it waits for, launched was killed by name.
LaunchLost(c) ==
  \E h \in lost : /\ instance[h] # None
                  /\ instance[h] = c \/ name[h] = asked[c].name
\* A launch ends with an answer.  Two ways out: a service killed by name while
\* it starts, and a node whose first request for a global name was a query:
\* the launch then waits behind it.
LaunchEnds ==
  \A c \in Clients :
    (asked[c] # None /\ asked[c].cmd = "LAUNCH") ~>
      (asked[c] = None \/ Blocked(c) \/ LaunchLost(c))

\* Once Master knows the service everybody who asks for it is answered, those
\* that waited on other nodes included.
AnswerSpreads ==
  \A c \in Clients, n \in Names :
    (asked[c] # None /\ asked[c].to # "launcher" /\ asked[c].name = n
       /\ service[Master][n].is = "handle") ~> asked[c] = None

\* No request is lost between a client, the managers, the launcher and the new
\* service.
NothingLost == TypeOK /\ RequestHeld /\ ConfirmationComes

\* A unique service is unique: one serves, and everybody is given the same one.
Unique == OneAnswer /\ OneInstance

\* Requests come to an end: launches do, and so does everything that waits for a
\* service that Master has.
RequestsEnd == LaunchEnds /\ AnswerSpreads
=============================================================================
