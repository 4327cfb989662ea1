----------------------- MODULE ServiceDirectoryProofs -----------------------
(***************************************************************************)
(* Proofs about ServiceDirectory, for any sets of clients, names and       *)
(* managers and any bounds.                                                *)
(***************************************************************************)
EXTENDS ServiceDirectory, FiniteSetTheorems, SequenceTheorems, TLAPS

-----------------------------------------------------------------------------
(* The inductive invariant.                                                *)

Waiting(m, n, c) == service[m][n].is = "table" /\ c \in service[m][n].waiting
Launching(m, n, c) == service[m][n].is = "table" /\ c = service[m][n].launch
Parked(m, n, c) == Waiting(m, n, c) \/ Launching(m, n, c)
\* An answer of the launcher or of Master to c's manager m is on its way.
Answered(m, c) == \E b \in back : b.to = m /\ b.client = c
\* c has asked m for n.
For(c, m, n) == asked[c] # None /\ asked[c].to = m /\ asked[c].name = n
Others == Managers \ {Master}

\* A client in a table is in the one of the name it asked for, of the manager it
\* asked or of Master, and either waits or launches.
Places ==
  \A m \in Managers, n \in Names, c \in Clients :
    Parked(m, n, c) =>
      /\ ~(Waiting(m, n, c) /\ Launching(m, n, c))
      /\ For(c, m, n) \/ (m = Master /\ \E k \in Others : For(c, k, n))
\* The manager that a client asked has it in its table.
AtHome ==
  \A m \in Managers, n \in Names, c \in Clients : For(c, m, n) => Parked(m, n, c)
\* Behind a client that launches on another node there is its call: on its way to
\* Master, in the table there, or answered; and in one of these places only.
CallOut ==
  \A m \in Others, n \in Names, c \in Clients :
    For(c, m, n) /\ Launching(m, n, c) =>
      c \in net \/ Parked(Master, n, c) \/ Answered(m, c)
CallOnce ==
  \A m \in Others, n \in Names, c \in Clients :
    For(c, m, n) => /\ ~(c \in net /\ Answered(m, c))
                    /\ Parked(Master, n, c) => c \notin net /\ ~Answered(m, c)
CallBehind ==
  /\ \A c \in net : \E m \in Others, n \in Names : For(c, m, n)
  /\ \A m \in Others, n \in Names, c \in Clients :
       For(c, m, n) /\ (c \in net \/ Parked(Master, n, c)) => Launching(m, n, c)
\* An answer goes to a manager where its client launches, and there is only one.
AnswersHeld ==
  /\ \A m \in Managers, c \in Clients : Answered(m, c) => \E n \in Names : Launching(m, n, c)
  /\ \A a, b \in back : a.to = b.to /\ a.client = b.client => a = b
HeldInv == Places /\ AtHome /\ CallOut /\ CallOnce /\ CallBehind /\ AnswersHeld

\* c waits for the launcher, itself or as the one who launches at Master.
AtLaunch(c) == \E n \in Names : For(c, "launcher", n) \/ Launching(Master, n, c)
IsLaunch(i, c) == mailbox[i].cmd = "LAUNCH" /\ mailbox[i].client = c
Mailed(c) == \E i \in DOMAIN mailbox : IsLaunch(i, c)
Starting(c) == \E h \in Handles : instance[h] = c
\* The name under which the launcher starts the service that c asked for.
Called(c, n) ==
  \/ n = None /\ \E k \in Names : For(c, "launcher", k)
  \/ n \in Names /\ Launching(Master, n, c)

\* The call to the launcher is in its mailbox, kept in instance or answered, and in
\* one of these places only.
LaunchHeld ==
  \A c \in Clients :
    /\ AtLaunch(c) <=> Mailed(c) \/ Starting(c) \/ Answered(Master, c)
    /\ ~(Mailed(c) /\ Starting(c)) /\ ~(Mailed(c) /\ Answered(Master, c))
    /\ ~(Starting(c) /\ Answered(Master, c))
LaunchOnce ==
  /\ \A i, j \in DOMAIN mailbox, c \in Clients : IsLaunch(i, c) /\ IsLaunch(j, c) => i = j
  /\ \A g, h \in Handles : instance[g] = instance[h] /\ instance[g] # None => g = h
\* It launches the service of the name for which its caller launches.
LaunchNamed ==
  /\ \A i \in DOMAIN mailbox, c \in Clients, n \in Names \cup {None} :
       IsLaunch(i, c) /\ mailbox[i].name = n => Called(c, n)
  /\ \A h \in Handles, c \in Clients, n \in Names \cup {None} :
       instance[h] = c /\ name[h] = n => Called(c, n)
LaunchInv == LaunchHeld /\ LaunchOnce /\ LaunchNamed

About(h) == \E i \in DOMAIN mailbox : mailbox[i].cmd # "LAUNCH" /\ mailbox[i].handle = h
\* Nothing is known of a handle before its service is launched.
Unborn ==
  /\ \A h \in Handles : state[h] = "none" =>
       instance[h] = None /\ name[h] = None /\ h \notin killing
  /\ \A i \in DOMAIN mailbox : mailbox[i].cmd # "LAUNCH" => state[mailbox[i].handle] # "none"
\* A service reports an error or its end when it ends.
Over == {"leaving", "dead"}
Ended ==
  \A i \in DOMAIN mailbox : mailbox[i].cmd \in {"ERROR", "REMOVE"} =>
    state[mailbox[i].handle] \in Over
\* Who waits for a confirmation has a service that starts and that nobody has
\* begun to kill, or a message in the mailbox, or the service was killed by name.
Heard ==
  \A h \in Handles : instance[h] # None =>
    (state[h] = "init" /\ h \notin killing) \/ h \in lost \/ About(h)
LifeInv == Unborn /\ Ended /\ Heard

\* A unique service that is alive is still being launched, or the answer that
\* names it, or says that the launch failed, is on its way, or Master has it.
Due(h, n) ==
  \E b \in back : b.to = Master /\ b.answer \in {h, Failed} /\ Launching(Master, n, b.client)
Known ==
  \A h \in Handles, n \in Names : Serves(h) /\ name[h] = n =>
    \/ instance[h] # None \/ Due(h, n)
    \/ service[Master][n] = ErrorEntry \/ service[Master][n] = HandleEntry(h)
Single ==
  \A g, h \in Handles, n \in Names : Serves(g) /\ Serves(h) /\ name[g] = n /\ name[h] = n => g = h
\* Every handle that is given out, known on a node or on its way to one is the one
\* that Master has, which never changes.
Same ==
  /\ \A n \in Names : \A h \in given[n] : service[Master][n] = HandleEntry(h)
  /\ \A m \in Managers, n \in Names, h \in Handles :
       service[m][n] = HandleEntry(h) => service[Master][n] = HandleEntry(h)
  /\ \A b \in back, n \in Names : b.to # Master /\ b.answer \in Handles
       /\ Launching(b.to, n, b.client) => service[Master][n] = HandleEntry(b.answer)
UniqueInv == Known /\ Single /\ Same

IInv == TypeOK /\ HeldInv /\ LaunchInv /\ LifeInv /\ UniqueInv
-----------------------------------------------------------------------------
(* Entries of table service, and how a step changes them.                  *)

LEMMA EntryKinds ==
  ASSUME NEW e \in Entries
  PROVE  \/ e = NilEntry /\ e.is = "nil"
         \/ e = ErrorEntry /\ e.is = "error"
         \/ \E h \in Handles : e = HandleEntry(h) /\ e.is = "handle" /\ e.handle = h
         \/ /\ e.is = "table" /\ e = Table(e.launch, e.func, e.waiting)
            /\ e.launch \in Clients \cup {None} /\ e.func \in Funcs
            /\ e.waiting \in SUBSET Clients
BY DEF Entries, NilEntry, ErrorEntry, HandleEntry, Table

LEMMA EntriesIn ==
  /\ NilEntry \in Entries /\ ErrorEntry \in Entries
  /\ \A h \in Handles : HandleEntry(h) \in Entries
  /\ \A l \in Clients \cup {None}, f \in Funcs, W \in SUBSET Clients : Table(l, f, W) \in Entries
BY DEF Entries

LEMMA EntriesDiffer ==
  /\ NilEntry.is = "nil" /\ ErrorEntry.is = "error"
  /\ \A h : HandleEntry(h).is = "handle" /\ HandleEntry(h).handle = h
  /\ \A l, f, W : /\ Table(l, f, W).is = "table" /\ Table(l, f, W).launch = l
                  /\ Table(l, f, W).func = f /\ Table(l, f, W).waiting = W
BY DEF NilEntry, ErrorEntry, HandleEntry, Table

\* One entry of one manager changes.
LEMMA OneEntry ==
  ASSUME service \in [Managers -> [Names -> Entries]], NEW m \in Managers, NEW n \in Names,
         NEW t \in Entries, service' = [service EXCEPT ![m][n] = t]
  PROVE  /\ service' \in [Managers -> [Names -> Entries]]
         /\ \A x \in Managers, y \in Names :
              service'[x][y] = IF x = m /\ y = n THEN t ELSE service[x][y]
<1>1. service[m] \in [Names -> Entries]
  OBVIOUS
<1>2. [service[m] EXCEPT ![n] = t] \in [Names -> Entries]
  BY <1>1
<1>3. service' = [service EXCEPT ![m] = [service[m] EXCEPT ![n] = t]]
  OBVIOUS
<1>4. service' \in [Managers -> [Names -> Entries]]
  BY <1>2, <1>3
<1> QED BY <1>1, <1>2, <1>3, <1>4

\* Which services a manager knows, and which launches failed for good.
SameEnds ==
  \A x \in Managers, y \in Names :
    /\ service'[x][y] = ErrorEntry <=> service[x][y] = ErrorEntry
    /\ \A h \in Handles : service'[x][y] = HandleEntry(h) <=> service[x][y] = HandleEntry(h)
\* c is added to those who wait for n at m, or becomes the one who launches it.
NowWaits(m, n, c) ==
  /\ service' \in [Managers -> [Names -> Entries]] /\ SameEnds
  /\ \A x \in Managers, y \in Names, z \in Clients :
       /\ Waiting(x, y, z)' <=> Waiting(x, y, z) \/ (x = m /\ y = n /\ z = c)
       /\ Launching(x, y, z)' <=> Launching(x, y, z)
NowLaunches(m, n, c) ==
  /\ service' \in [Managers -> [Names -> Entries]] /\ SameEnds
  /\ \A z \in Clients : ~Launching(m, n, z)
  /\ \A x \in Managers, y \in Names, z \in Clients :
       /\ Launching(x, y, z)' <=> Launching(x, y, z) \/ (x = m /\ y = n /\ z = c)
       /\ Waiting(x, y, z)' <=> Waiting(x, y, z)
\* The table of n at m ends, with an answer or nil.
NowEnds(m, n, t) ==
  /\ service' \in [Managers -> [Names -> Entries]]
  /\ \A x \in Managers, y \in Names :
       service'[x][y] = IF x = m /\ y = n THEN t ELSE service[x][y]
  /\ \A x \in Managers, y \in Names, z \in Clients :
       /\ Waiting(x, y, z)' <=> Waiting(x, y, z) /\ ~(x = m /\ y = n)
       /\ Launching(x, y, z)' <=> Launching(x, y, z) /\ ~(x = m /\ y = n)

Old(e) == IF e.is = "nil" THEN EmptyTable ELSE e

LEMMA OldTable ==
  ASSUME NEW e \in Entries, e.is \in {"nil", "table"}
  PROVE  \E l \in Clients \cup {None}, f \in Funcs, W \in SUBSET Clients :
           /\ Old(e) = Table(l, f, W)
           /\ e.is = "nil" => l = None /\ W = {}
           /\ e.is = "table" => l = e.launch /\ W = e.waiting
<1>1. None \in Funcs
  BY DEF Funcs
<1>2. CASE e.is = "nil"
  BY <1>1, <1>2 DEF Old, EmptyTable
<1>3. CASE e.is = "table"
  <2>1. /\ e = Table(e.launch, e.func, e.waiting) /\ e.launch \in Clients \cup {None}
        /\ e.func \in Funcs /\ e.waiting \in SUBSET Clients
    BY <1>3, EntryKinds, EntriesDiffer
  <2> QED BY <1>3, <2>1 DEF Old
<1> QED BY <1>2, <1>3

\* An entry that becomes a table of those who wait with c added, or with c as the
\* one who launches.
Joins(e, c, t) ==
  /\ t \in Entries /\ t.is = "table"
  /\ t.waiting = (IF e.is = "table" THEN e.waiting ELSE {}) \cup {c}
  /\ t.launch = IF e.is = "table" THEN e.launch ELSE None
Leads(e, c, t) ==
  /\ t \in Entries /\ t.is = "table"
  /\ t.waiting = (IF e.is = "table" THEN e.waiting ELSE {})
  /\ t.launch = c /\ (e.is = "table" => e.launch = None)

LEMMA JoinsTable ==
  ASSUME NEW e \in Entries, e.is \in {"nil", "table"}, NEW c \in Clients
  PROVE  Joins(e, c, [Old(e) EXCEPT !.waiting = @ \cup {c}])
<1>1. PICK l \in Clients \cup {None}, f \in Funcs, W \in SUBSET Clients :
           /\ Old(e) = Table(l, f, W)
           /\ e.is = "nil" => l = None /\ W = {}
           /\ e.is = "table" => l = e.launch /\ W = e.waiting
  BY OldTable
<1>2. [Table(l, f, W) EXCEPT !.waiting = @ \cup {c}] = Table(l, f, W \cup {c})
  BY DEF Table
<1>3. PICK t \in Entries : t = Table(l, f, W \cup {c})
  BY EntriesIn
<1>4. t.is = "table" /\ t.launch = l /\ t.waiting = W \cup {c}
  BY <1>3, EntriesDiffer
<1>5. [Old(e) EXCEPT !.waiting = @ \cup {c}] = t
  BY <1>1, <1>2, <1>3
<1>6. Joins(e, c, t)
  BY <1>1, <1>4 DEF Joins
<1> QED BY <1>5, <1>6

LEMMA LeadsTable ==
  ASSUME NEW e \in Entries, e.is \in {"nil", "table"}, NEW c \in Clients, NEW func \in Funcs,
         Old(e).launch = None
  PROVE  Leads(e, c, [Old(e) EXCEPT !.launch = c, !.func = func])
<1>1. PICK l \in Clients \cup {None}, f \in Funcs, W \in SUBSET Clients :
           /\ Old(e) = Table(l, f, W)
           /\ e.is = "nil" => l = None /\ W = {}
           /\ e.is = "table" => l = e.launch /\ W = e.waiting
  BY OldTable
<1>2. [Table(l, f, W) EXCEPT !.launch = c, !.func = func] = Table(c, func, W)
  <2>1. [Table(l, f, W) EXCEPT !.launch = c] = Table(c, f, W)
    BY DEF Table
  <2>2. [Table(c, f, W) EXCEPT !.func = func] = Table(c, func, W)
    BY DEF Table
  <2>3. [Table(l, f, W) EXCEPT !.launch = c, !.func = func]
          = [[Table(l, f, W) EXCEPT !.launch = c] EXCEPT !.func = func]
    OBVIOUS
  <2> QED BY <2>1, <2>2, <2>3
<1>3. PICK t \in Entries : t = Table(c, func, W)
  BY EntriesIn
<1>4. t.is = "table" /\ t.launch = c /\ t.waiting = W
  BY <1>3, EntriesDiffer
<1>5. [Old(e) EXCEPT !.launch = c, !.func = func] = t
  BY <1>1, <1>2, <1>3
<1>6. l = None
  BY <1>1, EntriesDiffer
<1>7. Leads(e, c, t)
  BY <1>1, <1>4, <1>6 DEF Leads
<1> QED BY <1>5, <1>7

LEMMA EndsKept ==
  ASSUME service \in [Managers -> [Names -> Entries]], NEW m \in Managers, NEW n \in Names,
         NEW t, t.is = "table", service[m][n].is \in {"nil", "table"},
         \A x \in Managers, y \in Names :
           service'[x][y] = IF x = m /\ y = n THEN t ELSE service[x][y]
  PROVE  SameEnds
<1>1. ASSUME NEW x \in Managers, NEW y \in Names, NEW h, x = m /\ y = n
      PROVE  /\ service'[x][y] # ErrorEntry /\ service[x][y] # ErrorEntry
             /\ service'[x][y] # HandleEntry(h) /\ service[x][y] # HandleEntry(h)
  BY <1>1, EntriesDiffer
<1>2. ASSUME NEW x \in Managers, NEW y \in Names, ~(x = m /\ y = n)
      PROVE  service'[x][y] = service[x][y]
  BY <1>2
<1> QED BY <1>1, <1>2 DEF SameEnds

LEMMA EntersWaiting ==
  ASSUME service \in [Managers -> [Names -> Entries]], NEW m \in Managers, NEW n \in Names,
         NEW c \in Clients, service[m][n].is \in {"nil", "table"},
         NEW t, Joins(service[m][n], c, t), service' = [service EXCEPT ![m][n] = t]
  PROVE  NowWaits(m, n, c)
<1>1. t \in Entries /\ t.is = "table"
  BY DEF Joins
<1>2. /\ service' \in [Managers -> [Names -> Entries]]
      /\ \A x \in Managers, y \in Names :
           service'[x][y] = IF x = m /\ y = n THEN t ELSE service[x][y]
  BY <1>1, OneEntry
<1>3. SameEnds
  BY <1>1, <1>2, EndsKept
<1>4. ASSUME NEW x \in Managers, NEW y \in Names, NEW z \in Clients
      PROVE  /\ Waiting(x, y, z)' <=> Waiting(x, y, z) \/ (x = m /\ y = n /\ z = c)
             /\ Launching(x, y, z)' <=> Launching(x, y, z)
  <2>1. CASE x = m /\ y = n
    BY <1>2, <2>1, DirectoryAssumption DEF Waiting, Launching, Joins
  <2>2. CASE ~(x = m /\ y = n)
    BY <1>2, <2>2 DEF Waiting, Launching
  <2> QED BY <2>1, <2>2
<1> QED BY <1>2, <1>3, <1>4 DEF NowWaits

LEMMA EntersLaunching ==
  ASSUME service \in [Managers -> [Names -> Entries]], NEW m \in Managers, NEW n \in Names,
         NEW c \in Clients, service[m][n].is \in {"nil", "table"},
         NEW t, Leads(service[m][n], c, t), service' = [service EXCEPT ![m][n] = t]
  PROVE  NowLaunches(m, n, c)
<1>1. t \in Entries /\ t.is = "table"
  BY DEF Leads
<1>2. /\ service' \in [Managers -> [Names -> Entries]]
      /\ \A x \in Managers, y \in Names :
           service'[x][y] = IF x = m /\ y = n THEN t ELSE service[x][y]
  BY <1>1, OneEntry
<1>3. SameEnds
  BY <1>1, <1>2, EndsKept
<1>4. \A z \in Clients : ~Launching(m, n, z)
  BY DirectoryAssumption DEF Launching, Leads
<1>5. ASSUME NEW x \in Managers, NEW y \in Names, NEW z \in Clients
      PROVE  /\ Launching(x, y, z)' <=> Launching(x, y, z) \/ (x = m /\ y = n /\ z = c)
             /\ Waiting(x, y, z)' <=> Waiting(x, y, z)
  <2>1. CASE x = m /\ y = n
    BY <1>2, <2>1, DirectoryAssumption DEF Waiting, Launching, Leads
  <2>2. CASE ~(x = m /\ y = n)
    BY <1>2, <2>2 DEF Waiting, Launching
  <2> QED BY <2>1, <2>2
<1> QED BY <1>2, <1>3, <1>4, <1>5 DEF NowLaunches

LEMMA LeavesTable ==
  ASSUME service \in [Managers -> [Names -> Entries]], NEW m \in Managers, NEW n \in Names,
         NEW t \in Entries, t.is # "table", service' = [service EXCEPT ![m][n] = t]
  PROVE  NowEnds(m, n, t)
<1>1. /\ service' \in [Managers -> [Names -> Entries]]
      /\ \A x \in Managers, y \in Names :
           service'[x][y] = IF x = m /\ y = n THEN t ELSE service[x][y]
  BY OneEntry
<1> QED BY <1>1 DEF NowEnds, Waiting, Launching

-----------------------------------------------------------------------------
(* What a request to a manager does.                                       *)

rest == <<asks, instance, services, state, killing, name, lost>>

\* c is answered at once, by a manager that knows the service or that the launch
\* failed.
Told(m, c, n, sent) ==
  /\ \E r \in Handles \cup {Failed} : /\ Ret(m, {c}, r, sent)
                                      /\ r \in Handles => service[m][n] = HandleEntry(r)
  /\ net' = net \ {c}
  /\ UNCHANGED <<service, mailbox>>
Joined(m, c, n, sent) ==
  /\ NowWaits(m, n, c) /\ net' = net \ {c} /\ asked' = sent
  /\ UNCHANGED <<mailbox, back, given>>
Led(m, c, n, sent) ==
  /\ NowLaunches(m, n, c) /\ asked' = sent
  /\ mailbox' = IF m = Master THEN Append(mailbox, [cmd |-> "LAUNCH", client |-> c, name |-> n])
                ELSE mailbox
  /\ net' = IF m = Master THEN net \ {c} ELSE net \cup {c}
  /\ UNCHANGED <<back, given>>

LEMMA WaitforCases ==
  ASSUME TypeOK, NEW m \in Managers, NEW c \in Clients, NEW cmd \in {"LAUNCH", "QUERY"},
         NEW n \in Names, NEW sent, Waitfor(m, c, cmd, n, sent)
  PROVE  Told(m, c, n, sent) \/ Joined(m, c, n, sent) \/ Led(m, c, n, sent)
<1>1. service \in [Managers -> [Names -> Entries]]
  BY DEF TypeOK
<1>2. PICK e \in Entries : e = service[m][n]
  BY <1>1
<1>3. Func(m, cmd) \in Funcs
  BY DEF Func, Funcs
<1>4. Old(e) = IF e.is = "nil" THEN EmptyTable ELSE e
  BY DEF Old
<1>5. CASE /\ e.is \in {"handle", "error"}
           /\ Ret(m, {c}, IF e.is = "handle" THEN e.handle ELSE Failed, sent)
           /\ net' = net \ {c}
           /\ UNCHANGED <<service, mailbox>>
  <2>1. PICK r : r = IF e.is = "handle" THEN e.handle ELSE Failed
    OBVIOUS
  <2>2. r \in Handles \cup {Failed} /\ (r \in Handles => e = HandleEntry(r))
    <3>1. CASE e.is = "handle"
      BY <2>1, <3>1, EntryKinds
    <3>2. CASE e.is = "error"
      <4>1. Failed \notin Handles
        BY DirectoryAssumption DEF Failed, Handles
      <4> QED BY <2>1, <3>2, <4>1
    <3> QED BY <1>5, <3>1, <3>2
  <2> QED BY <1>2, <1>5, <2>1, <2>2 DEF Told
<1>6. CASE /\ e.is \in {"nil", "table"}
           /\ service' = [service EXCEPT ![m][n] = [Old(e) EXCEPT !.waiting = @ \cup {c}]]
           /\ net' = net \ {c}
           /\ asked' = sent
           /\ UNCHANGED <<mailbox, back, given>>
  <2>1. PICK t : t = [Old(e) EXCEPT !.waiting = @ \cup {c}]
    OBVIOUS
  <2>2. Joins(e, c, t)
    BY <1>6, <2>1, JoinsTable
  <2>3. service' = [service EXCEPT ![m][n] = t]
    BY <1>6, <2>1
  <2>4. NowWaits(m, n, c)
    BY <1>1, <1>2, <1>6, <2>2, <2>3, EntersWaiting
  <2> QED BY <1>6, <2>4 DEF Joined
<1>7. CASE /\ e.is \in {"nil", "table"} /\ ~MustWait(Old(e), Func(m, cmd))
           /\ service' = [service EXCEPT ![m][n] =
                            [Old(e) EXCEPT !.launch = c, !.func = Func(m, cmd)]]
           /\ mailbox' = IF m = Master
                         THEN Append(mailbox, [cmd |-> "LAUNCH", client |-> c, name |-> n])
                         ELSE mailbox
           /\ net' = IF m = Master THEN net \ {c} ELSE net \cup {c}
           /\ asked' = sent
           /\ UNCHANGED <<back, given>>
  <2>1. PICK f \in Funcs : f = Func(m, cmd)
    BY <1>3
  <2>2. PICK t : t = [Old(e) EXCEPT !.launch = c, !.func = f]
    OBVIOUS
  <2>3. Old(e).launch = None
    BY <1>7 DEF MustWait
  <2>4. Leads(e, c, t)
    BY <1>7, <2>2, <2>3, LeadsTable
  <2>5. service' = [service EXCEPT ![m][n] = t]
    BY <1>7, <2>1, <2>2
  <2>6. NowLaunches(m, n, c)
    BY <1>1, <1>2, <1>7, <2>4, <2>5, EntersLaunching
  <2> QED BY <1>7, <2>6 DEF Led
<1>8. \/ /\ e.is \in {"handle", "error"}
         /\ Ret(m, {c}, IF e.is = "handle" THEN e.handle ELSE Failed, sent)
         /\ net' = net \ {c}
         /\ UNCHANGED <<service, mailbox>>
      \/ /\ e.is \in {"nil", "table"}
         /\ service' = [service EXCEPT ![m][n] = [Old(e) EXCEPT !.waiting = @ \cup {c}]]
         /\ net' = net \ {c}
         /\ asked' = sent
         /\ UNCHANGED <<mailbox, back, given>>
      \/ /\ e.is \in {"nil", "table"} /\ ~MustWait(Old(e), Func(m, cmd))
         /\ service' = [service EXCEPT ![m][n] =
                          [Old(e) EXCEPT !.launch = c, !.func = Func(m, cmd)]]
         /\ mailbox' = IF m = Master
                       THEN Append(mailbox, [cmd |-> "LAUNCH", client |-> c, name |-> n])
                       ELSE mailbox
         /\ net' = IF m = Master THEN net \ {c} ELSE net \cup {c}
         /\ asked' = sent
         /\ UNCHANGED <<back, given>>
  BY <1>2, <1>4, Zenon DEF Waitfor
<1> QED BY <1>5, <1>6, <1>7, <1>8

Backs == [to : Managers, client : Clients, answer : Answers]
Result(r) == IF r = Failed THEN Nil ELSE r

\* The answer r of m to those of C, who asked for n.
RetDone(m, C, r, n, sent) ==
  /\ asked' \in [Clients -> Requests \cup {None}]
  /\ \A x \in Clients : asked'[x] = IF x \in C /\ sent[x].to = m THEN None ELSE sent[x]
  /\ back' \in SUBSET Backs
  /\ \A b : b \in back' <=>
       \/ b \in back /\ ~(b.to = m /\ b.client \in C)
       \/ \E c \in C : /\ sent[c].to # m
                       /\ b = [to |-> sent[c].to, client |-> c, answer |-> Result(r)]
  /\ given' \in [Names -> SUBSET Handles]
  /\ \A k \in Names : given'[k] = IF k = n /\ (\E c \in C : sent[c].to = m)
                                  THEN given[k] \cup ({r} \cap Handles) ELSE given[k]

LEMMA RetEffect ==
  ASSUME TypeOK, NEW m \in Managers, NEW C \in SUBSET Clients, C # {}, NEW r \in Answers,
         NEW sent \in [Clients -> Requests \cup {None}], NEW n \in Names,
         \A c \in C : sent[c] # None /\ sent[c].name = n /\ sent[c].to \in Managers,
         Ret(m, C, r, sent)
  PROVE  RetDone(m, C, r, n, sent)
<1>1. PICK home : home = {c \in C : sent[c].to = m}
  OBVIOUS
<1>2. PICK d : d = CHOOSE c \in C : TRUE
  OBVIOUS
<1>3. d \in C
  BY <1>2
<1>4. sent[d].name = n
  BY <1>3
<1>5. Result(r) \in Answers
  BY DEF Result, Answers
<1>6. back \in SUBSET Backs
  BY DEF TypeOK, Backs
<1>7. /\ asked' = [c \in Clients |-> IF c \in home THEN None ELSE sent[c]]
      /\ back' = (back \ {b \in back : b.to = m /\ b.client \in C})
                  \cup {[to |-> sent[c].to, client |-> c, answer |-> Result(r)] : c \in C \ home}
      /\ given' = [given EXCEPT ![n] = IF home # {} THEN @ \cup ({r} \cap Handles) ELSE @]
  BY <1>1, <1>2, <1>4, Zenon DEF Ret, Result
<1>8. /\ asked' \in [Clients -> Requests \cup {None}]
      /\ \A x \in Clients : asked'[x] = IF x \in C /\ sent[x].to = m THEN None ELSE sent[x]
  BY <1>1, <1>7
<1>9. \A b : b \in back' <=>
              \/ b \in back /\ ~(b.to = m /\ b.client \in C)
              \/ \E c \in C : /\ sent[c].to # m
                              /\ b = [to |-> sent[c].to, client |-> c, answer |-> Result(r)]
  BY <1>1, <1>7
<1>10. ASSUME NEW c \in C
       PROVE  [to |-> sent[c].to, client |-> c, answer |-> Result(r)] \in Backs
  BY <1>5 DEF Backs
<1>11. back' \in SUBSET Backs
  BY <1>6, <1>9, <1>10
<1>12. /\ given' \in [Names -> SUBSET Handles]
       /\ \A k \in Names : given'[k] = IF k = n /\ (\E c \in C : sent[c].to = m)
                                         THEN given[k] \cup ({r} \cap Handles) ELSE given[k]
  <2>1. given \in [Names -> SUBSET Handles]
    BY DEF TypeOK
  <2>2. home # {} <=> \E c \in C : sent[c].to = m
    BY <1>1
  <2>3. PICK g \in SUBSET Handles : g = IF home # {} THEN given[n] \cup ({r} \cap Handles) ELSE given[n]
    BY <2>1
  <2>4. given' = [given EXCEPT ![n] = g]
    BY <1>7, <2>3
  <2> QED BY <2>1, <2>2, <2>3, <2>4
<1> QED BY <1>8, <1>9, <1>11, <1>12 DEF RetDone

LEMMA Concatenated ==
  ASSUME NEW S, NEW a \in Seq(S), NEW b \in Seq(S)
  PROVE  a \o b \in Seq(S) /\ Len(a \o b) = Len(a) + Len(b)
OBVIOUS

\* The mailbox of the launcher.
LEMMA PutLaunch ==
  ASSUME mailbox \in Seq(Mails), NEW c \in Clients, NEW n \in Names \cup {None},
         mailbox' = Append(mailbox, [cmd |-> "LAUNCH", client |-> c, name |-> n])
  PROVE  /\ mailbox' \in Seq(Mails)
         /\ DOMAIN mailbox = 1 .. Len(mailbox) /\ Len(mailbox) \in Nat
         /\ DOMAIN mailbox' = 1 .. Len(mailbox) + 1
         /\ \A i \in 1 .. Len(mailbox) : mailbox'[i] = mailbox[i]
         /\ mailbox'[Len(mailbox) + 1].cmd = "LAUNCH"
         /\ mailbox'[Len(mailbox) + 1].client = c
         /\ mailbox'[Len(mailbox) + 1].name = n
<1>1. PICK q : q = [cmd |-> "LAUNCH", client |-> c, name |-> n]
  OBVIOUS
<1>2. q \in Mails /\ q.cmd = "LAUNCH" /\ q.client = c /\ q.name = n
  BY <1>1 DEF Mails
<1>3. mailbox' = Append(mailbox, q)
  BY <1>1
<1> QED BY <1>2, <1>3

LEMMA TakeMail ==
  ASSUME mailbox \in Seq(Mails), mailbox # <<>>, mailbox' = Tail(mailbox)
  PROVE  /\ mailbox' \in Seq(Mails) /\ Len(mailbox) \in Nat \ {0}
         /\ Head(mailbox) \in Mails /\ Head(mailbox) = mailbox[1]
         /\ DOMAIN mailbox = 1 .. Len(mailbox) /\ DOMAIN mailbox' = 1 .. Len(mailbox) - 1
         /\ \A i \in 1 .. Len(mailbox) - 1 : mailbox'[i] = mailbox[i + 1]
OBVIOUS

Words == {"LAUNCHOK", "ERROR", "REMOVE", "KILLED"}
LEMMA PutMail ==
  ASSUME mailbox \in Seq(Mails), NEW h \in Handles, NEW cmds \in Seq(Words),
         mailbox' = Mail(cmds, h)
  PROVE  /\ mailbox' \in Seq(Mails)
         /\ DOMAIN mailbox = 1 .. Len(mailbox) /\ Len(mailbox) \in Nat /\ Len(cmds) \in Nat
         /\ DOMAIN mailbox' = 1 .. Len(mailbox) + Len(cmds)
         /\ \A i \in 1 .. Len(mailbox) : mailbox'[i] = mailbox[i]
         /\ \A i \in 1 .. Len(cmds) : /\ mailbox'[Len(mailbox) + i].cmd = cmds[i]
                                      /\ mailbox'[Len(mailbox) + i].handle = h
<1>1. PICK s : s = [i \in 1 .. Len(cmds) |-> [cmd |-> cmds[i], handle |-> h]]
  OBVIOUS
<1>2. Len(cmds) \in Nat /\ \A i \in 1 .. Len(cmds) : cmds[i] \in Words
  OBVIOUS
<1>3. ASSUME NEW i \in 1 .. Len(cmds) PROVE [cmd |-> cmds[i], handle |-> h] \in Mails
  BY <1>2 DEF Mails, Words
<1>4. s \in Seq(Mails) /\ Len(s) = Len(cmds)
  <2>1. s \in [1 .. Len(cmds) -> Mails]
    BY <1>1, <1>3
  <2>2. s \in Seq(Mails)
    BY <1>2, <2>1
  <2> QED BY <1>2, <2>1, <2>2
<1>5. \A i \in 1 .. Len(cmds) : s[i].cmd = cmds[i] /\ s[i].handle = h
  BY <1>1
<1>6. mailbox' = mailbox \o s
  BY <1>1 DEF Mail
<1>7. Len(mailbox) \in Nat /\ DOMAIN mailbox = 1 .. Len(mailbox)
  OBVIOUS
<1>8. mailbox' \in Seq(Mails) /\ Len(mailbox') = Len(mailbox) + Len(s)
  BY <1>4, <1>6, Concatenated
<1>9. DOMAIN mailbox' = 1 .. Len(mailbox) + Len(cmds)
  BY <1>4, <1>8
<1>10. \A i \in 1 .. Len(mailbox) : mailbox'[i] = mailbox[i]
  BY <1>4, <1>6, <1>7
<1>11. ASSUME NEW i \in 1 .. Len(cmds) PROVE mailbox'[Len(mailbox) + i] = s[i]
  <2>1. Len(mailbox) + i \in 1 .. Len(mailbox) + Len(s) /\ ~(Len(mailbox) + i <= Len(mailbox))
    BY <1>2, <1>4, <1>7
  <2>2. mailbox'[Len(mailbox) + i] = s[(Len(mailbox) + i) - Len(mailbox)]
    BY <1>4, <1>6, <1>7, <2>1
  <2>3. (Len(mailbox) + i) - Len(mailbox) = i
    BY <1>7
  <2> QED BY <2>2, <2>3
<1> QED BY <1>2, <1>5, <1>7, <1>8, <1>9, <1>10, <1>11

-----------------------------------------------------------------------------
(* The requests: HeldInv.                                                  *)

Tos == Managers \cup {"launcher"}

LEMMA ForOnce ==
  \A c, m, n, k, l : For(c, m, n) /\ For(c, k, l) => m = k /\ n = l
BY DEF For

LEMMA RequestIs ==
  ASSUME asked \in [Clients -> Requests \cup {None}], NEW c \in Clients, asked[c] # None
  PROVE  \E m \in Tos, n \in Names : For(c, m, n) /\ asked[c].to = m /\ asked[c].name = n
BY DEF Requests, For, Tos

\* A client without a request is nowhere.
LEMMA NoRequest ==
  ASSUME HeldInv, NEW c \in Clients, asked[c] = None
  PROVE  /\ \A m, n : ~For(c, m, n)
         /\ \A m \in Managers, n \in Names : ~Parked(m, n, c)
         /\ c \notin net
         /\ \A m \in Managers : ~Answered(m, c)
<1>1. \A m, n : ~For(c, m, n)
  BY DEF For
<1>2. \A m \in Managers, n \in Names : ~Parked(m, n, c)
  BY <1>1 DEF HeldInv, Places
<1>3. c \notin net
  BY <1>1 DEF HeldInv, CallBehind
<1>4. \A m \in Managers : ~Answered(m, c)
  BY <1>2 DEF HeldInv, AnswersHeld, Parked
<1> QED BY <1>1, <1>2, <1>3, <1>4

\* c asks m for n, and nothing else changes.
LEMMA SentIs ==
  ASSUME asked \in [Clients -> Requests \cup {None}], NEW c \in Clients, asked[c] = None,
         NEW m \in Tos, NEW cmd \in {"LAUNCH", "QUERY"}, NEW n \in Names
  PROVE  /\ Sent(c, m, cmd, n) \in [Clients -> Requests \cup {None}]
         /\ Sent(c, m, cmd, n)[c] # None
         /\ Sent(c, m, cmd, n)[c].to = m /\ Sent(c, m, cmd, n)[c].name = n
         /\ \A x \in Clients : x # c => Sent(c, m, cmd, n)[x] = asked[x]
<1>1. PICK r \in Requests : r = [to |-> m, cmd |-> cmd, name |-> n]
  BY DEF Requests, Tos
<1>2. r # None /\ r.to = m /\ r.name = n
  BY <1>1, DirectoryAssumption
<1>3. Sent(c, m, cmd, n) = [asked EXCEPT ![c] = r]
  BY <1>1 DEF Sent
<1> QED BY <1>2, <1>3

NowFor(c, m, n) ==
  \A x \in Clients, k \in Tos, y \in Names :
    For(x, k, y)' <=> For(x, k, y) \/ (x = c /\ k = m /\ y = n)
SameFor == \A x \in Clients, k \in Tos, y \in Names : For(x, k, y)' <=> For(x, k, y)
SameAnswered == \A k \in Managers, x \in Clients : Answered(k, x)' <=> Answered(k, x)

LEMMA SentFor ==
  ASSUME asked \in [Clients -> Requests \cup {None}], NEW c \in Clients, asked[c] = None,
         NEW m \in Tos, NEW cmd \in {"LAUNCH", "QUERY"}, NEW n \in Names,
         asked' = Sent(c, m, cmd, n)
  PROVE  NowFor(c, m, n)
<1>1. ASSUME NEW x \in Clients, NEW k \in Tos, NEW y \in Names
      PROVE  For(x, k, y)' <=> For(x, k, y) \/ (x = c /\ k = m /\ y = n)
  <2>1. CASE x = c
    BY <2>1, SentIs DEF For
  <2>2. CASE x # c
    BY <2>2, SentIs DEF For
  <2> QED BY <2>1, <2>2
<1> QED BY <1>1 DEF NowFor

\* Clients of m were given r for n.
GivenNow(n, r) ==
  /\ given' \in [Names -> SUBSET Handles]
  /\ \A k \in Names : given'[k] = IF k = n THEN given[k] \cup ({r} \cap Handles) ELSE given[k]

\* The client gets its answer from its own manager at once.
LEMMA ToldHome ==
  ASSUME TypeOK, HeldInv, NEW c \in Clients, NEW m \in Managers,
         NEW cmd \in {"LAUNCH", "QUERY"}, NEW n \in Names, asked[c] = None,
         Told(m, c, n, Sent(c, m, cmd, n))
  PROVE  /\ UNCHANGED <<asked, net, back, service, mailbox>>
         /\ \E r \in Handles \cup {Failed} :
              (r \in Handles => service[m][n] = HandleEntry(r)) /\ GivenNow(n, r)
<1>1. PICK sent : sent = Sent(c, m, cmd, n)
  OBVIOUS
<1>2. PICK r \in Handles \cup {Failed} :
        Ret(m, {c}, r, sent) /\ (r \in Handles => service[m][n] = HandleEntry(r))
  BY <1>1 DEF Told
<1>3. asked \in [Clients -> Requests \cup {None}] /\ m \in Tos
  BY DEF TypeOK, Tos
<1>4. /\ sent \in [Clients -> Requests \cup {None}]
      /\ sent[c] # None /\ sent[c].to = m /\ sent[c].name = n
      /\ \A x \in Clients : x # c => sent[x] = asked[x]
  BY <1>1, <1>3, SentIs
<1>5. r \in Answers
  BY DEF Answers
<1>6. PICK C \in SUBSET Clients : C = {c}
  OBVIOUS
<1>61. RetDone(m, C, r, n, sent)
  <2>1. C # {} /\ \A d \in C : sent[d] # None /\ sent[d].name = n /\ sent[d].to \in Managers
    BY <1>4, <1>6
  <2>2. Ret(m, C, r, sent)
    BY <1>2, <1>6 DEF Ret
  <2> QED BY <1>4, <1>5, <2>1, <2>2, RetEffect
<1>7. asked' \in [Clients -> Requests \cup {None}] /\ \A x \in Clients : asked'[x] = asked[x]
  BY <1>4, <1>6, <1>61 DEF RetDone
<1>8. asked' = asked
  BY <1>3, <1>7
<1>9. \A b : b \in back' <=> b \in back /\ ~(b.to = m /\ b.client = c)
  BY <1>4, <1>6, <1>61 DEF RetDone
<1>10. \A b \in back : ~(b.to = m /\ b.client = c)
  BY NoRequest DEF Answered
<1>11. back' = back
  BY <1>9, <1>10
<1>12. net' = net
  BY NoRequest DEF Told
<1>13. UNCHANGED <<service, mailbox>>
  BY DEF Told
<1>14. GivenNow(n, r)
  BY <1>4, <1>6, <1>61 DEF RetDone, GivenNow
<1>15. UNCHANGED <<asked, net, back, service, mailbox>>
  BY <1>8, <1>11, <1>12, <1>13
<1>16. \E q \in Handles \cup {Failed} :
              (q \in Handles => service[m][n] = HandleEntry(q)) /\ GivenNow(n, q)
  <2>1. GivenNow(n, r)
    BY <1>14
  <2>2. r \in Handles => service[m][n] = HandleEntry(r)
    BY <1>2
  <2> WITNESS r \in Handles \cup {Failed}
  <2> QED BY <2>1, <2>2
<1> QED BY <1>15, <1>16

LEMMA AnsweredSame ==
  ASSUME back' = back
  PROVE  SameAnswered
BY DEF SameAnswered, Answered

\* A client that had no request waits at the manager it asks.
LEMMA HeldAskJoins ==
  ASSUME HeldInv, NEW c \in Clients, asked[c] = None, NEW m \in Managers, NEW n \in Names,
         NowFor(c, m, n), NowWaits(m, n, c), net' = net, back' = back, net \in SUBSET Clients
  PROVE  HeldInv'
<1>0. SameAnswered
  BY AnsweredSame
<1>1. /\ \A k, y : ~For(c, k, y)
      /\ \A k \in Managers, y \in Names : ~Parked(k, y, c)
      /\ c \notin net /\ \A k \in Managers : ~Answered(k, c)
  BY NoRequest
<1>2. /\ \A x \in Clients, k \in Managers, y \in Names :
           For(x, k, y)' <=> For(x, k, y) \/ (x = c /\ k = m /\ y = n)
      /\ \A k \in Managers, y \in Names, x \in Clients :
           /\ Waiting(k, y, x)' <=> Waiting(k, y, x) \/ (k = m /\ y = n /\ x = c)
           /\ Launching(k, y, x)' <=> Launching(k, y, x)
      /\ \A k \in Managers, x \in Clients : Answered(k, x)' <=> Answered(k, x)
      /\ Master \in Managers /\ Others \in SUBSET Managers
  BY <1>0, DirectoryAssumption DEF NowFor, NowWaits, SameAnswered, Tos, Others
<1>3. Places'
  BY <1>1, <1>2 DEF HeldInv, Places, Parked
<1>4. AtHome'
  BY <1>1, <1>2 DEF HeldInv, AtHome, Parked
<1>5. CallOut'
  BY <1>1, <1>2 DEF HeldInv, CallOut, Parked
<1>6. CallOnce'
  BY <1>1, <1>2 DEF HeldInv, CallOnce, Parked
<1>7. CallBehind'
  <2>1. \A x \in net' : \E k \in Others, y \in Names : For(x, k, y)'
    BY <1>2 DEF HeldInv, CallBehind
  <2>2. \A k \in Others, y \in Names, x \in Clients :
           For(x, k, y)' /\ (x \in net' \/ Parked(Master, y, x)') => Launching(k, y, x)'
    <3> SUFFICES ASSUME NEW k \in Others, NEW y \in Names, NEW x \in Clients, For(x, k, y)',
                        x \in net' \/ Parked(Master, y, x)'
                 PROVE  Launching(k, y, x)'
      OBVIOUS
    <3>1. CASE x = c
      BY <1>1, <1>2, <3>1 DEF Parked, Others
    <3>2. CASE x # c
      BY <1>2, <3>2 DEF HeldInv, CallBehind, Parked
    <3> QED BY <3>1, <3>2
  <2> QED BY <2>1, <2>2 DEF CallBehind
<1>8. AnswersHeld'
  BY <1>1, <1>2 DEF HeldInv, AnswersHeld
<1> QED BY <1>3, <1>4, <1>5, <1>6, <1>7, <1>8 DEF HeldInv

\* It launches there, and its manager calls Master unless it is Master.
LEMMA HeldAskLeads ==
  ASSUME HeldInv, NEW c \in Clients, asked[c] = None, NEW m \in Managers, NEW n \in Names,
         NowFor(c, m, n), NowLaunches(m, n, c), back' = back, net \in SUBSET Clients,
         net' = IF m = Master THEN net ELSE net \cup {c}
  PROVE  HeldInv'
<1>0. SameAnswered
  BY AnsweredSame
<1>1. /\ \A k, y : ~For(c, k, y)
      /\ \A k \in Managers, y \in Names : ~Parked(k, y, c)
      /\ c \notin net /\ \A k \in Managers : ~Answered(k, c)
  BY NoRequest
<1>2. /\ \A x \in Clients, k \in Managers, y \in Names :
           For(x, k, y)' <=> For(x, k, y) \/ (x = c /\ k = m /\ y = n)
      /\ \A k \in Managers, y \in Names, x \in Clients :
           /\ Launching(k, y, x)' <=> Launching(k, y, x) \/ (k = m /\ y = n /\ x = c)
           /\ Waiting(k, y, x)' <=> Waiting(k, y, x)
      /\ \A k \in Managers, x \in Clients : Answered(k, x)' <=> Answered(k, x)
      /\ Master \in Managers /\ Others \in SUBSET Managers /\ Master \notin Others
  BY <1>0, DirectoryAssumption DEF NowFor, NowLaunches, SameAnswered, Tos, Others
<1>3. Places'
  BY <1>1, <1>2 DEF HeldInv, Places, Parked
<1>4. AtHome'
  BY <1>1, <1>2 DEF HeldInv, AtHome, Parked
<1>5. CallOut'
  BY <1>1, <1>2 DEF HeldInv, CallOut, Parked
<1>6. CallOnce'
  BY <1>1, <1>2 DEF HeldInv, CallOnce, Parked
<1>7. CallBehind'
  <2>1. m # Master => m \in Others
    BY DEF Others
  <2> QED BY <1>1, <1>2, <2>1 DEF HeldInv, CallBehind, Parked
<1>8. AnswersHeld'
  BY <1>1, <1>2 DEF HeldInv, AnswersHeld
<1> QED BY <1>3, <1>4, <1>5, <1>6, <1>7, <1>8 DEF HeldInv

\* The call of another manager arrives at Master and waits or launches there.
LEMMA HeldRemoteIn ==
  ASSUME HeldInv, NEW c \in net, NEW k \in Others, NEW n \in Names, For(c, k, n),
         NowWaits(Master, n, c) \/ NowLaunches(Master, n, c), SameFor,
         net' = net \ {c}, back' = back, net \in SUBSET Clients
  PROVE  HeldInv'
<1>0. SameAnswered
  BY AnsweredSame
<1>1. /\ ~Parked(Master, n, c) /\ Launching(k, n, c) /\ ~Answered(k, c) /\ c \in Clients
      /\ \A m, y : For(c, m, y) => m = k /\ y = n
  BY ForOnce DEF HeldInv, CallOnce, CallBehind
<1>2. /\ \A x \in Clients, m \in Managers, y \in Names : For(x, m, y)' <=> For(x, m, y)
      /\ \A m \in Managers, x \in Clients : Answered(m, x)' <=> Answered(m, x)
      /\ Master \in Managers /\ Others \in SUBSET Managers /\ Master \notin Others
  BY <1>0, DirectoryAssumption DEF SameFor, SameAnswered, Tos, Others
<1>3. /\ \A m \in Managers, y \in Names, x \in Clients :
           ~(m = Master /\ y = n /\ x = c) =>
             /\ Waiting(m, y, x)' <=> Waiting(m, y, x)
             /\ Launching(m, y, x)' <=> Launching(m, y, x)
      /\ Parked(Master, n, c)' /\ ~(Waiting(Master, n, c)' /\ Launching(Master, n, c)')
  BY <1>1, <1>2 DEF NowWaits, NowLaunches, Parked
<1>4. Places'
  BY <1>1, <1>2, <1>3 DEF HeldInv, Places, Parked
<1>5. AtHome'
  BY <1>1, <1>2, <1>3 DEF HeldInv, AtHome, Parked
<1>6. CallOut'
  BY <1>1, <1>2, <1>3 DEF HeldInv, CallOut, Parked
<1>7. CallOnce'
  BY <1>1, <1>2, <1>3 DEF HeldInv, CallOnce, Parked
<1>8. CallBehind'
  BY <1>1, <1>2, <1>3 DEF HeldInv, CallBehind, Parked
<1>9. AnswersHeld'
  <2>1. \A m \in Managers, y \in Names, x \in Clients : Launching(m, y, x) => Launching(m, y, x)'
    BY <1>1, <1>2, <1>3 DEF Parked
  <2> QED BY <1>2, <2>1 DEF HeldInv, AnswersHeld
<1> QED BY <1>4, <1>5, <1>6, <1>7, <1>8, <1>9 DEF HeldInv

\* Answers: what is in back, and that an answer of one manager concerns nobody else.
RetMoves(m, C, n) ==
  /\ \A k \in Managers, x \in Clients :
       Answered(k, x)' <=> \/ Answered(k, x) /\ ~(k = m /\ x \in C)
                           \/ x \in C /\ k # m /\ For(x, k, n)
  /\ \A x \in Clients, k \in Tos, y \in Names :
       For(x, k, y)' <=> For(x, k, y) /\ ~(k = m /\ x \in C)

LEMMA RetAnswered ==
  ASSUME NEW m \in Managers, NEW C \in SUBSET Clients, NEW r, NEW n \in Names,
         back \in SUBSET Backs, \A c \in C : asked[c] # None /\ asked[c].name = n,
         RetDone(m, C, r, n, asked)
  PROVE  RetMoves(m, C, n)
<1>1. \A b : b \in back' <=>
       \/ b \in back /\ ~(b.to = m /\ b.client \in C)
       \/ \E c \in C : /\ asked[c].to # m
                       /\ b = [to |-> asked[c].to, client |-> c, answer |-> Result(r)]
  BY DEF RetDone
<1>2. ASSUME NEW k \in Managers, NEW x \in Clients
      PROVE  Answered(k, x)' <=> \/ Answered(k, x) /\ ~(k = m /\ x \in C)
                                 \/ x \in C /\ k # m /\ For(x, k, n)
  <2>1. ASSUME NEW b \in back', b.to = k, b.client = x
        PROVE  \/ Answered(k, x) /\ ~(k = m /\ x \in C)
               \/ x \in C /\ k # m /\ For(x, k, n)
    BY <1>1, <2>1 DEF Answered, For
  <2>2. ASSUME NEW b \in back, b.to = k, b.client = x, ~(k = m /\ x \in C)
        PROVE  b \in back'
    BY <1>1, <2>2
  <2>3. ASSUME x \in C, k # m, For(x, k, n)
        PROVE  \E b \in back' : b.to = k /\ b.client = x
    <3>1. PICK b : b = [to |-> asked[x].to, client |-> x, answer |-> Result(r)]
      OBVIOUS
    <3>2. b.to = k /\ b.client = x
      BY <2>3, <3>1 DEF For
    <3>3. b \in back'
      BY <1>1, <2>3, <3>1 DEF For
    <3> QED BY <3>2, <3>3
  <2> QED BY <2>1, <2>2, <2>3 DEF Answered
<1>3. ASSUME NEW x \in Clients, NEW k \in Tos, NEW y \in Names
      PROVE  For(x, k, y)' <=> For(x, k, y) /\ ~(k = m /\ x \in C)
  <2>1. asked'[x] = IF x \in C /\ asked[x].to = m THEN None ELSE asked[x]
    BY DEF RetDone
  <2> QED BY <2>1 DEF For
<1> QED BY <1>2, <1>3 DEF RetMoves

LEMMA RetOnce ==
  ASSUME NEW m \in Managers, NEW C \in SUBSET Clients, NEW r, NEW n \in Names,
         back \in SUBSET Backs, RetDone(m, C, r, n, asked),
         \A a, b \in back : a.to = b.to /\ a.client = b.client => a = b,
         \A c \in C : asked[c].to # m => ~Answered(asked[c].to, c)
  PROVE  \A a, b \in back' : a.to = b.to /\ a.client = b.client => a = b
<1>1. \A b : b \in back' <=>
       \/ b \in back /\ ~(b.to = m /\ b.client \in C)
       \/ \E c \in C : /\ asked[c].to # m
                       /\ b = [to |-> asked[c].to, client |-> c, answer |-> Result(r)]
  BY DEF RetDone
<1>2. ASSUME NEW a \in back', NEW b \in back', a.to = b.to, a.client = b.client
      PROVE  a = b
  <2>1. ASSUME NEW d \in back', d \notin back
        PROVE  /\ d.client \in C /\ asked[d.client].to # m /\ d.to = asked[d.client].to
               /\ d = [to |-> asked[d.client].to, client |-> d.client, answer |-> Result(r)]
    BY <1>1, <2>1
  <2>2. CASE a \in back /\ b \in back
    BY <1>2, <2>2
  <2>3. CASE a \notin back /\ b \notin back
    BY <1>2, <2>1, <2>3
  <2>4. CASE a \notin back /\ b \in back
    BY <1>2, <2>1, <2>4 DEF Answered
  <2>5. CASE a \in back /\ b \notin back
    BY <1>2, <2>1, <2>5 DEF Answered
  <2> QED BY <2>2, <2>3, <2>4, <2>5
<1> QED BY <1>2

LEMMA RemoteTold ==
  ASSUME TypeOK, HeldInv, NEW c \in net, NEW k \in Others, NEW n \in Names, For(c, k, n),
         Told(Master, c, n, asked)
  PROVE  /\ SameFor /\ net' = net \ {c} /\ UNCHANGED <<asked, service, mailbox>>
         /\ \E r \in Handles \cup {Failed} : /\ RetDone(Master, {c}, r, n, asked)
                                             /\ r \in Handles => service[Master][n] = HandleEntry(r)
         /\ \A x \in Clients, m \in Managers :
              Answered(m, x)' <=> Answered(m, x) \/ (x = c /\ m = k)
         /\ \A a, b \in back' : a.to = b.to /\ a.client = b.client => a = b
         /\ given' = given
<1>1. PICK r \in Handles \cup {Failed} :
        Ret(Master, {c}, r, asked) /\ (r \in Handles => service[Master][n] = HandleEntry(r))
  BY DEF Told
<1>2. /\ asked \in [Clients -> Requests \cup {None}] /\ back \in SUBSET Backs
      /\ c \in Clients /\ {c} \in SUBSET Clients /\ given \in [Names -> SUBSET Handles]
      /\ Master \in Managers /\ k \in Managers /\ k # Master
  BY DirectoryAssumption DEF TypeOK, Backs, Others
<1>3. asked[c] # None /\ asked[c].name = n /\ asked[c].to = k
  BY DEF For
<1>4. r \in Answers
  BY DEF Answers
<1>5. \A d \in {c} : asked[d] # None /\ asked[d].name = n /\ asked[d].to \in Managers
  BY <1>2, <1>3
<1>6. RetDone(Master, {c}, r, n, asked)
  BY <1>1, <1>2, <1>4, <1>5, RetEffect
<1>7. /\ \A m \in Managers, x \in Clients :
              Answered(m, x)' <=> \/ Answered(m, x) /\ ~(m = Master /\ x = c)
                                  \/ x = c /\ m # Master /\ For(x, m, n)
      /\ \A x \in Clients, m \in Tos, y \in Names :
              For(x, m, y)' <=> For(x, m, y) /\ ~(m = Master /\ x = c)
  <2>1. RetMoves(Master, {c}, n)
    BY <1>2, <1>5, <1>6, RetAnswered
  <2> QED BY <2>1 DEF RetMoves
<1>8. SameFor
  BY <1>2, <1>3, <1>7 DEF SameFor, For
<1>9. ~Parked(Master, n, c) /\ ~Answered(k, c)
  BY <1>2 DEF HeldInv, CallOnce
<1>10. ~Answered(Master, c)
  <2>1. ASSUME NEW y \in Names, Launching(Master, y, c) PROVE FALSE
    <3>1. y = n
      BY <1>2, <1>3, <2>1 DEF HeldInv, Places, Parked, For
    <3> QED BY <1>9, <2>1, <3>1 DEF Parked
  <2> QED BY <1>2, <2>1 DEF HeldInv, AnswersHeld
<1>11. ASSUME NEW x \in Clients, NEW m \in Managers
       PROVE  Answered(m, x)' <=> Answered(m, x) \/ (x = c /\ m = k)
  BY <1>2, <1>3, <1>7, <1>10 DEF For
<1>12. \A a, b \in back' : a.to = b.to /\ a.client = b.client => a = b
  <2>1. \A d \in {c} : asked[d].to # Master => ~Answered(asked[d].to, d)
    BY <1>3, <1>9
  <2> QED BY <1>2, <1>6, <2>1, RetOnce DEF HeldInv, AnswersHeld
<1>13. asked' = asked
  <2>1. \A x \in Clients : asked'[x] = asked[x]
    BY <1>2, <1>3, <1>6 DEF RetDone
  <2> QED BY <1>2, <1>6, <2>1 DEF RetDone
<1>14. given' = given
  <2>1. \A y \in Names : given'[y] = given[y]
    BY <1>2, <1>3, <1>6 DEF RetDone
  <2> QED BY <1>2, <1>6, <2>1 DEF RetDone
<1>15. net' = net \ {c} /\ UNCHANGED <<service, mailbox>>
  BY DEF Told
<1>16. \E q \in Handles \cup {Failed} : /\ RetDone(Master, {c}, q, n, asked)
                                        /\ q \in Handles => service[Master][n] = HandleEntry(q)
  <2>1. r \in Handles => service[Master][n] = HandleEntry(r)
    BY <1>1
  <2> WITNESS r \in Handles \cup {Failed}
  <2> QED BY <1>6, <2>1
<1> QED BY <1>8, <1>11, <1>12, <1>13, <1>14, <1>15, <1>16

SameTables ==
  \A m \in Managers, n \in Names, c \in Clients :
    /\ Waiting(m, n, c)' <=> Waiting(m, n, c)
    /\ Launching(m, n, c)' <=> Launching(m, n, c)

LEMMA TablesSame ==
  ASSUME service' = service
  PROVE  SameTables
BY DEF SameTables, Waiting, Launching

LEMMA HeldRemoteTold ==
  ASSUME HeldInv, NEW c \in net, NEW k \in Others, NEW n \in Names, For(c, k, n),
         SameFor, SameTables, net' = net \ {c}, net \in SUBSET Clients,
         \A x \in Clients, m \in Managers :
              Answered(m, x)' <=> Answered(m, x) \/ (x = c /\ m = k),
         \A a, b \in back' : a.to = b.to /\ a.client = b.client => a = b
  PROVE  HeldInv'
<1>1. /\ ~Parked(Master, n, c) /\ Launching(k, n, c) /\ ~Answered(k, c) /\ c \in Clients
      /\ \A m, y : For(c, m, y) => m = k /\ y = n
  BY ForOnce DEF HeldInv, CallOnce, CallBehind
<1>2. /\ \A x \in Clients, m \in Managers, y \in Names : For(x, m, y)' <=> For(x, m, y)
      /\ \A m \in Managers, y \in Names, x \in Clients :
             /\ Waiting(m, y, x)' <=> Waiting(m, y, x)
             /\ Launching(m, y, x)' <=> Launching(m, y, x)
      /\ Master \in Managers /\ Others \in SUBSET Managers /\ Master \notin Others
  BY DirectoryAssumption DEF SameFor, SameTables, Tos, Others
<1>3. Places'
  BY <1>2 DEF HeldInv, Places, Parked
<1>4. AtHome'
  BY <1>2 DEF HeldInv, AtHome, Parked
<1>5. CallOut'
  BY <1>1, <1>2 DEF HeldInv, CallOut, Parked
<1>6. CallOnce'
  BY <1>1, <1>2 DEF HeldInv, CallOnce, Parked
<1>7. CallBehind'
  BY <1>1, <1>2 DEF HeldInv, CallBehind, Parked
<1>8. AnswersHeld'
  BY <1>1, <1>2 DEF HeldInv, AnswersHeld
<1> QED BY <1>3, <1>4, <1>5, <1>6, <1>7, <1>8 DEF HeldInv

\* The answer r to the launch of n at m comes: the table ends, and everybody in it
\* gets the answer.
Returns(m, n, r) ==
  /\ r \in Answers
  /\ \E b \in back : b.to = m /\ b.answer = r /\ Launching(m, n, b.client)
  /\ NowEnds(m, n, Outcome(r))
  /\ \A x \in Clients, k \in Tos, y \in Names :
       For(x, k, y)' <=> For(x, k, y) /\ ~(k = m /\ y = n)
  /\ \A k \in Managers, x \in Clients :
       Answered(k, x)' <=> \/ Answered(k, x) /\ ~(k = m /\ Parked(m, n, x))
                           \/ k # m /\ For(x, k, n) /\ Parked(m, n, x)
  /\ \A a, b \in back' : a.to = b.to /\ a.client = b.client => a = b
  /\ \E C \in SUBSET Clients : /\ \A x \in Clients : x \in C <=> Parked(m, n, x)
                               /\ RetDone(m, C, r, n, asked)
  /\ UNCHANGED <<net, mailbox, asks, instance, services, state, killing, name, lost>>

LEMMA OutcomeIs ==
  ASSUME NEW r \in Answers
  PROVE  /\ Outcome(r) \in Entries /\ Outcome(r).is # "table"
         /\ r \in Handles => Outcome(r) = HandleEntry(r)
         /\ r = Failed => Outcome(r) = ErrorEntry
         /\ r = Nil => Outcome(r) = NilEntry
<1>1. Nil \notin Handles /\ Failed \notin Handles /\ Nil # Failed
  BY DirectoryAssumption DEF Nil, Failed, Handles
<1>2. CASE r \in Handles
  BY <1>1, <1>2, EntriesIn, EntriesDiffer DEF Outcome
<1>3. CASE r = Nil
  BY <1>1, <1>3, EntriesIn, EntriesDiffer DEF Outcome
<1>4. CASE r = Failed
  BY <1>1, <1>4, EntriesIn, EntriesDiffer DEF Outcome
<1> QED BY <1>2, <1>3, <1>4 DEF Answers

LEMMA ReturnedIs ==
  ASSUME TypeOK, HeldInv, NEW m \in Managers, Returned(m)
  PROVE  \E n \in Names, r \in Answers : Returns(m, n, r)
<1>1. PICK b \in back :
        /\ b.to = m /\ service[m][asked[b.client].name].is = "table"
        /\ service' = [service EXCEPT ![m][asked[b.client].name] = Outcome(b.answer)]
        /\ Ret(m, {b.client} \cup service[m][asked[b.client].name].waiting, b.answer, asked)
        /\ UNCHANGED <<asks, net, mailbox, instance, services, state, killing, name, lost>>
  BY DEF Returned, Woken
<1>2. /\ b \in Backs /\ back \in SUBSET Backs /\ asked \in [Clients -> Requests \cup {None}]
      /\ service \in [Managers -> [Names -> Entries]]
  BY DEF TypeOK, Backs
<1>3. b.client \in Clients /\ b.answer \in Answers
  BY <1>2 DEF Backs
<1>4. PICK n \in Names : Launching(m, n, b.client)
  BY <1>1, <1>3 DEF HeldInv, AnswersHeld, Answered
<1>5. asked[b.client].name = n
  BY <1>3, <1>4 DEF HeldInv, Places, Parked, For
<1>6. service[m][n].launch = b.client /\ service[m][n].is = "table"
  BY <1>4 DEF Launching
<1>7. PICK C : C = {b.client} \cup service[m][n].waiting
  OBVIOUS
<1>8. service[m][n].waiting \in SUBSET Clients
  BY <1>2, <1>6, EntryKinds, EntriesDiffer
<1>9. C \in SUBSET Clients /\ C # {} /\ \A x \in Clients : x \in C <=> Parked(m, n, x)
  BY <1>3, <1>6, <1>7, <1>8 DEF Parked, Waiting, Launching
<1>10. \A x \in C : asked[x] # None /\ asked[x].name = n /\ asked[x].to \in Managers
  BY <1>9 DEF HeldInv, Places, For, Others
<1>11. RetDone(m, C, b.answer, n, asked)
  <2>1. Ret(m, C, b.answer, asked)
    BY <1>1, <1>5, <1>7
  <2> QED BY <1>2, <1>3, <1>9, <1>10, <2>1, RetEffect
<1>12. NowEnds(m, n, Outcome(b.answer))
  <2>1. service' = [service EXCEPT ![m][n] = Outcome(b.answer)]
    BY <1>1, <1>5
  <2> QED BY <1>2, <1>3, <2>1, OutcomeIs, LeavesTable
<1>13. RetMoves(m, C, n)
  BY <1>2, <1>9, <1>10, <1>11, RetAnswered
<1>14. ASSUME NEW x \in Clients, NEW k \in Tos, NEW y \in Names
       PROVE  For(x, k, y)' <=> For(x, k, y) /\ ~(k = m /\ y = n)
  <2>1. For(x, m, n) => x \in C
    BY <1>9 DEF HeldInv, AtHome
  <2>2. x \in C /\ For(x, k, y) => y = n
    BY <1>10 DEF For
  <2> QED BY <1>13, <2>1, <2>2 DEF RetMoves
<1>15. ASSUME NEW k \in Managers, NEW x \in Clients
       PROVE  Answered(k, x)' <=> \/ Answered(k, x) /\ ~(k = m /\ Parked(m, n, x))
                                  \/ k # m /\ For(x, k, n) /\ Parked(m, n, x)
  BY <1>9, <1>13 DEF RetMoves
<1>16. ASSUME NEW x \in C, asked[x].to # m PROVE ~Answered(asked[x].to, x)
  <2>1. x \in Clients /\ Parked(m, n, x)
    BY <1>9
  <2>2. m = Master /\ \E k \in Others : For(x, k, n)
    BY <1>16, <2>1 DEF HeldInv, Places, For
  <2>3. PICK k \in Others : For(x, k, n) /\ asked[x].to = k
    BY <2>2 DEF For
  <2> QED BY <2>1, <2>2, <2>3 DEF HeldInv, CallOnce
<1>17. \A a, d \in back' : a.to = d.to /\ a.client = d.client => a = d
  BY <1>2, <1>9, <1>11, <1>16, RetOnce DEF HeldInv, AnswersHeld
<1>18. UNCHANGED <<net, mailbox, asks, instance, services, state, killing, name, lost>>
  BY <1>1
<1>19. Returns(m, n, b.answer)
  BY <1>1, <1>3, <1>4, <1>9, <1>11, <1>12, <1>14, <1>15, <1>17, <1>18 DEF Returns
<1> QED BY <1>3, <1>19

LEMMA HeldReturns ==
  ASSUME HeldInv, NEW m \in Managers, NEW n \in Names, NEW r, Returns(m, n, r),
         net \in SUBSET Clients, back \in SUBSET Backs
  PROVE  HeldInv'
<1>1. /\ \A x \in Clients, k \in Managers, y \in Names :
           For(x, k, y)' <=> For(x, k, y) /\ ~(k = m /\ y = n)
      /\ \A k \in Managers, y \in Names, x \in Clients :
           /\ Waiting(k, y, x)' <=> Waiting(k, y, x) /\ ~(k = m /\ y = n)
           /\ Launching(k, y, x)' <=> Launching(k, y, x) /\ ~(k = m /\ y = n)
      /\ \A k \in Managers, x \in Clients :
           Answered(k, x)' <=> \/ Answered(k, x) /\ ~(k = m /\ Parked(m, n, x))
                               \/ k # m /\ For(x, k, n) /\ Parked(m, n, x)
      /\ \A a, b \in back' : a.to = b.to /\ a.client = b.client => a = b
      /\ net' = net
      /\ Master \in Managers /\ Others \in SUBSET Managers /\ Master \notin Others
      /\ m # Master => m \in Others
  BY DirectoryAssumption DEF Returns, NowEnds, Tos, Others
<1>2. PICK l \in Clients : Launching(m, n, l) /\ Answered(m, l)
  <2>1. PICK b \in back : b.to = m /\ Launching(m, n, b.client)
    BY DEF Returns
  <2>2. b.client \in Clients
    BY DEF Backs
  <2>3. PICK l \in Clients : l = b.client
    BY <2>2
  <2> QED BY <2>1, <2>3 DEF Answered
<1>3. \A x \in Clients : Launching(m, n, x) => x = l
  BY <1>2 DEF Launching
\* Unless m is Master no call of the table is on its way any more.
<1>4. ASSUME NEW x \in Clients, For(x, m, n), m # Master
      PROVE  x \notin net /\ ~Parked(Master, n, x)
  <2>1. ASSUME x \in net \/ Parked(Master, n, x) PROVE FALSE
    <3>1. Launching(m, n, x)
      BY <1>1, <1>4, <2>1 DEF HeldInv, CallBehind
    <3>2. Answered(m, x)
      BY <1>2, <1>3, <3>1
    <3> QED BY <1>1, <1>4, <2>1, <3>2 DEF HeldInv, CallOnce
  <2> QED BY <2>1
\* Those for whom m answers another manager are where that one launches.
<1>5. ASSUME NEW k \in Managers, NEW x \in Clients, k # m, For(x, k, n), Parked(m, n, x)
      PROVE  m = Master /\ k \in Others /\ Launching(k, n, x) /\ x \notin net /\ ~Answered(k, x)
  <2>1. m = Master
    BY <1>5, ForOnce DEF HeldInv, Places
  <2>2. k \in Others
    BY <1>5, <2>1 DEF Others
  <2> QED BY <1>5, <2>1, <2>2 DEF HeldInv, CallBehind, CallOnce
<1>6. Places'
  <2> SUFFICES ASSUME NEW k \in Managers, NEW y \in Names, NEW x \in Clients, Parked(k, y, x)'
               PROVE  /\ ~(Waiting(k, y, x)' /\ Launching(k, y, x)')
                      /\ For(x, k, y)' \/ (k = Master /\ \E j \in Others : For(x, j, y)')
    BY DEF Places
  <2>1. Parked(k, y, x) /\ ~(k = m /\ y = n)
    BY <1>1 DEF Parked
  <2>2. ~(Waiting(k, y, x)' /\ Launching(k, y, x)')
    BY <1>1, <2>1 DEF HeldInv, Places
  <2>3. CASE For(x, k, y)
    BY <1>1, <2>1, <2>2, <2>3
  <2>4. ASSUME k = Master, NEW j \in Others, For(x, j, y)
        PROVE  For(x, j, y)'
    BY <1>1, <1>4, <2>1, <2>4
  <2> QED BY <2>1, <2>2, <2>3, <2>4 DEF HeldInv, Places
<1>7. AtHome'
  BY <1>1 DEF HeldInv, AtHome, Parked
<1>8. CallOut'
  <2> SUFFICES ASSUME NEW k \in Others, NEW y \in Names, NEW x \in Clients,
                      For(x, k, y)', Launching(k, y, x)'
               PROVE  x \in net' \/ Parked(Master, y, x)' \/ Answered(k, x)'
    BY DEF CallOut
  <2>1. For(x, k, y) /\ Launching(k, y, x) /\ ~(k = m /\ y = n) /\ k \in Managers
    BY <1>1
  <2>2. CASE x \in net
    BY <1>1, <2>2
  <2>3. CASE Parked(Master, y, x)
    BY <1>1, <2>1, <2>3 DEF Parked
  <2>4. CASE Answered(k, x)
    <3>1. k = m => ~Parked(m, n, x)
      BY <2>1, <1>1, ForOnce DEF HeldInv, Places
    <3> QED BY <1>1, <2>1, <2>4, <3>1
  <2> QED BY <2>1, <2>2, <2>3, <2>4 DEF HeldInv, CallOut
<1>9. CallOnce'
  <2> SUFFICES ASSUME NEW k \in Others, NEW y \in Names, NEW x \in Clients, For(x, k, y)'
               PROVE  /\ ~(x \in net' /\ Answered(k, x)')
                      /\ Parked(Master, y, x)' => x \notin net' /\ ~Answered(k, x)'
    BY DEF CallOnce
  <2>1. For(x, k, y) /\ k \in Managers /\ ~(k = m /\ y = n)
    BY <1>1
  <2>2. CASE Answered(k, x)
    <3>1. x \notin net /\ ~Parked(Master, y, x)
      BY <2>1, <2>2 DEF HeldInv, CallOnce
    <3> QED BY <1>1, <3>1 DEF Parked
  <2>3. CASE ~Answered(k, x)
    <3>1. Answered(k, x)' => k # m /\ For(x, k, n) /\ Parked(m, n, x) /\ y = n
      BY <1>1, <2>1, <2>3, ForOnce
    <3>2. Answered(k, x)' => x \notin net' /\ ~Parked(Master, y, x)'
      BY <1>1, <1>5, <2>1, <3>1 DEF Parked
    <3>3. Parked(Master, y, x)' => x \notin net'
      BY <1>1, <2>1 DEF HeldInv, CallOnce, Parked
    <3> QED BY <3>2, <3>3
  <2> QED BY <2>2, <2>3
<1>10. CallBehind'
  <2>1. ASSUME NEW x \in net'
        PROVE  \E k \in Others, y \in Names : For(x, k, y)'
    <3>1. PICK k \in Others, y \in Names : For(x, k, y)
      BY <1>1 DEF HeldInv, CallBehind
    <3>2. x \in Clients /\ ~(k = m /\ y = n)
      BY <1>1, <1>4, <3>1
    <3>3. For(x, k, y)'
      BY <1>1, <3>1, <3>2
    <3> WITNESS k \in Others, y \in Names
    <3> QED BY <3>3
  <2>2. ASSUME NEW k \in Others, NEW y \in Names, NEW x \in Clients,
               For(x, k, y)', x \in net' \/ Parked(Master, y, x)'
        PROVE  Launching(k, y, x)'
    <3>1. For(x, k, y) /\ ~(k = m /\ y = n) /\ (x \in net \/ Parked(Master, y, x))
      BY <1>1, <2>2 DEF Parked
    <3>2. Launching(k, y, x)
      BY <3>1 DEF HeldInv, CallBehind
    <3> QED BY <1>1, <3>1, <3>2
  <2> QED BY <2>1, <2>2 DEF CallBehind
<1>11. AnswersHeld'
  <2>1. ASSUME NEW k \in Managers, NEW x \in Clients, Answered(k, x)'
        PROVE  \E y \in Names : Launching(k, y, x)'
    <3>1. CASE Answered(k, x) /\ ~(k = m /\ Parked(m, n, x))
      <4>1. PICK y \in Names : Launching(k, y, x)
        BY <3>1 DEF HeldInv, AnswersHeld
      <4>2. ~(k = m /\ y = n)
        BY <3>1, <4>1 DEF Parked
      <4>3. Launching(k, y, x)'
        BY <1>1, <4>1, <4>2
      <4> WITNESS y \in Names
      <4> QED BY <4>3
    <3>2. CASE k # m /\ For(x, k, n) /\ Parked(m, n, x)
      <4>1. Launching(k, n, x)'
        BY <1>1, <1>5, <3>2
      <4> WITNESS n \in Names
      <4> QED BY <4>1
    <3> QED BY <1>1, <2>1, <3>1, <3>2
  <2> QED BY <1>1, <2>1 DEF AnswersHeld
<1> QED BY <1>6, <1>7, <1>8, <1>9, <1>10, <1>11 DEF HeldInv

\* Nothing that concerns a manager changes: a client may call the launcher itself, or
\* get the answer of such a call.
LEMMA HeldSame ==
  ASSUME HeldInv, SameTables, back' = back, net' = net, net \in SUBSET Clients,
         \A x \in Clients, m \in Managers, y \in Names : For(x, m, y)' <=> For(x, m, y)
  PROVE  HeldInv'
<1>1. SameAnswered
  BY AnsweredSame
<1>2. /\ \A m \in Managers, x \in Clients : Answered(m, x)' <=> Answered(m, x)
      /\ \A m \in Managers, y \in Names, x \in Clients :
             /\ Waiting(m, y, x)' <=> Waiting(m, y, x)
             /\ Launching(m, y, x)' <=> Launching(m, y, x)
      /\ Master \in Managers /\ Others \in SUBSET Managers
  BY <1>1, DirectoryAssumption DEF SameTables, SameAnswered, Others
<1>3. Places' /\ AtHome'
  BY <1>2 DEF HeldInv, Places, AtHome, Parked
<1>4. CallOut' /\ CallOnce'
  BY <1>2 DEF HeldInv, CallOut, CallOnce, Parked
<1>5. CallBehind' /\ AnswersHeld'
  BY <1>2 DEF HeldInv, CallBehind, AnswersHeld, Parked
<1> QED BY <1>3, <1>4, <1>5 DEF HeldInv

\* What the answer of the launcher to c's call does: it ends the request, or goes to
\* Master.
Freed(c) ==
  /\ \E n \in Names : For(c, "launcher", n)
  /\ asked' \in [Clients -> Requests \cup {None}]
  /\ \A x \in Clients, k \in Tos, y \in Names : For(x, k, y)' <=> For(x, k, y) /\ x # c
  /\ back' = back
Passed(c, r) ==
  /\ \E n \in Names : Launching(Master, n, c)
  /\ asked' = asked
  /\ back' = back \cup {[to |-> Master, client |-> c, answer |-> r]}

LEMMA RespondIs ==
  ASSUME TypeOK, HeldInv, NEW c \in Clients, AtLaunch(c), NEW r, Respond(c, r)
  PROVE  Freed(c) \/ Passed(c, r)
<1>1. asked \in [Clients -> Requests \cup {None}]
  BY DEF TypeOK
<1>2. ASSUME NEW n \in Names, For(c, "launcher", n) PROVE Freed(c)
  <2>1. asked' = [asked EXCEPT ![c] = None] /\ back' = back
    BY <1>2 DEF Respond, For
  <2>2. asked' \in [Clients -> Requests \cup {None}]
    BY <1>1, <2>1
  <2>3. \A x \in Clients, k \in Tos, y \in Names : For(x, k, y)' <=> For(x, k, y) /\ x # c
    BY <1>1, <2>1 DEF For
  <2> QED BY <1>2, <2>1, <2>2, <2>3 DEF Freed
<1>3. ASSUME NEW n \in Names, Launching(Master, n, c) PROVE Passed(c, r)
  <2>1. asked[c].to \in Managers
    BY <1>3, DirectoryAssumption DEF HeldInv, Places, Parked, For, Others
  <2>2. asked[c].to # "launcher"
    BY <2>1, DirectoryAssumption
  <2> QED BY <1>3, <2>2 DEF Respond, Passed
<1> QED BY <1>2, <1>3 DEF AtLaunch

LEMMA HeldFreed ==
  ASSUME HeldInv, SameTables, net' = net, net \in SUBSET Clients, NEW c \in Clients, Freed(c)
  PROVE  HeldInv'
<1>1. \A m \in Managers, y \in Names : ~For(c, m, y)
  BY ForOnce, DirectoryAssumption DEF Freed
<1>2. \A x \in Clients, m \in Managers, y \in Names : For(x, m, y)' <=> For(x, m, y)
  BY <1>1 DEF Freed, Tos
<1> QED BY <1>2, HeldSame DEF Freed

LEMMA PassedAnswers ==
  ASSUME NEW c \in Clients, NEW r, Passed(c, r), ~Answered(Master, c)
  PROVE  /\ \A m \in Managers, x \in Clients :
              Answered(m, x)' <=> Answered(m, x) \/ (m = Master /\ x = c)
         /\ (\A a, b \in back : a.to = b.to /\ a.client = b.client => a = b)
              => \A a, b \in back' : a.to = b.to /\ a.client = b.client => a = b
<1>1. PICK d : d = [to |-> Master, client |-> c, answer |-> r]
  OBVIOUS
<1>2. back' = back \cup {d} /\ d.to = Master /\ d.client = c
  BY <1>1 DEF Passed
<1>3. \A m \in Managers, x \in Clients :
              Answered(m, x)' <=> Answered(m, x) \/ (m = Master /\ x = c)
  BY <1>2 DEF Answered
<1>4. \A b \in back : ~(b.to = Master /\ b.client = c)
  BY DEF Answered
<1>5. (\A a, b \in back : a.to = b.to /\ a.client = b.client => a = b)
              => \A a, b \in back' : a.to = b.to /\ a.client = b.client => a = b
  BY <1>2, <1>4
<1> QED BY <1>3, <1>5

LEMMA HeldPassed ==
  ASSUME HeldInv, SameTables, net' = net, net \in SUBSET Clients,
         NEW c \in Clients, NEW r, Passed(c, r), ~Answered(Master, c)
  PROVE  HeldInv'
<1>1. /\ \A m \in Managers, x \in Clients :
              Answered(m, x)' <=> Answered(m, x) \/ (m = Master /\ x = c)
      /\ \A a, b \in back' : a.to = b.to /\ a.client = b.client => a = b
  BY PassedAnswers DEF HeldInv, AnswersHeld
<1>2. /\ \A x \in Clients, m \in Managers, y \in Names : For(x, m, y)' <=> For(x, m, y)
      /\ \A m \in Managers, y \in Names, x \in Clients :
             /\ Waiting(m, y, x)' <=> Waiting(m, y, x)
             /\ Launching(m, y, x)' <=> Launching(m, y, x)
      /\ Master \in Managers /\ Others \in SUBSET Managers /\ Master \notin Others
      /\ \E n \in Names : Launching(Master, n, c)
  BY DirectoryAssumption DEF SameTables, Others, Passed, For
<1>3. Places' /\ AtHome'
  BY <1>2 DEF HeldInv, Places, AtHome, Parked
<1>4. CallOut' /\ CallOnce'
  BY <1>1, <1>2 DEF HeldInv, CallOut, CallOnce, Parked
<1>5. CallBehind' /\ AnswersHeld'
  BY <1>1, <1>2 DEF HeldInv, CallBehind, AnswersHeld, Parked
<1> QED BY <1>3, <1>4, <1>5 DEF HeldInv

-----------------------------------------------------------------------------
(* The calls of the launcher: LaunchInv.                                   *)

\* What a step does to the LAUNCH messages: those of Out go, those of In come, for n.
MailsNow(Out, In, n) ==
  /\ \A x \in Clients : Mailed(x)' <=> (Mailed(x) /\ x \notin Out) \/ x \in In
  /\ \A i, j \in DOMAIN mailbox', x \in Clients : IsLaunch(i, x)' /\ IsLaunch(j, x)' => i = j
  /\ \A i \in DOMAIN mailbox', x \in Clients : IsLaunch(i, x)' =>
       \/ x \in In /\ mailbox'[i].name = n
       \/ \E j \in DOMAIN mailbox : IsLaunch(j, x) /\ mailbox[j].name = mailbox'[i].name
\* And to those who wait for a confirmation.
StartsNow(Out, In, n) ==
  /\ \A x \in Clients : Starting(x)' <=> (Starting(x) /\ x \notin Out) \/ x \in In
  /\ \A g, h \in Handles : instance'[g] = instance'[h] /\ instance'[g] # None => g = h
  /\ \A h \in Handles, x \in Clients : instance'[h] = x =>
       (x \in In /\ name'[h] = n) \/ (instance[h] = x /\ name'[h] = name[h])

LEMMA MailsSame ==
  ASSUME mailbox' = mailbox, LaunchInv
  PROVE  MailsNow({}, {}, None)
BY DEF MailsNow, Mailed, IsLaunch, LaunchInv, LaunchOnce

LEMMA MailsPutLaunch ==
  ASSUME mailbox \in Seq(Mails), NEW c \in Clients, NEW n \in Names \cup {None}, LaunchInv,
         ~Mailed(c), mailbox' = Append(mailbox, [cmd |-> "LAUNCH", client |-> c, name |-> n])
  PROVE  MailsNow({}, {c}, n)
<1>1. /\ DOMAIN mailbox = 1 .. Len(mailbox) /\ Len(mailbox) \in Nat
      /\ DOMAIN mailbox' = 1 .. Len(mailbox) + 1
      /\ \A i \in 1 .. Len(mailbox) : mailbox'[i] = mailbox[i]
      /\ mailbox'[Len(mailbox) + 1].cmd = "LAUNCH"
      /\ mailbox'[Len(mailbox) + 1].client = c
      /\ mailbox'[Len(mailbox) + 1].name = n
  BY PutLaunch
<1>2. PICK l : l = Len(mailbox) + 1
  OBVIOUS
<1>3. /\ \A i : i \in DOMAIN mailbox' <=> i \in DOMAIN mailbox \/ i = l
      /\ \A i \in DOMAIN mailbox : mailbox'[i] = mailbox[i]
      /\ mailbox'[l].cmd = "LAUNCH" /\ mailbox'[l].client = c /\ mailbox'[l].name = n
  BY <1>1, <1>2
<1>4. /\ \A i \in DOMAIN mailbox, x \in Clients : IsLaunch(i, x)' <=> IsLaunch(i, x)
      /\ \A x \in Clients : IsLaunch(l, x)' <=> x = c
  BY <1>3 DEF IsLaunch
<1>5. \A x \in Clients : Mailed(x)' <=> Mailed(x) \/ x = c
  BY <1>3, <1>4 DEF Mailed
<1>6. \A i, j \in DOMAIN mailbox', x \in Clients : IsLaunch(i, x)' /\ IsLaunch(j, x)' => i = j
  BY <1>3, <1>4 DEF Mailed, LaunchInv, LaunchOnce
<1>7. ASSUME NEW i \in DOMAIN mailbox', NEW x \in Clients, IsLaunch(i, x)'
      PROVE  \/ x = c /\ mailbox'[i].name = n
             \/ \E j \in DOMAIN mailbox : IsLaunch(j, x) /\ mailbox[j].name = mailbox'[i].name
  BY <1>3, <1>4, <1>7
<1> QED BY <1>5, <1>6, <1>7 DEF MailsNow

LEMMA MailsPutMail ==
  ASSUME mailbox \in Seq(Mails), LaunchInv, NEW h \in Handles, NEW cmds \in Seq(Words),
         mailbox' = Mail(cmds, h)
  PROVE  MailsNow({}, {}, None)
<1>1. /\ DOMAIN mailbox = 1 .. Len(mailbox) /\ Len(mailbox) \in Nat /\ Len(cmds) \in Nat
      /\ DOMAIN mailbox' = 1 .. Len(mailbox) + Len(cmds)
      /\ \A i \in 1 .. Len(mailbox) : mailbox'[i] = mailbox[i]
      /\ \A i \in 1 .. Len(cmds) : mailbox'[Len(mailbox) + i].cmd = cmds[i]
  BY PutMail
<1>2. ASSUME NEW i \in DOMAIN mailbox', i \notin DOMAIN mailbox PROVE mailbox'[i].cmd # "LAUNCH"
  <2>1. PICK j \in 1 .. Len(cmds) : i = Len(mailbox) + j
    <3>1. i - Len(mailbox) \in 1 .. Len(cmds) /\ i = Len(mailbox) + (i - Len(mailbox))
      BY <1>1, <1>2
    <3> QED BY <3>1
  <2>2. cmds[j] # "LAUNCH"
    BY DEF Words
  <2> QED BY <1>1, <2>1, <2>2
<1>3. \A i \in DOMAIN mailbox : i \in DOMAIN mailbox' /\ mailbox'[i] = mailbox[i]
  BY <1>1
<1>4. /\ \A i \in DOMAIN mailbox, x \in Clients : IsLaunch(i, x)' <=> IsLaunch(i, x)
      /\ \A i \in DOMAIN mailbox', x \in Clients : IsLaunch(i, x)' => i \in DOMAIN mailbox
  BY <1>2, <1>3 DEF IsLaunch
<1>5. \A x \in Clients : Mailed(x)' <=> Mailed(x)
  BY <1>3, <1>4 DEF Mailed
<1> QED BY <1>3, <1>4, <1>5 DEF MailsNow, LaunchInv, LaunchOnce

LEMMA MailsTaken ==
  ASSUME mailbox \in Seq(Mails), LaunchInv, mailbox # <<>>, mailbox' = Tail(mailbox),
         NEW Out, \A x \in Clients : x \in Out <=> IsLaunch(1, x)
  PROVE  MailsNow(Out, {}, None)
<1>1. /\ Len(mailbox) \in Nat \ {0}
      /\ DOMAIN mailbox = 1 .. Len(mailbox) /\ DOMAIN mailbox' = 1 .. Len(mailbox) - 1
      /\ \A i \in 1 .. Len(mailbox) - 1 : mailbox'[i] = mailbox[i + 1]
  BY TakeMail
<1>2. \A i \in DOMAIN mailbox' : /\ i + 1 \in DOMAIN mailbox /\ mailbox'[i] = mailbox[i + 1]
                                 /\ i + 1 # 1 /\ i \in Nat
  BY <1>1
<1>3. \A i \in DOMAIN mailbox', x \in Clients : IsLaunch(i, x)' <=> IsLaunch(i + 1, x)
  BY <1>2 DEF IsLaunch
<1>4. \A i \in DOMAIN mailbox : i # 1 => i - 1 \in DOMAIN mailbox' /\ (i - 1) + 1 = i
  BY <1>1
<1>5. 1 \in DOMAIN mailbox
  BY <1>1
<1>6. ASSUME NEW x \in Clients PROVE Mailed(x)' <=> Mailed(x) /\ x \notin Out
  <2>1. Mailed(x)' => Mailed(x) /\ x \notin Out
    BY <1>2, <1>3, <1>5 DEF Mailed, LaunchInv, LaunchOnce
  <2>2. ASSUME Mailed(x), x \notin Out PROVE Mailed(x)'
    <3>1. PICK i \in DOMAIN mailbox : IsLaunch(i, x)
      BY <2>2 DEF Mailed
    <3>2. i # 1
      BY <2>2, <3>1
    <3>3. PICK j : j = i - 1
      OBVIOUS
    <3>4. j \in DOMAIN mailbox' /\ IsLaunch(j, x)'
      BY <1>3, <1>4, <3>1, <3>2, <3>3
    <3> QED BY <3>4 DEF Mailed
  <2> QED BY <2>1, <2>2
<1>7. ASSUME NEW i \in DOMAIN mailbox', NEW j \in DOMAIN mailbox', NEW x \in Clients,
             IsLaunch(i, x)', IsLaunch(j, x)'
      PROVE  i = j
  <2>1. i + 1 = j + 1
    BY <1>2, <1>3, <1>7 DEF LaunchInv, LaunchOnce
  <2> QED BY <1>2, <2>1
<1>8. ASSUME NEW i \in DOMAIN mailbox', NEW x \in Clients, IsLaunch(i, x)'
      PROVE  \E j \in DOMAIN mailbox : IsLaunch(j, x) /\ mailbox[j].name = mailbox'[i].name
  BY <1>2, <1>3, <1>8
<1> QED BY <1>6, <1>7, <1>8 DEF MailsNow

LEMMA StartsSame ==
  ASSUME UNCHANGED <<instance, name>>, LaunchInv
  PROVE  StartsNow({}, {}, None)
BY DEF StartsNow, Starting, LaunchInv, LaunchOnce

LEMMA StartsPut ==
  ASSUME instance \in [Handles -> Clients \cup {None}], LaunchInv,
         name \in [Handles -> Names \cup {None}],
         NEW h \in Handles, instance[h] = None, NEW c \in Clients, ~Starting(c), NEW n,
         instance' = [instance EXCEPT ![h] = c], name' = [name EXCEPT ![h] = n]
  PROVE  StartsNow({}, {c}, n)
<1>1. /\ \A g \in Handles : instance'[g] = IF g = h THEN c ELSE instance[g]
      /\ \A g \in Handles : name'[g] = IF g = h THEN n ELSE name[g]
  OBVIOUS
<1>2. \A g \in Handles : instance[g] # c
  BY DEF Starting
<1>3. \A x \in Clients : Starting(x)' <=> Starting(x) \/ x = c
  BY <1>1, DirectoryAssumption DEF Starting
<1>4. \A g, i \in Handles : instance'[g] = instance'[i] /\ instance'[g] # None => g = i
  BY <1>1, <1>2 DEF LaunchInv, LaunchOnce
<1>5. \A g \in Handles, x \in Clients : instance'[g] = x =>
       (x = c /\ name'[g] = n) \/ (instance[g] = x /\ name'[g] = name[g])
  BY <1>1
<1> QED BY <1>3, <1>4, <1>5 DEF StartsNow

LEMMA StartsTaken ==
  ASSUME instance \in [Handles -> Clients \cup {None}], LaunchInv, NEW h \in Handles,
         NEW Out, \A x \in Clients : x \in Out <=> instance[h] = x,
         instance' = [instance EXCEPT ![h] = None], name' = name
  PROVE  StartsNow(Out, {}, None)
<1>1. \A g \in Handles : instance'[g] = IF g = h THEN None ELSE instance[g]
  OBVIOUS
<1>2. None \notin Clients
  BY DirectoryAssumption
<1>3. \A x \in Clients : Starting(x)' <=> Starting(x) /\ x \notin Out
  BY <1>1, <1>2 DEF Starting, LaunchInv, LaunchOnce
<1>4. \A g, i \in Handles : instance'[g] = instance'[i] /\ instance'[g] # None => g = i
  BY <1>1 DEF LaunchInv, LaunchOnce
<1>5. \A g \in Handles, x \in Clients : instance'[g] = x => instance[g] = x /\ name'[g] = name[g]
  BY <1>1, <1>2
<1> QED BY <1>3, <1>4, <1>5 DEF StartsNow

LEMMA LaunchStep ==
  ASSUME LaunchInv, NEW Mo, NEW Mi, NEW So, NEW Si, NEW n, NEW k,
         MailsNow(Mo, Mi, n), StartsNow(So, Si, k), LaunchHeld',
         \A x \in Clients : (x \in Mi => Called(x, n)') /\ (x \in Si => Called(x, k)'),
         \A x \in Clients, y \in Names \cup {None} :
           Called(x, y) /\ (Mailed(x)' \/ Starting(x)') => Called(x, y)'
  PROVE  LaunchInv'
<1>1. LaunchOnce'
  BY DEF MailsNow, StartsNow, LaunchOnce
<1>2. ASSUME NEW i \in DOMAIN mailbox', NEW x \in Clients, NEW y \in Names \cup {None},
             IsLaunch(i, x)', mailbox'[i].name = y
      PROVE  Called(x, y)'
  <2>1. Mailed(x)'
    BY <1>2 DEF Mailed
  <2>2. CASE x \in Mi /\ mailbox'[i].name = n
    BY <1>2, <2>2
  <2>3. CASE \E j \in DOMAIN mailbox : IsLaunch(j, x) /\ mailbox[j].name = mailbox'[i].name
    BY <1>2, <2>1, <2>3 DEF LaunchInv, LaunchNamed
  <2> QED BY <1>2, <2>2, <2>3 DEF MailsNow
<1>3. ASSUME NEW h \in Handles, NEW x \in Clients, NEW y \in Names \cup {None},
             instance'[h] = x, name'[h] = y
      PROVE  Called(x, y)'
  <2>1. Starting(x)'
    BY <1>3 DEF Starting
  <2>2. CASE x \in Si /\ name'[h] = k
    BY <1>3, <2>2
  <2>3. CASE instance[h] = x /\ name'[h] = name[h]
    BY <1>3, <2>1, <2>3 DEF LaunchInv, LaunchNamed
  <2> QED BY <1>3, <2>2, <2>3 DEF StartsNow
<1>4. LaunchNamed'
  BY <1>2, <1>3 DEF LaunchNamed
<1> QED BY <1>1, <1>4 DEF LaunchInv

\* Who calls the launcher, for which name, and whom it has answered, does not change.
SameCalls ==
  \A x \in Clients : /\ Answered(Master, x)' <=> Answered(Master, x)
                     /\ \A y \in Names : /\ For(x, "launcher", y)' <=> For(x, "launcher", y)
                                         /\ Launching(Master, y, x)' <=> Launching(Master, y, x)

LEMMA CallsSame ==
  ASSUME SameCalls, NEW x \in Clients
  PROVE  /\ Answered(Master, x)' <=> Answered(Master, x)
         /\ AtLaunch(x)' <=> AtLaunch(x)
         /\ \A y \in Names \cup {None} : Called(x, y)' <=> Called(x, y)
BY DEF SameCalls, AtLaunch, Called

LEMMA LaunchKept ==
  ASSUME LaunchInv, MailsNow({}, {}, None), StartsNow({}, {}, None), SameCalls
  PROVE  LaunchInv'
<1>1. LaunchHeld'
  BY CallsSame DEF LaunchInv, LaunchHeld, MailsNow, StartsNow
<1>2. \A x \in Clients : (x \in {} => Called(x, None)') /\ (x \in {} => Called(x, None)')
  OBVIOUS
<1>3. \A x \in Clients, y \in Names \cup {None} :
           Called(x, y) /\ (Mailed(x)' \/ Starting(x)') => Called(x, y)'
  BY CallsSame
<1> QED BY <1>1, <1>2, <1>3, LaunchStep

\* The launcher is called for c.
LEMMA LaunchCalled ==
  ASSUME LaunchInv, NEW c \in Clients, NEW n \in Names \cup {None},
         MailsNow({}, {c}, n), StartsNow({}, {}, None), ~AtLaunch(c), Called(c, n)',
         \A x \in Clients : /\ Answered(Master, x)' <=> Answered(Master, x)
                            /\ AtLaunch(x)' <=> AtLaunch(x) \/ x = c,
         \A x \in Clients, y \in Names \cup {None} : Called(x, y) => Called(x, y)'
  PROVE  LaunchInv'
<1>1. LaunchHeld'
  BY DEF LaunchInv, LaunchHeld, MailsNow, StartsNow
<1>2. \A x \in Clients : (x \in {c} => Called(x, n)') /\ (x \in {} => Called(x, None)')
  OBVIOUS
<1> QED BY <1>1, <1>2, LaunchStep

\* The launcher gets to the call and the service starts.
LEMMA LaunchStarts ==
  ASSUME LaunchInv, NEW c \in Clients, NEW n \in Names \cup {None}, Mailed(c), Called(c, n),
         MailsNow({c}, {}, None), StartsNow({}, {c}, n), SameCalls
  PROVE  LaunchInv'
<1>1. LaunchHeld'
  BY CallsSame DEF LaunchInv, LaunchHeld, MailsNow, StartsNow
<1>2. \A x \in Clients : (x \in {} => Called(x, None)') /\ (x \in {c} => Called(x, n)')
  BY CallsSame
<1>3. \A x \in Clients, y \in Names \cup {None} :
           Called(x, y) /\ (Mailed(x)' \/ Starting(x)') => Called(x, y)'
  BY CallsSame
<1> QED BY <1>1, <1>2, <1>3, LaunchStep

\* The launcher answers the call of c.
Unmailed(c) == Mailed(c) /\ MailsNow({c}, {}, None) /\ StartsNow({}, {}, None)
Started(c) == Starting(c) /\ MailsNow({}, {}, None) /\ StartsNow({c}, {}, None)

LEMMA LaunchAnswers ==
  ASSUME HeldInv, LaunchInv, SameTables, NEW c \in Clients, NEW r, Unmailed(c) \/ Started(c),
         Freed(c) \/ Passed(c, r)
  PROVE  LaunchInv'
<1>1. \A x \in Clients, y \in Names : Launching(Master, y, x)' <=> Launching(Master, y, x)
  BY DirectoryAssumption DEF SameTables
<1>2. /\ ~Answered(Master, c) /\ ~Mailed(c)' /\ ~Starting(c)'
      /\ \A x \in Clients : x # c => (Mailed(x)' <=> Mailed(x)) /\ (Starting(x)' <=> Starting(x))
  BY DEF LaunchInv, LaunchHeld, MailsNow, StartsNow, Unmailed, Started
<1>3. CASE Freed(c)
  <2>1. \A y \in Names : ~Launching(Master, y, c)
    <3>1. \A m \in Managers, y \in Names : ~For(c, m, y)
      BY <1>3, ForOnce, DirectoryAssumption DEF Freed
    <3> QED BY <3>1, DirectoryAssumption DEF HeldInv, Places, Parked, Others
  <2>2. \A x \in Clients, y \in Names : For(x, "launcher", y)' <=> For(x, "launcher", y) /\ x # c
    BY <1>3 DEF Freed, Tos
  <2>3. \A x \in Clients : AtLaunch(x)' <=> AtLaunch(x) /\ x # c
    BY <1>1, <2>1, <2>2 DEF AtLaunch
  <2>4. \A x \in Clients, y \in Names \cup {None} : x # c /\ Called(x, y) => Called(x, y)'
    BY <1>1, <2>2 DEF Called
  <2>5. \A x \in Clients : Answered(Master, x)' <=> Answered(Master, x)
    BY <1>3 DEF Freed, Answered
  <2>6. LaunchHeld'
    BY <1>2, <2>3, <2>5 DEF LaunchInv, LaunchHeld
  <2>7. \A x \in Clients, y \in Names \cup {None} :
           Called(x, y) /\ (Mailed(x)' \/ Starting(x)') => Called(x, y)'
    BY <1>2, <2>4
  <2>8. \A x \in Clients : (x \in {} => Called(x, None)') /\ (x \in {} => Called(x, None)')
    OBVIOUS
  <2>9. CASE Unmailed(c)
    BY <2>6, <2>7, <2>8, <2>9, LaunchStep DEF Unmailed
  <2>10. CASE Started(c)
    BY <2>6, <2>7, <2>8, <2>10, LaunchStep DEF Started
  <2> QED BY <2>9, <2>10
<1>4. CASE Passed(c, r)
  <2>1. \A x \in Clients : Answered(Master, x)' <=> Answered(Master, x) \/ x = c
    BY <1>2, <1>4, PassedAnswers, DirectoryAssumption
  <2>2. \A x \in Clients, y \in Names : For(x, "launcher", y)' <=> For(x, "launcher", y)
    BY <1>4 DEF Passed, For
  <2>3. \A x \in Clients : AtLaunch(x)' <=> AtLaunch(x)
    BY <1>1, <2>2 DEF AtLaunch
  <2>4. \A x \in Clients, y \in Names \cup {None} : Called(x, y) => Called(x, y)'
    BY <1>1, <2>2 DEF Called
  <2>5. AtLaunch(c)
    BY <1>4 DEF Passed, AtLaunch
  <2>6. LaunchHeld'
    BY <1>2, <2>1, <2>3, <2>5 DEF LaunchInv, LaunchHeld
  <2>8. \A x \in Clients : (x \in {} => Called(x, None)') /\ (x \in {} => Called(x, None)')
    OBVIOUS
  <2>9. CASE Unmailed(c)
    BY <2>4, <2>6, <2>8, <2>9, LaunchStep DEF Unmailed
  <2>10. CASE Started(c)
    BY <2>4, <2>6, <2>8, <2>10, LaunchStep DEF Started
  <2> QED BY <2>9, <2>10
<1> QED BY <1>3, <1>4

\* The answer comes back to a manager.
LEMMA LaunchReturns ==
  ASSUME HeldInv, LaunchInv, back \in SUBSET Backs,
         NEW m \in Managers, NEW n \in Names, NEW r, Returns(m, n, r)
  PROVE  LaunchInv'
<1>1. MailsNow({}, {}, None) /\ StartsNow({}, {}, None)
  BY MailsSame, StartsSame DEF Returns
<1>2. /\ Master \in Managers /\ "launcher" \in Tos /\ m # "launcher" /\ Managers \in SUBSET Tos
      /\ \A x \in Clients, k \in Tos, y \in Names :
           For(x, k, y)' <=> For(x, k, y) /\ ~(k = m /\ y = n)
      /\ \A k \in Managers, y \in Names, x \in Clients :
           Launching(k, y, x)' <=> Launching(k, y, x) /\ ~(k = m /\ y = n)
      /\ \A k \in Managers, x \in Clients :
           Answered(k, x)' <=> \/ Answered(k, x) /\ ~(k = m /\ Parked(m, n, x))
                               \/ k # m /\ For(x, k, n) /\ Parked(m, n, x)
  BY DirectoryAssumption DEF Returns, NowEnds, Tos
<1>3. \A x \in Clients, y \in Names : For(x, "launcher", y)' <=> For(x, "launcher", y)
  BY <1>2
<1>4. CASE m # Master
  <2>1. \A x \in Clients : ~(For(x, Master, n) /\ Parked(m, n, x))
    BY <1>2, <1>4, ForOnce DEF HeldInv, Places
  <2>2. SameCalls
    BY <1>2, <1>3, <1>4, <2>1 DEF SameCalls
  <2> QED BY <1>1, <2>2, LaunchKept
<1>5. CASE m = Master
  <2>1. PICK l \in Clients : Launching(Master, n, l) /\ Answered(Master, l)
    <3>1. PICK b \in back : b.to = m /\ Launching(m, n, b.client)
      BY DEF Returns
    <3>2. b.client \in Clients
      BY DEF Backs
    <3>3. PICK l \in Clients : l = b.client
      BY <3>2
    <3> QED BY <1>5, <3>1, <3>3 DEF Answered
  <2>2. \A x \in Clients : Launching(Master, n, x) => x = l
    BY <2>1 DEF Launching
  <2>3. ASSUME NEW y \in Names, Launching(Master, y, l) PROVE y = n
    <3>1. \A k \in Names : Parked(Master, k, l) => asked[l].name = k
      BY <1>2 DEF HeldInv, Places, For
    <3> QED BY <2>1, <2>3, <3>1 DEF Parked
  <2>4. \A y \in Names : ~For(l, "launcher", y)
    <3>1. asked[l].to \in Managers
      BY <1>2, <2>1 DEF HeldInv, Places, For, Parked, Others
    <3> QED BY <3>1, DirectoryAssumption DEF For
  <2>5. \A x \in Clients : AtLaunch(x)' <=> AtLaunch(x) /\ x # l
    BY <1>2, <1>3, <1>5, <2>2, <2>3, <2>4 DEF AtLaunch
  <2>6. ASSUME NEW x \in Clients PROVE Answered(Master, x)' <=> Answered(Master, x) /\ x # l
    <3>1. ASSUME Answered(Master, x), Parked(Master, n, x) PROVE x = l
      <4>1. PICK y \in Names : Launching(Master, y, x)
        BY <1>2, <3>1 DEF HeldInv, AnswersHeld
      <4>2. \A k \in Names : Parked(Master, k, x) => asked[x].name = k
        BY <1>2 DEF HeldInv, Places, For
      <4>3. y = n
        BY <3>1, <4>1, <4>2 DEF Parked
      <4> QED BY <2>2, <4>1, <4>3
    <3>2. Parked(Master, n, l)
      BY <2>1 DEF Parked
    <3> QED BY <1>2, <1>5, <3>1, <3>2
  <2>7. \A x \in Clients, y \in Names \cup {None} : x # l /\ Called(x, y) => Called(x, y)'
    BY <1>2, <1>3, <1>5, <2>2 DEF Called
  <2>8. LaunchHeld'
    BY <1>1, <2>1, <2>5, <2>6 DEF LaunchInv, LaunchHeld, MailsNow, StartsNow
  <2>9. \A x \in Clients, y \in Names \cup {None} :
           Called(x, y) /\ (Mailed(x)' \/ Starting(x)') => Called(x, y)'
    BY <1>1, <2>1, <2>7 DEF LaunchInv, LaunchHeld, MailsNow, StartsNow
  <2>10. \A x \in Clients : (x \in {} => Called(x, None)') /\ (x \in {} => Called(x, None)')
    OBVIOUS
  <2> QED BY <1>1, <2>8, <2>9, <2>10, LaunchStep
<1> QED BY <1>4, <1>5

-----------------------------------------------------------------------------
(* The lives of the services: LifeInv.                                     *)

\* What a step does to the messages about services: those about Out may go, and h
\* sends one of Cmds.
NotesNow(Out, Cmds, h) ==
  /\ \A i \in DOMAIN mailbox' : mailbox'[i].cmd # "LAUNCH" =>
       \/ mailbox'[i].cmd \in Cmds /\ mailbox'[i].handle = h
       \/ \E j \in DOMAIN mailbox : mailbox[j] = mailbox'[i]
  /\ \A g \in Handles : About(g) /\ g \notin Out => About(g)'

LEMMA NotesSame ==
  ASSUME mailbox' = mailbox
  PROVE  NotesNow({}, {}, None)
BY DEF NotesNow, About

LEMMA NotesPutLaunch ==
  ASSUME mailbox \in Seq(Mails), NEW c \in Clients, NEW n \in Names \cup {None},
         mailbox' = Append(mailbox, [cmd |-> "LAUNCH", client |-> c, name |-> n])
  PROVE  NotesNow({}, {}, None)
<1>1. /\ DOMAIN mailbox = 1 .. Len(mailbox) /\ Len(mailbox) \in Nat
      /\ DOMAIN mailbox' = 1 .. Len(mailbox) + 1
      /\ \A i \in 1 .. Len(mailbox) : mailbox'[i] = mailbox[i]
      /\ mailbox'[Len(mailbox) + 1].cmd = "LAUNCH"
  BY PutLaunch
<1>2. PICK l : l = Len(mailbox) + 1
  OBVIOUS
<1>3. /\ \A i : i \in DOMAIN mailbox' <=> i \in DOMAIN mailbox \/ i = l
      /\ \A i \in DOMAIN mailbox : mailbox'[i] = mailbox[i]
      /\ mailbox'[l].cmd = "LAUNCH"
  BY <1>1, <1>2
<1> QED BY <1>3 DEF NotesNow, About

LEMMA NotesPutMail ==
  ASSUME mailbox \in Seq(Mails), NEW h \in Handles, NEW cmds \in Seq(Words), NEW Cmds,
         \A i \in 1 .. Len(cmds) : cmds[i] \in Cmds, mailbox' = Mail(cmds, h)
  PROVE  NotesNow({}, Cmds, h) /\ (Len(cmds) > 0 => About(h)')
<1>1. /\ DOMAIN mailbox = 1 .. Len(mailbox) /\ Len(mailbox) \in Nat /\ Len(cmds) \in Nat
      /\ DOMAIN mailbox' = 1 .. Len(mailbox) + Len(cmds)
      /\ \A i \in 1 .. Len(mailbox) : mailbox'[i] = mailbox[i]
      /\ \A i \in 1 .. Len(cmds) : /\ mailbox'[Len(mailbox) + i].cmd = cmds[i]
                                   /\ mailbox'[Len(mailbox) + i].handle = h
  BY PutMail
<1>2. ASSUME NEW i \in DOMAIN mailbox', i \notin DOMAIN mailbox
      PROVE  mailbox'[i].cmd \in Cmds /\ mailbox'[i].handle = h
  <2>1. PICK j \in 1 .. Len(cmds) : i = Len(mailbox) + j
    <3>1. i - Len(mailbox) \in 1 .. Len(cmds) /\ i = Len(mailbox) + (i - Len(mailbox))
      BY <1>1, <1>2
    <3> QED BY <3>1
  <2> QED BY <1>1, <2>1
<1>3. \A i \in DOMAIN mailbox : i \in DOMAIN mailbox' /\ mailbox'[i] = mailbox[i]
  BY <1>1
<1>4. \A g \in Handles : About(g) => About(g)'
  BY <1>3 DEF About
<1>5. ASSUME Len(cmds) > 0 PROVE About(h)'
  <2>1. PICK i : i = Len(mailbox) + 1
    OBVIOUS
  <2>2. i \in DOMAIN mailbox' /\ mailbox'[i].cmd = cmds[1] /\ mailbox'[i].handle = h
    BY <1>1, <1>5, <2>1
  <2>3. cmds[1] # "LAUNCH"
    BY <1>1, <1>5 DEF Words
  <2> QED BY <2>2, <2>3 DEF About
<1> QED BY <1>2, <1>3, <1>4, <1>5 DEF NotesNow

LEMMA NotesTaken ==
  ASSUME mailbox \in Seq(Mails), mailbox # <<>>, mailbox' = Tail(mailbox), NEW Out,
         mailbox[1].cmd # "LAUNCH" => mailbox[1].handle \in Out
  PROVE  NotesNow(Out, {}, None)
<1>1. /\ Len(mailbox) \in Nat \ {0}
      /\ DOMAIN mailbox = 1 .. Len(mailbox) /\ DOMAIN mailbox' = 1 .. Len(mailbox) - 1
      /\ \A i \in 1 .. Len(mailbox) - 1 : mailbox'[i] = mailbox[i + 1]
  BY TakeMail
<1>2. \A i \in DOMAIN mailbox' : i + 1 \in DOMAIN mailbox /\ mailbox'[i] = mailbox[i + 1]
  BY <1>1
<1>3. \A i \in DOMAIN mailbox : i # 1 => i - 1 \in DOMAIN mailbox' /\ mailbox'[i - 1] = mailbox[i]
  BY <1>1
<1>4. ASSUME NEW g \in Handles, About(g), g \notin Out PROVE About(g)'
  <2>1. PICK i \in DOMAIN mailbox : mailbox[i].cmd # "LAUNCH" /\ mailbox[i].handle = g
    BY <1>4 DEF About
  <2>2. i # 1
    BY <1>4, <2>1
  <2>3. PICK j : j = i - 1
    OBVIOUS
  <2>4. j \in DOMAIN mailbox' /\ mailbox'[j] = mailbox[i]
    BY <1>3, <2>2, <2>3
  <2> QED BY <2>1, <2>4 DEF About
<1> QED BY <1>2, <1>4 DEF NotesNow

LEMMA LifeKept ==
  ASSUME LifeInv, NotesNow({}, {}, None), UNCHANGED <<instance, name, state, killing, lost>>
  PROVE  LifeInv'
<1>1. Unborn'
  BY DEF LifeInv, Unborn, NotesNow
<1>2. Ended'
  <2> SUFFICES ASSUME NEW i \in DOMAIN mailbox', mailbox'[i].cmd \in {"ERROR", "REMOVE"}
               PROVE  state'[mailbox'[i].handle] \in Over
    BY DEF Ended
  <2> QED BY DEF LifeInv, Ended, NotesNow, Over
<1>3. Heard'
  BY DEF LifeInv, Heard, NotesNow
<1> QED BY <1>1, <1>2, <1>3 DEF LifeInv

\* The launcher launches h.
LEMMA LifeLaunch ==
  ASSUME LifeInv, TypeOK, NotesNow({}, {}, None), NEW h \in Handles, state[h] = "none", NEW c,
         NEW n, state' = [state EXCEPT ![h] = "init"], instance' = [instance EXCEPT ![h] = c],
         name' = [name EXCEPT ![h] = n], UNCHANGED <<killing, lost>>
  PROVE  LifeInv'
<1>1. /\ \A g \in Handles : state'[g] = IF g = h THEN "init" ELSE state[g]
      /\ \A g \in Handles : instance'[g] = IF g = h THEN c ELSE instance[g]
      /\ \A g \in Handles : name'[g] = IF g = h THEN n ELSE name[g]
  BY DEF TypeOK
<1>2. \A g : g \notin Handles => state'[g] = state[g]
  BY DEF TypeOK
<1>3. Unborn'
  <2>1. \A g \in Handles : state'[g] = "none" =>
          instance'[g] = None /\ name'[g] = None /\ g \notin killing'
    BY <1>1 DEF LifeInv, Unborn
  <2>2. \A i \in DOMAIN mailbox' : mailbox'[i].cmd # "LAUNCH" => state'[mailbox'[i].handle] # "none"
    BY <1>1, <1>2 DEF LifeInv, Unborn, NotesNow
  <2> QED BY <2>1, <2>2 DEF Unborn
<1>4. Ended'
  <2> SUFFICES ASSUME NEW i \in DOMAIN mailbox', mailbox'[i].cmd \in {"ERROR", "REMOVE"}
               PROVE  state'[mailbox'[i].handle] \in Over
    BY DEF Ended
  <2>1. PICK j \in DOMAIN mailbox : mailbox[j] = mailbox'[i]
    BY DEF NotesNow
  <2> QED BY <1>1, <1>2, <2>1 DEF LifeInv, Ended, Over
<1>5. Heard'
  BY <1>1 DEF LifeInv, Heard, Unborn, NotesNow
<1> QED BY <1>3, <1>4, <1>5 DEF LifeInv

\* Nobody waits for the confirmation of h any more.
LEMMA LifeConfirmed ==
  ASSUME LifeInv, TypeOK, NEW h \in Handles, NotesNow({h}, {}, None),
         instance' = [instance EXCEPT ![h] = None], UNCHANGED <<name, state, killing, lost>>
  PROVE  LifeInv'
<1>1. \A g \in Handles : instance'[g] = IF g = h THEN None ELSE instance[g]
  BY DEF TypeOK
<1>2. Unborn'
  BY <1>1 DEF LifeInv, Unborn, NotesNow
<1>3. Ended'
  <2> SUFFICES ASSUME NEW i \in DOMAIN mailbox', mailbox'[i].cmd \in {"ERROR", "REMOVE"}
               PROVE  state'[mailbox'[i].handle] \in Over
    BY DEF Ended
  <2> QED BY DEF LifeInv, Ended, NotesNow, Over
<1>4. Heard'
  BY <1>1 DEF LifeInv, Heard, NotesNow
<1> QED BY <1>2, <1>3, <1>4 DEF LifeInv

\* The service h, or who kills it, takes a step.
LEMMA LifeBecomes ==
  ASSUME LifeInv, TypeOK, NEW h \in Handles, NEW Cmds, NotesNow({}, Cmds, h), NEW s,
         state[h] # "none", s # "none", s \in Over \/ Serves(h),
         ("ERROR" \in Cmds \/ "REMOVE" \in Cmds) => s \in Over,
         state' = [state EXCEPT ![h] = s], UNCHANGED <<instance, name>>,
         \A g \in Handles : g # h => (g \in killing' <=> g \in killing) /\ (g \in lost' <=> g \in lost),
         h \in lost => h \in lost',
         About(h)' \/ h \in lost' \/ h \in killing \/ state[h] = "leaving"
  PROVE  LifeInv'
<1>1. /\ \A g \in Handles : state'[g] = IF g = h THEN s ELSE state[g]
      /\ \A g : g \notin Handles => state'[g] = state[g]
  BY DEF TypeOK
<1>2. Unborn'
  <2>1. \A g \in Handles : state'[g] = "none" =>
          instance'[g] = None /\ name'[g] = None /\ g \notin killing'
    BY <1>1 DEF LifeInv, Unborn
  <2>2. \A i \in DOMAIN mailbox' : mailbox'[i].cmd # "LAUNCH" => state'[mailbox'[i].handle] # "none"
    BY <1>1 DEF LifeInv, Unborn, NotesNow
  <2> QED BY <2>1, <2>2 DEF Unborn
<1>3. Ended'
  <2> SUFFICES ASSUME NEW i \in DOMAIN mailbox', mailbox'[i].cmd \in {"ERROR", "REMOVE"}
               PROVE  state'[mailbox'[i].handle] \in Over
    BY DEF Ended
  <2>1. CASE mailbox'[i].cmd \in Cmds /\ mailbox'[i].handle = h
    BY <1>1, <2>1
  <2>2. CASE \E j \in DOMAIN mailbox : mailbox[j] = mailbox'[i]
    <3>1. state[mailbox'[i].handle] \in Over
      BY <2>2 DEF LifeInv, Ended, Over
    <3> QED BY <1>1, <3>1 DEF Serves, Over
  <2> QED BY <2>1, <2>2 DEF NotesNow
<1>4. Heard'
  <2> SUFFICES ASSUME NEW g \in Handles, instance'[g] # None
               PROVE  (state'[g] = "init" /\ g \notin killing') \/ g \in lost' \/ About(g)'
    BY DEF Heard
  <2>1. CASE g # h
    BY <1>1, <2>1 DEF LifeInv, Heard, NotesNow
  <2>2. CASE g = h
    BY <1>1, <2>2 DEF LifeInv, Heard, NotesNow
  <2> QED BY <2>1, <2>2
<1> QED BY <1>2, <1>3, <1>4 DEF LifeInv

-----------------------------------------------------------------------------
(* The unique services: UniqueInv.                                         *)

LEMMA HandleEntryIs ==
  /\ \A g, h : HandleEntry(g) = HandleEntry(h) => g = h
  /\ \A h : HandleEntry(h) # ErrorEntry /\ HandleEntry(h).is # "table"
  /\ ErrorEntry.is # "table"
<1>1. \A h : HandleEntry(h).is = "handle" /\ HandleEntry(h).handle = h
  BY EntriesDiffer
<1> QED BY <1>1, EntriesDiffer

LEMMA Numbers == Nil \notin Handles /\ Failed \notin Handles /\ Nil # Failed
BY DirectoryAssumption DEF Nil, Failed, Handles

\* A client has at most one table at Master.
LEMMA OneTable ==
  ASSUME HeldInv, NEW m \in Managers, NEW x \in Clients, NEW y \in Names, NEW z \in Names,
         Parked(m, y, x), Parked(m, z, x)
  PROVE  y = z
BY DEF HeldInv, Places, For

\* No service comes to life, and managers and answers stay.
LEMMA UniqueLives ==
  ASSUME UniqueInv, UNCHANGED <<back, service, given, name, instance>>,
         \A h \in Handles : Serves(h)' => Serves(h)
  PROVE  UniqueInv'
<1>1. \A h \in Handles, n \in Names : Due(h, n)' <=> Due(h, n)
  BY DEF Due, Launching
<1>2. Known'
  BY <1>1 DEF UniqueInv, Known
<1>3. Single'
  BY DEF UniqueInv, Single
<1>4. Same'
  BY DEF UniqueInv, Same, Launching
<1> QED BY <1>2, <1>3, <1>4 DEF UniqueInv

\* The launcher launches h for c, under the name n.
LEMMA UniqueLaunch ==
  ASSUME UniqueInv, LaunchInv, TypeOK, NEW c \in Clients, NEW n \in Names \cup {None},
         Mailed(c), Called(c, n), NEW h \in Handles, state[h] = "none",
         state' = [state EXCEPT ![h] = "init"], instance' = [instance EXCEPT ![h] = c],
         name' = [name EXCEPT ![h] = n], UNCHANGED <<back, service, given>>
  PROVE  UniqueInv'
<1>1. /\ \A g \in Handles : state'[g] = IF g = h THEN "init" ELSE state[g]
      /\ \A g \in Handles : instance'[g] = IF g = h THEN c ELSE instance[g]
      /\ \A g \in Handles : name'[g] = IF g = h THEN n ELSE name[g]
      /\ None \notin Clients /\ None \notin Names
  BY DirectoryAssumption DEF TypeOK
<1>2. \A g \in Handles : g # h => (Serves(g)' <=> Serves(g))
  BY <1>1 DEF Serves
<1>3. \A g \in Handles, y \in Names : Due(g, y)' <=> Due(g, y)
  BY DEF Due, Launching
<1>4. Known'
  BY <1>1, <1>2, <1>3 DEF UniqueInv, Known
<1>5. ASSUME NEW g \in Handles, n \in Names, Serves(g), name[g] = n PROVE FALSE
  <2>1. Launching(Master, n, c)
    BY <1>1, <1>5 DEF Called
  <2>2. \A x \in Clients : Launching(Master, n, x) => x = c
    BY <2>1 DEF Launching
  <2>3. ASSUME instance[g] # None PROVE FALSE
    <3>1. PICK x \in Clients : instance[g] = x
      BY <2>3 DEF TypeOK
    <3>2. Called(x, n)
      BY <1>5, <3>1 DEF LaunchInv, LaunchNamed
    <3>3. x = c
      BY <1>1, <1>5, <2>2, <3>2 DEF Called
    <3>4. Starting(c)
      BY <3>1, <3>3 DEF Starting
    <3> QED BY <3>4 DEF LaunchInv, LaunchHeld
  <2>4. ASSUME Due(g, n) PROVE FALSE
    <3>1. PICK b \in back : b.to = Master /\ Launching(Master, n, b.client)
      BY <2>4 DEF Due
    <3>2. b.client \in Clients
      BY DEF TypeOK
    <3>3. Answered(Master, c)
      BY <2>2, <3>1, <3>2 DEF Answered
    <3> QED BY <3>3 DEF LaunchInv, LaunchHeld
  <2>5. service[Master][n] # ErrorEntry /\ service[Master][n] # HandleEntry(g)
    BY <2>1, HandleEntryIs DEF Launching
  <2> QED BY <1>5, <2>3, <2>4, <2>5 DEF UniqueInv, Known
<1>6. Single'
  BY <1>1, <1>2, <1>5 DEF UniqueInv, Single
<1>7. Same'
  BY DEF UniqueInv, Same, Launching
<1> QED BY <1>4, <1>6, <1>7 DEF UniqueInv

\* The launcher ends a launch: of h, unless h is None, with the answer r.
LEMMA UniqueAnswers ==
  ASSUME UniqueInv, SameTables, NEW c \in Clients, NEW r, Freed(c) \/ Passed(c, r),
         UNCHANGED <<service, given, name, state>>,
         \A g \in Handles, n \in Names : Serves(g) /\ name[g] = n /\ instance'[g] = None =>
           \/ instance[g] = None
           \/ Launching(Master, n, c) /\ Passed(c, r) /\ r \in {g, Failed}
  PROVE  UniqueInv'
<1>1. \A g \in Handles : Serves(g)' <=> Serves(g)
  BY DEF Serves
<1>2. /\ back \subseteq back' /\ \A b \in back' : b \in back \/ b.to = Master
      /\ Passed(c, r) => \E b \in back' : b.to = Master /\ b.client = c /\ b.answer = r
  <2>1. CASE Freed(c) /\ ~Passed(c, r)
    BY <2>1 DEF Freed
  <2>2. CASE Passed(c, r)
    <3>1. PICK d : d = [to |-> Master, client |-> c, answer |-> r]
      OBVIOUS
    <3>2. back' = back \cup {d} /\ d.to = Master /\ d.client = c /\ d.answer = r
      BY <2>2, <3>1 DEF Passed
    <3> QED BY <3>2
  <2> QED BY <2>1, <2>2
<1>3. \A m, n, x : Launching(m, n, x)' <=> Launching(m, n, x)
  BY DEF Launching
<1>4. \A g \in Handles, n \in Names : Due(g, n) => Due(g, n)'
  BY <1>2, <1>3 DEF Due
<1>5. Known'
  <2> SUFFICES ASSUME NEW g \in Handles, NEW n \in Names, Serves(g), name[g] = n
               PROVE  \/ instance'[g] # None \/ Due(g, n)'
                      \/ service[Master][n] = ErrorEntry \/ service[Master][n] = HandleEntry(g)
    BY <1>1 DEF Known
  <2>1. CASE instance[g] = None
    BY <1>4, <2>1 DEF UniqueInv, Known
  <2>2. CASE Launching(Master, n, c) /\ Passed(c, r) /\ r \in {g, Failed}
    <3>1. PICK b \in back' : b.to = Master /\ b.client = c /\ b.answer = r
      BY <1>2, <2>2
    <3>2. Due(g, n)'
      BY <1>3, <2>2, <3>1 DEF Due
    <3> QED BY <3>2
  <2> QED BY <2>1, <2>2
<1>6. Single'
  BY <1>1 DEF UniqueInv, Single
<1>7. Same'
  <2>1. /\ \A n \in Names : \A h \in given'[n] : service'[Master][n] = HandleEntry(h)
        /\ \A m \in Managers, n \in Names, h \in Handles :
              service'[m][n] = HandleEntry(h) => service'[Master][n] = HandleEntry(h)
    BY DEF UniqueInv, Same
  <2>2. ASSUME NEW b \in back', NEW n \in Names, b.to # Master, b.answer \in Handles,
               Launching(b.to, n, b.client)
        PROVE  service'[Master][n] = HandleEntry(b.answer)
    BY <1>2, <2>2 DEF UniqueInv, Same
  <2> QED BY <1>3, <2>1, <2>2 DEF Same
<1> QED BY <1>5, <1>6, <1>7 DEF UniqueInv

\* A client enters a table of m.
LEMMA UniqueEnters ==
  ASSUME UniqueInv, NEW m \in Managers, NEW n \in Names, NEW c \in Clients, ~Answered(m, c),
         NowWaits(m, n, c) \/ NowLaunches(m, n, c), back \in SUBSET Backs,
         given \in [Names -> SUBSET Handles],
         UNCHANGED <<back, given, name, state, instance>>
  PROVE  UniqueInv'
<1>1. \A g \in Handles : Serves(g)' <=> Serves(g)
  BY DEF Serves
<1>2. SameEnds
  BY DEF NowWaits, NowLaunches
<1>3. /\ \A x \in Managers, y \in Names :
           /\ service'[x][y] = ErrorEntry <=> service[x][y] = ErrorEntry
           /\ \A h \in Handles : service'[x][y] = HandleEntry(h) <=> service[x][y] = HandleEntry(h)
      /\ Master \in Managers
  BY <1>2, DirectoryAssumption DEF SameEnds
<1>4. \A x \in Managers, y \in Names, z \in Clients :
        /\ Launching(x, y, z) => Launching(x, y, z)'
        /\ Launching(x, y, z)' => Launching(x, y, z) \/ (x = m /\ z = c)
  BY DEF NowWaits, NowLaunches
<1>5. \A b \in back : b.to \in Managers /\ b.client \in Clients /\ ~(b.to = m /\ b.client = c)
  BY DEF Backs, Answered
<1>6. \A g \in Handles, y \in Names : Due(g, y) => Due(g, y)'
  BY <1>3, <1>4, <1>5 DEF Due
<1>7. Known'
  BY <1>1, <1>3, <1>6 DEF UniqueInv, Known
<1>8. Single'
  BY <1>1 DEF UniqueInv, Single
<1>9. Same'
  <2>1. /\ \A y \in Names : \A h \in given'[y] : service'[Master][y] = HandleEntry(h)
        /\ \A x \in Managers, y \in Names, h \in Handles :
              service'[x][y] = HandleEntry(h) => service'[Master][y] = HandleEntry(h)
    BY <1>3 DEF UniqueInv, Same
  <2>2. ASSUME NEW b \in back', NEW y \in Names, b.to # Master, b.answer \in Handles,
               Launching(b.to, y, b.client)'
        PROVE  service'[Master][y] = HandleEntry(b.answer)
    <3>1. PICK x \in Managers, z \in Clients : x = b.to /\ z = b.client
      BY <1>5
    <3>2. Launching(x, y, z)'
      BY <2>2, <3>1 DEF Launching
    <3>3. Launching(x, y, z)
      BY <1>4, <1>5, <3>1, <3>2
    <3> QED BY <1>3, <2>2, <3>1, <3>3 DEF UniqueInv, Same
  <2> QED BY <2>1, <2>2 DEF Same
<1> QED BY <1>7, <1>8, <1>9 DEF UniqueInv

\* A manager that knows the service tells it to its client at once.
LEMMA UniqueTold ==
  ASSUME UniqueInv, NEW m \in Managers, NEW n \in Names, NEW r, GivenNow(n, r),
         r \in Handles => service[m][n] = HandleEntry(r),
         UNCHANGED <<back, service, name, state, instance>>
  PROVE  UniqueInv'
<1>1. \A g \in Handles : Serves(g)' <=> Serves(g)
  BY DEF Serves
<1>2. \A g \in Handles, y \in Names : Due(g, y)' <=> Due(g, y)
  BY DEF Due, Launching
<1>3. Known' /\ Single'
  BY <1>1, <1>2 DEF UniqueInv, Known, Single
<1>4. ASSUME NEW y \in Names, NEW h \in given'[y] PROVE service'[Master][y] = HandleEntry(h)
  BY DEF UniqueInv, Same, GivenNow
<1>5. Same'
  BY <1>4 DEF UniqueInv, Same, Launching
<1> QED BY <1>3, <1>5 DEF UniqueInv

\* Master tells it to the manager k that calls for c.
LEMMA UniqueRemote ==
  ASSUME UniqueInv, HeldInv, NEW c \in Clients, NEW k \in Others, NEW n \in Names, For(c, k, n),
         ~Answered(Master, c), NEW r \in Handles \cup {Failed}, RetDone(Master, {c}, r, n, asked),
         r \in Handles => service[Master][n] = HandleEntry(r),
         UNCHANGED <<given, service, name, state, instance>>
  PROVE  UniqueInv'
<1>1. \A g \in Handles : Serves(g)' <=> Serves(g)
  BY DEF Serves
<1>2. \A b : b \in back' <=>
       \/ b \in back /\ ~(b.to = Master /\ b.client = c)
       \/ asked[c].to # Master /\ b = [to |-> asked[c].to, client |-> c, answer |-> Result(r)]
  BY DEF RetDone
<1>3. /\ asked[c].to = k /\ k # Master /\ k \in Managers
      /\ \A b \in back : ~(b.to = Master /\ b.client = c)
  BY DEF For, Others, Answered
<1>4. PICK d : d = [to |-> k, client |-> c, answer |-> Result(r)]
  OBVIOUS
<1>5. \A b : b \in back' <=> b \in back \/ b = d
  BY <1>2, <1>3, <1>4
<1>6. d.to = k /\ d.client = c /\ d.answer = Result(r)
  BY <1>4
<1>7. \A m, y, x : Launching(m, y, x)' <=> Launching(m, y, x)
  BY DEF Launching
<1>8. \A g \in Handles, y \in Names : Due(g, y) => Due(g, y)'
  BY <1>5, <1>7 DEF Due
<1>9. Known'
  BY <1>1, <1>8 DEF UniqueInv, Known
<1>10. Single'
  BY <1>1 DEF UniqueInv, Single
<1>11. Same'
  <2>1. /\ \A y \in Names : \A h \in given'[y] : service'[Master][y] = HandleEntry(h)
        /\ \A m \in Managers, y \in Names, h \in Handles :
              service'[m][y] = HandleEntry(h) => service'[Master][y] = HandleEntry(h)
    BY DEF UniqueInv, Same
  <2>2. ASSUME NEW b \in back', NEW y \in Names, b.to # Master, b.answer \in Handles,
               Launching(b.to, y, b.client)
        PROVE  service'[Master][y] = HandleEntry(b.answer)
    <3>1. CASE b \in back
      BY <2>2, <3>1 DEF UniqueInv, Same
    <3>2. CASE b = d
      <4>1. Launching(k, y, c)
        BY <1>6, <2>2, <3>2
      <4>2. y = n
        BY <1>3, <4>1 DEF HeldInv, Places, Parked, For
      <4>3. r \in Handles /\ b.answer = r
        BY <1>6, <2>2, <3>2, Numbers DEF Result
      <4> QED BY <4>2, <4>3
    <3> QED BY <1>5, <3>1, <3>2
  <2> QED BY <1>7, <2>1, <2>2 DEF Same
<1> QED BY <1>9, <1>10, <1>11 DEF UniqueInv

\* The answer of a launch comes to manager m.
LEMMA UniqueReturns ==
  ASSUME UniqueInv, HeldInv, TypeOK, NEW m \in Managers, NEW n \in Names, NEW r, Returns(m, n, r)
  PROVE  UniqueInv'
<1>1. /\ service \in [Managers -> [Names -> Entries]] /\ back \in SUBSET Backs
      /\ Master \in Managers /\ given \in [Names -> SUBSET Handles]
      /\ \A h \in Handles : Serves(h)' <=> Serves(h)
      /\ UNCHANGED <<name, instance>> /\ r \in Answers
  BY DirectoryAssumption DEF TypeOK, Backs, Returns, Serves
<1>2. PICK b \in back : b.to = m /\ b.answer = r /\ Launching(m, n, b.client)
  BY DEF Returns
<1>3. PICK l \in Clients : l = b.client /\ Launching(m, n, l)
  BY <1>1, <1>2 DEF Backs, Launching
<1>4. /\ \A x \in Managers, y \in Names :
           service'[x][y] = IF x = m /\ y = n THEN Outcome(r) ELSE service[x][y]
      /\ \A x \in Managers, y \in Names, z \in Clients :
           Launching(x, y, z)' <=> Launching(x, y, z) /\ ~(x = m /\ y = n)
  BY DEF Returns, NowEnds
<1>5. PICK C \in SUBSET Clients : /\ \A x \in Clients : x \in C <=> Parked(m, n, x)
                                  /\ RetDone(m, C, r, n, asked)
  BY DEF Returns
<1>6. /\ \A d : d \in back' <=>
           \/ d \in back /\ ~(d.to = m /\ d.client \in C)
           \/ \E c \in C : /\ asked[c].to # m
                           /\ d = [to |-> asked[c].to, client |-> c, answer |-> Result(r)]
      /\ \A k \in Names : given'[k] = IF k = n /\ (\E c \in C : asked[c].to = m)
                                  THEN given[k] \cup ({r} \cap Handles) ELSE given[k]
      /\ back' \in SUBSET Backs /\ given' \in [Names -> SUBSET Handles]
  BY <1>5 DEF RetDone
<1>7. service[m][n].is = "table"
  BY <1>3 DEF Launching
\* What Master knows stays.
<1>8. \A y \in Names : /\ service[Master][y] = ErrorEntry => service'[Master][y] = ErrorEntry
                       /\ \A h \in Handles : service[Master][y] = HandleEntry(h) =>
                            service'[Master][y] = HandleEntry(h)
  BY <1>1, <1>4, <1>7, HandleEntryIs
<1>9. ASSUME r \in Handles PROVE service'[Master][n] = HandleEntry(r)
  <2>1. CASE m = Master
    BY <1>1, <1>4, <1>9, <2>1, OutcomeIs
  <2>2. CASE m # Master
    BY <1>2, <1>8, <1>9, <2>2 DEF UniqueInv, Same
  <2> QED BY <2>1, <2>2
<1>10. Known'
  <2> SUFFICES ASSUME NEW h \in Handles, NEW y \in Names, Serves(h), name[h] = y, instance[h] = None
               PROVE  \/ Due(h, y)' \/ service'[Master][y] = ErrorEntry
                      \/ service'[Master][y] = HandleEntry(h)
    BY <1>1 DEF Known
  <2>1. CASE service[Master][y] = ErrorEntry \/ service[Master][y] = HandleEntry(h)
    BY <1>8, <2>1
  <2>2. CASE Due(h, y)
    <3>1. PICK d \in back : d.to = Master /\ d.answer \in {h, Failed} /\ Launching(Master, y, d.client)
      BY <2>2 DEF Due
    <3>2. PICK x \in Clients : x = d.client /\ Launching(Master, y, x)
      BY <1>1, <3>1 DEF Backs
    <3>3. CASE m = Master /\ y = n
      <4>1. x = l
        BY <1>3, <3>2, <3>3 DEF Launching
      <4>2. d = b
        BY <1>2, <1>3, <3>1, <3>2, <3>3, <4>1 DEF HeldInv, AnswersHeld
      <4>3. r \in {h, Failed}
        BY <1>2, <3>1, <4>2
      <4> QED BY <1>1, <1>4, <3>3, <4>3, OutcomeIs
    <3>4. CASE ~(m = Master /\ y = n)
      <4>1. ~(d.to = m /\ d.client \in C)
        <5>1. ASSUME d.to = m, x \in C PROVE FALSE
          <6>1. m = Master /\ Parked(Master, n, x) /\ Parked(Master, y, x)
            BY <1>5, <3>1, <3>2, <5>1 DEF Parked
          <6>2. y = n
            BY <1>1, <6>1, OneTable
          <6> QED BY <3>4, <6>1, <6>2
        <5> QED BY <3>2, <5>1
      <4>2. d \in back'
        BY <1>6, <4>1
      <4>3. Launching(Master, y, x)'
        BY <1>1, <1>4, <3>2, <3>4
      <4>4. Launching(Master, y, d.client)'
        BY <3>2, <4>3 DEF Launching
      <4> QED BY <3>1, <4>2, <4>4 DEF Due
    <3> QED BY <3>3, <3>4
  <2> QED BY <2>1, <2>2 DEF UniqueInv, Known
<1>11. Single'
  BY <1>1 DEF UniqueInv, Single
<1>12. ASSUME NEW y \in Names, NEW h \in given'[y] PROVE service'[Master][y] = HandleEntry(h)
  <2>1. CASE h \in given[y]
    BY <1>1, <1>8, <2>1 DEF UniqueInv, Same
  <2>2. CASE h \notin given[y]
    <3>1. y = n /\ h = r /\ r \in Handles
      BY <1>6, <2>2
    <3> QED BY <1>9, <3>1
  <2> QED BY <2>1, <2>2
<1>13. ASSUME NEW k \in Managers, NEW y \in Names, NEW h \in Handles, service'[k][y] = HandleEntry(h)
       PROVE  service'[Master][y] = HandleEntry(h)
  <2>1. CASE ~(k = m /\ y = n)
    BY <1>4, <1>8, <1>13, <2>1 DEF UniqueInv, Same
  <2>2. CASE k = m /\ y = n
    <3>1. Outcome(r) = HandleEntry(h)
      BY <1>4, <1>13, <2>2
    <3>2. r = h
      BY <1>1, <3>1, OutcomeIs, EntriesDiffer, HandleEntryIs DEF Answers
    <3> QED BY <1>9, <2>2, <3>2
  <2> QED BY <2>1, <2>2
<1>14. ASSUME NEW d \in back', NEW y \in Names, d.to # Master, d.answer \in Handles,
              Launching(d.to, y, d.client)'
       PROVE  service'[Master][y] = HandleEntry(d.answer)
  <2>1. PICK k \in Managers, x \in Clients : k = d.to /\ x = d.client
    BY <1>6 DEF Backs
  <2>2. Launching(k, y, x)'
    BY <1>14, <2>1 DEF Launching
  <2>3. Launching(k, y, x)
    BY <1>4, <2>2
  <2>4. CASE d \in back
    <3>1. service[Master][y] = HandleEntry(d.answer)
      BY <1>14, <2>1, <2>3, <2>4 DEF UniqueInv, Same
    <3> QED BY <1>8, <1>14, <3>1
  <2>5. CASE d \notin back
    <3>1. x \in C /\ k = asked[x].to /\ k # m /\ d.answer = Result(r)
      BY <1>6, <2>1, <2>5
    <3>2. r \in Handles /\ d.answer = r
      BY <1>14, <3>1, Numbers DEF Result
    <3>3. Parked(m, n, x) /\ Parked(k, y, x)
      BY <1>5, <2>3, <3>1 DEF Parked
    <3>4. y = n
      BY <3>3 DEF HeldInv, Places, For
    <3> QED BY <1>9, <3>2, <3>4
  <2> QED BY <2>4, <2>5
<1>15. Same'
  BY <1>12, <1>13, <1>14 DEF Same
<1> QED BY <1>10, <1>11, <1>15 DEF UniqueInv

-----------------------------------------------------------------------------
(* Every step keeps the invariant.                                         *)

LEMMA NewAsks ==
  ASSUME TypeOK, NEW c \in Clients, asks[c] < MaxAsk, asks' = [asks EXCEPT ![c] = @ + 1]
  PROVE  asks' \in [Clients -> 0 .. MaxAsk]
BY DirectoryAssumption DEF TypeOK

\* A client with no request, or whose call is on its way to Master, does not call the
\* launcher.
LEMMA NotAtLaunch ==
  ASSUME HeldInv, NEW c \in Clients, \A n \in Names : ~For(c, "launcher", n),
         \A n \in Names : ~Parked(Master, n, c)
  PROVE  ~AtLaunch(c)
BY DEF AtLaunch, Parked

LEMMA KeptCalls ==
  ASSUME SameAnswered, \A x \in Clients, y \in Names :
           /\ For(x, "launcher", y)' <=> For(x, "launcher", y)
           /\ Launching(Master, y, x)' <=> Launching(Master, y, x)
  PROVE  SameCalls
BY DirectoryAssumption DEF SameAnswered, SameCalls

\* Master becomes the one who calls the launcher for c and n.
LEMMA LaunchLed ==
  ASSUME HeldInv, LaunchInv, TypeOK, NEW c \in Clients, NEW n \in Names,
         mailbox' = Append(mailbox, [cmd |-> "LAUNCH", client |-> c, name |-> n]),
         NowLaunches(Master, n, c), ~AtLaunch(c), UNCHANGED <<back, instance, name>>,
         \A x \in Clients, y \in Names : For(x, "launcher", y)' <=> For(x, "launcher", y)
  PROVE  LaunchInv'
<1>1. ~Mailed(c)
  BY DEF LaunchInv, LaunchHeld
<1>2. MailsNow({}, {c}, n)
  BY <1>1, MailsPutLaunch DEF TypeOK
<1>3. StartsNow({}, {}, None)
  BY StartsSame
<1>4. \A x \in Clients, y \in Names :
        Launching(Master, y, x)' <=> Launching(Master, y, x) \/ (y = n /\ x = c)
  BY DirectoryAssumption DEF NowLaunches
<1>5. \A x \in Clients : Answered(Master, x)' <=> Answered(Master, x)
  BY DEF Answered
<1>6. \A x \in Clients : AtLaunch(x)' <=> AtLaunch(x) \/ x = c
  BY <1>4 DEF AtLaunch
<1>7. Called(c, n)'
  BY <1>4 DEF Called
<1>8. \A x \in Clients, y \in Names \cup {None} : Called(x, y) => Called(x, y)'
  BY <1>4 DEF Called
<1>9. \A x \in Clients : /\ Answered(Master, x)' <=> Answered(Master, x)
                         /\ AtLaunch(x)' <=> AtLaunch(x) \/ x = c
  BY <1>5, <1>6
<1> QED BY <1>2, <1>3, <1>7, <1>8, <1>9, LaunchCalled

LEMMA LaunchTouchless ==
  ASSUME LaunchInv, UNCHANGED <<mailbox, instance, name>>, SameCalls
  PROVE  LaunchInv'
BY MailsSame, StartsSame, LaunchKept

LEMMA LifeTouchless ==
  ASSUME LifeInv, UNCHANGED <<mailbox, instance, name, state, killing, lost>>
  PROVE  LifeInv'
BY NotesSame, LifeKept

LEMMA AskStep ==
  ASSUME IInv, NEW c \in Clients, NEW m \in Managers, NEW cmd \in {"LAUNCH", "QUERY"},
         NEW n \in Names, Ask(c, m, cmd, n)
  PROVE  IInv'
<1>1. /\ TypeOK /\ HeldInv /\ LaunchInv /\ LifeInv /\ UniqueInv
      /\ asked[c] = None /\ asks[c] < MaxAsk /\ asks' = [asks EXCEPT ![c] = @ + 1]
      /\ UNCHANGED <<instance, services, state, killing, name, lost>>
      /\ Waitfor(m, c, cmd, n, Sent(c, m, cmd, n))
  BY DEF IInv, Ask
<1>2. /\ net \in SUBSET Clients /\ back \in SUBSET Backs /\ m \in Tos
      /\ asked \in [Clients -> Requests \cup {None}] /\ mailbox \in Seq(Mails)
      /\ given \in [Names -> SUBSET Handles] /\ Master \in Managers /\ "launcher" \in Tos
      /\ m # "launcher"
  BY <1>1, DirectoryAssumption DEF TypeOK, Backs, Tos
<1>3. /\ \A k, y : ~For(c, k, y)
      /\ \A k \in Managers, y \in Names : ~Parked(k, y, c)
      /\ c \notin net /\ \A k \in Managers : ~Answered(k, c)
  BY <1>1, NoRequest
<1>4. asks' \in [Clients -> 0 .. MaxAsk]
  BY <1>1, NewAsks
<1>5. PICK sent : sent = Sent(c, m, cmd, n)
  OBVIOUS
<1>6. Told(m, c, n, sent) \/ Joined(m, c, n, sent) \/ Led(m, c, n, sent)
  BY <1>1, <1>5, WaitforCases
<1>7. sent \in [Clients -> Requests \cup {None}]
  BY <1>1, <1>2, <1>5, SentIs
<1>8. CASE Told(m, c, n, sent)
  <2>1. /\ UNCHANGED <<asked, net, back, service, mailbox>>
        /\ \E r \in Handles \cup {Failed} :
              (r \in Handles => service[m][n] = HandleEntry(r)) /\ GivenNow(n, r)
    BY <1>1, <1>5, <1>8, ToldHome
  <2>2. PICK r \in Handles \cup {Failed} :
              (r \in Handles => service[m][n] = HandleEntry(r)) /\ GivenNow(n, r)
    BY <2>1
  <2>3. TypeOK'
    BY <1>1, <1>4, <2>1, <2>2 DEF TypeOK, GivenNow
  <2>4. SameTables
    BY <2>1, TablesSame
  <2>5. \A x, k, y : For(x, k, y)' <=> For(x, k, y)
    BY <2>1 DEF For
  <2>6. HeldInv'
    BY <1>1, <1>2, <2>1, <2>4, <2>5, HeldSame
  <2>7. SameCalls
    BY <1>2, <2>1, <2>4, <2>5, AnsweredSame, KeptCalls DEF SameTables
  <2>8. LaunchInv'
    BY <1>1, <2>1, <2>7, LaunchTouchless
  <2>9. LifeInv'
    BY <1>1, <2>1, LifeTouchless
  <2>10. UniqueInv'
    BY <1>1, <2>1, <2>2, UniqueTold
  <2> QED BY <2>3, <2>6, <2>8, <2>9, <2>10 DEF IInv
<1>9. CASE Joined(m, c, n, sent)
  <2>1. /\ NowWaits(m, n, c) /\ net' = net /\ asked' = sent /\ UNCHANGED <<mailbox, back, given>>
    BY <1>3, <1>9 DEF Joined
  <2>2. NowFor(c, m, n)
    BY <1>1, <1>2, <1>5, <2>1, SentFor
  <2>3. TypeOK'
    BY <1>1, <1>4, <1>7, <2>1 DEF TypeOK, NowWaits
  <2>4. HeldInv'
    BY <1>1, <1>2, <2>1, <2>2, HeldAskJoins
  <2>5. SameCalls
    <3>1. \A x \in Clients, y \in Names :
           /\ For(x, "launcher", y)' <=> For(x, "launcher", y)
           /\ Launching(Master, y, x)' <=> Launching(Master, y, x)
      BY <1>2, <2>1, <2>2 DEF NowFor, NowWaits
    <3> QED BY <2>1, <3>1, AnsweredSame, KeptCalls
  <2>6. LaunchInv'
    BY <1>1, <2>1, <2>5, LaunchTouchless
  <2>7. LifeInv'
    BY <1>1, <2>1, LifeTouchless
  <2>8. UniqueInv'
    BY <1>1, <1>2, <1>3, <2>1, UniqueEnters
  <2> QED BY <2>3, <2>4, <2>6, <2>7, <2>8 DEF IInv
<1>10. CASE Led(m, c, n, sent)
  <2>1. /\ NowLaunches(m, n, c) /\ asked' = sent /\ UNCHANGED <<back, given>>
        /\ net' = IF m = Master THEN net ELSE net \cup {c}
        /\ mailbox' = IF m = Master
                      THEN Append(mailbox, [cmd |-> "LAUNCH", client |-> c, name |-> n])
                      ELSE mailbox
    BY <1>3, <1>10 DEF Led
  <2>2. NowFor(c, m, n)
    BY <1>1, <1>2, <1>5, <2>1, SentFor
  <2>3. \A x \in Clients, y \in Names : For(x, "launcher", y)' <=> For(x, "launcher", y)
    BY <1>2, <2>2 DEF NowFor
  <2>4. HeldInv'
    BY <1>1, <1>2, <2>1, <2>2, HeldAskLeads
  <2>5. UniqueInv'
    BY <1>1, <1>2, <1>3, <2>1, UniqueEnters
  <2>6. mailbox' \in Seq(Mails)
    <3>1. CASE m = Master
      BY <1>2, <2>1, <3>1, PutLaunch
    <3>2. CASE m # Master
      BY <1>2, <2>1, <3>2
    <3> QED BY <3>1, <3>2
  <2>7. TypeOK'
    BY <1>1, <1>4, <1>7, <2>1, <2>6 DEF TypeOK, NowLaunches
  <2>8. CASE m = Master
    <3>1. mailbox' = Append(mailbox, [cmd |-> "LAUNCH", client |-> c, name |-> n])
      BY <2>1, <2>8
    <3>2. LaunchInv'
      <4>1. ~AtLaunch(c)
        BY <1>1, <1>2, <1>3, NotAtLaunch
      <4>2. NowLaunches(Master, n, c)
        BY <2>1, <2>8
      <4> QED BY <1>1, <2>1, <2>3, <3>1, <4>1, <4>2, LaunchLed
    <3>3. LifeInv'
      <4>1. n \in Names \cup {None}
        OBVIOUS
      <4> QED BY <1>1, <1>2, <3>1, <4>1, NotesPutLaunch, LifeKept
    <3> QED BY <2>4, <2>5, <2>7, <3>2, <3>3 DEF IInv
  <2>9. CASE m # Master
    <3>1. SameCalls
      <4>1. \A x \in Clients, y \in Names : Launching(Master, y, x)' <=> Launching(Master, y, x)
        BY <1>2, <2>1, <2>9 DEF NowLaunches
      <4> QED BY <2>1, <2>3, <4>1, AnsweredSame, KeptCalls
    <3>2. LaunchInv'
      BY <1>1, <2>1, <2>9, <3>1, LaunchTouchless
    <3>3. LifeInv'
      BY <1>1, <2>1, <2>9, LifeTouchless
    <3> QED BY <2>4, <2>5, <2>7, <3>2, <3>3 DEF IInv
  <2> QED BY <2>8, <2>9
<1> QED BY <1>6, <1>8, <1>9, <1>10

LEMMA NewServiceStep ==
  ASSUME IInv, NEW c \in Clients, NEW n \in Names, NewService(c, n)
  PROVE  IInv'
<1>1. /\ TypeOK /\ HeldInv /\ LaunchInv /\ LifeInv /\ UniqueInv
      /\ asked[c] = None /\ asks[c] < MaxAsk /\ asks' = [asks EXCEPT ![c] = @ + 1]
      /\ asked' = Sent(c, "launcher", "LAUNCH", n)
      /\ mailbox' = Append(mailbox, [cmd |-> "LAUNCH", client |-> c, name |-> None])
      /\ UNCHANGED <<net, back, service, instance, services, state, killing, name, lost, given>>
  BY DEF IInv, NewService
<1>2. /\ net \in SUBSET Clients /\ asked \in [Clients -> Requests \cup {None}]
      /\ mailbox \in Seq(Mails) /\ "launcher" \in Tos /\ Master \in Managers
      /\ Managers \in SUBSET Tos /\ "launcher" \notin Managers
  BY <1>1, DirectoryAssumption DEF TypeOK, Tos
<1>3. /\ \A k, y : ~For(c, k, y)
      /\ \A k \in Managers, y \in Names : ~Parked(k, y, c)
  BY <1>1, NoRequest
<1>4. asks' \in [Clients -> 0 .. MaxAsk] /\ asked' \in [Clients -> Requests \cup {None}]
  BY <1>1, <1>2, NewAsks, SentIs
<1>5. NowFor(c, "launcher", n)
  BY <1>1, <1>2, SentFor
<1>6. mailbox' \in Seq(Mails)
  BY <1>1, <1>2, PutLaunch
<1>7. TypeOK'
  BY <1>1, <1>4, <1>6 DEF TypeOK
<1>8. SameTables
  BY <1>1, TablesSame
<1>9. HeldInv'
  <2>1. \A x \in Clients, k \in Managers, y \in Names : For(x, k, y)' <=> For(x, k, y)
    BY <1>2, <1>5 DEF NowFor
  <2> QED BY <1>1, <1>2, <1>8, <2>1, HeldSame
<1>10. LaunchInv'
  <2>1. ~AtLaunch(c)
    BY <1>1, <1>2, <1>3, NotAtLaunch
  <2>2. ~Mailed(c)
    BY <1>1, <2>1 DEF LaunchInv, LaunchHeld
  <2>3. MailsNow({}, {c}, None)
    BY <1>1, <1>2, <2>2, MailsPutLaunch
  <2>4. StartsNow({}, {}, None)
    BY <1>1, StartsSame
  <2>5. \A x \in Clients, y \in Names :
          /\ For(x, "launcher", y)' <=> For(x, "launcher", y) \/ (x = c /\ y = n)
          /\ Launching(Master, y, x)' <=> Launching(Master, y, x)
    BY <1>2, <1>5, <1>8 DEF NowFor, SameTables
  <2>6. \A x \in Clients : /\ Answered(Master, x)' <=> Answered(Master, x)
                           /\ AtLaunch(x)' <=> AtLaunch(x) \/ x = c
    <3>1. \A x \in Clients : Answered(Master, x)' <=> Answered(Master, x)
      BY <1>1 DEF Answered
    <3>2. \A x \in Clients : AtLaunch(x)' <=> AtLaunch(x) \/ x = c
      BY <2>5 DEF AtLaunch
    <3> QED BY <3>1, <3>2
  <2>7. Called(c, None)'
    BY <2>5 DEF Called
  <2>8. \A x \in Clients, y \in Names \cup {None} : Called(x, y) => Called(x, y)'
    BY <2>5 DEF Called
  <2> QED BY <1>1, <2>1, <2>3, <2>4, <2>6, <2>7, <2>8, LaunchCalled
<1>11. LifeInv'
  BY <1>1, <1>2, NotesPutLaunch, LifeKept
<1>12. UniqueInv'
  <2>1. \A h \in Handles : Serves(h)' => Serves(h)
    BY <1>1 DEF Serves
  <2> QED BY <1>1, <2>1, UniqueLives
<1> QED BY <1>7, <1>9, <1>10, <1>11, <1>12 DEF IInv

LEMMA RemoteStep ==
  ASSUME IInv, NEW c \in Clients, Remote(c)
  PROVE  IInv'
<1>1. /\ TypeOK /\ HeldInv /\ LaunchInv /\ LifeInv /\ UniqueInv /\ c \in net
      /\ Waitfor(Master, c, asked[c].cmd, asked[c].name, asked)
      /\ UNCHANGED <<asks, instance, services, state, killing, name, lost>>
  BY DEF IInv, Remote
<1>2. /\ net \in SUBSET Clients /\ back \in SUBSET Backs
      /\ asked \in [Clients -> Requests \cup {None}] /\ mailbox \in Seq(Mails)
      /\ given \in [Names -> SUBSET Handles] /\ Master \in Managers /\ "launcher" \in Tos
  BY <1>1, DirectoryAssumption DEF TypeOK, Backs, Tos
<1>3. PICK k \in Others, n \in Names : For(c, k, n)
  BY <1>1 DEF HeldInv, CallBehind
<1>4. asked[c].name = n /\ asked[c] \in Requests /\ asked[c].cmd \in {"LAUNCH", "QUERY"}
  <2>1. asked[c] \in Requests /\ asked[c].name = n
    BY <1>2, <1>3 DEF For
  <2> QED BY <2>1 DEF Requests
<1>5. Told(Master, c, n, asked) \/ Joined(Master, c, n, asked) \/ Led(Master, c, n, asked)
  BY <1>1, <1>2, <1>4, WaitforCases
<1>6. ~Parked(Master, n, c) /\ ~Answered(k, c) /\ k \in Managers /\ k # Master
  BY <1>1, <1>3 DEF HeldInv, CallOnce, Others
<1>7. \A y \in Names : ~Parked(Master, y, c)
  BY <1>1, <1>2, <1>4, <1>6 DEF HeldInv, Places, For
<1>8. ~Answered(Master, c)
  BY <1>1, <1>2, <1>7 DEF HeldInv, AnswersHeld, Parked
<1>9. CASE Told(Master, c, n, asked)
  <2>1. /\ SameFor /\ net' = net \ {c} /\ UNCHANGED <<asked, service, mailbox>>
        /\ \E r \in Handles \cup {Failed} : /\ RetDone(Master, {c}, r, n, asked)
                                            /\ r \in Handles => service[Master][n] = HandleEntry(r)
        /\ \A x \in Clients, m \in Managers :
             Answered(m, x)' <=> Answered(m, x) \/ (x = c /\ m = k)
        /\ \A a, b \in back' : a.to = b.to /\ a.client = b.client => a = b
        /\ given' = given
    BY <1>1, <1>3, <1>9, RemoteTold
  <2>2. PICK r \in Handles \cup {Failed} : /\ RetDone(Master, {c}, r, n, asked)
                                           /\ r \in Handles => service[Master][n] = HandleEntry(r)
    BY <2>1
  <2>3. back' \in SUBSET Backs
    BY <2>2 DEF RetDone
  <2>4. TypeOK'
    BY <1>1, <2>1, <2>3 DEF TypeOK, Backs
  <2>5. SameTables
    BY <2>1, TablesSame
  <2>6. HeldInv'
    BY <1>1, <1>2, <1>3, <2>1, <2>5, HeldRemoteTold
  <2>7. SameCalls
    BY <1>2, <1>6, <2>1, <2>5 DEF SameCalls, SameFor, SameTables
  <2>8. LaunchInv'
    BY <1>1, <2>1, <2>7, LaunchTouchless
  <2>9. LifeInv'
    BY <1>1, <2>1, LifeTouchless
  <2>10. UniqueInv'
    BY <1>1, <1>3, <1>8, <2>1, <2>2, UniqueRemote
  <2> QED BY <2>4, <2>6, <2>8, <2>9, <2>10 DEF IInv
<1>10. CASE Joined(Master, c, n, asked)
  <2>1. /\ NowWaits(Master, n, c) /\ net' = net \ {c}
        /\ UNCHANGED <<asked, mailbox, back, given>>
    BY <1>10 DEF Joined
  <2>2. SameFor
    BY <2>1 DEF SameFor, For
  <2>3. TypeOK'
    BY <1>1, <2>1 DEF TypeOK, NowWaits
  <2>4. HeldInv'
    BY <1>1, <1>2, <1>3, <2>1, <2>2, HeldRemoteIn
  <2>5. SameCalls
    <3>1. \A x \in Clients, y \in Names :
           /\ For(x, "launcher", y)' <=> For(x, "launcher", y)
           /\ Launching(Master, y, x)' <=> Launching(Master, y, x)
      BY <1>2, <2>1, <2>2 DEF SameFor, NowWaits
    <3> QED BY <2>1, <3>1, AnsweredSame, KeptCalls
  <2>6. LaunchInv'
    BY <1>1, <2>1, <2>5, LaunchTouchless
  <2>7. LifeInv'
    BY <1>1, <2>1, LifeTouchless
  <2>8. UniqueInv'
    BY <1>1, <1>2, <1>8, <2>1, UniqueEnters
  <2> QED BY <2>3, <2>4, <2>6, <2>7, <2>8 DEF IInv
<1>11. CASE Led(Master, c, n, asked)
  <2>1. /\ NowLaunches(Master, n, c) /\ net' = net \ {c} /\ UNCHANGED <<asked, back, given>>
        /\ mailbox' = Append(mailbox, [cmd |-> "LAUNCH", client |-> c, name |-> n])
    BY <1>11 DEF Led
  <2>2. SameFor /\ \A x \in Clients, y \in Names : For(x, "launcher", y)' <=> For(x, "launcher", y)
    BY <2>1 DEF SameFor, For
  <2>3. mailbox' \in Seq(Mails)
    BY <1>2, <2>1, PutLaunch
  <2>4. TypeOK'
    BY <1>1, <2>1, <2>3 DEF TypeOK, NowLaunches
  <2>5. HeldInv'
    BY <1>1, <1>2, <1>3, <2>1, <2>2, HeldRemoteIn
  <2>6. LaunchInv'
    <3>1. \A y \in Names : ~For(c, "launcher", y)
      BY <1>3, <1>6, ForOnce, DirectoryAssumption
    <3>2. ~AtLaunch(c)
      BY <1>1, <1>7, <3>1, NotAtLaunch
    <3> QED BY <1>1, <2>1, <2>2, <3>2, LaunchLed
  <2>7. LifeInv'
    <3>1. n \in Names \cup {None}
      OBVIOUS
    <3> QED BY <1>1, <1>2, <2>1, <3>1, NotesPutLaunch, LifeKept
  <2>8. UniqueInv'
    BY <1>1, <1>2, <1>8, <2>1, UniqueEnters
  <2> QED BY <2>4, <2>5, <2>6, <2>7, <2>8 DEF IInv
<1> QED BY <1>5, <1>9, <1>10, <1>11

LEMMA ReturnedStep ==
  ASSUME IInv, NEW m \in Managers, Returned(m)
  PROVE  IInv'
<1>1. TypeOK /\ HeldInv /\ LaunchInv /\ LifeInv /\ UniqueInv
  BY DEF IInv
<1>2. PICK n \in Names, r \in Answers : Returns(m, n, r)
  BY <1>1, ReturnedIs
<1>3. net \in SUBSET Clients /\ back \in SUBSET Backs
  BY <1>1 DEF TypeOK, Backs
<1>4. TypeOK'
  <2>1. /\ asked' \in [Clients -> Requests \cup {None}] /\ back' \in SUBSET Backs
        /\ given' \in [Names -> SUBSET Handles]
    BY <1>2 DEF Returns, RetDone
  <2>2. service' \in [Managers -> [Names -> Entries]]
    BY <1>2 DEF Returns, NowEnds
  <2> QED BY <1>1, <1>2, <2>1, <2>2 DEF TypeOK, Backs, Returns
<1>5. HeldInv'
  BY <1>1, <1>2, <1>3, HeldReturns
<1>6. LaunchInv'
  BY <1>1, <1>2, <1>3, LaunchReturns
<1>7. LifeInv'
  BY <1>1, <1>2, LifeTouchless DEF Returns
<1>8. UniqueInv'
  BY <1>1, <1>2, UniqueReturns
<1> QED BY <1>4, <1>5, <1>6, <1>7, <1>8 DEF IInv

\* The launcher answers c, who is not answered yet.
LEMMA AnswerTypes ==
  ASSUME TypeOK, NEW c \in Clients, NEW r \in Answers, Freed(c) \/ Passed(c, r)
  PROVE  asked' \in [Clients -> Requests \cup {None}] /\ back' \in SUBSET Backs
<1>1. back \in SUBSET Backs /\ asked \in [Clients -> Requests \cup {None}]
  BY DEF TypeOK, Backs
<1>2. [to |-> Master, client |-> c, answer |-> r] \in Backs
  BY DirectoryAssumption DEF Backs
<1> QED BY <1>1, <1>2 DEF Freed, Passed

LEMMA HeldAnswers ==
  ASSUME TypeOK, HeldInv, NEW c \in Clients, NEW r, Freed(c) \/ Passed(c, r),
         ~Answered(Master, c), UNCHANGED <<service, net>>
  PROVE  HeldInv'
<1>1. net \in SUBSET Clients /\ SameTables
  BY TablesSame DEF TypeOK
<1> QED BY <1>1, HeldFreed, HeldPassed

\* command.LAUNCH with the message of c for n.
LEMMA LaunchMailStep ==
  ASSUME IInv, mailbox # <<>>, mailbox' = Tail(mailbox), mailbox[1].cmd = "LAUNCH",
         LAUNCH(mailbox[1]), UNCHANGED <<asks, net, service, killing, lost, given>>
  PROVE  IInv'
<1>1. TypeOK /\ HeldInv /\ LaunchInv /\ LifeInv /\ UniqueInv
  BY DEF IInv
<1>2. /\ mailbox \in Seq(Mails) /\ mailbox' \in Seq(Mails) /\ mailbox[1] \in Mails
      /\ 1 \in DOMAIN mailbox /\ net \in SUBSET Clients
  BY <1>1, TakeMail DEF TypeOK
<1>3. PICK c \in Clients, n \in Names \cup {None} : mailbox[1].client = c /\ mailbox[1].name = n
  BY <1>2 DEF Mails
<1>4. IsLaunch(1, c) /\ Mailed(c) /\ Called(c, n)
  BY <1>1, <1>2, <1>3 DEF IsLaunch, Mailed, LaunchInv, LaunchNamed
<1>5. MailsNow({c}, {}, None)
  <2>1. \A x \in Clients : x \in {c} <=> IsLaunch(1, x)
    BY <1>3 DEF IsLaunch
  <2> QED BY <1>1, <1>2, <2>1, MailsTaken
<1>6. NotesNow({}, {}, None)
  BY <1>2, NotesTaken
<1>7. AtLaunch(c) /\ ~Answered(Master, c) /\ ~Starting(c)
  BY <1>1, <1>4 DEF LaunchInv, LaunchHeld
<1>8. SameTables
  BY TablesSame
<1>9. ASSUME NEW h \in Handles, state[h] = "none",
             state' = [state EXCEPT ![h] = "init"], name' = [name EXCEPT ![h] = n],
             services' = services \cup {h}, instance' = [instance EXCEPT ![h] = c],
             UNCHANGED <<asked, back>>
      PROVE  IInv'
  <2>1. TypeOK'
    BY <1>1, <1>2, <1>9 DEF TypeOK
  <2>2. \A x, k, y : For(x, k, y)' <=> For(x, k, y)
    BY <1>9 DEF For
  <2>3. HeldInv'
    BY <1>1, <1>2, <1>8, <1>9, <2>2, HeldSame
  <2>4. StartsNow({}, {c}, n)
    <3>1. instance[h] = None
      BY <1>1, <1>9 DEF LifeInv, Unborn
    <3> QED BY <1>1, <1>7, <1>9, <3>1, StartsPut DEF TypeOK
  <2>5. SameCalls
    BY <1>8, <1>9, <2>2, AnsweredSame, KeptCalls, DirectoryAssumption DEF SameTables
  <2>6. LaunchInv'
    BY <1>1, <1>4, <1>5, <2>4, <2>5, LaunchStarts
  <2>7. LifeInv'
    BY <1>1, <1>6, <1>9, LifeLaunch
  <2>8. UniqueInv'
    BY <1>1, <1>4, <1>9, UniqueLaunch
  <2> QED BY <2>1, <2>3, <2>6, <2>7, <2>8 DEF IInv
<1>10. ASSUME Respond(c, Failed), UNCHANGED <<instance, services, state, name>>
       PROVE  IInv'
  <2>1. Freed(c) \/ Passed(c, Failed)
    BY <1>1, <1>7, <1>10, RespondIs
  <2>2. Failed \in Answers
    BY DEF Answers
  <2>3. TypeOK'
    BY <1>1, <1>2, <1>10, <2>1, <2>2, AnswerTypes DEF TypeOK, Backs
  <2>4. HeldInv'
    BY <1>1, <1>7, <2>1, HeldAnswers
  <2>5. LaunchInv'
    <3>1. Unmailed(c)
      BY <1>1, <1>4, <1>5, <1>10, StartsSame DEF Unmailed
    <3> QED BY <1>1, <1>8, <2>1, <3>1, LaunchAnswers
  <2>6. LifeInv'
    BY <1>1, <1>6, <1>10, LifeKept
  <2>7. UniqueInv'
    BY <1>1, <1>8, <1>10, <2>1, UniqueAnswers
  <2> QED BY <2>3, <2>4, <2>5, <2>6, <2>7 DEF IInv
<1> QED BY <1>3, <1>9, <1>10 DEF LAUNCH

LEMMA FreedNowhere ==
  ASSUME HeldInv, NEW c \in Clients, Freed(c)
  PROVE  \A y \in Names : ~Launching(Master, y, c)
<1>1. \A m \in Managers, y \in Names : ~For(c, m, y)
  BY ForOnce, DirectoryAssumption DEF Freed
<1> QED BY <1>1, DirectoryAssumption DEF HeldInv, Places, Parked, Others

\* A message about h: its launch is answered with r, if it was not.
LEMMA ConfirmStep ==
  ASSUME IInv, mailbox # <<>>, mailbox' = Tail(mailbox), mailbox[1].cmd # "LAUNCH",
         NEW h \in Handles, mailbox[1].handle = h, NEW r \in Answers, Confirm(h, r),
         Serves(h) => r \in {h, Failed}, services' \in SUBSET Handles,
         UNCHANGED <<asks, net, service, killing, lost, given, state, name>>
  PROVE  IInv'
<1>1. TypeOK /\ HeldInv /\ LaunchInv /\ LifeInv /\ UniqueInv
  BY DEF IInv
<1>2. /\ mailbox \in Seq(Mails) /\ mailbox' \in Seq(Mails)
      /\ net \in SUBSET Clients /\ instance \in [Handles -> Clients \cup {None}]
  BY <1>1, TakeMail DEF TypeOK
<1>3. MailsNow({}, {}, None)
  <2>1. \A x \in Clients : x \in {} <=> IsLaunch(1, x)
    BY DEF IsLaunch
  <2> QED BY <1>1, <1>2, <2>1, MailsTaken
<1>4. NotesNow({h}, {}, None)
  BY <1>2, NotesTaken
<1>5. SameTables
  BY TablesSame
<1>6. instance' = [instance EXCEPT ![h] = None]
  BY DEF Confirm
<1>7. instance' \in [Handles -> Clients \cup {None}]
  BY <1>2, <1>6
<1>8. LifeInv'
  BY <1>1, <1>4, <1>6, LifeConfirmed
<1>9. CASE instance[h] = None
  <2>1. UNCHANGED <<asked, back>>
    BY <1>9 DEF Confirm
  <2>2. instance' = instance
    BY <1>2, <1>6, <1>9
  <2>3. TypeOK'
    BY <1>1, <1>2, <2>1, <2>2 DEF TypeOK
  <2>4. \A x, k, y : For(x, k, y)' <=> For(x, k, y)
    BY <2>1 DEF For
  <2>5. HeldInv'
    BY <1>1, <1>2, <1>5, <2>1, <2>4, HeldSame
  <2>6. SameCalls
    BY <1>5, <2>1, <2>4, AnsweredSame, KeptCalls, DirectoryAssumption DEF SameTables
  <2>7. LaunchInv'
    BY <1>1, <1>3, <2>2, <2>6, StartsSame, LaunchKept
  <2>8. UniqueInv'
    <3>1. \A g \in Handles : Serves(g)' => Serves(g)
      BY DEF Serves
    <3> QED BY <1>1, <2>1, <2>2, <3>1, UniqueLives
  <2> QED BY <1>8, <2>3, <2>5, <2>7, <2>8 DEF IInv
<1>10. CASE instance[h] # None
  <2>1. PICK c \in Clients : instance[h] = c
    BY <1>2, <1>10
  <2>2. Respond(c, r)
    BY <1>10, <2>1 DEF Confirm
  <2>3. Starting(c)
    BY <2>1 DEF Starting
  <2>4. AtLaunch(c) /\ ~Answered(Master, c)
    BY <1>1, <2>3 DEF LaunchInv, LaunchHeld
  <2>5. Freed(c) \/ Passed(c, r)
    BY <1>1, <2>2, <2>4, RespondIs
  <2>6. TypeOK'
    BY <1>1, <1>2, <1>7, <2>5, AnswerTypes DEF TypeOK, Backs
  <2>7. HeldInv'
    BY <1>1, <2>4, <2>5, HeldAnswers
  <2>8. LaunchInv'
    <3>1. \A x \in Clients : x \in {c} <=> instance[h] = x
      BY <2>1
    <3>2. StartsNow({c}, {}, None)
      BY <1>1, <1>2, <1>6, <3>1, StartsTaken
    <3>3. Started(c)
      BY <1>3, <2>3, <3>2 DEF Started
    <3> QED BY <1>1, <1>5, <2>5, <3>3, LaunchAnswers
  <2>9. UniqueInv'
    <3>1. ASSUME NEW g \in Handles, NEW n \in Names, Serves(g), name[g] = n, instance'[g] = None,
                 instance[g] # None
          PROVE  Launching(Master, n, c) /\ Passed(c, r) /\ r \in {g, Failed}
      <4>1. g = h
        BY <1>2, <1>6, <3>1
      <4>2. Called(c, n)
        BY <1>1, <2>1, <3>1, <4>1 DEF LaunchInv, LaunchNamed
      <4>3. Launching(Master, n, c)
        BY <3>1, <4>2, DirectoryAssumption DEF Called
      <4> QED BY <1>1, <2>5, <3>1, <4>1, <4>3, FreedNowhere
    <3> QED BY <1>1, <1>5, <2>5, <3>1, UniqueAnswers
  <2> QED BY <1>8, <2>6, <2>7, <2>8, <2>9 DEF IInv
<1> QED BY <1>9, <1>10

LEMMA LauncherStep ==
  ASSUME IInv, Launcher
  PROVE  IInv'
<1>1. TypeOK /\ LifeInv
  BY DEF IInv
<1>2. /\ mailbox # <<>> /\ mailbox' = Tail(mailbox)
      /\ UNCHANGED <<asks, net, service, killing, lost, given>>
  BY DEF Launcher
<1>3. mailbox[1] \in Mails /\ Head(mailbox) = mailbox[1] /\ 1 \in DOMAIN mailbox
  BY <1>1, <1>2, TakeMail DEF TypeOK
<1>4. CASE mailbox[1].cmd = "LAUNCH" /\ LAUNCH(mailbox[1])
  BY <1>2, <1>4, LaunchMailStep
<1>5. services \in SUBSET Handles
  BY <1>1 DEF TypeOK
<1>6. ASSUME mailbox[1].cmd # "LAUNCH" PROVE mailbox[1].handle \in Handles
  BY <1>3, <1>6 DEF Mails
<1>7. Failed \in Answers /\ Nil \in Answers /\ Handles \in SUBSET Answers
  BY DEF Answers
<1>8. CASE mailbox[1].cmd = "LAUNCHOK" /\ LAUNCHOK(mailbox[1].handle)
  <2>1. PICK h \in Handles : h = mailbox[1].handle
    BY <1>6, <1>8
  <2>2. Confirm(h, h) /\ UNCHANGED <<services, state, name>>
    BY <1>8, <2>1 DEF LAUNCHOK
  <2> QED BY <1>2, <1>5, <1>7, <1>8, <2>1, <2>2, ConfirmStep
<1>9. CASE mailbox[1].cmd = "ERROR" /\ ERROR(mailbox[1].handle)
  <2>1. PICK h \in Handles : h = mailbox[1].handle
    BY <1>6, <1>9
  <2>2. Confirm(h, Failed) /\ services' \in SUBSET Handles /\ UNCHANGED <<state, name>>
    BY <1>5, <1>9, <2>1 DEF ERROR
  <2> QED BY <1>2, <1>7, <1>9, <2>1, <2>2, ConfirmStep
<1>10. CASE mailbox[1].cmd = "REMOVE" /\ REMOVE(mailbox[1].handle, FALSE)
  <2>1. PICK h \in Handles : h = mailbox[1].handle
    BY <1>6, <1>10
  <2>2. Confirm(h, Nil) /\ services' \in SUBSET Handles /\ UNCHANGED <<state, name>>
    BY <1>5, <1>10, <2>1 DEF REMOVE
  <2>3. ~Serves(h)
    BY <1>1, <1>3, <1>10, <2>1 DEF LifeInv, Ended, Serves, Over
  <2> QED BY <1>2, <1>7, <1>10, <2>1, <2>2, <2>3, ConfirmStep
<1>11. CASE mailbox[1].cmd = "KILLED" /\ REMOVE(mailbox[1].handle, TRUE)
  <2>1. PICK h \in Handles : h = mailbox[1].handle
    BY <1>6, <1>11
  <2>2. Confirm(h, Failed) /\ services' \in SUBSET Handles /\ UNCHANGED <<state, name>>
    BY <1>5, <1>11, <2>1 DEF REMOVE
  <2> QED BY <1>2, <1>7, <1>11, <2>1, <2>2, ConfirmStep
<1> QED BY <1>3, <1>4, <1>8, <1>9, <1>10, <1>11 DEF Launcher

Only(cmds, Cmds) == \A i \in 1 .. Len(cmds) : cmds[i] \in Cmds

\* A step of the service h, or of who kills it, of which the launcher is sent cmds.
LEMMA BecomesStep ==
  ASSUME IInv, NEW h \in Handles, NEW s \in {"init", "running", "leaving", "dead"}, NEW cmds \in Seq(Words),
         NEW Cmds, Only(cmds, Cmds), Becomes(h, s, cmds),
         state[h] # "none", s \in Over \/ Serves(h),
         ("ERROR" \in Cmds \/ "REMOVE" \in Cmds) => s \in Over,
         killing' \in SUBSET Handles, lost' \in SUBSET Handles,
         \A g \in Handles : g # h => (g \in killing' <=> g \in killing) /\ (g \in lost' <=> g \in lost),
         h \in lost => h \in lost',
         Len(cmds) > 0 \/ h \in lost' \/ h \in killing \/ state[h] = "leaving"
  PROVE  IInv'
<1>1. TypeOK /\ HeldInv /\ LaunchInv /\ LifeInv /\ UniqueInv
  BY DEF IInv
<1>2. /\ state' = [state EXCEPT ![h] = s] /\ mailbox' = Mail(cmds, h)
      /\ UNCHANGED <<asked, asks, net, back, service, instance, services, name, given>>
  BY DEF Becomes
<1>3. mailbox \in Seq(Mails) /\ net \in SUBSET Clients
  BY <1>1 DEF TypeOK
<1>4. mailbox' \in Seq(Mails)
  BY <1>2, <1>3, PutMail
<1>5. TypeOK'
  BY <1>1, <1>2, <1>4 DEF TypeOK
<1>6. SameTables /\ \A x, k, y : For(x, k, y)' <=> For(x, k, y)
  BY <1>2, TablesSame DEF For
<1>7. HeldInv'
  BY <1>1, <1>2, <1>3, <1>6, HeldSame
<1>8. SameCalls
  BY <1>2, <1>6, AnsweredSame, KeptCalls, DirectoryAssumption DEF SameTables
<1>9. LaunchInv'
  BY <1>1, <1>2, <1>3, <1>8, MailsPutMail, StartsSame, LaunchKept
<1>10. LifeInv'
  <2>1. NotesNow({}, Cmds, h) /\ (Len(cmds) > 0 => About(h)')
    BY <1>2, <1>3, NotesPutMail DEF Only
  <2>2. About(h)' \/ h \in lost' \/ h \in killing \/ state[h] = "leaving"
    BY <2>1
  <2> QED BY <1>1, <1>2, <2>1, <2>2, LifeBecomes
<1>11. UniqueInv'
  <2>1. \A g \in Handles : Serves(g)' => Serves(g)
    BY <1>1, <1>2 DEF Serves, Over, TypeOK
  <2> QED BY <1>1, <1>2, <2>1, UniqueLives
<1> QED BY <1>5, <1>7, <1>9, <1>10, <1>11 DEF IInv

LEMMA ServiceStep ==
  ASSUME IInv, NEW h \in Handles, Starts(h) \/ Ends(h) \/ ExitCommand(h) \/ KillCommand(h)
  PROVE  IInv'
<1>1. TypeOK /\ LifeInv
  BY DEF IInv
<1>2. killing \in SUBSET Handles /\ lost \in SUBSET Handles
  BY <1>1 DEF TypeOK
<1>3. /\ <<>> \in Seq(Words) /\ Len(<<>>) = 0 /\ <<"LAUNCHOK">> \in Seq(Words)
      /\ <<"ERROR">> \in Seq(Words) /\ <<"REMOVE">> \in Seq(Words) /\ <<"KILLED">> \in Seq(Words)
      /\ <<"ERROR", "REMOVE">> \in Seq(Words)
  BY DEF Words
<1>4. CASE InitDone(h)
  <2>1. Becomes(h, "running", <<"LAUNCHOK">>) /\ state[h] = "init" /\ UNCHANGED <<killing, lost>>
    BY <1>4 DEF InitDone, Reports
  <2>2. Serves(h) /\ state[h] # "none"
    BY <2>1 DEF Serves
  <2>3. PICK cmds \in Seq(Words) : cmds = <<"LAUNCHOK">>
    BY <1>3
  <2>4. Len(cmds) > 0 /\ Only(cmds, {"LAUNCHOK"})
    BY <2>3 DEF Only
  <2>5. Becomes(h, "running", cmds)
    BY <2>1, <2>3
  <2> QED BY <1>2, <2>1, <2>2, <2>3, <2>4, <2>5, BecomesStep
<1>5. CASE InitError(h)
  <2>1. Becomes(h, "leaving", <<"ERROR", "REMOVE">>) /\ state[h] = "init" /\ UNCHANGED <<killing, lost>>
    BY <1>5 DEF InitError, Reports
  <2>2. state[h] # "none"
    BY <2>1
  <2>3. PICK cmds \in Seq(Words) : cmds = <<"ERROR", "REMOVE">>
    BY <1>3
  <2>4. Len(cmds) > 0 /\ Only(cmds, {"ERROR", "REMOVE"})
    BY <2>3 DEF Only
  <2>5. Becomes(h, "leaving", cmds)
    BY <2>1, <2>3
  <2> QED BY <1>2, <2>1, <2>2, <2>3, <2>4, <2>5, BecomesStep DEF Over
<1>6. CASE LoaderError(h)
  <2>1. Becomes(h, "leaving", <<"ERROR">>) /\ state[h] = "init" /\ UNCHANGED <<killing, lost>>
    BY <1>6 DEF LoaderError, Reports
  <2>2. state[h] # "none"
    BY <2>1
  <2>3. PICK cmds \in Seq(Words) : cmds = <<"ERROR">>
    BY <1>3
  <2>4. Len(cmds) > 0 /\ Only(cmds, {"ERROR"})
    BY <2>3 DEF Only
  <2>5. Becomes(h, "leaving", cmds)
    BY <2>1, <2>3
  <2> QED BY <1>2, <2>1, <2>2, <2>3, <2>4, <2>5, BecomesStep DEF Over
<1>7. CASE Exit(h)
  <2>1. /\ Becomes(h, "leaving", <<"REMOVE">>) /\ state[h] \in {"init", "running"}
        /\ UNCHANGED <<killing, lost>>
    BY <1>7 DEF Exit, Reports
  <2>2. state[h] # "none"
    BY <2>1
  <2>3. PICK cmds \in Seq(Words) : cmds = <<"REMOVE">>
    BY <1>3
  <2>4. Len(cmds) > 0 /\ Only(cmds, {"REMOVE"})
    BY <2>3 DEF Only
  <2>5. Becomes(h, "leaving", cmds)
    BY <2>1, <2>3
  <2> QED BY <1>2, <2>1, <2>2, <2>3, <2>4, <2>5, BecomesStep DEF Over
<1>8. CASE Kill(h)
  <2>1. /\ Becomes(h, state[h], <<"KILLED">>) /\ Alive(h)
        /\ killing' = killing \cup {h} /\ lost' = lost
    BY <1>8 DEF Kill
  <2>2. PICK s \in {"init", "running", "leaving"} : s = state[h]
    BY <2>1 DEF Alive
  <2>3. Becomes(h, s, <<"KILLED">>) /\ state[h] # "none"
    BY <2>1, <2>2
  <2>4. PICK cmds \in Seq(Words) : cmds = <<"KILLED">>
    BY <1>3
  <2>5. Len(cmds) > 0 /\ Only(cmds, {"KILLED"})
    BY <2>4 DEF Only
  <2>6. Becomes(h, s, cmds)
    BY <2>3, <2>4
  <2>7. s \in Over \/ Serves(h)
    BY <2>2 DEF Over, Serves
  <2> QED BY <1>2, <2>1, <2>3, <2>4, <2>5, <2>6, <2>7, BecomesStep
<1>9. CASE KillCommand(h)
  <2>1. Becomes(h, "dead", <<>>) /\ h \in killing /\ killing' = killing \ {h} /\ lost' = lost
    BY <1>9 DEF KillCommand
  <2>2. state[h] # "none"
    BY <1>1, <2>1 DEF LifeInv, Unborn
  <2>3. PICK cmds \in Seq(Words) : cmds = <<>>
    BY <1>3
  <2>4. Only(cmds, {})
    BY <2>3 DEF Only
  <2>5. Becomes(h, "dead", cmds)
    BY <2>1, <2>3
  <2> QED BY <1>2, <2>1, <2>2, <2>3, <2>4, <2>5, BecomesStep DEF Over
<1>10. CASE KillName(h)
  <2>1. Becomes(h, "dead", <<>>) /\ Alive(h) /\ lost' = lost \cup {h} /\ killing' = killing
    BY <1>10 DEF KillName
  <2>2. state[h] # "none"
    BY <2>1 DEF Alive
  <2>3. PICK cmds \in Seq(Words) : cmds = <<>>
    BY <1>3
  <2>4. Only(cmds, {})
    BY <2>3 DEF Only
  <2>5. Becomes(h, "dead", cmds)
    BY <2>1, <2>3
  <2> QED BY <1>2, <2>1, <2>2, <2>3, <2>4, <2>5, BecomesStep DEF Over
<1>11. CASE ExitCommand(h)
  <2>1. Becomes(h, "dead", <<>>) /\ state[h] = "leaving" /\ UNCHANGED <<killing, lost>>
    BY <1>11 DEF ExitCommand, Reports
  <2>2. state[h] # "none"
    BY <2>1
  <2>3. PICK cmds \in Seq(Words) : cmds = <<>>
    BY <1>3
  <2>4. Only(cmds, {})
    BY <2>3 DEF Only
  <2>5. Becomes(h, "dead", cmds)
    BY <2>1, <2>3
  <2> QED BY <1>2, <2>1, <2>2, <2>3, <2>4, <2>5, BecomesStep DEF Over
<1> QED BY <1>4, <1>5, <1>6, <1>7, <1>8, <1>9, <1>10, <1>11 DEF Starts, Ends

LEMMA InitHolds ==
  ASSUME Init
  PROVE  IInv
<1>1. /\ \A x \in Clients : asked[x] = None
      /\ net = {} /\ back = {} /\ mailbox = <<>>
      /\ \A m \in Managers, n \in Names : service[m][n] = NilEntry
      /\ \A h \in Handles : instance[h] = None /\ state[h] = "none" /\ name[h] = None
      /\ \A n \in Names : given[n] = {}
      /\ killing = {} /\ Master \in Managers /\ Others \in SUBSET Managers
      /\ None \notin Clients /\ None \notin Names
  BY DirectoryAssumption DEF Init, Others
<1>2. TypeOK
  <2>1. asks \in [Clients -> 0 .. MaxAsk]
    BY DirectoryAssumption DEF Init
  <2>2. service \in [Managers -> [Names -> Entries]]
    BY EntriesIn DEF Init
  <2>3. mailbox \in Seq(Mails)
    BY <1>1
  <2> QED BY <2>1, <2>2, <2>3 DEF TypeOK, Init
<1>3. DOMAIN mailbox = {}
  BY <1>1
<1>4. /\ \A x \in Clients : \A k, n : ~For(x, k, n)
      /\ \A m \in Managers, n \in Names : \A x : ~Waiting(m, n, x) /\ ~Launching(m, n, x)
      /\ \A m, x : ~Answered(m, x)
  BY <1>1, EntriesDiffer DEF For, Waiting, Launching, Answered
<1>5. HeldInv
  BY <1>1, <1>4 DEF HeldInv, Places, AtHome, CallOut, CallOnce, CallBehind, AnswersHeld, Parked
<1>6. LaunchInv
  BY <1>1, <1>3, <1>4 DEF LaunchInv, LaunchHeld, LaunchOnce, LaunchNamed, AtLaunch, Mailed, Starting
<1>7. LifeInv
  BY <1>1, <1>3 DEF LifeInv, Unborn, Ended, Heard
<1>8. UniqueInv
  BY <1>1, EntriesDiffer DEF UniqueInv, Known, Single, Same, Serves
<1> QED BY <1>2, <1>5, <1>6, <1>7, <1>8 DEF IInv

LEMMA StepHolds ==
  ASSUME IInv, [Next]_vars
  PROVE  IInv'
<1>1. CASE Next
  <2>1. \/ \E c \in Clients, n \in Names, m \in Managers, cmd \in {"LAUNCH", "QUERY"} :
             Ask(c, m, cmd, n)
        \/ \E c \in Clients, n \in Names : NewService(c, n)
        \/ \E c \in Clients : Remote(c)
        \/ \E m \in Managers : Returned(m)
        \/ Launcher
        \/ \E h \in Handles : Starts(h) \/ Ends(h) \/ ExitCommand(h) \/ KillCommand(h)
    BY <1>1 DEF Next
  <2> QED BY <2>1, AskStep, NewServiceStep, RemoteStep, ReturnedStep, LauncherStep, ServiceStep
<1>2. CASE UNCHANGED vars
  <2>1. UNCHANGED <<asked, asks, net, back, service, mailbox, instance, services, state,
                    killing, name, lost, given>>
    BY <1>2 DEF vars
  <2>2. TypeOK' /\ HeldInv'
    <3>1. TypeOK'
      BY <2>1 DEF IInv, TypeOK
    <3>2. SameTables /\ \A x, k, y : For(x, k, y)' <=> For(x, k, y)
      BY <2>1, TablesSame DEF For
    <3>3. net \in SUBSET Clients
      BY DEF IInv, TypeOK
    <3> QED BY <2>1, <3>1, <3>2, <3>3, HeldSame DEF IInv
  <2>3. LaunchInv'
    <3>1. SameCalls
      BY <2>1 DEF SameCalls, Answered, For, Launching
    <3> QED BY <2>1, <3>1, LaunchTouchless DEF IInv
  <2>4. LifeInv'
    BY <2>1, LifeTouchless DEF IInv
  <2>5. UniqueInv'
    <3>1. \A h \in Handles : Serves(h)' => Serves(h)
      BY <2>1 DEF Serves
    <3> QED BY <2>1, <3>1, UniqueLives DEF IInv
  <2> QED BY <2>2, <2>3, <2>4, <2>5 DEF IInv
<1> QED BY <1>1, <1>2

\* The requests are where the invariant says, the calls of the launcher have one place,
\* its messages tell how the services live, and unique services are unique: in
\* service_mgr.lua, launcher.lua and the start and end of a Lua service.
THEOREM Invariance == Spec => []IInv
<1>1. Init => IInv
  BY InitHolds
<1>2. IInv /\ [Next]_vars => IInv'
  BY StepHolds
<1> QED BY <1>1, <1>2, PTL DEF Spec

-----------------------------------------------------------------------------
(* What the invariant says of the properties.                              *)

LEMMA AtMostOne ==
  ASSUME NEW S, \A x, y \in S : x = y
  PROVE  Cardinality(S) = One(S # {})
<1>1. CASE S = {}
  BY <1>1, FS_EmptySet DEF One
<1>2. CASE S # {}
  <2>1. PICK x : S = {x}
    BY <1>2
  <2> QED BY <1>2, <2>1, FS_Singleton DEF One
<1> QED BY <1>1, <1>2

\* The counts of RequestHeld are zero or one.
LEMMA Counts ==
  ASSUME IInv, NEW c \in Clients
  PROVE  /\ AtLauncher(c) = One(Mailed(c)) + One(Starting(c))
         /\ \A m \in Managers : Answer(m, c) = One(Answered(m, c))
<1>1. Cardinality({i \in DOMAIN mailbox : mailbox[i].cmd = "LAUNCH" /\ mailbox[i].client = c})
        = One(Mailed(c))
  <2>1. PICK S : S = {i \in DOMAIN mailbox : mailbox[i].cmd = "LAUNCH" /\ mailbox[i].client = c}
    OBVIOUS
  <2>2. (S # {}) <=> Mailed(c)
    BY <2>1 DEF Mailed, IsLaunch
  <2>3. \A i, j \in S : i = j
    BY <2>1 DEF IInv, LaunchInv, LaunchOnce, IsLaunch
  <2>4. Cardinality(S) = One(S # {})
    BY <2>3, AtMostOne
  <2> QED BY <2>1, <2>2, <2>4 DEF One
<1>2. Cardinality({h \in Handles : instance[h] = c}) = One(Starting(c))
  <2>1. PICK S : S = {h \in Handles : instance[h] = c}
    OBVIOUS
  <2>2. (S # {}) <=> Starting(c)
    BY <2>1 DEF Starting
  <2>3. \A g, h \in S : g = h
    BY <2>1, DirectoryAssumption DEF IInv, LaunchInv, LaunchOnce
  <2>4. Cardinality(S) = One(S # {})
    BY <2>3, AtMostOne
  <2> QED BY <2>1, <2>2, <2>4 DEF One
<1>3. ASSUME NEW m \in Managers PROVE Answer(m, c) = One(Answered(m, c))
  <2>1. PICK S : S = {b \in back : b.to = m /\ b.client = c}
    OBVIOUS
  <2>2. (S # {}) <=> Answered(m, c)
    BY <2>1 DEF Answered
  <2>3. \A a, b \in S : a = b
    BY <2>1 DEF IInv, HeldInv, AnswersHeld
  <2>4. Cardinality(S) = One(S # {})
    BY <2>3, AtMostOne
  <2> QED BY <2>1, <2>2, <2>4 DEF One, Answer
<1> QED BY <1>1, <1>2, <1>3 DEF AtLauncher

Home(c) == IF asked[c] = None THEN None ELSE asked[c].to

LEMMA HomeIs ==
  ASSUME TypeOK, NEW c \in Clients
  PROVE  /\ \A m, n : For(c, m, n) => Home(c) = m
         /\ \A m \in Tos : Home(c) = m => \E n \in Names : For(c, m, n)
         /\ Home(c) \in Tos \cup {None}
<1>1. None \notin Tos /\ asked[c] \in Requests \cup {None}
  BY DirectoryAssumption DEF Tos, TypeOK
<1>2. CASE asked[c] = None
  BY <1>1, <1>2 DEF Home, For
<1>3. CASE asked[c] # None
  <2>1. asked[c] \in Requests
    BY <1>1, <1>3
  <2>2. asked[c].to \in Tos /\ asked[c].name \in Names
    BY <2>1 DEF Requests, Tos
  <2> QED BY <1>3, <2>2 DEF Home, For
<1> QED BY <1>2, <1>3

\* A client has one place at a manager.
LEMMA HeldIs ==
  ASSUME HeldInv, NEW m \in Managers, NEW c \in Clients
  PROVE  /\ HeldAt(m, c) = One(\E n \in Names : Parked(m, n, c))
         /\ ~(Waits(m, c) /\ Launches(m, c))
         /\ Launches(m, c) <=> \E n \in Names : Launching(m, n, c)
<1>1. /\ Waits(m, c) <=> \E n \in Names : Waiting(m, n, c)
      /\ Launches(m, c) <=> \E n \in Names : Launching(m, n, c)
  BY DEF Waits, Launches, Waiting, Launching
<1>2. ASSUME NEW y \in Names, NEW z \in Names, Waiting(m, y, c), Launching(m, z, c) PROVE FALSE
  <2>1. y = z
    BY <1>2, OneTable DEF Parked
  <2> QED BY <1>2, <2>1 DEF HeldInv, Places, Parked
<1>3. ~(Waits(m, c) /\ Launches(m, c))
  BY <1>1, <1>2
<1>4. (\E n \in Names : Parked(m, n, c)) <=> Waits(m, c) \/ Launches(m, c)
  BY <1>1 DEF Parked
<1>5. HeldAt(m, c) = One(Waits(m, c) \/ Launches(m, c))
  BY <1>3 DEF HeldAt, One
<1> QED BY <1>1, <1>3, <1>4, <1>5 DEF One

LEMMA HeldNow ==
  ASSUME IInv
  PROVE  RequestHeld
<1> SUFFICES ASSUME NEW c \in Clients
             PROVE  /\ AtLauncher(c) + Answer(Master, c) =
                         One(Home(c) = "launcher" \/ Launches(Master, c))
                    /\ \A m \in Managers :
                         /\ m = Home(c) => HeldAt(m, c) = 1
                         /\ m \notin {Home(c), Master} => HeldAt(m, c) + Answer(m, c) = 0
                         /\ m # Master =>
                              One(Launches(m, c)) = IF m = Home(c)
                                THEN One(c \in net) + HeldAt(Master, c) + Answer(m, c) ELSE 0
                    /\ Home(c) \notin Managers => c \notin net /\ HeldAt(Master, c) = 0
  BY DEF RequestHeld, Home
<1>1. TypeOK /\ HeldInv /\ LaunchInv
  BY DEF IInv
<1>2. /\ \A m, n : For(c, m, n) => Home(c) = m
      /\ \A m \in Tos : Home(c) = m => \E n \in Names : For(c, m, n)
  BY <1>1, HomeIs
<1>3. /\ AtLauncher(c) = One(Mailed(c)) + One(Starting(c))
      /\ \A m \in Managers : Answer(m, c) = One(Answered(m, c))
  BY Counts
<1>4. \A m \in Managers :
         /\ HeldAt(m, c) = One(\E n \in Names : Parked(m, n, c))
         /\ Launches(m, c) <=> \E n \in Names : Launching(m, n, c)
  BY <1>1, HeldIs
<1>5. /\ Master \in Managers /\ "launcher" \in Tos /\ Managers \in SUBSET Tos
      /\ Others \in SUBSET Managers /\ \A m \in Managers : m # Master => m \in Others
  BY DirectoryAssumption DEF Tos, Others
<1>6. AtLauncher(c) + Answer(Master, c) = One(Home(c) = "launcher" \/ Launches(Master, c))
  <2>1. AtLaunch(c) <=> Home(c) = "launcher" \/ Launches(Master, c)
    BY <1>2, <1>4, <1>5 DEF AtLaunch
  <2>2. /\ AtLaunch(c) <=> Mailed(c) \/ Starting(c) \/ Answered(Master, c)
        /\ ~(Mailed(c) /\ Starting(c)) /\ ~(Mailed(c) /\ Answered(Master, c))
        /\ ~(Starting(c) /\ Answered(Master, c))
    BY <1>1 DEF LaunchInv, LaunchHeld
  <2>3. Answer(Master, c) = One(Answered(Master, c))
    BY <1>3, <1>5
  <2> QED BY <1>3, <2>1, <2>2, <2>3 DEF One
<1>7. ASSUME NEW m \in Managers, m = Home(c) PROVE HeldAt(m, c) = 1
  <2>1. PICK n \in Names : For(c, m, n)
    BY <1>2, <1>5, <1>7
  <2>2. Parked(m, n, c)
    BY <1>1, <2>1 DEF HeldInv, AtHome
  <2> QED BY <1>4, <2>2 DEF One
<1>8. ASSUME NEW m \in Managers, m \notin {Home(c), Master}
      PROVE  /\ ~Answered(m, c) /\ \A n \in Names : ~Parked(m, n, c)
             /\ HeldAt(m, c) = 0 /\ Answer(m, c) = 0 /\ ~Launches(m, c)
  <2>1. \A n \in Names : ~Parked(m, n, c)
    BY <1>1, <1>2, <1>8 DEF HeldInv, Places
  <2>2. ~Answered(m, c)
    BY <1>1, <2>1 DEF HeldInv, AnswersHeld, Parked
  <2> QED BY <1>3, <1>4, <2>1, <2>2 DEF One, Parked
<1>9. ASSUME NEW m \in Others, m = Home(c)
      PROVE  One(Launches(m, c)) = One(c \in net) + HeldAt(Master, c) + Answer(m, c)
  <2>1. PICK n \in Names : For(c, m, n)
    BY <1>2, <1>5, <1>9
  <2>2. \A k \in Managers, y \in Names : Parked(k, y, c) => y = n
    BY <1>1, <2>1 DEF HeldInv, Places, For
  <2>3. (\E y \in Names : Parked(Master, y, c)) <=> Parked(Master, n, c)
    BY <1>5, <2>2
  <2>4. Launches(m, c) <=> Launching(m, n, c)
    BY <1>4, <1>5, <2>2 DEF Parked
  <2>5. Launching(m, n, c) <=> c \in net \/ Parked(Master, n, c) \/ Answered(m, c)
    <3>1. Answered(m, c) => Launching(m, n, c)
      BY <1>1, <1>5, <2>2 DEF HeldInv, AnswersHeld, Parked
    <3> QED BY <1>1, <2>1, <3>1 DEF HeldInv, CallOut, CallBehind
  <2>6. /\ ~(c \in net /\ Answered(m, c))
        /\ Parked(Master, n, c) => c \notin net /\ ~Answered(m, c)
    BY <1>1, <2>1 DEF HeldInv, CallOnce
  <2>7. HeldAt(Master, c) = One(Parked(Master, n, c))
    BY <1>4, <1>5, <2>3 DEF One
  <2>8. Answer(m, c) = One(Answered(m, c))
    BY <1>3, <1>5
  <2> QED BY <2>4, <2>5, <2>6, <2>7, <2>8 DEF One
<1>10. ASSUME NEW m \in Managers, m # Master
       PROVE  One(Launches(m, c)) = IF m = Home(c)
                THEN One(c \in net) + HeldAt(Master, c) + Answer(m, c) ELSE 0
  <2>1. CASE m = Home(c)
    BY <1>5, <1>9, <1>10, <2>1
  <2>2. CASE m # Home(c)
    BY <1>8, <1>10, <2>2 DEF One
  <2> QED BY <2>1, <2>2
<1>11. ASSUME Home(c) \notin Managers PROVE c \notin net /\ HeldAt(Master, c) = 0
  <2>1. \A m \in Managers, n \in Names : ~For(c, m, n)
    BY <1>2, <1>11
  <2>2. c \notin net
    BY <1>1, <1>5, <2>1 DEF HeldInv, CallBehind
  <2>3. \A n \in Names : ~Parked(Master, n, c)
    BY <1>1, <1>5, <2>1 DEF HeldInv, Places
  <2> QED BY <1>4, <1>5, <2>2, <2>3 DEF One
<1> QED BY <1>6, <1>7, <1>8, <1>10, <1>11

\* No request is lost between a client, the managers, the launcher and the new service:
\* each is in one place (waitfor, waitfor_remote and request of service_mgr.lua, the
\* mailbox and instance of launcher.lua), and a confirmation that the launcher waits for
\* can still come, unless the service was killed by name.
THEOREM NoRequestLost == Spec => []NothingLost
<1>1. IInv => NothingLost
  <2>1. IInv => ConfirmationComes
    BY DEF IInv, LifeInv, Heard, ConfirmationComes, About
  <2>2. IInv => TypeOK
    BY DEF IInv
  <2> QED BY <2>1, <2>2, HeldNow DEF NothingLost
<1> QED BY <1>1, Invariance, PTL

\* A unique service is unique: whoever asks a service_mgr, on whichever node, is given
\* the same handle, and none is launched while an earlier one of the name still runs.
THEOREM UniqueIsUnique == Spec => []Unique
<1>1. ASSUME IInv PROVE OneAnswer
  <2> SUFFICES ASSUME NEW n \in Names PROVE Cardinality(given[n]) <= 1
    BY DEF OneAnswer
  <2>1. \A g, h \in given[n] : g = h
    BY <1>1, HandleEntryIs DEF IInv, UniqueInv, Same
  <2>2. PICK S : S = given[n]
    OBVIOUS
  <2>3. Cardinality(S) = One(S # {})
    BY <2>1, <2>2, AtMostOne
  <2> QED BY <2>2, <2>3 DEF One
<1>2. ASSUME IInv PROVE OneInstance
  <2> SUFFICES ASSUME NEW n \in Names
               PROVE  Cardinality({h \in Handles : name[h] = n /\ Serves(h)}) <= 1
    BY DEF OneInstance
  <2>1. PICK S : S = {h \in Handles : name[h] = n /\ Serves(h)}
    OBVIOUS
  <2>2. \A g, h \in S : g = h
    BY <1>2, <2>1 DEF IInv, UniqueInv, Single
  <2>3. Cardinality(S) = One(S # {})
    BY <2>2, AtMostOne
  <2> QED BY <2>1, <2>3 DEF One
<1>3. IInv => Unique
  BY <1>1, <1>2 DEF Unique
<1> QED BY <1>3, Invariance, PTL
=============================================================================
