--------------------------- MODULE AccountsProofs ---------------------------
(***************************************************************************)
(* Proofs about SocketChannel and Accounts, for any callers, connections,  *)
(* commands, names and passwords and any number of faults.                 *)
(*                                                                         *)
(* The invariant CInv says what the tables of socketchannel.lua and the    *)
(* connections know of each other.  Its heart is InOrder: the responses    *)
(* that arrived, those under way and the commands written are, in this     *)
(* order, those of the callers that wait.                                  *)
(*                                                                         *)
(* The invariant AInv says what the agents and the generator know of the   *)
(* data base.  It sees the channel only through the phase of a request:    *)
(* it is not written yet, is in flight, or is executed with an answer.  A  *)
(* step of the channel is Calm: requests go on, answers are never made or  *)
(* exchanged, and may be lost.                                             *)
(***************************************************************************)
EXTENDS Accounts, SequenceTheorems, TLAPS

-----------------------------------------------------------------------------
(* The invariant of the channel.                                           *)

\* Sequences: their elements, without repetition, of any elements.
In(s) == {s[i] : i \in DOMAIN s}
Once(s) == \A i, j \in DOMAIN s : s[i] = s[j] => i = j
IsSeq(s) == s \in Seq(In(s))

\* The dispatch thread waits for a line of a connection.
Reading == dispatch.at \in {"read", "wait_data"}
\* Who waits for a response, in order.
Pend == (IF Reading THEN <<dispatch.for>> ELSE <<>>) \o thread
\* A caller is in socket.close.
Closing == \E k \in Conns : closer[k] # None
\* The dispatch thread is about to take the close signal.
EndSignal == dispatch.at = "pop" /\ thread = <<"signal">>

\* The types of the channel.
Typed ==
  /\ ChannelTypeOK
  /\ result = [a \in Callers |-> result[a]] /\ request = [a \in Callers |-> request[a]]
  /\ written = [k \in Conns |-> written[k]] /\ replies = [k \in Conns |-> replies[k]]
  /\ arrived = [k \in Conns |-> arrived[k]]
  /\ \A k \in Conns : IsSeq(written[k]) /\ IsSeq(replies[k]) /\ IsSeq(arrived[k])

\* Who runs, and who was woken.
Scheduled ==
  /\ Once(ready)
  /\ \A a \in Callers : at[a] \in Steps => ready # <<>> /\ Head(ready) = a
  /\ \A a \in Callers : at[a] \in {"check", "connect", "opened"} => ready = <<a>>
  /\ \A a \in Callers : a \in In(ready) => at[a] \in Steps \cup {"connecting", "reply", "close", "auth_close"}
  /\ "dispatch" \in In(ready) <=> dispatch.at \in {"loop", "pop", "read"}
  /\ dispatch.at \in {"loop", "read"} => ready # <<>> /\ Head(ready) = "dispatch"

\* Who connects, and who waits for it.
Joins ==
  /\ Once(connecting)
  /\ \A i \in DOMAIN connecting : i > 1 => at[connecting[i]] = "connecting"
                                          /\ connecting[i] \notin In(ready)
\* The first of connecting is the one that connects or authenticates.
Leads ==
  /\ connecting # <<>> => \/ at[Head(connecting)] \in {"connect", "open", "opened", "connected"}
                          \/ authcoroutine = Head(connecting)
  /\ \A a \in Callers : at[a] \in {"connect", "open", "opened", "connected"} =>
       connecting # <<>> /\ Head(connecting) = a /\ authcoroutine = None
  /\ authcoroutine # None => /\ connecting # <<>> /\ Head(connecting) = authcoroutine
                             /\ at[authcoroutine] \in {"check", "write", "reply", "close", "auth_close", "failed"}
Connects == Joins /\ Leads

\* The connections.
Clean(k) == written[k] = <<>> /\ replies[k] = <<>> /\ arrived[k] = <<>>
\* An id that is free, or whose connection is being made.
FreeClean ==
  \A k \in Conns : conn[k] \in {"none", "opening"} =>
    Clean(k) /\ k \notin broken /\ closer[k] = None
\* There is an id in socket.open just when a caller is there.
OneOpening ==
  /\ \A j, k \in Conns : conn[j] = "opening" /\ conn[k] = "opening" => j = k
  /\ \A k \in Conns : conn[k] = "opening" => \E a \in Callers : at[a] = "open"
  /\ \A a \in Callers : at[a] = "open" => \E k \in Conns : conn[k] = "opening"
\* A connection is the channel's, is being closed, or has just been made.
OpenUsed ==
  \A k \in Conns : conn[k] \in {"open", "lost"} =>
    \/ k = sock \/ closer[k] # None
    \/ conn[k] = "open" /\ Clean(k) /\ \E a \in Callers : at[a] = "opened"
\* Between socket.open and the assignment of channel.__sock there is no other.
OneOpened ==
  \A a \in Callers : at[a] = "opened" =>
    /\ \E k \in Conns : conn[k] = "open"
    /\ \A j, k \in Conns : conn[j] \in {"open", "lost"} /\ conn[k] \in {"open", "lost"} => j = k
\* What is closed is broken and no longer the channel's.
OneClosing ==
  /\ \A k \in Conns : closer[k] # None =>
       /\ sock = None /\ k \in broken /\ at[closer[k]] \in {"close", "auth_close"}
       /\ \A a \in Callers : at[a] # "opened"
       /\ conn[k] = "lost" => closer[k] \in In(ready)
  /\ \A j, k \in Conns : closer[j] # None /\ closer[k] # None => j = k
  /\ \A a \in Callers : at[a] \in {"close", "auth_close"} => \E k \in Conns : closer[k] = a
\* What a connection that is broken or lost can still hold.
Broken ==
  /\ \A k \in Conns : conn[k] = "lost" => k \in broken /\ replies[k] = <<>>
  /\ \A k \in broken : written[k] = <<>>
\* The channel's socket is open, or its dispatch thread is about to find out.
SockOpen ==
  sock # None => /\ conn[sock] \in {"open", "lost"}
                 /\ \A a \in Callers : at[a] \notin {"connect", "open", "opened"}
                 /\ conn[sock] = "lost" /\ Pend # <<>> =>
                      ready # <<>> /\ Head(ready) = "dispatch"
Net == /\ FreeClean /\ OneOpening /\ OpenUsed /\ OneOpened /\ OneClosing /\ Broken
       /\ SockOpen

\* The dispatch thread.
ReadsFor ==
  /\ ~Reading => dispatch.for = None /\ dispatch.conn = None
  /\ Reading => /\ dispatch.for \in Callers
                /\ \/ dispatch.conn = sock
                   \/ dispatch.conn \in Conns /\ closer[dispatch.conn] # None
                /\ sock # None \/ Closing
  /\ dispatch.at = "wait_data" => dispatch.conn \in Conns /\ conn[dispatch.conn] = "open"
\* It is there for the requests of the connection, and comes to an end without it.
Serves ==
  /\ sock # None => dispatch.at # "none" /\ "signal" \notin In(thread)
  /\ dispatch.at = "wait" => thread = <<>>
  /\ thread # <<>> /\ sock = None => Closing \/ EndSignal
\* How far the old dispatch thread is when the next connection is made.
Ends ==
  /\ \A a \in Callers : at[a] \in {"open", "opened"} =>
       \/ dispatch.at = "none" \/ EndSignal
       \/ Closing /\ dispatch.at \in {"wait_data", "read", "loop"}
  /\ \A a \in Callers : at[a] \in {"close", "auth_close"} /\ a \in In(ready) =>
       dispatch.at \in {"none", "wait", "read", "loop"}
  /\ \A a \in Callers : at[a] = "connect" \/ (at[a] = "check" /\ authcoroutine # a) =>
       dispatch.at # "new"
\* The close signal comes last, and somebody waits for its effect.
Signals ==
  /\ \A i \in DOMAIN thread : thread[i] = "signal" => i = Len(thread)
  /\ "signal" \in In(thread) => \E a \in Callers : at[a] = "open"
\* It has something to do when the caller in socket.close was woken with it.
Wakes ==
  dispatch.at = "read" =>
    \A a \in Callers : at[a] \in {"close", "auth_close"} /\ a \in In(ready) =>
      ~(dispatch.conn \in Conns /\ conn[dispatch.conn] = "open" /\ arrived[dispatch.conn] = <<>>)
Dispatches == ReadsFor /\ Serves /\ Ends /\ Wakes /\ Signals

\* The caller that authenticates has the connection for itself.
AuthAlone ==
  authcoroutine # None =>
    /\ \A a \in Callers : a \in In(ready) => a = authcoroutine \/ at[a] = "check"
    /\ \A x \in In(Pend) : x = authcoroutine
    /\ \A k \in Conns : closer[k] # None => closer[k] = authcoroutine
\* What it sees of its connection.
AuthSock ==
  authcoroutine # None =>
    /\ authcoroutine \in In(Pend) => sock # None
    /\ at[authcoroutine] = "check" => sock # None /\ conn[sock] = "open"
    /\ at[authcoroutine] = "reply" /\ authcoroutine \in In(ready) =>
         (result[authcoroutine].is = "error" <=> sock = None)
\* Whoever is about to write was just told that the channel is connected, and
\* authentication goes on until its connection is closed.
Writes ==
  \A a \in Callers :
    /\ at[a] = "write" => sock # None /\ conn[sock] = "open" /\ authcoroutine \in {None, a}
    /\ at[a] = "auth_close" => authcoroutine = a
Authenticates == AuthAlone /\ AuthSock /\ Writes

\* Responses come in the order of those who wait.
Fits(i, c) == i \in DOMAIN Pend /\ Pend[i] \in Callers /\ c = Command(Pend[i])
Answers(k) ==
  LET n == Len(arrived[k])
      m == n + Len(replies[k])
  IN /\ \A i \in DOMAIN arrived[k] : arrived[k][i].is \in {"ok", "refused"} /\ Fits(i, arrived[k][i].to)
     /\ \A i \in DOMAIN replies[k] : replies[k][i].is \in {"ok", "refused"} /\ Fits(n + i, replies[k][i].to)
     /\ \A i \in DOMAIN written[k] : Fits(m + i, written[k][i])
     /\ k = sock /\ k \notin broken => Len(Pend) = m + Len(written[k])
\* A caller waits in one place, and was not woken.
WaitOnce ==
  /\ Once(Pend)
  /\ \A a \in Callers : a \in In(Pend) => at[a] = "reply" /\ a \notin In(ready)
\* Whoever was woken has an error or the response to its command.
Results ==
  \A a \in Callers : at[a] = "reply" /\ a \in In(ready) =>
    result[a] = Error \/ (result[a].is \in {"ok", "refused"} /\ result[a].to = Command(a))
\* On the channel's connection, and on the one the dispatch thread still reads.
InOrder == \A k \in Conns : k = sock \/ (Reading /\ dispatch.conn = k) => Answers(k)

\* The inductive invariant.
CInv == /\ Typed /\ Scheduled /\ Connects /\ Net /\ Dispatches /\ Authenticates
        /\ WaitOnce /\ Results /\ InOrder /\ Matched

-----------------------------------------------------------------------------
(* How far a request has come.                                             *)

\* It has not been written, or a authenticates first.
Pre(a) ==
  \/ at[a] \in {"idle", "check", "connecting", "connect", "open", "opened", "connected",
                "check_again", "write", "await"}
  \/ authcoroutine = a
\* Its result is there.
Has(a) == at[a] = "done" \/ (at[a] = "reply" /\ a \in In(ready))
\* The responses that the dispatch thread can still take from connection k.
Live(k) == k = sock \/ (Reading /\ dispatch.conn = k)
Resp(k) == In(arrived[k]) \cup In(replies[k])
\* It is written and not executed; it was executed, and the answer is v.
InFlight(a) ==
  authcoroutine # a /\ \E k \in Conns : k = sock /\ [by |-> a, cmd |-> request[a]] \in In(written[k])
Answered(a, v) ==
  /\ authcoroutine # a
  /\ \/ Has(a) /\ result[a].is = "ok" /\ result[a].value = v
     \/ \E k \in Conns : Live(k) /\ \E r \in Resp(k) : r.is = "ok" /\ r.to.by = a /\ r.value = v

\* A step that executes no command: a request is written at most, an answer is given
\* to who asked, or is lost.
Calm ==
  /\ request' = request
  /\ \A b \in Callers :
       /\ Pre(b)' => Pre(b)
       /\ at'[b] = "idle" <=> at[b] = "idle"
       /\ authcoroutine = b /\ authcoroutine' # b => at'[b] = "connected"
       /\ Has(b)' => \/ Has(b) /\ result'[b] = result[b]
                     \/ result'[b].is # "ok"
                     \/ \E k \in Conns : /\ Live(k) /\ result'[b] \in Resp(k)
                                         /\ result'[b].to.by = b
  /\ \A k \in Conns :
       /\ k = sock' => \A x \in In(written'[k]) :
            (k = sock /\ x \in In(written[k])) \/ \E b \in Callers : Pre(b) /\ x.by = b
       /\ Live(k)' => \/ Live(k) /\ \A r \in Resp(k)' : r \in Resp(k) \/ r.is # "ok"
                     \/ Resp(k)' = {}

-----------------------------------------------------------------------------
(* Sequences.                                                              *)

LEMMA Elements ==
  ASSUME NEW S, NEW s \in Seq(S)
  PROVE  /\ Len(s) \in Nat /\ DOMAIN s = 1 .. Len(s) /\ In(s) \subseteq S
         /\ \A i \in 1 .. Len(s) : s[i] \in In(s) /\ s[i] \in S
         /\ s = <<>> <=> In(s) = {}
         /\ s = <<>> <=> Len(s) = 0
<1>1. Len(s) \in Nat /\ DOMAIN s = 1 .. Len(s)
  BY LenProperties
<1>2. \A i \in 1 .. Len(s) : s[i] \in In(s) /\ s[i] \in S
  BY <1>1, ElementOfSeq DEF In
<1>3. In(s) \subseteq S
  BY <1>1, <1>2 DEF In
<1>4. s # <<>> => s[1] \in In(s)
  BY <1>1, <1>2
<1>5. s = <<>> => In(s) = {}
  BY <1>1 DEF In
<1>6. s = <<>> <=> Len(s) = 0
  BY EmptySeq
<1> QED BY <1>1, <1>2, <1>3, <1>4, <1>5, <1>6

LEMMA Empty == In(<<>>) = {} /\ Once(<<>>) /\ Len(<<>>) = 0 /\ DOMAIN <<>> = {} /\ IsSeq(<<>>)
BY DEF In, Once, IsSeq

LEMMA SingleIn ==
  ASSUME NEW S, NEW x \in S
  PROVE  <<x>> \in Seq(S)
OBVIOUS

LEMMA Single ==
  ASSUME NEW x
  PROVE  /\ In(<<x>>) = {x} /\ Once(<<x>>) /\ Head(<<x>>) = x /\ Tail(<<x>>) = <<>>
         /\ <<x>> # <<>> /\ Len(<<x>>) = 1 /\ <<x>>[1] = x
BY DEF In, Once

\* A sequence over some set is one over its elements.
LEMMA SeqIn ==
  ASSUME NEW S, NEW s \in Seq(S)
  PROVE  IsSeq(s)
<1>1. /\ Len(s) \in Nat /\ DOMAIN s = 1 .. Len(s) /\ s = [i \in 1 .. Len(s) |-> s[i]]
      /\ \A i \in 1 .. Len(s) : s[i] \in In(s)
  BY Elements
<1> QED BY <1>1 DEF IsSeq

LEMMA AppendIs ==
  ASSUME NEW S, NEW s \in Seq(S), NEW x \in S
  PROVE  /\ Append(s, x) \in Seq(S) /\ Append(s, x) # <<>>
         /\ Len(Append(s, x)) = Len(s) + 1
         /\ \A i \in 1 .. Len(s) : Append(s, x)[i] = s[i]
         /\ Append(s, x)[Len(s) + 1] = x
         /\ In(Append(s, x)) = In(s) \cup {x}
         /\ Once(s) /\ x \notin In(s) => Once(Append(s, x))
         /\ s # <<>> => Head(Append(s, x)) = Head(s)
<1> DEFINE t == Append(s, x)
           n == Len(s)
<1>1. /\ t \in Seq(S) /\ Len(t) = n + 1 /\ n \in Nat /\ t # <<>>
      /\ \A i \in 1 .. n : t[i] = s[i]
      /\ t[n + 1] = x
  BY AppendProperties, LenProperties
<1>2. DOMAIN s = 1 .. n /\ DOMAIN t = 1 .. n + 1 /\ \A i \in 1 .. n : s[i] \in In(s)
  BY <1>1, Elements
<1>3. s # <<>> => Head(t) = Head(s)
  BY <1>1
<1> HIDE DEF t, n
<1>4. \A i \in 1 .. n + 1 : i \in 1 .. n \/ i = n + 1
  BY <1>1
<1>5. 1 .. n \subseteq 1 .. n + 1 /\ n + 1 \in 1 .. n + 1
  BY <1>1
<1>6. In(t) = In(s) \cup {x}
  BY <1>1, <1>2, <1>4, <1>5 DEF In
<1>7. Once(s) /\ x \notin In(s) => Once(t)
  BY <1>1, <1>2, <1>4 DEF Once
<1> QED BY <1>1, <1>3, <1>6, <1>7 DEF t, n

LEMMA TailIs ==
  ASSUME NEW S, NEW s \in Seq(S), s # <<>>
  PROVE  /\ Tail(s) \in Seq(S) /\ Head(s) \in S /\ Head(s) = s[1] /\ Head(s) \in In(s)
         /\ Len(Tail(s)) = Len(s) - 1 /\ Len(s) >= 1 /\ Len(s) \in Nat
         /\ \A i \in 1 .. Len(s) - 1 : Tail(s)[i] = s[i + 1]
         /\ In(Tail(s)) \subseteq In(s) /\ In(s) = In(Tail(s)) \cup {Head(s)}
         /\ Once(s) => Once(Tail(s)) /\ Head(s) \notin In(Tail(s))
<1> DEFINE t == Tail(s)
           n == Len(s)
<1>1. /\ t \in Seq(S) /\ Len(t) = n - 1 /\ n \in Nat \ {0} /\ Head(s) \in S
      /\ \A i \in 1 .. n - 1 : t[i] = s[i + 1]
  BY HeadTailProperties, LenProperties, EmptySeq
<1>2. Head(s) = s[1]
  OBVIOUS
<1>3. DOMAIN s = 1 .. n /\ DOMAIN t = 1 .. n - 1 /\ \A i \in 1 .. n : s[i] \in In(s)
  BY <1>1, Elements
<1> HIDE DEF t, n
<1>4. \A i \in 1 .. n - 1 : i + 1 \in 1 .. n /\ i + 1 # 1
  BY <1>1
<1>5. \A i \in 1 .. n : i # 1 => i - 1 \in 1 .. n - 1 /\ t[i - 1] = s[i]
  BY <1>1
<1>6. 1 \in 1 .. n
  BY <1>1
<1>7. In(t) \subseteq In(s)
  BY <1>1, <1>3, <1>4 DEF In
<1>8. ASSUME NEW y \in In(s) PROVE y \in In(t) \cup {Head(s)}
  <2>1. PICK i \in 1 .. n : y = s[i]
    BY <1>3 DEF In
  <2>2. CASE i = 1
    BY <1>2, <2>1, <2>2
  <2>3. CASE i # 1
    BY <1>3, <1>5, <2>1, <2>3 DEF In
  <2> QED BY <2>2, <2>3
<1>9. ASSUME Once(s) PROVE Once(t) /\ Head(s) \notin In(t)
  <2>1. \A i, j \in 1 .. n : s[i] = s[j] => i = j
    BY <1>3, <1>9 DEF Once
  <2>2. ASSUME NEW i \in 1 .. n - 1, NEW j \in 1 .. n - 1, t[i] = t[j] PROVE i = j
    <3>1. i + 1 = j + 1
      BY <1>1, <1>4, <2>1, <2>2
    <3> QED BY <3>1
  <2>3. ASSUME NEW i \in 1 .. n - 1, t[i] = Head(s) PROVE FALSE
    BY <1>1, <1>2, <1>4, <1>6, <2>1, <2>3
  <2> QED BY <1>3, <2>2, <2>3 DEF Once, In
<1> QED BY <1>1, <1>2, <1>3, <1>6, <1>7, <1>8, <1>9 DEF t, n

LEMMA ConcatIs ==
  ASSUME NEW S, NEW s \in Seq(S), NEW r \in Seq(S)
  PROVE  /\ s \o r \in Seq(S) /\ Len(s \o r) = Len(s) + Len(r)
         /\ \A i \in 1 .. Len(s) : (s \o r)[i] = s[i]
         /\ \A i \in 1 .. Len(r) : (s \o r)[Len(s) + i] = r[i]
         /\ In(s \o r) = In(s) \cup In(r)
         /\ Once(s) /\ Once(r) /\ In(s) \cap In(r) = {} => Once(s \o r)
         /\ s # <<>> => s \o r # <<>> /\ Head(s \o r) = Head(s)
         /\ (r = <<>> => s \o r = s) /\ (s = <<>> => s \o r = r)
<1> DEFINE t == s \o r
           n == Len(s)
           m == Len(r)
<1>1. /\ t \in Seq(S) /\ Len(t) = n + m /\ n \in Nat /\ m \in Nat
      /\ \A i \in 1 .. n : t[i] = s[i]
      /\ \A i \in 1 .. m : t[n + i] = r[i]
  BY ConcatProperties, LenProperties
<1>2. /\ DOMAIN s = 1 .. n /\ DOMAIN t = 1 .. n + m /\ DOMAIN r = 1 .. m
      /\ \A i \in 1 .. n : s[i] \in In(s)
      /\ \A i \in 1 .. m : r[i] \in In(r)
  BY <1>1, Elements
<1>3. s # <<>> => s \o r # <<>> /\ Head(s \o r) = Head(s)
  BY <1>1, EmptySeq
<1>4. (r = <<>> => s \o r = s) /\ (s = <<>> => s \o r = r)
  OBVIOUS
<1> HIDE DEF t, n, m
<1>5. \A i \in 1 .. n + m : i \in 1 .. n \/ (i - n \in 1 .. m /\ t[i] = r[i - n])
  BY <1>1
<1>6. (\A i \in 1 .. n : i \in 1 .. n + m) /\ (\A i \in 1 .. m : n + i \in 1 .. n + m)
  BY <1>1
<1>7. In(t) \subseteq In(s) \cup In(r)
  BY <1>1, <1>2, <1>5 DEF In
<1>8. In(s) \cup In(r) \subseteq In(t)
  BY <1>1, <1>2, <1>6, ZenonT(60) DEF In
<1>9. ASSUME Once(s), Once(r), In(s) \cap In(r) = {} PROVE Once(t)
  <2> SUFFICES ASSUME NEW i \in 1 .. n + m, NEW j \in 1 .. n + m, t[i] = t[j]
               PROVE  i = j
    BY <1>2 DEF Once
  <2>1. CASE i \in 1 .. n /\ j \in 1 .. n
    BY <1>1, <1>2, <1>9, <2>1 DEF Once
  <2>2. CASE i \in 1 .. n /\ j \notin 1 .. n
    BY <1>1, <1>2, <1>5, <1>9, <2>2
  <2>3. CASE i \notin 1 .. n /\ j \in 1 .. n
    BY <1>1, <1>2, <1>5, <1>9, <2>3
  <2>4. CASE i \notin 1 .. n /\ j \notin 1 .. n
    <3>1. i - n \in 1 .. m /\ j - n \in 1 .. m /\ r[i - n] = r[j - n]
      BY <1>5, <2>4
    <3>2. i - n = j - n
      BY <1>2, <1>9, <3>1 DEF Once
    <3> QED BY <1>1, <3>2
  <2> QED BY <2>1, <2>2, <2>3, <2>4
<1> QED BY <1>1, <1>3, <1>4, <1>7, <1>8, <1>9 DEF t, n, m

\* A sequence without what comes after its first n elements.
LEMMA PrefixIs ==
  ASSUME NEW S, NEW s \in Seq(S), NEW n \in 0 .. Len(s)
  PROVE  /\ SubSeq(s, 1, n) \in Seq(S) /\ Len(SubSeq(s, 1, n)) = n
         /\ \A i \in 1 .. n : SubSeq(s, 1, n)[i] = s[i]
         /\ In(SubSeq(s, 1, n)) \subseteq In(s)
         /\ Once(s) => Once(SubSeq(s, 1, n))
<1> DEFINE t == SubSeq(s, 1, n)
<1>1. Len(s) \in Nat /\ n \in Nat /\ n <= Len(s) /\ \A i \in 1 .. Len(s) : s[i] \in In(s)
  BY Elements
<1>2. \A i \in 1 .. n : i \in 1 .. Len(s) /\ s[i] \in S
  BY <1>1, Elements
<1>3. t = [i \in 1 .. n |-> s[i]]
  BY <1>1
<1>4. t \in Seq(S) /\ Len(t) = n
  BY <1>1, <1>2, <1>3
<1>5. DOMAIN t = 1 .. n /\ DOMAIN s = 1 .. Len(s) /\ \A i \in 1 .. n : t[i] = s[i]
  BY <1>3, Elements
<1> HIDE DEF t
<1>6. In(t) \subseteq In(s)
  BY <1>1, <1>2, <1>5 DEF In
<1>7. Once(s) => Once(t)
  BY <1>2, <1>5 DEF Once
<1> QED BY <1>4, <1>5, <1>6, <1>7 DEF t

\* The same for a sequence of anything.
LEMMA AppendAny ==
  ASSUME NEW s, IsSeq(s), NEW x
  PROVE  /\ IsSeq(Append(s, x)) /\ Append(s, x) # <<>> /\ Len(s) \in Nat
         /\ Len(Append(s, x)) = Len(s) + 1 /\ DOMAIN s = 1 .. Len(s)
         /\ DOMAIN Append(s, x) = 1 .. Len(s) + 1
         /\ \A i \in 1 .. Len(s) : Append(s, x)[i] = s[i]
         /\ Append(s, x)[Len(s) + 1] = x
<1> DEFINE T == In(s) \cup {x}
<1>1. s \in Seq(In(s))
  BY DEF IsSeq
<1>2. /\ Len(s) \in Nat /\ DOMAIN s = 1 .. Len(s) /\ s = [i \in 1 .. Len(s) |-> s[i]]
      /\ \A i \in 1 .. Len(s) : s[i] \in T
  BY <1>1, Elements
<1> HIDE DEF T
<1>3. s \in Seq(T)
  BY <1>2
<1>4. x \in T
  BY DEF T
<1>5. Append(s, x) \in Seq(T)
  BY <1>3, <1>4, AppendIs
<1>6. DOMAIN Append(s, x) = 1 .. Len(Append(s, x))
  BY <1>5, Elements
<1>7. IsSeq(Append(s, x))
  BY <1>5, SeqIn
<1>8. /\ Append(s, x) # <<>> /\ Len(Append(s, x)) = Len(s) + 1
      /\ \A i \in 1 .. Len(s) : Append(s, x)[i] = s[i]
      /\ Append(s, x)[Len(s) + 1] = x
  BY <1>3, <1>4, AppendIs
<1> QED BY <1>2, <1>6, <1>7, <1>8

LEMMA TailAny ==
  ASSUME NEW s, IsSeq(s), s # <<>>
  PROVE  /\ IsSeq(Tail(s)) /\ Head(s) = s[1] /\ Len(s) \in Nat /\ Len(s) >= 1
         /\ Len(Tail(s)) = Len(s) - 1 /\ DOMAIN s = 1 .. Len(s)
         /\ DOMAIN Tail(s) = 1 .. Len(s) - 1
         /\ \A i \in 1 .. Len(s) - 1 : Tail(s)[i] = s[i + 1]
<1>1. s \in Seq(In(s))
  BY DEF IsSeq
<1>2. Tail(s) \in Seq(In(s))
  BY <1>1, TailIs
<1>3. DOMAIN s = 1 .. Len(s) /\ DOMAIN Tail(s) = 1 .. Len(Tail(s))
  BY <1>1, <1>2, Elements
<1>4. IsSeq(Tail(s))
  BY <1>2, SeqIn
<1>5. /\ Head(s) = s[1] /\ Len(Tail(s)) = Len(s) - 1 /\ Len(s) >= 1 /\ Len(s) \in Nat
      /\ \A i \in 1 .. Len(s) - 1 : Tail(s)[i] = s[i + 1]
  BY <1>1, TailIs
<1> QED BY <1>3, <1>4, <1>5

LEMMA PrefixAny ==
  ASSUME NEW s, IsSeq(s), NEW n \in 0 .. Len(s)
  PROVE  /\ IsSeq(SubSeq(s, 1, n)) /\ Len(SubSeq(s, 1, n)) = n /\ Len(s) \in Nat
         /\ DOMAIN s = 1 .. Len(s) /\ DOMAIN SubSeq(s, 1, n) = 1 .. n
         /\ \A i \in 1 .. n : SubSeq(s, 1, n)[i] = s[i]
<1>1. s \in Seq(In(s))
  BY DEF IsSeq
<1>2. SubSeq(s, 1, n) \in Seq(In(s))
  BY <1>1, PrefixIs
<1>3. DOMAIN s = 1 .. Len(s) /\ DOMAIN SubSeq(s, 1, n) = 1 .. Len(SubSeq(s, 1, n)) /\ Len(s) \in Nat
  BY <1>1, <1>2, Elements
<1> QED BY <1>1, <1>2, <1>3, PrefixIs, SeqIn

\* What such sequences contain.
LEMMA Contents ==
  ASSUME NEW s, IsSeq(s)
  PROVE  /\ \A x : In(Append(s, x)) = In(s) \cup {x}
         /\ s # <<>> => In(Tail(s)) \subseteq In(s) /\ Head(s) \in In(s)
         /\ \A n \in 0 .. Len(s) : In(SubSeq(s, 1, n)) \subseteq In(s)
<1>1. s \in Seq(In(s))
  BY DEF IsSeq
<1>2. ASSUME NEW x PROVE In(Append(s, x)) = In(s) \cup {x}
  <2> DEFINE T == In(s) \cup {x}
  <2>1. /\ Len(s) \in Nat /\ s = [i \in 1 .. Len(s) |-> s[i]]
        /\ \A i \in 1 .. Len(s) : s[i] \in T
    BY <1>1, Elements
  <2> HIDE DEF T
  <2>2. s \in Seq(T)
    BY <2>1
  <2>3. x \in T
    BY DEF T
  <2> QED BY <2>2, <2>3, AppendIs
<1>3. s # <<>> => In(Tail(s)) \subseteq In(s) /\ Head(s) \in In(s)
  BY <1>1, TailIs
<1>4. \A n \in 0 .. Len(s) : In(SubSeq(s, 1, n)) \subseteq In(s)
  BY <1>1, PrefixIs
<1> QED BY <1>2, <1>3, <1>4

-----------------------------------------------------------------------------
(* The channel: facts for every step.                                      *)

LEMMA Types ==
  ASSUME Typed
  PROVE  /\ ready \in Seq(Callers \cup {"dispatch"})
         /\ thread \in Seq(Callers \cup {"signal"})
         /\ connecting \in Seq(Callers)
         /\ at \in [Callers -> Yields \cup Steps]
         /\ "dispatch" \notin Callers /\ "signal" \notin Callers
         /\ None \notin Callers /\ None \notin Conns
BY ChannelAssumption DEF Typed, ChannelTypeOK

LEMMA Atoms ==
  ASSUME Typed
  PROVE  /\ sock \in Conns \cup {None} /\ authcoroutine \in Callers \cup {None}
         /\ \A k \in Conns : closer[k] \in Callers \cup {None}
         /\ broken \subseteq Conns
         /\ "dispatch" \notin Callers /\ "signal" \notin Callers
         /\ None \notin Callers /\ None \notin Conns
BY ChannelAssumption DEF Typed, ChannelTypeOK

LEMMA Queue ==
  ASSUME Typed
  PROVE  /\ \A i \in DOMAIN connecting : connecting[i] \in Callers
         /\ connecting # <<>> => Head(connecting) \in Callers /\ Head(connecting) = connecting[1]
         /\ DOMAIN connecting = 1 .. Len(connecting) /\ Len(connecting) \in Nat
         /\ connecting # <<>> => Len(connecting) >= 1
<1>1. connecting \in Seq(Callers)
  BY Types
<1> QED BY <1>1, Elements, TailIs

LEMMA PendIs ==
  ASSUME Typed, ReadsFor
  PROVE  /\ Pend \in Seq(Callers \cup {"signal"})
         /\ Len(thread) \in Nat
         /\ ~Reading => Pend = thread
         /\ Reading => /\ Len(Pend) = Len(thread) + 1 /\ Pend[1] = dispatch.for
                       /\ \A i \in 1 .. Len(thread) : Pend[i + 1] = thread[i]
                       /\ In(Pend) = {dispatch.for} \cup In(thread)
                       /\ Tail(Pend) = thread /\ Head(Pend) = dispatch.for /\ Pend # <<>>
         /\ In(thread) \subseteq In(Pend)
<1> DEFINE S == Callers \cup {"signal"}
<1>1. thread \in Seq(S) /\ Len(thread) \in Nat
  BY Types, Elements
<1>2. CASE ~Reading
  BY <1>1, <1>2 DEF Pend
<1>3. CASE Reading
  <2> DEFINE f == <<dispatch.for>>
  <2>1. dispatch.for \in S
    BY <1>3 DEF ReadsFor
  <2>2. f \in Seq(S) /\ Len(f) = 1 /\ f[1] = dispatch.for /\ f # <<>>
    BY <2>1
  <2>3. Pend = f \o thread
    BY <1>3 DEF Pend
  <2>4. In(f) = {dispatch.for} /\ Head(f) = dispatch.for
    BY Single
  <2> HIDE DEF f
  <2>5. /\ Pend \in Seq(S) /\ Len(Pend) = 1 + Len(thread) /\ Pend # <<>>
        /\ Pend[1] = dispatch.for
        /\ \A i \in 1 .. Len(thread) : Pend[i + 1] = thread[i]
        /\ In(Pend) = In(f) \cup In(thread) /\ Head(Pend) = Head(f)
    <3> HIDE DEF S, Pend
    <3>1. /\ f \o thread \in Seq(S) /\ Len(f \o thread) = Len(f) + Len(thread)
          /\ \A i \in 1 .. Len(f) : (f \o thread)[i] = f[i]
          /\ \A i \in 1 .. Len(thread) : (f \o thread)[Len(f) + i] = thread[i]
          /\ In(f \o thread) = In(f) \cup In(thread)
          /\ f \o thread # <<>> /\ Head(f \o thread) = Head(f)
      BY <1>1, <2>2, ConcatIs
    <3>2. 1 \in 1 .. Len(f) /\ \A i \in 1 .. Len(thread) : Len(f) + i = i + 1
      BY <1>1, <2>2
    <3> QED BY <1>1, <2>2, <2>3, <3>1, <3>2
  <2>6. Tail(Pend) = thread
    <3>1. /\ Tail(Pend) \in Seq(S) /\ Len(Tail(Pend)) = Len(thread)
          /\ \A i \in 1 .. Len(thread) : Tail(Pend)[i] = Pend[i + 1]
      BY <1>1, <2>5, TailIs
    <3> QED BY <1>1, <2>5, <3>1
  <2> QED BY <1>1, <1>3, <2>2, <2>4, <2>5, <2>6
<1> QED BY <1>1, <1>2, <1>3

\* Nobody new waits.
LEMMA PendSame ==
  ASSUME dispatch'.at = dispatch.at \/ (Reading' /\ Reading) \/ (~Reading' /\ ~Reading),
         dispatch'.for = dispatch.for, thread' = thread
  PROVE  Pend' = Pend
BY DEF Pend, Reading

\* The commands of a connection are what those who wait have asked.
LEMMA AnswersSame ==
  ASSUME NEW k \in Conns, Answers(k), Pend' = Pend,
         arrived'[k] = arrived[k], replies'[k] = replies[k], written'[k] = written[k],
         \A a \in Callers : a \in In(Pend) => Command(a)' = Command(a),
         (k = sock' /\ k \notin broken') => (k = sock /\ k \notin broken)
  PROVE  Answers(k)'
<1>1. ASSUME NEW i, NEW c, Fits(i, c) PROVE Fits(i, c)'
  BY <1>1 DEF Fits, In
<1>2. /\ \A i \in DOMAIN arrived[k] : arrived[k][i].is \in {"ok", "refused"} /\ Fits(i, arrived[k][i].to)'
      /\ \A i \in DOMAIN replies[k] :
           replies[k][i].is \in {"ok", "refused"} /\ Fits(Len(arrived[k]) + i, replies[k][i].to)'
      /\ \A i \in DOMAIN written[k] :
           Fits(Len(arrived[k]) + Len(replies[k]) + i, written[k][i])'
  BY <1>1 DEF Answers
<1> QED BY <1>2 DEF Answers

LEMMA OneReady ==
  ASSUME Typed, Scheduled, NEW a \in Callers, NEW s \in Yields \cup Steps,
         ready = <<>>, ready' = <<a>>, at' = [at EXCEPT ![a] = s],
         s \in Steps, dispatch' = dispatch
  PROVE  /\ Scheduled' /\ In(ready) = {} /\ In(ready') = {a}
         /\ ready' # <<>> /\ Head(ready') = a
         /\ at'[a] = s /\ \A b \in Callers : b # a => at'[b] = at[b]
         /\ \A b \in Callers :
              at[b] \notin {"check", "connect", "opened", "write", "failed", "connected", "check_again"}
<1>1. /\ In(ready) = {} /\ In(ready') = {a} /\ Once(ready') /\ ready' # <<>> /\ Head(ready') = a
  BY Empty, Single
<1>2. \A b \in Callers : at[b] \notin Steps
  BY DEF Scheduled
<1>4. at'[a] = s /\ \A b \in Callers : b # a => at'[b] = at[b]
  BY Types
<1>3. dispatch.at \notin {"loop", "pop", "read"}
  BY <1>1 DEF Scheduled
<1> QED BY <1>1, <1>2, <1>3, <1>4, Types DEF Scheduled, Steps

LEMMA DoRequest ==
  ASSUME CInv, NEW a \in Callers, NEW c, Request(a, c)
  PROVE  CInv'
<1> USE DEF CInv, Connects, Net, Dispatches, Authenticates
<1>1. /\ at[a] = "idle" /\ ready = <<>> /\ ready' = <<a>> /\ at' = [at EXCEPT ![a] = "check"]
      /\ request' = [request EXCEPT ![a] = c]
      /\ UNCHANGED <<sock, thread, connecting, authcoroutine, result, dispatch, conn, broken,
                     closer, written, replies, arrived, faults>>
      /\ dispatch.at # "new"
  BY DEF Request, Quiet, Go, chan, net
<1>2. /\ Scheduled' /\ In(ready) = {} /\ In(ready') = {a}
      /\ at'[a] = "check" /\ \A b \in Callers : b # a => at'[b] = at[b]
      /\ \A b \in Callers :
           at[b] \notin {"check", "connect", "opened", "write", "failed", "connected", "check_again"}
  BY <1>1, OneReady DEF Steps
<1>U. /\ at[a] = "idle" /\ ready = <<>> /\ dispatch.at # "new"
      /\ UNCHANGED <<sock, thread, connecting, authcoroutine, result, dispatch, conn, broken,
                     closer, written, replies, arrived, faults>>
  BY <1>1
<1>3. Pend' = Pend
  BY <1>1, PendSame
<1>4. \A b \in Callers : b # a => Command(b)' = Command(b)
  BY <1>1 DEF Command, Typed
<1>5. a \notin In(Pend)
  BY <1>1 DEF WaitOnce
<1>Scheduled. Scheduled'
  BY <1>2
<1>Typed. Typed'
  <2>1. ready' \in Seq(Callers \cup {"dispatch"}) /\ at' \in [Callers -> Yields \cup Steps]
    BY <1>1, SingleIn, Types DEF Steps
  <2>2. ChannelTypeOK'
    BY <1>1, <2>1 DEF Typed, ChannelTypeOK
  <2> QED BY <1>1, <2>2 DEF Typed
<1>Joins. Joins'
  BY <1>U, <1>2, <1>3, <1>5, Queue, Atoms DEF Joins
<1>Leads. Leads'
  BY <1>U, <1>2, <1>3, <1>5, Queue, Atoms DEF Leads
<1>FreeClean. FreeClean'
  BY <1>U, <1>2, <1>3, <1>5, Atoms DEF FreeClean, Clean
<1>OneOpening. OneOpening'
  BY <1>U, <1>2, <1>3, <1>5, Atoms DEF OneOpening
<1>OpenUsed. OpenUsed'
  BY <1>U, <1>2, <1>3, <1>5, Atoms DEF OpenUsed, Clean
<1>OneOpened. OneOpened'
  BY <1>U, <1>2, <1>3, <1>5, Atoms DEF OneOpened
<1>OneClosing. OneClosing'
  BY <1>U, <1>2, <1>3, <1>5, Atoms DEF OneClosing
<1>Broken. Broken'
  BY <1>U, <1>2, <1>3, <1>5, Atoms DEF Broken
<1>SockOpen. SockOpen'
  BY <1>U, <1>2, <1>3, <1>5, Atoms DEF SockOpen
<1>ReadsFor. ReadsFor'
  BY <1>U, <1>2, <1>3, <1>5, Atoms DEF ReadsFor, Reading, Closing
<1>Serves. Serves'
  BY <1>U, <1>2, <1>3, <1>5, Atoms DEF Serves, Closing, EndSignal
<1>Ends. Ends'
  BY <1>U, <1>2, <1>3, <1>5, Atoms DEF Ends, Closing, EndSignal
<1>Wakes. Wakes'
  BY <1>U, <1>2, <1>3, <1>5, Atoms DEF Wakes
<1>Signals. Signals'
  BY <1>U, <1>2, <1>3, <1>5, Atoms DEF Signals
<1>AuthAlone. AuthAlone'
  BY <1>U, <1>2, <1>3, <1>5, Atoms DEF AuthAlone
<1>AuthSock. AuthSock'
  BY <1>U, <1>2, <1>3, <1>5, Atoms DEF AuthSock, Leads
<1>Writes. Writes'
  BY <1>U, <1>2, <1>3, <1>5, Atoms DEF Writes
<1>WaitOnce. WaitOnce'
  BY <1>U, <1>2, <1>3, <1>5, Atoms DEF WaitOnce
<1>Results. Results'
  BY <1>U, <1>2, <1>4 DEF Results
<1>InOrder. InOrder'
  <2>1. \A k \in Conns : Answers(k) => Answers(k)'
    BY <1>1, <1>3, <1>4, <1>5, AnswersSame
  <2> QED BY <1>1, <2>1 DEF InOrder, Reading
<1>Matched. Matched'
  BY <1>U, <1>2, <1>3, <1>5, <1>1, Atoms DEF Matched, Typed
<1> QED BY <1>Typed, <1>Scheduled, <1>Joins, <1>Leads, <1>FreeClean, <1>OneOpening, <1>OpenUsed,
           <1>OneOpened, <1>OneClosing, <1>Broken, <1>SockOpen, <1>ReadsFor, <1>Serves, <1>Ends,
           <1>Wakes, <1>Signals, <1>AuthAlone, <1>AuthSock, <1>Writes, <1>WaitOnce, <1>Results,
           <1>InOrder, <1>Matched

\* The running caller goes on or yields, and W are woken by it.
LEMMA CallerStep ==
  ASSUME Typed, Scheduled, NEW a \in Callers, ready # <<>>, Head(ready) = a,
         NEW W \in Seq(Callers \cup {"dispatch"}), Once(W), In(W) \cap In(ready) = {},
         \A b \in Callers : b \in In(W) => at[b] \in {"connecting", "reply", "close", "auth_close"},
         dispatch'.at \in {"loop", "pop", "read"} <=>
           dispatch.at \in {"loop", "pop", "read"} \/ "dispatch" \in In(W),
         dispatch'.at \in {"loop", "read"} => dispatch.at \in {"loop", "read"},
         NEW s \in Yields \cup Steps, at' = [at EXCEPT ![a] = s],
         \/ s \in Steps /\ ready' = ready \o W
         \/ s \in Yields /\ ready' = Tail(ready) \o W,
         s \in {"check", "connect", "opened"} => ready = <<a>> /\ W = <<>>
  PROVE  /\ Scheduled' /\ a \in In(ready)
         /\ ready' \in Seq(Callers \cup {"dispatch"}) /\ at' \in [Callers -> Yields \cup Steps]
         /\ s \in Steps => In(ready') = In(ready) \cup In(W)
         /\ s \in Yields => In(ready') = (In(ready) \ {a}) \cup In(W)
         /\ dispatch.at \notin {"loop", "read"}
         /\ \A b \in Callers : b # a =>
              at[b] \notin {"check", "connect", "opened", "write", "failed", "connected", "check_again"}
         /\ s \in Steps /\ W = <<>> => ready' = ready
         /\ at'[a] = s /\ \A b \in Callers : b # a => at'[b] = at[b]
<1> DEFINE S == Callers \cup {"dispatch"}
<1>0. s \in Steps <=> s \notin Yields
  BY DEF Steps, Yields
<1>1. /\ ready \in Seq(S) /\ Once(ready) /\ a \in In(ready) /\ a # "dispatch"
      /\ at' \in [Callers -> Yields \cup Steps]
  BY Types, TailIs DEF Scheduled
<1>2. /\ Tail(ready) \in Seq(S) /\ Once(Tail(ready)) /\ In(Tail(ready)) = In(ready) \ {a}
  BY <1>1, TailIs
<1>3. dispatch.at \notin {"loop", "read"} /\ \A b \in Callers : b # a => at[b] \notin Steps
  BY <1>1 DEF Scheduled
<1>6. W \in Seq(S)
  OBVIOUS
<1>4. CASE s \in Steps
  <2>0. ready' = ready \o W
    BY <1>0, <1>4
  <2>1. /\ ready' \in Seq(S) /\ Once(ready') /\ In(ready') = In(ready) \cup In(W)
        /\ ready' # <<>> /\ Head(ready') = a /\ (W = <<>> => ready' = ready)
    <3> HIDE DEF S
    <3>1. /\ ready \o W \in Seq(S) /\ Once(ready \o W) /\ In(ready \o W) = In(ready) \cup In(W)
          /\ ready \o W # <<>> /\ Head(ready \o W) = a /\ (W = <<>> => ready \o W = ready)
      BY <1>1, <1>6, ConcatIs
    <3> QED BY <2>0, <3>1
  <2> QED BY <1>0, <1>1, <1>3, <1>4, <2>1 DEF Scheduled, Steps
<1>5. CASE s \in Yields
  <2>0. ready' = Tail(ready) \o W
    BY <1>0, <1>5
  <2>1. /\ ready' \in Seq(S) /\ Once(ready') /\ In(ready') = (In(ready) \ {a}) \cup In(W)
    <3> HIDE DEF S
    <3>0. In(Tail(ready)) \cap In(W) = {}
      BY <1>2
    <3> DEFINE t == Tail(ready)
    <3>1. t \in Seq(S) /\ Once(t) /\ In(t) \cap In(W) = {}
      BY <1>2, <3>0
    <3> HIDE DEF t
    <3>2. t \o W \in Seq(S) /\ Once(t \o W) /\ In(t \o W) = In(t) \cup In(W)
      BY <1>6, <3>1, ConcatIs
    <3> QED BY <1>2, <2>0, <3>2 DEF t
  <2>2. \A b \in Callers : at'[b] \notin Steps
    BY <1>0, <1>1, <1>3, <1>5
  <2> QED BY <1>0, <1>1, <1>3, <1>5, <2>1, <2>2 DEF Scheduled, Steps
<1>7. \A b \in Callers : b # a =>
        at[b] \notin {"check", "connect", "opened", "write", "failed", "connected", "check_again"}
  BY <1>3 DEF Steps
<1>8. at'[a] = s /\ \A b \in Callers : b # a => at'[b] = at[b]
  BY Types
<1> QED BY <1>1, <1>3, <1>4, <1>5, <1>7, <1>8

Lost == sock # None /\ conn[sock] = "lost"

\* check_connection frees a connection that is lost.
LEMMA LostIs ==
  ASSUME Typed, CloseLost
  PROVE  /\ sock' = IF Lost THEN None ELSE sock
         /\ ~Lost => UNCHANGED net
         /\ \A k \in Conns : ~Lost \/ k # sock =>
              /\ conn'[k] = conn[k] /\ closer'[k] = closer[k] /\ (k \in broken' <=> k \in broken)
              /\ written'[k] = written[k] /\ replies'[k] = replies[k] /\ arrived'[k] = arrived[k]
         /\ Lost => /\ sock \in Conns /\ conn'[sock] = "none" /\ sock \notin broken'
                    /\ closer'[sock] = None
                    /\ written'[sock] = <<>> /\ replies'[sock] = <<>> /\ arrived'[sock] = <<>>
         /\ conn' \in [Conns -> {"none", "opening", "open", "lost"}] /\ broken' \subseteq Conns
         /\ closer' \in [Conns -> Callers \cup {None}] /\ faults' = faults
         /\ written' = [k \in Conns |-> written'[k]] /\ replies' = [k \in Conns |-> replies'[k]]
         /\ arrived' = [k \in Conns |-> arrived'[k]]
         /\ \A k \in Conns : IsSeq(written'[k]) /\ IsSeq(replies'[k]) /\ IsSeq(arrived'[k])
<1>1. sock \in Conns \cup {None}
  BY DEF Typed, ChannelTypeOK
<1>2. CASE Lost
  <2>1. sock' = None /\ Free(sock)
    BY <1>2 DEF CloseLost, Lost
  <2>2. sock \in Conns /\ sock # None
    BY <1>1, <1>2 DEF Lost
  <2>3. /\ conn' = [conn EXCEPT ![sock] = "none"]
        /\ broken' = broken \ {sock} /\ closer' = [closer EXCEPT ![sock] = None]
        /\ written' = [written EXCEPT ![sock] = <<>>]
        /\ replies' = [replies EXCEPT ![sock] = <<>>] /\ arrived' = [arrived EXCEPT ![sock] = <<>>]
        /\ faults' = faults
    BY <2>1 DEF Free
  <2>4. /\ conn' \in [Conns -> {"none", "opening", "open", "lost"}] /\ broken' \subseteq Conns
        /\ closer' \in [Conns -> Callers \cup {None}]
        /\ written' = [k \in Conns |-> written'[k]] /\ replies' = [k \in Conns |-> replies'[k]]
        /\ arrived' = [k \in Conns |-> arrived'[k]]
    BY <2>2, <2>3 DEF Typed, ChannelTypeOK
  <2>5. \A k \in Conns : k # sock =>
              /\ conn'[k] = conn[k] /\ closer'[k] = closer[k] /\ (k \in broken' <=> k \in broken)
              /\ written'[k] = written[k] /\ replies'[k] = replies[k] /\ arrived'[k] = arrived[k]
    BY <2>2, <2>3 DEF Typed, ChannelTypeOK
  <2>6. /\ conn'[sock] = "none" /\ sock \notin broken' /\ closer'[sock] = None
        /\ written'[sock] = <<>> /\ replies'[sock] = <<>> /\ arrived'[sock] = <<>>
    BY <2>2, <2>3 DEF Typed, ChannelTypeOK
  <2>7. \A k \in Conns : IsSeq(written'[k]) /\ IsSeq(replies'[k]) /\ IsSeq(arrived'[k])
    BY <2>5, <2>6, Empty DEF Typed
  <2> QED BY <1>2, <2>1, <2>2, <2>3, <2>4, <2>5, <2>6, <2>7
<1>3. CASE ~Lost
  <2>1. UNCHANGED <<sock, net>>
    BY <1>3 DEF CloseLost, Lost
  <2> QED BY <1>3, <2>1 DEF net, Typed, ChannelTypeOK
<1> QED BY <1>2, <1>3

LEMMA CallerAlone ==
  ASSUME Typed, Scheduled, NEW a \in Callers, ready # <<>>, Head(ready) = a,
         dispatch'.at = dispatch.at,
         NEW s \in Yields \cup Steps, at' = [at EXCEPT ![a] = s],
         \/ s \in Steps /\ ready' = ready \o <<>>
         \/ s \in Yields /\ ready' = Tail(ready) \o <<>>,
         s \in {"check", "connect", "opened"} => ready = <<a>>
  PROVE  /\ Scheduled' /\ a \in In(ready)
         /\ ready' \in Seq(Callers \cup {"dispatch"}) /\ at' \in [Callers -> Yields \cup Steps]
         /\ s \in Steps => ready' = ready
         /\ s \in Yields => In(ready') = In(ready) \ {a}
         /\ dispatch.at \notin {"loop", "read"}
         /\ \A b \in Callers : b # a =>
              at[b] \notin {"check", "connect", "opened", "write", "failed", "connected", "check_again"}
         /\ at'[a] = s /\ \A b \in Callers : b # a => at'[b] = at[b]
<1>1. <<>> \in Seq(Callers \cup {"dispatch"})
  OBVIOUS
<1> QED BY <1>1, CallerStep, Empty

LEMMA DoCheck ==
  ASSUME CInv, NEW a \in Callers, Check(a)
  PROVE  CInv' /\ Calm
<1> USE DEF CInv, Connects, Net, Dispatches, Authenticates
<1>1. /\ at[a] = "check" /\ ready # <<>> /\ Head(ready) = a /\ CloseLost
      /\ UNCHANGED <<thread, authcoroutine, result, dispatch, request>>
  BY DEF Check, Runs
<1>2. ready = <<a>> /\ In(ready) = {a}
  BY <1>1, Single DEF Scheduled
<1>3. PICK s \in {"write", "connecting", "connect"} :
        /\ at' = [at EXCEPT ![a] = s]
        /\ s = "write" => Usable(a) /\ ready' = ready \o <<>> /\ connecting' = connecting
        /\ s = "connecting" => /\ ~Usable(a) /\ connecting # <<>> /\ ready' = Tail(ready) \o <<>>
                               /\ connecting' = Append(connecting, a)
        /\ s = "connect" => /\ ~Usable(a) /\ connecting = <<>> /\ ready' = ready \o <<>>
                            /\ connecting' = <<a>>
  BY DEF Check, GoOn, Yield, Go, Busy
<1>4. /\ Scheduled' /\ ready' \in Seq(Callers \cup {"dispatch"})
      /\ at' \in [Callers -> Yields \cup Steps]
      /\ s # "connecting" => In(ready') = {a}
      /\ s = "connecting" => In(ready') = {}
      /\ s # "connecting" => ready' = ready
      /\ dispatch.at \notin {"loop", "read"}
      /\ at'[a] = s /\ \A b \in Callers : b # a => at'[b] = at[b]
      /\ \A b \in Callers : b # a =>
           at[b] \notin {"check", "connect", "opened", "write", "failed", "connected", "check_again"}
  <2>1. <<>> \in Seq(Callers \cup {"dispatch"})
    OBVIOUS
  <2> QED BY <1>1, <1>2, <1>3, <2>1, CallerStep, Empty, ZenonT(60) DEF Steps, Yields
<1>U. /\ at[a] = "check" /\ ready # <<>> /\ Head(ready) = a
      /\ UNCHANGED <<thread, authcoroutine, result, dispatch, request>>
  BY <1>1
<1>5. Pend' = Pend
  BY <1>1, PendSame
<1>6. \A b \in Callers : Command(b)' = Command(b)
  BY <1>1 DEF Command
<1>7. Lost => Pend = <<>> /\ thread = <<>> /\ ~Reading /\ In(Pend) = {} /\ ~Usable(a)
  <2>1. Head(ready) # "dispatch"
    BY <1>1, Types
  <2>2. Lost => Pend = <<>>
    BY <2>1 DEF SockOpen, Lost
  <2>3. Reading => Pend # <<>>
    BY PendIs
  <2>4. ~Reading => Pend = thread
    BY PendIs
  <2> QED BY <2>2, <2>3, <2>4, Empty DEF Lost, Usable
<1>8. /\ sock' = IF Lost THEN None ELSE sock
      /\ ~Lost => UNCHANGED net
      /\ \A k \in Conns : ~Lost \/ k # sock =>
           /\ conn'[k] = conn[k] /\ closer'[k] = closer[k] /\ (k \in broken' <=> k \in broken)
           /\ written'[k] = written[k] /\ replies'[k] = replies[k] /\ arrived'[k] = arrived[k]
      /\ Lost => /\ sock \in Conns /\ conn'[sock] = "none" /\ sock \notin broken'
                 /\ closer'[sock] = None
                 /\ written'[sock] = <<>> /\ replies'[sock] = <<>> /\ arrived'[sock] = <<>>
      /\ broken' \subseteq Conns
  BY <1>1, LostIs
<1>9. s = "connecting" => authcoroutine # a /\ a \notin In(connecting)
  <2>1. s = "connecting" => authcoroutine # a
    BY <1>1, <1>3, <1>7, Types DEF AuthSock, Usable
  <2>2. ASSUME NEW i \in DOMAIN connecting, connecting[i] = a, authcoroutine # a PROVE FALSE
    <3>1. connecting # <<>> /\ Head(connecting) = connecting[1] /\ DOMAIN connecting = 1 .. Len(connecting)
      BY <2>2, Elements, Types, TailIs
    <3>2. i = 1
      BY <1>1, <2>2, <3>1, SMTT(30) DEF Joins
    <3> QED BY <1>1, <2>2, <3>1, <3>2 DEF Leads
  <2> QED BY <2>1, <2>2 DEF In
<1>10. /\ connecting' \in Seq(Callers) /\ Len(connecting) \in Nat
       /\ DOMAIN connecting = 1 .. Len(connecting) /\ DOMAIN connecting' = 1 .. Len(connecting')
       /\ s = "connecting" => /\ Once(connecting') /\ connecting' # <<>>
                              /\ Head(connecting') = Head(connecting)
                              /\ Len(connecting') = Len(connecting) + 1
                              /\ \A i \in 1 .. Len(connecting) : connecting'[i] = connecting[i]
                              /\ connecting'[Len(connecting) + 1] = a
       /\ s = "connect" => Once(connecting') /\ connecting' # <<>> /\ Head(connecting') = a
                           /\ Len(connecting') = 1
       /\ s = "write" => connecting' = connecting
  <2>1. connecting' \in Seq(Callers)
    <3>1. connecting \in Seq(Callers)
      BY Types
    <3>2. Append(connecting, a) \in Seq(Callers) /\ <<a>> \in Seq(Callers)
      BY <3>1, AppendIs, SingleIn
    <3> QED BY <1>3, <3>1, <3>2
  <2>2. Len(connecting) \in Nat /\ DOMAIN connecting = 1 .. Len(connecting)
    BY Elements, Types
  <2>3. DOMAIN connecting' = 1 .. Len(connecting')
    BY <2>1, Elements
  <2>4. ASSUME s = "connecting"
        PROVE  /\ Once(connecting') /\ connecting' # <<>>
               /\ Head(connecting') = Head(connecting)
               /\ Len(connecting') = Len(connecting) + 1
               /\ \A i \in 1 .. Len(connecting) : connecting'[i] = connecting[i]
               /\ connecting'[Len(connecting) + 1] = a
    <3>1. connecting' = Append(connecting, a) /\ Once(connecting) /\ connecting # <<>>
          /\ connecting \in Seq(Callers) /\ a \notin In(connecting)
      BY <1>3, <1>9, <2>4, Types DEF Joins
    <3> QED BY <3>1, AppendIs
  <2>5. s = "connect" => Once(connecting') /\ connecting' # <<>> /\ Head(connecting') = a
                         /\ Len(connecting') = 1
    BY <1>3, Single
  <2> QED BY <1>3, <2>1, <2>2, <2>3, <2>4, <2>5
<1>11. /\ s = "connect" => sock' = None /\ authcoroutine = None
       /\ s = "write" => ~Lost /\ sock # None /\ conn[sock] = "open" /\ authcoroutine \in {None, a}
       /\ Lost => authcoroutine # a
  BY <1>1, <1>3, <1>7, <1>8, Types DEF Usable, Lost, SockOpen, Leads, AuthSock
<1>Scheduled. Scheduled'
  BY <1>4
<1>Typed. Typed'
  <2>1. ChannelTypeOK'
    BY <1>1, <1>4, <1>8, <1>10, LostIs DEF Typed, ChannelTypeOK
  <2> QED BY <1>1, <2>1, LostIs, SMTT(30) DEF Typed
<1>Joins. Joins'
  <2>1. CASE s = "write"
    BY <1>1, <1>2, <1>3, <1>4, <1>10, <2>1, Queue DEF Joins
  <2>2. CASE s = "connect"
    BY <1>1, <1>2, <1>3, <1>4, <1>10, <2>2, Queue DEF Joins
  <2>3. CASE s = "connecting"
    <3>1. \A n \in Nat : \A i \in 1 .. n + 1 : i \in 1 .. n \/ i = n + 1
      OBVIOUS
    <3> QED BY <1>1, <1>2, <1>3, <1>4, <1>10, <2>3, <3>1, Queue DEF Joins
  <2> QED BY <2>1, <2>2, <2>3
<1>Leads. Leads'
  <2>1. CASE s = "connecting"
    <3>1. Head(connecting) # a /\ Head(connecting) \in Callers /\ connecting # <<>>
      BY <1>3, <1>9, <2>1, Queue DEF In
    <3> QED BY <1>U, <1>4, <1>9, <1>10, <2>1, <3>1, Atoms DEF Leads
  <2>2. CASE s = "connect"
    BY <1>U, <1>3, <1>4, <1>10, <1>11, <2>2, Queue, Atoms DEF Leads
  <2>3. CASE s = "write"
    BY <1>U, <1>4, <1>10, <1>11, <2>3, Queue, Atoms DEF Leads
  <2> QED BY <2>1, <2>2, <2>3
<1>FreeClean. FreeClean'
  BY <1>U, <1>2, <1>4, <1>5, <1>7, <1>8, <1>11, Atoms DEF FreeClean, Clean
<1>OneOpening. OneOpening'
  BY <1>U, <1>2, <1>4, <1>5, <1>7, <1>8, <1>11, Atoms DEF OneOpening, Lost
<1>OpenUsed. OpenUsed'
  BY <1>U, <1>2, <1>4, <1>5, <1>7, <1>8, <1>11, Atoms DEF OpenUsed, Clean, Lost
<1>OneOpened. OneOpened'
  BY <1>U, <1>2, <1>4, <1>5, <1>7, <1>8, <1>11, Atoms DEF OneOpened, Lost
<1>OneClosing. OneClosing'
  BY <1>U, <1>2, <1>4, <1>5, <1>7, <1>8, <1>11, SMTT(30), Atoms DEF OneClosing, Lost
<1>Broken. Broken'
  BY <1>U, <1>2, <1>4, <1>5, <1>7, <1>8, <1>11, Atoms DEF Broken
<1>SockOpen. SockOpen'
  BY <1>U, <1>2, <1>4, <1>5, <1>7, <1>8, <1>11, Atoms DEF SockOpen, Lost
<1>ReadsFor. ReadsFor'
  BY <1>U, <1>2, <1>4, <1>5, <1>7, <1>8, <1>11, Atoms
     DEF ReadsFor, Reading, Closing, Lost, OneClosing
<1>Serves. Serves'
  BY <1>U, <1>2, <1>4, <1>5, <1>7, <1>8, <1>11, Atoms
     DEF Serves, Closing, EndSignal, Lost, OneClosing
<1>Ends. Ends'
  BY <1>U, <1>2, <1>4, <1>5, <1>7, <1>8, <1>11, Atoms
     DEF Ends, Closing, EndSignal, Lost, OneClosing
<1>Wakes. Wakes'
  BY <1>U, <1>2, <1>4, <1>5, <1>7, <1>8, <1>11, Atoms DEF Wakes
<1>Signals. Signals'
  BY <1>U, <1>2, <1>4, <1>5, <1>7, <1>8, <1>11, Atoms DEF Signals
<1>AuthAlone. AuthAlone'
  BY <1>U, <1>2, <1>4, <1>5, <1>7, <1>8, <1>11, Atoms DEF AuthAlone, Lost
<1>AuthSock. AuthSock'
  BY <1>U, <1>2, <1>4, <1>5, <1>7, <1>8, <1>11, Atoms DEF AuthSock, Lost
<1>Writes. Writes'
  BY <1>U, <1>2, <1>4, <1>5, <1>7, <1>8, <1>11, Atoms DEF Writes, Lost
<1>WaitOnce. WaitOnce'
  BY <1>U, <1>2, <1>4, <1>5, <1>7, <1>8, <1>11, Atoms DEF WaitOnce
<1>Results. Results'
  BY <1>1, <1>2, <1>3, <1>4, <1>6, Types DEF Results
<1>InOrder. InOrder'
  <2>1. ASSUME NEW k \in Conns, Answers(k), ~Lost PROVE Answers(k)'
    BY <1>1, <1>5, <1>6, <1>8, <2>1, AnswersSame
  <2> QED BY <1>1, <1>7, <1>8, <2>1, Types DEF InOrder, Reading
<1>Matched. Matched'
  BY <1>U, <1>2, <1>4, <1>5, <1>7, <1>8, <1>11, Atoms DEF Matched
<1>Calm. Calm
  BY <1>U, <1>2, <1>4, <1>5, <1>7, <1>8, <1>11, Atoms DEF Calm, Pre, Has, Live, Resp, Reading
<1> QED BY <1>Typed, <1>Scheduled, <1>Joins, <1>Leads, <1>FreeClean, <1>OneOpening, <1>OpenUsed,
           <1>OneOpened, <1>OneClosing, <1>Broken, <1>SockOpen, <1>ReadsFor, <1>Serves, <1>Ends,
           <1>Wakes, <1>Signals, <1>AuthAlone, <1>AuthSock, <1>Writes, <1>WaitOnce, <1>Results,
           <1>InOrder, <1>Matched, <1>Calm

LEMMA DoCheckAgain ==
  ASSUME CInv, NEW a \in Callers, CheckAgain(a)
  PROVE  CInv' /\ Calm
<1> USE DEF CInv, Connects, Net, Dispatches, Authenticates
<1>1. /\ at[a] = "check_again" /\ ready # <<>> /\ Head(ready) = a /\ CloseLost
      /\ UNCHANGED <<thread, connecting, authcoroutine, result, dispatch, request>>
  BY DEF CheckAgain, Runs
<1>2. PICK s \in {"write", "failed"} :
        /\ at' = [at EXCEPT ![a] = s] /\ ready' = ready \o <<>>
        /\ s = "write" => Usable(a)
  BY DEF CheckAgain, GoOn, Go
<1>3. s \in Steps /\ s \notin {"check", "connect", "opened"}
  BY <1>2 DEF Steps
<1>4. /\ Scheduled' /\ a \in In(ready)
      /\ ready' \in Seq(Callers \cup {"dispatch"}) /\ at' \in [Callers -> Yields \cup Steps]
      /\ ready' = ready
      /\ dispatch.at \notin {"loop", "read"}
      /\ \A b \in Callers : b # a =>
           at[b] \notin {"check", "connect", "opened", "write", "failed", "connected", "check_again"}
      /\ at'[a] = s /\ \A b \in Callers : b # a => at'[b] = at[b]
  BY <1>1, <1>2, <1>3, CallerAlone
<1>U. /\ at[a] = "check_again" /\ ready # <<>> /\ Head(ready) = a
      /\ UNCHANGED <<thread, connecting, authcoroutine, result, dispatch, request>>
  BY <1>1
<1>5. Pend' = Pend
  BY <1>1, PendSame
<1>6. \A b \in Callers : Command(b)' = Command(b)
  BY <1>1 DEF Command
<1>7. /\ Lost => /\ Pend = <<>> /\ thread = <<>> /\ ~Reading /\ In(Pend) = {} /\ s # "write"
                 /\ authcoroutine = None
      /\ authcoroutine = None
      /\ s = "write" => sock # None /\ conn[sock] = "open"
  <2>1. Head(ready) # "dispatch"
    BY <1>1, Types
  <2>2. Lost => Pend = <<>>
    BY <2>1 DEF SockOpen, Lost
  <2>3. Reading => Pend # <<>>
    BY PendIs
  <2>4. ~Reading => Pend = thread
    BY PendIs
  <2>5. s = "write" => sock # None /\ conn[sock] = "open"
    BY <1>2 DEF Usable
  <2>6. authcoroutine = None
    BY <1>1, <1>4, Atoms DEF AuthAlone, Leads
  <2> QED BY <2>2, <2>3, <2>4, <2>5, <2>6, Empty DEF Lost
<1>8. /\ sock' = IF Lost THEN None ELSE sock
      /\ \A k \in Conns : ~Lost \/ k # sock =>
           /\ conn'[k] = conn[k] /\ closer'[k] = closer[k] /\ (k \in broken' <=> k \in broken)
           /\ written'[k] = written[k] /\ replies'[k] = replies[k] /\ arrived'[k] = arrived[k]
      /\ Lost => /\ sock \in Conns /\ conn'[sock] = "none" /\ sock \notin broken'
                 /\ closer'[sock] = None
                 /\ written'[sock] = <<>> /\ replies'[sock] = <<>> /\ arrived'[sock] = <<>>
      /\ broken' \subseteq Conns
  BY <1>1, LostIs
<1>Scheduled. Scheduled'
  BY <1>4
<1>Typed. Typed'
  <2>1. ChannelTypeOK'
    BY <1>1, <1>4, <1>8, LostIs DEF Typed, ChannelTypeOK
  <2> QED BY <1>1, <2>1, LostIs DEF Typed
<1>Joins. Joins'
  BY <1>U, <1>4, Queue, Atoms DEF Joins
<1>Leads. Leads'
  BY <1>U, <1>4, <1>7, Queue, Atoms DEF Leads
<1>FreeClean. FreeClean'
  BY <1>U, <1>4, <1>5, <1>7, <1>8, Atoms DEF FreeClean, Clean
<1>OneOpening. OneOpening'
  BY <1>U, <1>4, <1>5, <1>7, <1>8, Atoms DEF OneOpening, Lost
<1>OpenUsed. OpenUsed'
  BY <1>U, <1>4, <1>5, <1>7, <1>8, Atoms DEF OpenUsed, Clean, Lost
<1>OneOpened. OneOpened'
  BY <1>U, <1>4, <1>5, <1>7, <1>8, Atoms DEF OneOpened, Lost
<1>OneClosing. OneClosing'
  BY <1>U, <1>4, <1>5, <1>7, <1>8, SMTT(30), Atoms DEF OneClosing, Lost
<1>Broken. Broken'
  BY <1>U, <1>4, <1>5, <1>7, <1>8, Atoms DEF Broken
<1>SockOpen. SockOpen'
  BY <1>U, <1>4, <1>5, <1>7, <1>8, Atoms DEF SockOpen, Lost
<1>ReadsFor. ReadsFor'
  BY <1>U, <1>4, <1>5, <1>7, <1>8, Atoms DEF ReadsFor, Reading, Closing, Lost, OneClosing
<1>Serves. Serves'
  BY <1>U, <1>4, <1>5, <1>7, <1>8, Atoms DEF Serves, Closing, EndSignal, Lost, OneClosing
<1>Ends. Ends'
  BY <1>U, <1>4, <1>5, <1>7, <1>8, SMTT(30), Atoms
     DEF Ends, Closing, EndSignal, Lost, OneClosing
<1>Wakes. Wakes'
  BY <1>U, <1>4, <1>5, <1>7, <1>8, Atoms DEF Wakes
<1>Signals. Signals'
  BY <1>U, <1>4, <1>5, <1>7, <1>8, Atoms DEF Signals
<1>AuthAlone. AuthAlone'
  BY <1>U, <1>4, <1>5, <1>7, <1>8, Atoms DEF AuthAlone
<1>AuthSock. AuthSock'
  BY <1>U, <1>4, <1>5, <1>7, <1>8, Atoms DEF AuthSock
<1>Writes. Writes'
  BY <1>U, <1>4, <1>5, <1>7, <1>8, Atoms DEF Writes
<1>WaitOnce. WaitOnce'
  BY <1>U, <1>4, <1>5, <1>7, <1>8, Atoms DEF WaitOnce
<1>Results. Results'
  BY <1>U, <1>4, <1>6, Atoms DEF Results
<1>InOrder. InOrder'
  <2>1. ASSUME NEW k \in Conns, Answers(k), ~Lost PROVE Answers(k)'
    BY <1>1, <1>5, <1>6, <1>8, <2>1, AnswersSame
  <2> QED BY <1>1, <1>7, <1>8, <2>1, Types DEF InOrder, Reading
<1>Matched. Matched'
  BY <1>U, <1>4, <1>5, <1>7, <1>8, Atoms DEF Matched
<1>Calm. Calm
  BY <1>U, <1>4, <1>5, <1>7, <1>8, Atoms DEF Calm, Pre, Has, Live, Resp, Reading
<1> QED BY <1>Typed, <1>Scheduled, <1>Joins, <1>Leads, <1>FreeClean, <1>OneOpening, <1>OpenUsed,
           <1>OneOpened, <1>OneClosing, <1>Broken, <1>SockOpen, <1>ReadsFor, <1>Serves, <1>Ends,
           <1>Wakes, <1>Signals, <1>AuthAlone, <1>AuthSock, <1>Writes, <1>WaitOnce, <1>Results,
           <1>InOrder, <1>Matched, <1>Calm

LEMMA DoJoined ==
  ASSUME CInv, NEW a \in Callers, Joined(a)
  PROVE  CInv' /\ Calm
<1> USE DEF CInv, Connects, Net, Dispatches, Authenticates
<1>1. /\ at[a] = "connecting" /\ ready # <<>> /\ Head(ready) = a
      /\ at' = [at EXCEPT ![a] = "check_again"] /\ ready' = ready \o <<>>
      /\ UNCHANGED <<sock, thread, connecting, authcoroutine, result, dispatch, request, conn,
                     broken, closer, written, replies, arrived, faults>>
  BY DEF Joined, Runs, GoOn, Go, chan, net
<1>4. /\ Scheduled' /\ a \in In(ready)
      /\ ready' \in Seq(Callers \cup {"dispatch"}) /\ at' \in [Callers -> Yields \cup Steps]
      /\ ready' = ready
      /\ dispatch.at \notin {"loop", "read"}
      /\ \A b \in Callers : b # a =>
           at[b] \notin {"check", "connect", "opened", "write", "failed", "connected", "check_again"}
      /\ at'[a] = "check_again" /\ \A b \in Callers : b # a => at'[b] = at[b]
  BY <1>1, CallerAlone DEF Steps
<1>U. /\ at[a] = "connecting" /\ ready # <<>> /\ Head(ready) = a
      /\ UNCHANGED <<sock, thread, connecting, authcoroutine, result, dispatch, request, conn,
                     broken, closer, written, replies, arrived, faults>>
  BY <1>1
<1>5. Pend' = Pend
  BY <1>1, PendSame
<1>6. \A b \in Callers : Command(b)' = Command(b)
  BY <1>1 DEF Command
<1>7. authcoroutine = None
  BY <1>1, <1>4, Atoms DEF AuthAlone, Leads
<1>8. a \notin In(connecting)
  BY <1>4, <1>U, <1>7, Queue, Atoms DEF Joins, Leads, In
<1>Scheduled. Scheduled'
  BY <1>4
<1>Typed. Typed'
  <2>1. ChannelTypeOK'
    BY <1>1, <1>4 DEF Typed, ChannelTypeOK
  <2> QED BY <1>1, <2>1 DEF Typed
<1>Joins. Joins'
  BY <1>U, <1>4, <1>8, Queue, Atoms DEF Joins, In
<1>Leads. Leads'
  BY <1>U, <1>4, <1>7, <1>8, Queue, Atoms DEF Leads, In
<1>FreeClean. FreeClean'
  BY <1>U, <1>4, <1>5, <1>7, Atoms DEF FreeClean, Clean
<1>OneOpening. OneOpening'
  BY <1>U, <1>4, <1>5, <1>7, Atoms DEF OneOpening
<1>OpenUsed. OpenUsed'
  BY <1>U, <1>4, <1>5, <1>7, Atoms DEF OpenUsed, Clean
<1>OneOpened. OneOpened'
  BY <1>U, <1>4, <1>5, <1>7, Atoms DEF OneOpened
<1>OneClosing. OneClosing'
  BY <1>U, <1>4, <1>5, <1>7, Atoms DEF OneClosing
<1>Broken. Broken'
  BY <1>U, <1>4, <1>5, <1>7, Atoms DEF Broken
<1>SockOpen. SockOpen'
  BY <1>U, <1>4, <1>5, <1>7, Atoms DEF SockOpen
<1>ReadsFor. ReadsFor'
  BY <1>U, <1>4, <1>5, <1>7, Atoms DEF ReadsFor, Reading, Closing
<1>Serves. Serves'
  BY <1>U, <1>4, <1>5, <1>7, Atoms DEF Serves, Closing, EndSignal
<1>Ends. Ends'
  BY <1>U, <1>4, <1>5, <1>7, Atoms DEF Ends, Closing, EndSignal
<1>Wakes. Wakes'
  BY <1>U, <1>4, <1>5, <1>7, Atoms DEF Wakes
<1>Signals. Signals'
  BY <1>U, <1>4, <1>5, <1>7, Atoms DEF Signals
<1>AuthAlone. AuthAlone'
  BY <1>U, <1>4, <1>5, <1>7, Atoms DEF AuthAlone
<1>AuthSock. AuthSock'
  BY <1>U, <1>4, <1>5, <1>7, Atoms DEF AuthSock
<1>Writes. Writes'
  BY <1>U, <1>4, <1>5, <1>7, Atoms DEF Writes
<1>WaitOnce. WaitOnce'
  BY <1>U, <1>4, <1>5, <1>7, Atoms DEF WaitOnce
<1>Results. Results'
  BY <1>U, <1>4, <1>6, Atoms DEF Results
<1>InOrder. InOrder'
  <2>1. ASSUME NEW k \in Conns, Answers(k) PROVE Answers(k)'
    BY <1>1, <1>5, <1>6, <2>1, AnswersSame
  <2> QED BY <1>1, <2>1 DEF InOrder, Reading
<1>Matched. Matched'
  BY <1>U, <1>4, <1>5, <1>7, Atoms DEF Matched
<1>Calm. Calm
  BY <1>U, <1>4, <1>5, <1>7, Atoms DEF Calm, Pre, Has, Live, Resp, Reading
<1> QED BY <1>Typed, <1>Scheduled, <1>Joins, <1>Leads, <1>FreeClean, <1>OneOpening, <1>OpenUsed,
           <1>OneOpened, <1>OneClosing, <1>Broken, <1>SockOpen, <1>ReadsFor, <1>Serves, <1>Ends,
           <1>Wakes, <1>Signals, <1>AuthAlone, <1>AuthSock, <1>Writes, <1>WaitOnce, <1>Results,
           <1>InOrder, <1>Matched, <1>Calm

LEMMA DoConnectEnds ==
  ASSUME CInv, NEW a \in Callers, ConnectEnds(a)
  PROVE  CInv' /\ Calm
<1> USE DEF CInv, Connects, Net, Dispatches, Authenticates
<1> DEFINE W == Tail(connecting)
<1>1. /\ at[a] = "connected" /\ ready # <<>> /\ Head(ready) = a
      /\ at' = [at EXCEPT ![a] = "check_again"] /\ ready' = ready \o W
      /\ connecting' = <<>>
      /\ UNCHANGED <<sock, thread, authcoroutine, result, dispatch, request, conn,
                     broken, closer, written, replies, arrived, faults>>
  BY DEF ConnectEnds, Runs, GoOn, Go, Waiters, net
<1>2. connecting # <<>> /\ Head(connecting) = a /\ authcoroutine = None
  BY <1>1 DEF Leads
<1>3. /\ W \in Seq(Callers) /\ Once(W)
      /\ \A x \in In(W) : x \in Callers /\ at[x] = "connecting" /\ x \notin In(ready)
  <2>1. /\ connecting \in Seq(Callers) /\ Once(connecting) /\ Len(connecting) \in Nat
        /\ DOMAIN connecting = 1 .. Len(connecting)
    BY Types, Elements DEF Joins
  <2>2. /\ W \in Seq(Callers) /\ Once(W) /\ Len(W) = Len(connecting) - 1
        /\ \A i \in 1 .. Len(connecting) - 1 : W[i] = connecting[i + 1]
    BY <1>2, <2>1, TailIs
  <2>3. DOMAIN W = 1 .. Len(W) /\ In(W) \subseteq Callers
    BY <2>2, Elements
  <2> HIDE DEF W
  <2>4. ASSUME NEW x \in In(W) PROVE at[x] = "connecting" /\ x \notin In(ready)
    <3>1. PICK i \in 1 .. Len(connecting) - 1 : x = connecting[i + 1]
      BY <2>2, <2>3 DEF In
    <3>2. i + 1 \in DOMAIN connecting /\ i + 1 > 1
      BY <2>1
    <3> QED BY <3>1, <3>2 DEF Joins
  <2> QED BY <2>2, <2>3, <2>4
<1> HIDE DEF W
<1>4. /\ Scheduled' /\ a \in In(ready)
      /\ ready' \in Seq(Callers \cup {"dispatch"}) /\ at' \in [Callers -> Yields \cup Steps]
      /\ In(ready') = In(ready) \cup In(W)
      /\ dispatch.at \notin {"loop", "read"}
      /\ \A b \in Callers : b # a =>
           at[b] \notin {"check", "connect", "opened", "write", "failed", "connected", "check_again"}
      /\ at'[a] = "check_again" /\ \A b \in Callers : b # a => at'[b] = at[b]
  <2>1. W \in Seq(Callers \cup {"dispatch"})
    BY <1>3
  <2>2. "dispatch" \notin In(W) /\ In(W) \cap In(ready) = {}
    BY <1>3, Atoms
  <2>3. "check_again" \in Steps
    BY DEF Steps
  <2> QED BY <1>1, <1>3, <2>1, <2>2, <2>3, CallerStep
<1>U. /\ at[a] = "connected" /\ ready # <<>> /\ Head(ready) = a /\ connecting' = <<>>
      /\ UNCHANGED <<sock, thread, authcoroutine, result, dispatch, request, conn,
                     broken, closer, written, replies, arrived, faults>>
  BY <1>1
<1>H. ready' # <<>> /\ Head(ready') = a
  BY <1>4, Atoms DEF Scheduled, Steps
<1>5. Pend' = Pend
  BY <1>1, PendSame
<1>6. \A b \in Callers : Command(b)' = Command(b)
  BY <1>1 DEF Command
<1>Scheduled. Scheduled'
  BY <1>4
<1>Typed. Typed'
  <2>1. connecting' \in Seq(Callers)
    BY <1>1
  <2>2. ChannelTypeOK'
    BY <1>1, <1>4, <2>1 DEF Typed, ChannelTypeOK
  <2> QED BY <1>1, <2>2 DEF Typed
<1>Joins. Joins'
  BY <1>U, Empty, Atoms DEF Joins
<1>Leads. Leads'
  BY <1>U, <1>2, <1>4, <1>5, Atoms DEF Leads
<1>FreeClean. FreeClean'
  BY <1>U, <1>H, <1>2, <1>3, <1>4, <1>5, Atoms DEF FreeClean, Clean
<1>OneOpening. OneOpening'
  BY <1>U, <1>H, <1>2, <1>3, <1>4, <1>5, Atoms DEF OneOpening
<1>OpenUsed. OpenUsed'
  BY <1>U, <1>H, <1>2, <1>3, <1>4, <1>5, Atoms DEF OpenUsed, Clean
<1>OneOpened. OneOpened'
  BY <1>U, <1>H, <1>2, <1>3, <1>4, <1>5, Atoms DEF OneOpened
<1>OneClosing. OneClosing'
  BY <1>U, <1>H, <1>2, <1>3, <1>4, <1>5, Atoms DEF OneClosing
<1>Broken. Broken'
  BY <1>U, <1>H, <1>2, <1>3, <1>4, <1>5, Atoms DEF Broken
<1>SockOpen. SockOpen'
  BY <1>U, <1>H, <1>2, <1>3, <1>4, <1>5, Atoms DEF SockOpen
<1>ReadsFor. ReadsFor'
  BY <1>U, <1>H, <1>2, <1>3, <1>4, <1>5, Atoms DEF ReadsFor, Reading, Closing
<1>Serves. Serves'
  BY <1>U, <1>H, <1>2, <1>3, <1>4, <1>5, Atoms DEF Serves, Closing, EndSignal
<1>Ends. Ends'
  BY <1>U, <1>H, <1>2, <1>3, <1>4, <1>5, Atoms DEF Ends, Closing, EndSignal
<1>Wakes. Wakes'
  BY <1>U, <1>H, <1>2, <1>3, <1>4, <1>5, Atoms DEF Wakes
<1>Signals. Signals'
  BY <1>U, <1>H, <1>2, <1>3, <1>4, <1>5, Atoms DEF Signals
<1>AuthAlone. AuthAlone'
  BY <1>U, <1>H, <1>2, <1>3, <1>4, <1>5, Atoms DEF AuthAlone
<1>AuthSock. AuthSock'
  BY <1>U, <1>H, <1>2, <1>3, <1>4, <1>5, Atoms DEF AuthSock
<1>Writes. Writes'
  BY <1>U, <1>H, <1>2, <1>3, <1>4, <1>5, Atoms DEF Writes
<1>WaitOnce. WaitOnce'
  BY <1>U, <1>H, <1>2, <1>3, <1>4, <1>5, Atoms DEF WaitOnce
<1>Results. Results'
  BY <1>U, <1>3, <1>4, <1>6, Atoms DEF Results
<1>InOrder. InOrder'
  <2>1. ASSUME NEW k \in Conns, Answers(k) PROVE Answers(k)'
    BY <1>1, <1>5, <1>6, <2>1, AnswersSame
  <2> QED BY <1>1, <2>1 DEF InOrder, Reading
<1>Matched. Matched'
  BY <1>U, <1>H, <1>2, <1>3, <1>4, <1>5, Atoms DEF Matched
<1>Calm. Calm
  BY <1>U, <1>H, <1>2, <1>3, <1>4, <1>5, Atoms DEF Calm, Pre, Has, Live, Resp, Reading
<1> QED BY <1>Typed, <1>Scheduled, <1>Joins, <1>Leads, <1>FreeClean, <1>OneOpening, <1>OpenUsed,
           <1>OneOpened, <1>OneClosing, <1>Broken, <1>SockOpen, <1>ReadsFor, <1>Serves, <1>Ends,
           <1>Wakes, <1>Signals, <1>AuthAlone, <1>AuthSock, <1>Writes, <1>WaitOnce, <1>Results,
           <1>InOrder, <1>Matched, <1>Calm

LEMMA DoFailed ==
  ASSUME CInv, NEW a \in Callers, Failed(a)
  PROVE  CInv' /\ Calm
<1> USE DEF CInv, Connects, Net, Dispatches, Authenticates
<1>1. /\ at[a] = "failed" /\ ready # <<>> /\ Head(ready) = a
      /\ UNCHANGED <<sock, thread, connecting, dispatch, request, conn,
                     broken, closer, written, replies, arrived, faults>>
  BY DEF Failed, Runs, net
<1>2. PICK s \in {"connected", "done"} :
        /\ at' = [at EXCEPT ![a] = s]
        /\ s = "connected" => /\ authcoroutine = a /\ authcoroutine' = None
                              /\ result' = [result EXCEPT ![a] = NoResult]
                              /\ ready' = ready \o <<>>
        /\ s = "done" => /\ authcoroutine # a /\ authcoroutine' = authcoroutine
                         /\ result' = [result EXCEPT ![a] = Error]
                         /\ ready' = Tail(ready) \o <<>>
  BY DEF Failed, GoOn, Yield, Go
<1>4. /\ Scheduled' /\ a \in In(ready)
      /\ ready' \in Seq(Callers \cup {"dispatch"}) /\ at' \in [Callers -> Yields \cup Steps]
      /\ s = "connected" => ready' = ready
      /\ s = "done" => In(ready') = In(ready) \ {a}
      /\ dispatch.at \notin {"loop", "read"}
      /\ \A b \in Callers : b # a =>
           at[b] \notin {"check", "connect", "opened", "write", "failed", "connected", "check_again"}
      /\ at'[a] = s /\ \A b \in Callers : b # a => at'[b] = at[b]
  <2>1. s = "connected" => s \in Steps
    BY DEF Steps
  <2>2. s = "done" => s \in Yields
    BY DEF Yields
  <2> QED BY <1>1, <1>2, <2>1, <2>2, CallerAlone
<1>U. /\ at[a] = "failed" /\ ready # <<>> /\ Head(ready) = a
      /\ s = "connected" => authcoroutine = a /\ authcoroutine' = None
      /\ s = "done" => authcoroutine # a /\ authcoroutine' = authcoroutine
      /\ s \in {"connected", "done"}
      /\ \A b \in Callers : b # a => result'[b] = result[b]
      /\ s = "done" => result'[a] = Error
      /\ UNCHANGED <<sock, thread, connecting, dispatch, request, conn,
                     broken, closer, written, replies, arrived, faults>>
  BY <1>1, <1>2 DEF Typed
<1>5. Pend' = Pend
  BY <1>1, PendSame
<1>6. \A b \in Callers : b # a => Command(b)' = Command(b)
  BY <1>1, <1>U, Atoms DEF Command
<1>7. a \notin In(Pend) /\ (s = "done" => authcoroutine = None)
  BY <1>U, <1>4, Atoms DEF WaitOnce, AuthAlone
<1>Scheduled. Scheduled'
  BY <1>4
<1>Typed. Typed'
  <2>1. ChannelTypeOK'
    BY <1>1, <1>4, <1>U, Atoms DEF Typed, ChannelTypeOK
  <2> QED BY <1>1, <1>2, <2>1 DEF Typed
<1>H. Head(ready') = "dispatch" \/ Pend = <<>> \/ sock = None \/ conn[sock] # "lost"
  BY <1>1, Atoms DEF SockOpen
<1>Joins. Joins'
  BY <1>U, <1>4, Queue, Atoms DEF Joins
<1>Leads. Leads'
  BY <1>U, <1>4, <1>7, Queue, Atoms DEF Leads
<1>FreeClean. FreeClean'
  BY <1>U, <1>4, <1>5, <1>7, Atoms DEF FreeClean, Clean
<1>OneOpening. OneOpening'
  BY <1>U, <1>4, <1>5, <1>7, Atoms DEF OneOpening
<1>OpenUsed. OpenUsed'
  BY <1>U, <1>4, <1>5, <1>7, Atoms DEF OpenUsed, Clean
<1>OneOpened. OneOpened'
  BY <1>U, <1>4, <1>5, <1>7, Atoms DEF OneOpened
<1>OneClosing. OneClosing'
  BY <1>U, <1>4, <1>5, <1>7, Atoms DEF OneClosing
<1>Broken. Broken'
  BY <1>U, <1>4, <1>5, <1>7, Atoms DEF Broken
<1>SockOpen. SockOpen'
  BY <1>U, <1>4, <1>5, <1>7, <1>H, Atoms DEF SockOpen
<1>ReadsFor. ReadsFor'
  BY <1>U, <1>4, <1>5, <1>7, Atoms DEF ReadsFor, Reading, Closing
<1>Serves. Serves'
  BY <1>U, <1>4, <1>5, <1>7, Atoms DEF Serves, Closing, EndSignal
<1>Ends. Ends'
  BY <1>U, <1>4, <1>5, <1>7, Atoms DEF Ends, Closing, EndSignal
<1>Wakes. Wakes'
  BY <1>U, <1>4, <1>5, <1>7, Atoms DEF Wakes
<1>Signals. Signals'
  BY <1>U, <1>4, <1>5, <1>7, Atoms DEF Signals
<1>AuthAlone. AuthAlone'
  BY <1>U, <1>4, <1>5, <1>7, Atoms DEF AuthAlone
<1>AuthSock. AuthSock'
  BY <1>U, <1>4, <1>5, <1>7, Atoms DEF AuthSock
<1>Writes. Writes'
  BY <1>U, <1>4, <1>5, <1>7, Atoms DEF Writes
<1>WaitOnce. WaitOnce'
  BY <1>U, <1>4, <1>5, <1>7, Atoms DEF WaitOnce
<1>Results. Results'
  BY <1>U, <1>4, <1>6, Atoms DEF Results
<1>InOrder. InOrder'
  <2>1. ASSUME NEW k \in Conns, Answers(k) PROVE Answers(k)'
    BY <1>1, <1>5, <1>6, <1>7, <2>1, AnswersSame
  <2> QED BY <1>1, <2>1 DEF InOrder, Reading
<1>Matched. Matched'
  BY <1>U, <1>4, <1>5, <1>7, Atoms DEF Matched
<1>Calm. Calm
  BY <1>U, <1>4, <1>5, <1>7, Atoms DEF Calm, Pre, Has, Live, Resp, Reading, Error
<1> QED BY <1>Typed, <1>Scheduled, <1>Joins, <1>Leads, <1>FreeClean, <1>OneOpening, <1>OpenUsed,
           <1>OneOpened, <1>OneClosing, <1>Broken, <1>SockOpen, <1>ReadsFor, <1>Serves, <1>Ends,
           <1>Wakes, <1>Signals, <1>AuthAlone, <1>AuthSock, <1>Writes, <1>WaitOnce, <1>Results,
           <1>InOrder, <1>Matched, <1>Calm

LEMMA DoReplied ==
  ASSUME CInv, NEW a \in Callers, Replied(a)
  PROVE  CInv' /\ Calm
<1> USE DEF CInv, Connects, Net, Dispatches, Authenticates
<1>1. /\ at[a] = "reply" /\ ready # <<>> /\ Head(ready) = a
      /\ UNCHANGED <<sock, thread, connecting, dispatch, request, conn,
                     broken, closer, written, replies, arrived, faults>>
  BY DEF Replied, Runs, net
<1>2. /\ a \in In(ready)
      /\ result[a] = Error \/ (result[a].is \in {"ok", "refused"} /\ result[a].to = Command(a))
      /\ authcoroutine = a => (result[a].is = "error" <=> sock = None)
  <2>1. a \in In(ready)
    BY <1>1, TailIs, Types
  <2> QED BY <1>1, <2>1, Atoms DEF Results, AuthSock
<1>P. PICK s \in {"failed", "connected", "done"} :
        /\ at' = [at EXCEPT ![a] = s]
        /\ s = "failed" => /\ result[a].is # "ok" /\ UNCHANGED <<authcoroutine, result>>
                           /\ ready' = ready \o <<>>
        /\ s = "connected" => /\ result[a].is = "ok" /\ authcoroutine = a /\ authcoroutine' = None
                              /\ result' = [result EXCEPT ![a] = NoResult]
                              /\ ready' = ready \o <<>>
        /\ s = "done" => /\ result[a].is = "ok" /\ authcoroutine # a
                         /\ UNCHANGED <<authcoroutine, result>>
                         /\ ready' = Tail(ready) \o <<>>
  <2>1. result[a].is = "ok" /\ authcoroutine = a => sock # None
    BY <1>2
  <2> QED BY <2>1 DEF Replied, GoOn, Yield, Go
<1>4. /\ Scheduled'
      /\ ready' \in Seq(Callers \cup {"dispatch"}) /\ at' \in [Callers -> Yields \cup Steps]
      /\ s # "done" => ready' = ready
      /\ s = "done" => In(ready') = In(ready) \ {a}
      /\ dispatch.at \notin {"loop", "read"}
      /\ \A b \in Callers : b # a =>
           at[b] \notin {"check", "connect", "opened", "write", "failed", "connected", "check_again"}
      /\ at'[a] = s /\ \A b \in Callers : b # a => at'[b] = at[b]
  <2>1. s # "done" => s \in Steps
    BY DEF Steps
  <2>2. s = "done" => s \in Yields
    BY DEF Yields
  <2> QED BY <1>1, <1>P, <2>1, <2>2, CallerAlone
<1>U. /\ at[a] = "reply" /\ ready # <<>> /\ Head(ready) = a
      /\ s = "connected" => authcoroutine = a /\ authcoroutine' = None
      /\ s # "connected" => authcoroutine' = authcoroutine
      /\ s = "done" => authcoroutine # a
      /\ s \in {"failed", "connected", "done"}
      /\ \A b \in Callers : b # a => result'[b] = result[b]
      /\ UNCHANGED <<sock, thread, connecting, dispatch, request, conn,
                     broken, closer, written, replies, arrived, faults>>
  BY <1>1, <1>P DEF Typed
<1>5. Pend' = Pend
  BY <1>1, PendSame
<1>6. \A b \in Callers : b # a => Command(b)' = Command(b)
  BY <1>1, <1>U, Atoms DEF Command
<1>7. a \notin In(Pend) /\ (s = "done" => authcoroutine = None)
  BY <1>U, <1>2, Atoms DEF WaitOnce, AuthAlone
<1>Scheduled. Scheduled'
  BY <1>4
<1>Typed. Typed'
  <2>1. ChannelTypeOK'
    BY <1>1, <1>4, <1>U, Atoms DEF Typed, ChannelTypeOK
  <2> QED BY <1>1, <1>P, <2>1 DEF Typed
<1>H. Head(ready') = "dispatch" \/ Pend = <<>> \/ sock = None \/ conn[sock] # "lost"
  BY <1>1, Atoms DEF SockOpen
<1>Joins. Joins'
  BY <1>U, <1>4, Queue, Atoms DEF Joins
<1>Leads. Leads'
  BY <1>U, <1>4, <1>7, Queue, Atoms DEF Leads
<1>FreeClean. FreeClean'
  BY <1>U, <1>2, <1>4, <1>5, <1>7, Atoms DEF FreeClean, Clean
<1>OneOpening. OneOpening'
  BY <1>U, <1>2, <1>4, <1>5, <1>7, Atoms DEF OneOpening
<1>OpenUsed. OpenUsed'
  BY <1>U, <1>2, <1>4, <1>5, <1>7, Atoms DEF OpenUsed, Clean
<1>OneOpened. OneOpened'
  BY <1>U, <1>2, <1>4, <1>5, <1>7, Atoms DEF OneOpened
<1>OneClosing. OneClosing'
  BY <1>U, <1>2, <1>4, <1>5, <1>7, Atoms DEF OneClosing
<1>Broken. Broken'
  BY <1>U, <1>2, <1>4, <1>5, <1>7, Atoms DEF Broken
<1>SockOpen. SockOpen'
  BY <1>U, <1>2, <1>4, <1>5, <1>7, <1>H, Atoms DEF SockOpen
<1>ReadsFor. ReadsFor'
  BY <1>U, <1>2, <1>4, <1>5, <1>7, Atoms DEF ReadsFor, Reading, Closing
<1>Serves. Serves'
  BY <1>U, <1>2, <1>4, <1>5, <1>7, Atoms DEF Serves, Closing, EndSignal
<1>Ends. Ends'
  BY <1>U, <1>2, <1>4, <1>5, <1>7, Atoms DEF Ends, Closing, EndSignal
<1>Wakes. Wakes'
  BY <1>U, <1>2, <1>4, <1>5, <1>7, Atoms DEF Wakes
<1>Signals. Signals'
  BY <1>U, <1>2, <1>4, <1>5, <1>7, Atoms DEF Signals
<1>AuthAlone. AuthAlone'
  BY <1>U, <1>2, <1>4, <1>5, <1>7, Atoms DEF AuthAlone
<1>AuthSock. AuthSock'
  BY <1>U, <1>2, <1>4, <1>5, <1>7, Atoms DEF AuthSock
<1>Writes. Writes'
  BY <1>U, <1>2, <1>4, <1>5, <1>7, Atoms DEF Writes
<1>WaitOnce. WaitOnce'
  BY <1>U, <1>2, <1>4, <1>5, <1>7, Atoms DEF WaitOnce
<1>Results. Results'
  BY <1>U, <1>4, <1>6, Atoms DEF Results
<1>InOrder. InOrder'
  <2>1. ASSUME NEW k \in Conns, Answers(k) PROVE Answers(k)'
    BY <1>1, <1>5, <1>6, <1>7, <2>1, AnswersSame
  <2> QED BY <1>1, <2>1 DEF InOrder, Reading
<1>Matched. Matched'
  <2>1. s = "done" => result'[a].is = "ok" /\ result'[a].to = [by |-> a, cmd |-> request'[a]]
    BY <1>1, <1>2, <1>P DEF Command, Error
  <2> QED BY <1>U, <1>4, <2>1 DEF Matched
<1>8. s # "connected" => result'[a] = result[a]
  BY <1>P
<1>9. /\ s = "connected" => ~Has(a)'
      /\ s # "connected" => (Has(a)' => Has(a) /\ result'[a] = result[a])
      /\ \A b \in Callers : b # a => (Has(b)' => Has(b))
      /\ \A b \in Callers : b # a => result'[b] = result[b]
  BY <1>U, <1>2, <1>4, <1>8 DEF Has
<1>10. \A k \in Conns : (Live(k)' <=> Live(k)) /\ Resp(k)' = Resp(k)
  BY <1>U DEF Live, Resp, Reading
<1>Calm. Calm
  BY <1>U, <1>4, <1>9, <1>10, Atoms DEF Calm, Pre
<1> QED BY <1>Typed, <1>Scheduled, <1>Joins, <1>Leads, <1>FreeClean, <1>OneOpening, <1>OpenUsed,
           <1>OneOpened, <1>OneClosing, <1>Broken, <1>SockOpen, <1>ReadsFor, <1>Serves, <1>Ends,
           <1>Wakes, <1>Signals, <1>AuthAlone, <1>AuthSock, <1>Writes, <1>WaitOnce, <1>Results,
           <1>InOrder, <1>Matched, <1>Calm

\* The caller takes what it got.
LEMMA DoTaken ==
  ASSUME CInv, NEW a \in Callers, at[a] = "done", Taken(a)
  PROVE  CInv'
<1> USE DEF CInv, Connects, Net, Dispatches, Authenticates
<1>1. /\ at' = [at EXCEPT ![a] = "idle"]
      /\ request' = [request EXCEPT ![a] = None] /\ result' = [result EXCEPT ![a] = NoResult]
      /\ UNCHANGED <<sock, thread, connecting, authcoroutine, dispatch, ready, conn,
                     broken, closer, written, replies, arrived, faults>>
  BY DEF Taken, Go, net
<1>2. a \notin In(ready)
  BY DEF Scheduled, Steps
<1>4. /\ at' \in [Callers -> Yields \cup Steps]
      /\ at'[a] = "idle" /\ \A b \in Callers : b # a => at'[b] = at[b]
  <2>1. "idle" \in Yields
    BY DEF Yields
  <2> QED BY <1>1, <2>1, Types
<1>U. /\ at[a] = "done"
      /\ \A b \in Callers : b # a => result'[b] = result[b] /\ request'[b] = request[b]
      /\ UNCHANGED <<sock, thread, connecting, authcoroutine, dispatch, ready, conn,
                     broken, closer, written, replies, arrived, faults>>
  BY <1>1 DEF Typed
<1>5. Pend' = Pend
  BY <1>1, PendSame
<1>6. \A b \in Callers : b # a => Command(b)' = Command(b)
  BY <1>U DEF Command
<1>7. a \notin In(Pend) /\ authcoroutine # a
  BY <1>U, Atoms DEF WaitOnce, Leads
<1>Scheduled. Scheduled'
  BY <1>U, <1>2, <1>4, Atoms DEF Scheduled, Steps
<1>Typed. Typed'
  <2>1. ChannelTypeOK'
    BY <1>U, <1>4 DEF Typed, ChannelTypeOK
  <2> QED BY <1>1, <2>1 DEF Typed
<1>Joins. Joins'
  BY <1>U, <1>4, Queue, Atoms DEF Joins
<1>Leads. Leads'
  BY <1>U, <1>4, <1>7, Queue, Atoms DEF Leads
<1>FreeClean. FreeClean'
  BY <1>U, <1>2, <1>4, <1>5, <1>7, Atoms DEF FreeClean, Clean
<1>OneOpening. OneOpening'
  BY <1>U, <1>2, <1>4, <1>5, <1>7, Atoms DEF OneOpening
<1>OpenUsed. OpenUsed'
  BY <1>U, <1>2, <1>4, <1>5, <1>7, Atoms DEF OpenUsed, Clean
<1>OneOpened. OneOpened'
  BY <1>U, <1>2, <1>4, <1>5, <1>7, Atoms DEF OneOpened
<1>OneClosing. OneClosing'
  BY <1>U, <1>2, <1>4, <1>5, <1>7, Atoms DEF OneClosing
<1>Broken. Broken'
  BY <1>U, <1>2, <1>4, <1>5, <1>7, Atoms DEF Broken
<1>SockOpen. SockOpen'
  BY <1>U, <1>2, <1>4, <1>5, <1>7, Atoms DEF SockOpen
<1>ReadsFor. ReadsFor'
  BY <1>U, <1>2, <1>4, <1>5, <1>7, Atoms DEF ReadsFor, Reading, Closing
<1>Serves. Serves'
  BY <1>U, <1>2, <1>4, <1>5, <1>7, Atoms DEF Serves, Closing, EndSignal
<1>Ends. Ends'
  BY <1>U, <1>2, <1>4, <1>5, <1>7, Atoms DEF Ends, Closing, EndSignal
<1>Wakes. Wakes'
  BY <1>U, <1>2, <1>4, <1>5, <1>7, Atoms DEF Wakes
<1>Signals. Signals'
  BY <1>U, <1>2, <1>4, <1>5, <1>7, Atoms DEF Signals
<1>AuthAlone. AuthAlone'
  BY <1>U, <1>2, <1>4, <1>5, <1>7, Atoms DEF AuthAlone
<1>AuthSock. AuthSock'
  BY <1>U, <1>2, <1>4, <1>5, <1>7, Atoms DEF AuthSock
<1>Writes. Writes'
  BY <1>U, <1>2, <1>4, <1>5, <1>7, Atoms DEF Writes
<1>WaitOnce. WaitOnce'
  BY <1>U, <1>2, <1>4, <1>5, <1>7, Atoms DEF WaitOnce
<1>Results. Results'
  BY <1>U, <1>2, <1>4, <1>6, Atoms DEF Results
<1>InOrder. InOrder'
  <2>1. ASSUME NEW k \in Conns, Answers(k) PROVE Answers(k)'
    BY <1>1, <1>5, <1>6, <1>7, <2>1, AnswersSame
  <2> QED BY <1>1, <2>1 DEF InOrder, Reading
<1>Matched. Matched'
  BY <1>U, <1>2, <1>4, <1>5, <1>7, Atoms DEF Matched
<1> QED BY <1>Typed, <1>Scheduled, <1>Joins, <1>Leads, <1>FreeClean, <1>OneOpening, <1>OpenUsed,
           <1>OneOpened, <1>OneClosing, <1>Broken, <1>SockOpen, <1>ReadsFor, <1>Serves, <1>Ends,
           <1>Wakes, <1>Signals, <1>AuthAlone, <1>AuthSock, <1>Writes, <1>WaitOnce, <1>Results,
           <1>InOrder, <1>Matched

LEMMA DoDispatchStart ==
  ASSUME CInv, DispatchStart
  PROVE  CInv' /\ Calm
<1> USE DEF CInv, Connects, Net, Dispatches, Authenticates
<1>1. /\ ready = <<>> /\ dispatch.at = "new" /\ ready' = <<"dispatch">>
      /\ dispatch' = [dispatch EXCEPT !.at = "loop"]
      /\ UNCHANGED <<sock, thread, connecting, authcoroutine, result, at, request, conn,
                     broken, closer, written, replies, arrived, faults>>
  BY DEF DispatchStart, DispatchGo, chan, net
<1>2. /\ dispatch'.at = "loop" /\ dispatch'.for = dispatch.for /\ dispatch'.conn = dispatch.conn
      /\ dispatch' \in [at : {"none", "new", "loop", "pop", "wait", "read", "wait_data"},
                        for : Callers \cup {None}, conn : Conns \cup {None}]
  BY <1>1 DEF Typed, ChannelTypeOK
<1>3. /\ In(ready) = {} /\ In(ready') = {"dispatch"} /\ Once(ready')
      /\ ready' # <<>> /\ Head(ready') = "dispatch"
      /\ ready' \in Seq(Callers \cup {"dispatch"})
  BY <1>1, Empty, Single, SingleIn
<1>4. \A b \in Callers :
        at[b] \notin {"check", "connect", "opened", "write", "failed", "connected", "check_again"}
  BY <1>1 DEF Scheduled, Steps
<1>U. /\ ready = <<>> /\ dispatch.at = "new"
      /\ UNCHANGED <<sock, thread, connecting, authcoroutine, result, at, request, conn,
                     broken, closer, written, replies, arrived, faults>>
  BY <1>1
<1>5. Pend' = Pend
  BY <1>U, <1>2, PendSame DEF Reading
<1>6. \A b \in Callers : Command(b)' = Command(b)
  BY <1>1 DEF Command
<1>Scheduled. Scheduled'
  BY <1>U, <1>2, <1>3, <1>4, Atoms DEF Scheduled, Steps
<1>Typed. Typed'
  <2>1. ChannelTypeOK'
    BY <1>U, <1>2, <1>3 DEF Typed, ChannelTypeOK
  <2> QED BY <1>1, <2>1 DEF Typed
<1>Joins. Joins'
  BY <1>U, <1>3, Queue, Atoms DEF Joins
<1>Leads. Leads'
  BY <1>U, Queue, Atoms DEF Leads
<1>FreeClean. FreeClean'
  BY <1>U, <1>2, <1>3, <1>4, <1>5, Atoms DEF FreeClean, Clean
<1>OneOpening. OneOpening'
  BY <1>U, <1>2, <1>3, <1>4, <1>5, Atoms DEF OneOpening
<1>OpenUsed. OpenUsed'
  BY <1>U, <1>2, <1>3, <1>4, <1>5, Atoms DEF OpenUsed, Clean
<1>OneOpened. OneOpened'
  BY <1>U, <1>2, <1>3, <1>4, <1>5, Atoms DEF OneOpened
<1>OneClosing. OneClosing'
  BY <1>U, <1>2, <1>3, <1>4, <1>5, Atoms DEF OneClosing
<1>Broken. Broken'
  BY <1>U, <1>2, <1>3, <1>4, <1>5, Atoms DEF Broken
<1>SockOpen. SockOpen'
  BY <1>U, <1>2, <1>3, <1>4, <1>5, Atoms DEF SockOpen
<1>ReadsFor. ReadsFor'
  BY <1>U, <1>2, <1>3, <1>4, <1>5, Atoms DEF ReadsFor, Reading, Closing
<1>Serves. Serves'
  BY <1>U, <1>2, <1>3, <1>4, <1>5, Atoms DEF Serves, Closing, EndSignal
<1>Ends. Ends'
  BY <1>U, <1>2, <1>3, <1>4, <1>5, Atoms DEF Ends, Closing, EndSignal
<1>Wakes. Wakes'
  BY <1>U, <1>2, <1>3, <1>4, <1>5, Atoms DEF Wakes
<1>Signals. Signals'
  BY <1>U, <1>2, <1>3, <1>4, <1>5, Atoms DEF Signals
<1>AuthAlone. AuthAlone'
  BY <1>U, <1>2, <1>3, <1>4, <1>5, Atoms DEF AuthAlone
<1>AuthSock. AuthSock'
  BY <1>U, <1>2, <1>3, <1>4, <1>5, Atoms DEF AuthSock
<1>Writes. Writes'
  BY <1>U, <1>2, <1>3, <1>4, <1>5, Atoms DEF Writes
<1>WaitOnce. WaitOnce'
  BY <1>U, <1>2, <1>3, <1>4, <1>5, Atoms DEF WaitOnce
<1>Results. Results'
  BY <1>U, <1>3, <1>6, Atoms DEF Results
<1>InOrder. InOrder'
  <2>1. ASSUME NEW k \in Conns, Answers(k) PROVE Answers(k)'
    BY <1>1, <1>5, <1>6, <2>1, AnswersSame
  <2> QED BY <1>1, <1>2, <2>1 DEF InOrder, Reading
<1>Matched. Matched'
  BY <1>U, <1>2, <1>3, <1>4, <1>5, Atoms DEF Matched
<1>Calm. Calm
  BY <1>U, <1>2, <1>3, <1>4, <1>5, Atoms DEF Calm, Pre, Has, Live, Resp, Reading
<1> QED BY <1>Typed, <1>Scheduled, <1>Joins, <1>Leads, <1>FreeClean, <1>OneOpening, <1>OpenUsed,
           <1>OneOpened, <1>OneClosing, <1>Broken, <1>SockOpen, <1>ReadsFor, <1>Serves, <1>Ends,
           <1>Wakes, <1>Signals, <1>AuthAlone, <1>AuthSock, <1>Writes, <1>WaitOnce, <1>Results,
           <1>InOrder, <1>Matched, <1>Calm

\* The dispatch thread goes on or yields, and W are woken by it.
LEMMA DispatchStep ==
  ASSUME Typed, Scheduled, ready # <<>>, Head(ready) = "dispatch",
         NEW W \in Seq(Callers), Once(W), In(W) \cap In(ready) = {},
         \A b \in Callers : b \in In(W) => at[b] \in {"connecting", "reply", "close", "auth_close"},
         at' = at,
         \/ dispatch'.at \in {"loop", "pop", "read"} /\ ready' = ready \o W
         \/ dispatch'.at \notin {"loop", "pop", "read"} /\ ready' = Tail(ready) \o W
  PROVE  /\ Scheduled' /\ ready' \in Seq(Callers \cup {"dispatch"})
         /\ dispatch'.at \in {"loop", "pop", "read"} =>
              /\ In(ready') = In(ready) \cup In(W) /\ ready' # <<>> /\ Head(ready') = "dispatch"
         /\ dispatch'.at \notin {"loop", "pop", "read"} =>
              In(ready') = (In(ready) \ {"dispatch"}) \cup In(W)
         /\ "dispatch" \in In(ready)
         /\ \A b \in Callers :
              at[b] \notin {"check", "connect", "opened", "write", "failed", "connected", "check_again"}
<1> DEFINE S == Callers \cup {"dispatch"}
<1>1. /\ ready \in Seq(S) /\ Once(ready) /\ "dispatch" \in In(ready)
      /\ "dispatch" \notin Callers /\ W \in Seq(S) /\ In(W) \subseteq Callers
  BY Types, TailIs, Elements DEF Scheduled
<1>2. /\ Tail(ready) \in Seq(S) /\ Once(Tail(ready)) /\ In(Tail(ready)) = In(ready) \ {"dispatch"}
  BY <1>1, TailIs
<1>3. \A b \in Callers : at[b] \notin Steps
  BY <1>1 DEF Scheduled
<1>4. CASE dispatch'.at \in {"loop", "pop", "read"}
  <2>0. ready' = ready \o W
    BY <1>4
  <2>1. /\ ready' \in Seq(S) /\ Once(ready') /\ In(ready') = In(ready) \cup In(W)
        /\ ready' # <<>> /\ Head(ready') = "dispatch"
    <3> HIDE DEF S
    <3>1. /\ ready \o W \in Seq(S) /\ Once(ready \o W) /\ In(ready \o W) = In(ready) \cup In(W)
          /\ ready \o W # <<>> /\ Head(ready \o W) = "dispatch"
      BY <1>1, ConcatIs
    <3> QED BY <2>0, <3>1
  <2> QED BY <1>1, <1>3, <1>4, <2>1 DEF Scheduled, Steps
<1>5. CASE dispatch'.at \notin {"loop", "pop", "read"}
  <2>0. ready' = Tail(ready) \o W
    BY <1>5
  <2>1. /\ ready' \in Seq(S) /\ Once(ready') /\ In(ready') = (In(ready) \ {"dispatch"}) \cup In(W)
    <3> HIDE DEF S
    <3>0. In(Tail(ready)) \cap In(W) = {}
      BY <1>2
    <3> DEFINE t == Tail(ready)
    <3>1. t \in Seq(S) /\ Once(t) /\ In(t) \cap In(W) = {}
      BY <1>2, <3>0
    <3> HIDE DEF t
    <3>2. t \o W \in Seq(S) /\ Once(t \o W) /\ In(t \o W) = In(t) \cup In(W)
      BY <1>1, <3>1, ConcatIs
    <3> QED BY <1>2, <2>0, <3>2 DEF t
  <2> QED BY <1>1, <1>3, <1>5, <2>1 DEF Scheduled, Steps
<1>6. \A b \in Callers :
        at[b] \notin {"check", "connect", "opened", "write", "failed", "connected", "check_again"}
  BY <1>3 DEF Steps
<1> QED BY <1>1, <1>4, <1>5, <1>6

LEMMA DoDispatchLoop ==
  ASSUME CInv, DispatchLoop
  PROVE  CInv' /\ Calm
<1> USE DEF CInv, Connects, Net, Dispatches, Authenticates
<1>1. /\ ready # <<>> /\ Head(ready) = "dispatch" /\ dispatch.at = "loop"
      /\ UNCHANGED <<sock, thread, connecting, authcoroutine, result, at, request, conn,
                     broken, closer, written, replies, arrived, faults>>
  BY DEF DispatchLoop, DispatchRuns, chan, net
<1>2. /\ dispatch'.for = None /\ dispatch'.conn = None
      /\ dispatch' \in [at : {"none", "new", "loop", "pop", "wait", "read", "wait_data"},
                        for : Callers \cup {None}, conn : Conns \cup {None}]
      /\ \/ sock = None /\ dispatch'.at = "none" /\ ready' = Tail(ready) \o <<>>
         \/ sock # None /\ dispatch'.at = "pop" /\ ready' = ready
  BY <1>1 DEF DispatchLoop, DispatchEnds, DispatchGo, NoDispatch, Typed, ChannelTypeOK,
              ReadsFor, Reading
<1>3. /\ Scheduled' /\ ready' \in Seq(Callers \cup {"dispatch"})
      /\ In(ready') \subseteq In(ready)
      /\ \A b \in Callers : b \in In(ready) => b \in In(ready')
      /\ dispatch'.at = "pop" => ready' # <<>> /\ Head(ready') = "dispatch"
      /\ \A b \in Callers :
           at[b] \notin {"check", "connect", "opened", "write", "failed", "connected", "check_again"}
  <2>1. ready \o <<>> = ready
    BY Types, ConcatIs
  <2>2. <<>> \in Seq(Callers)
    OBVIOUS
  <2>3. /\ \/ dispatch'.at \in {"loop", "pop", "read"} /\ ready' = ready \o <<>>
           \/ dispatch'.at \notin {"loop", "pop", "read"} /\ ready' = Tail(ready) \o <<>>
        /\ at' = at
    BY <1>1, <1>2, <2>1
  <2> QED BY <1>1, <2>2, <2>3, Empty, Types, DispatchStep
<1>4. dispatch.for = None /\ dispatch.conn = None
  BY <1>1 DEF ReadsFor, Reading
<1>U. /\ dispatch.at = "loop" /\ dispatch'.for = None /\ dispatch'.conn = None
      /\ \/ sock = None /\ dispatch'.at = "none"
         \/ sock # None /\ dispatch'.at = "pop"
      /\ UNCHANGED <<sock, thread, connecting, authcoroutine, result, at, request, conn,
                     broken, closer, written, replies, arrived, faults>>
  BY <1>1, <1>2
<1>5. Pend' = Pend
  BY <1>U, <1>4, PendSame DEF Reading
<1>6. \A b \in Callers : Command(b)' = Command(b)
  BY <1>1 DEF Command
<1>Scheduled. Scheduled'
  BY <1>3
<1>Typed. Typed'
  <2>1. ChannelTypeOK'
    BY <1>U, <1>2, <1>3 DEF Typed, ChannelTypeOK
  <2> QED BY <1>1, <2>1 DEF Typed
<1>Joins. Joins'
  BY <1>U, <1>3, Queue, Atoms DEF Joins
<1>Leads. Leads'
  BY <1>U, Queue, Atoms DEF Leads
<1>FreeClean. FreeClean'
  BY <1>U, <1>3, <1>4, <1>5, Atoms DEF FreeClean, Clean
<1>OneOpening. OneOpening'
  BY <1>U, <1>3, <1>4, <1>5, Atoms DEF OneOpening
<1>OpenUsed. OpenUsed'
  BY <1>U, <1>3, <1>4, <1>5, Atoms DEF OpenUsed, Clean
<1>OneOpened. OneOpened'
  BY <1>U, <1>3, <1>4, <1>5, Atoms DEF OneOpened
<1>OneClosing. OneClosing'
  BY <1>U, <1>3, <1>4, <1>5, Atoms DEF OneClosing
<1>Broken. Broken'
  BY <1>U, <1>3, <1>4, <1>5, Atoms DEF Broken
<1>SockOpen. SockOpen'
  BY <1>U, <1>3, <1>4, <1>5, Atoms DEF SockOpen
<1>ReadsFor. ReadsFor'
  BY <1>U, <1>3, <1>4, <1>5, Atoms DEF ReadsFor, Reading, Closing
<1>Serves. Serves'
  BY <1>U, <1>3, <1>4, <1>5, Atoms DEF Serves, Closing, EndSignal
<1>Ends. Ends'
  BY <1>U, <1>3, <1>4, <1>5, Atoms DEF Ends, Closing, EndSignal, OneClosing, SockOpen
<1>Wakes. Wakes'
  BY <1>U, <1>3, <1>4, <1>5, Atoms DEF Wakes
<1>Signals. Signals'
  BY <1>U, <1>3, <1>4, <1>5, Atoms DEF Signals
<1>AuthAlone. AuthAlone'
  BY <1>U, <1>3, <1>4, <1>5, Atoms DEF AuthAlone
<1>AuthSock. AuthSock'
  BY <1>U, <1>3, <1>4, <1>5, Atoms DEF AuthSock
<1>Writes. Writes'
  BY <1>U, <1>3, <1>4, <1>5, Atoms DEF Writes
<1>WaitOnce. WaitOnce'
  BY <1>U, <1>3, <1>4, <1>5, Atoms DEF WaitOnce
<1>Results. Results'
  BY <1>U, <1>3, <1>6, Atoms DEF Results
<1>InOrder. InOrder'
  <2>1. ASSUME NEW k \in Conns, Answers(k) PROVE Answers(k)'
    BY <1>1, <1>5, <1>6, <2>1, AnswersSame
  <2> QED BY <1>1, <1>2, <2>1 DEF InOrder, Reading
<1>Matched. Matched'
  BY <1>U, <1>3, <1>4, <1>5, Atoms DEF Matched
<1>Calm. Calm
  BY <1>U, <1>3, <1>4, <1>5, Atoms DEF Calm, Pre, Has, Live, Resp, Reading
<1> QED BY <1>Typed, <1>Scheduled, <1>Joins, <1>Leads, <1>FreeClean, <1>OneOpening, <1>OpenUsed,
           <1>OneOpened, <1>OneClosing, <1>Broken, <1>SockOpen, <1>ReadsFor, <1>Serves, <1>Ends,
           <1>Wakes, <1>Signals, <1>AuthAlone, <1>AuthSock, <1>Writes, <1>WaitOnce, <1>Results,
           <1>InOrder, <1>Matched, <1>Calm

-----------------------------------------------------------------------------
(* The server and the socket thread.                                       *)

LEMMA FitsSame ==
  ASSUME Pend' = Pend, \A a \in Callers : a \in In(Pend) => Command(a)' = Command(a)
  PROVE  \A i, c : Fits(i, c) => Fits(i, c)'
BY DEF Fits, In

LEMMA DoResponds ==
  ASSUME CInv, NEW k \in Conns, NEW r, Responds(k, r), faults' \in 0 .. MaxFault,
         r.is \in {"ok", "refused"}, r.to = Head(written[k])
  PROVE  CInv'
<1> USE DEF CInv, Connects, Net, Dispatches, Authenticates
<1>1. /\ conn[k] = "open" /\ k \notin broken /\ written[k] # <<>>
      /\ written' = [written EXCEPT ![k] = Tail(written[k])]
      /\ replies' = [replies EXCEPT ![k] = Append(replies[k], r)]
      /\ UNCHANGED <<sock, thread, connecting, authcoroutine, result, dispatch, ready, at,
                     request, conn, broken, closer, arrived>>
  BY DEF Responds, chan
<1>2. r.is \in {"ok", "refused"} /\ r.to = Head(written[k])
  OBVIOUS
<1>U. /\ conn[k] = "open" /\ k \notin broken /\ written[k] # <<>>
      /\ written'[k] = Tail(written[k]) /\ replies'[k] = Append(replies[k], r)
      /\ \A j \in Conns : j # k => written'[j] = written[j] /\ replies'[j] = replies[j]
      /\ UNCHANGED <<sock, thread, connecting, authcoroutine, result, dispatch, ready, at,
                     request, conn, broken, closer, arrived>>
  BY <1>1 DEF Typed
<1>5. Pend' = Pend
  BY <1>1, PendSame
<1>6. \A b \in Callers : Command(b)' = Command(b)
  BY <1>1 DEF Command
<1>Scheduled. Scheduled'
  BY <1>U DEF Scheduled
<1>Typed. Typed'
  <2>1. IsSeq(written'[k]) /\ IsSeq(replies'[k])
    BY <1>U, TailAny, AppendAny DEF Typed
  <2>2. \A j \in Conns : IsSeq(written'[j]) /\ IsSeq(replies'[j])
    BY <1>U, <2>1 DEF Typed
  <2>3. ChannelTypeOK'
    BY <1>U DEF Typed, ChannelTypeOK
  <2> QED BY <1>1, <2>2, <2>3 DEF Typed
<1>Joins. Joins'
  BY <1>U, <1>5, Atoms DEF Joins
<1>Leads. Leads'
  BY <1>U, <1>5, Atoms DEF Leads
<1>FreeClean. FreeClean'
  BY <1>U, <1>5, Atoms DEF FreeClean, Clean
<1>OneOpening. OneOpening'
  BY <1>U, <1>5, Atoms DEF OneOpening
<1>OpenUsed. OpenUsed'
  BY <1>U, <1>5, Atoms DEF OpenUsed, Clean
<1>OneOpened. OneOpened'
  BY <1>U, <1>5, Atoms DEF OneOpened
<1>OneClosing. OneClosing'
  BY <1>U, <1>5, Atoms DEF OneClosing
<1>Broken. Broken'
  BY <1>U, <1>5, Atoms DEF Broken
<1>SockOpen. SockOpen'
  BY <1>U, <1>5, Atoms DEF SockOpen
<1>ReadsFor. ReadsFor'
  BY <1>U, <1>5, Atoms DEF ReadsFor, Reading, Closing
<1>Serves. Serves'
  BY <1>U, <1>5, Atoms DEF Serves, Closing, EndSignal
<1>Ends. Ends'
  BY <1>U, <1>5, Atoms DEF Ends, Closing, EndSignal
<1>Wakes. Wakes'
  BY <1>U, <1>5, Atoms DEF Wakes
<1>Signals. Signals'
  BY <1>U, <1>5, Atoms DEF Signals
<1>AuthAlone. AuthAlone'
  BY <1>U, <1>5, Atoms DEF AuthAlone
<1>AuthSock. AuthSock'
  BY <1>U, <1>5, Atoms DEF AuthSock
<1>Writes. Writes'
  BY <1>U, <1>5, Atoms DEF Writes
<1>WaitOnce. WaitOnce'
  BY <1>U, <1>5, Atoms DEF WaitOnce
<1>Results. Results'
  BY <1>U, <1>5, <1>6, Atoms DEF Results
<1>InOrder. InOrder'
  <2>1. ASSUME NEW j \in Conns, j # k, Answers(j) PROVE Answers(j)'
    BY <1>U, <1>5, <1>6, <2>1, AnswersSame
  <2>2. ASSUME Answers(k) PROVE Answers(k)'
    <3>0. PICK A, R, Q, RR, QQ :
            /\ A = arrived[k] /\ R = replies[k] /\ Q = written[k]
            /\ RR = Append(R, r) /\ QQ = Tail(Q)
      OBVIOUS
    <3>1. /\ Len(R) \in Nat /\ DOMAIN RR = 1 .. Len(R) + 1 /\ Len(RR) = Len(R) + 1
          /\ \A i \in 1 .. Len(R) : RR[i] = R[i]
          /\ RR[Len(R) + 1] = r /\ DOMAIN R = 1 .. Len(R)
      BY <3>0, AppendAny DEF Typed
    <3>2. /\ Len(Q) \in Nat /\ Len(Q) >= 1 /\ DOMAIN QQ = 1 .. Len(Q) - 1 /\ Len(QQ) = Len(Q) - 1
          /\ \A i \in 1 .. Len(Q) - 1 : QQ[i] = Q[i + 1]
          /\ Head(Q) = Q[1] /\ DOMAIN Q = 1 .. Len(Q)
      BY <1>U, <3>0, TailAny DEF Typed
    <3>3. Len(A) \in Nat
      BY <3>0, Elements DEF Typed, IsSeq
    <3>4. /\ \A i \in DOMAIN A : A[i].is \in {"ok", "refused"} /\ Fits(i, A[i].to)'
          /\ \A i \in DOMAIN R : R[i].is \in {"ok", "refused"} /\ Fits(Len(A) + i, R[i].to)'
          /\ \A i \in DOMAIN Q : Fits(Len(A) + Len(R) + i, Q[i])'
          /\ k = sock /\ k \notin broken => Len(Pend) = Len(A) + Len(R) + Len(Q)
      BY <1>5, <1>6, <2>2, <3>0, FitsSame DEF Answers
    <3>5. /\ arrived'[k] = A /\ replies'[k] = RR /\ written'[k] = QQ
          /\ sock' = sock /\ broken' = broken
      BY <1>U, <3>0
    <3>6. r.is \in {"ok", "refused"} /\ r.to = Q[1]
      BY <1>2, <3>0, <3>2
    <3>a. /\ Len(A) \in Nat /\ Len(R) \in Nat /\ Len(Q) \in Nat /\ Len(Q) >= 1
          /\ Len(RR) = Len(R) + 1 /\ Len(QQ) = Len(Q) - 1
      BY <3>1, <3>2, <3>3
    <3>7. ASSUME NEW i \in DOMAIN RR PROVE RR[i].is \in {"ok", "refused"} /\ Fits(Len(A) + i, RR[i].to)'
      <4>1. CASE i \in DOMAIN R
        BY <3>1, <3>4, <4>1
      <4>2. CASE i = Len(R) + 1
        <5>1. 1 \in DOMAIN Q /\ Len(A) + Len(R) + 1 = Len(A) + i
          BY <3>1, <3>2, <3>3, <4>2
        <5> QED BY <3>1, <3>4, <3>6, <4>2, <5>1
      <4> QED BY <3>1, <3>7, <4>1, <4>2
    <3>8. ASSUME NEW i \in DOMAIN QQ PROVE Fits(Len(A) + Len(RR) + i, QQ[i])'
      <4>1. i + 1 \in DOMAIN Q /\ Len(A) + Len(RR) + i = Len(A) + Len(R) + (i + 1) /\ QQ[i] = Q[i + 1]
        <5>1. i \in 1 .. Len(Q) - 1 /\ QQ[i] = Q[i + 1] /\ DOMAIN Q = 1 .. Len(Q)
          BY <3>2, <3>8
        <5>2. i + 1 \in 1 .. Len(Q)
          BY <3>a, <5>1
        <5>3. Len(A) + Len(RR) + i = Len(A) + Len(R) + (i + 1)
          BY <3>a, <5>1
        <5> QED BY <5>1, <5>2, <5>3
      <4> QED BY <3>4, <4>1
    <3>9. k = sock /\ k \notin broken => Len(Pend) = Len(A) + Len(RR) + Len(QQ)
      BY <3>a, <3>4
    <3> QED BY <1>5, <3>4, <3>5, <3>7, <3>8, <3>9 DEF Answers
  <2> QED BY <1>U, <2>1, <2>2 DEF InOrder, Reading
<1>Matched. Matched'
  BY <1>U, <1>5, Atoms DEF Matched
<1> QED BY <1>Typed, <1>Scheduled, <1>Joins, <1>Leads, <1>FreeClean, <1>OneOpening, <1>OpenUsed,
           <1>OneOpened, <1>OneClosing, <1>Broken, <1>SockOpen, <1>ReadsFor, <1>Serves, <1>Ends,
           <1>Wakes, <1>Signals, <1>AuthAlone, <1>AuthSock, <1>Writes, <1>WaitOnce, <1>Results,
           <1>InOrder, <1>Matched

LEMMA DoServe ==
  ASSUME CInv, NEW k \in Conns, NEW v, Serve(k, v)
  PROVE  CInv'
<1> DEFINE r == Response(Head(written[k]), v)
<1>1. Responds(k, r) /\ faults' = faults
  BY DEF Serve
<1>2. r.is = "ok" /\ r.to = Head(written[k])
  BY DEF Response
<1>3. faults \in 0 .. MaxFault
  BY DEF CInv, Typed, ChannelTypeOK
<1> HIDE DEF r
<1> QED BY <1>1, <1>2, <1>3, DoResponds

LEMMA DoRefuse ==
  ASSUME CInv, NEW k \in Conns, Refuse(k)
  PROVE  CInv' /\ Calm
<1> DEFINE r == Refusal(Head(written[k]))
<1>1. Responds(k, r) /\ faults' = faults + 1 /\ faults < MaxFault
  BY DEF Refuse
<1>2. r.is = "refused" /\ r.to = Head(written[k])
  BY DEF Refusal
<1>3. faults + 1 \in 0 .. MaxFault
  BY <1>1, ChannelAssumption DEF CInv, Typed, ChannelTypeOK
<1> HIDE DEF r
<1>4. CInv'
  BY <1>1, <1>2, <1>3, DoResponds
<1>5. /\ written[k] # <<>>
      /\ written' = [written EXCEPT ![k] = Tail(written[k])]
      /\ replies' = [replies EXCEPT ![k] = Append(replies[k], r)]
      /\ UNCHANGED <<sock, authcoroutine, result, dispatch, ready, at, request, arrived>>
  BY <1>1 DEF Responds, chan
<1>6. /\ In(written'[k]) \subseteq In(written[k])
      /\ In(replies'[k]) = In(replies[k]) \cup {r}
      /\ \A j \in Conns : j # k => replies'[j] = replies[j] /\ written'[j] = written[j]
  BY <1>5, Contents DEF CInv, Typed
<1>7. /\ \A j \in Conns : Live(j)' <=> Live(j)
      /\ \A j \in Conns : \A q \in Resp(j)' : q \in Resp(j) \/ q.is # "ok"
      /\ \A j \in Conns : In(written'[j]) \subseteq In(written[j])
  BY <1>2, <1>5, <1>6 DEF Live, Resp, Reading
<1>8. \A b \in Callers : (Has(b)' <=> Has(b)) /\ (Pre(b)' <=> Pre(b))
  BY <1>5 DEF Has, Pre
<1>9. Calm
  BY <1>5, <1>7, <1>8 DEF Calm
<1> QED BY <1>4, <1>9

LEMMA DoBreak ==
  ASSUME CInv, NEW k \in Conns, Break(k)
  PROVE  CInv' /\ Calm
<1> USE DEF CInv, Connects, Net, Dispatches, Authenticates
<1>1. /\ conn[k] = "open" /\ k \notin broken /\ faults < MaxFault
      /\ broken' = broken \cup {k} /\ faults' = faults + 1
      /\ written' = [written EXCEPT ![k] = <<>>]
      /\ UNCHANGED <<sock, thread, connecting, authcoroutine, result, dispatch, ready, at,
                     request, conn, closer, arrived>>
  BY DEF Break, chan
<1>2. PICK n \in 0 .. Len(replies[k]) : replies' = [replies EXCEPT ![k] = SubSeq(replies[k], 1, n)]
  BY DEF Break
<1>3. /\ IsSeq(replies'[k]) /\ Len(replies'[k]) = n /\ replies'[k] = SubSeq(replies[k], 1, n)
      /\ DOMAIN replies'[k] = 1 .. n /\ DOMAIN replies[k] = 1 .. Len(replies[k])
      /\ \A i \in 1 .. n : replies'[k][i] = replies[k][i]
      /\ Len(replies[k]) \in Nat
  BY <1>2, PrefixAny DEF Typed
<1>7. replies[k] = <<>> => replies'[k] = <<>>
  BY <1>3
<1>U. /\ conn[k] = "open" /\ k \notin broken
      /\ \A j \in Conns : j \in broken' <=> j \in broken \/ j = k
      /\ broken' \subseteq Conns
      /\ written'[k] = <<>>
      /\ \A j \in Conns : j # k => written'[j] = written[j] /\ replies'[j] = replies[j]
      /\ UNCHANGED <<sock, thread, connecting, authcoroutine, result, dispatch, ready, at,
                     request, conn, closer, arrived>>
  BY <1>1, <1>2, Atoms DEF Typed
<1>5. Pend' = Pend
  BY <1>1, PendSame
<1>6. \A b \in Callers : Command(b)' = Command(b)
  BY <1>1 DEF Command
<1>Scheduled. Scheduled'
  BY <1>U DEF Scheduled
<1>Typed. Typed'
  <2>2. \A j \in Conns : IsSeq(written'[j]) /\ IsSeq(replies'[j])
    BY <1>U, <1>3, Empty DEF Typed
  <2>3. ChannelTypeOK'
    <3>1. faults' \in 0 .. MaxFault
      BY <1>1, ChannelAssumption DEF Typed, ChannelTypeOK
    <3> QED BY <1>U, <3>1 DEF Typed, ChannelTypeOK
  <2> QED BY <1>1, <1>2, <2>2, <2>3 DEF Typed
<1>Joins. Joins'
  BY <1>U, <1>5, <1>7, Atoms DEF Joins
<1>Leads. Leads'
  BY <1>U, <1>5, <1>7, Atoms DEF Leads
<1>FreeClean. FreeClean'
  BY <1>U, <1>5, <1>7, Atoms DEF FreeClean, Clean
<1>OneOpening. OneOpening'
  BY <1>U, <1>5, <1>7, Atoms DEF OneOpening
<1>OpenUsed. OpenUsed'
  BY <1>U, <1>5, <1>7, Atoms DEF OpenUsed, Clean
<1>OneOpened. OneOpened'
  BY <1>U, <1>5, <1>7, Atoms DEF OneOpened
<1>OneClosing. OneClosing'
  BY <1>U, <1>5, <1>7, Atoms DEF OneClosing
<1>Broken. Broken'
  BY <1>U, <1>5, <1>7, Atoms DEF Broken
<1>SockOpen. SockOpen'
  BY <1>U, <1>5, <1>7, Atoms DEF SockOpen
<1>ReadsFor. ReadsFor'
  BY <1>U, <1>5, <1>7, Atoms DEF ReadsFor, Reading, Closing
<1>Serves. Serves'
  BY <1>U, <1>5, <1>7, Atoms DEF Serves, Closing, EndSignal
<1>Ends. Ends'
  BY <1>U, <1>5, <1>7, Atoms DEF Ends, Closing, EndSignal
<1>Wakes. Wakes'
  BY <1>U, <1>5, <1>7, Atoms DEF Wakes
<1>Signals. Signals'
  BY <1>U, <1>5, <1>7, Atoms DEF Signals
<1>AuthAlone. AuthAlone'
  BY <1>U, <1>5, <1>7, Atoms DEF AuthAlone
<1>AuthSock. AuthSock'
  BY <1>U, <1>5, <1>7, Atoms DEF AuthSock
<1>Writes. Writes'
  BY <1>U, <1>5, <1>7, Atoms DEF Writes
<1>WaitOnce. WaitOnce'
  BY <1>U, <1>5, <1>7, Atoms DEF WaitOnce
<1>Results. Results'
  BY <1>U, <1>5, <1>7, <1>6, Atoms DEF Results
<1>InOrder. InOrder'
  <2>1. ASSUME NEW j \in Conns, j # k, Answers(j) PROVE Answers(j)'
    BY <1>U, <1>5, <1>6, <2>1, AnswersSame
  <2>2. ASSUME Answers(k) PROVE Answers(k)'
    <3>0. PICK A, R, RR :
            A = arrived[k] /\ R = replies[k] /\ RR = SubSeq(replies[k], 1, n)
      OBVIOUS
    <3>1. /\ \A i \in DOMAIN A : A[i].is \in {"ok", "refused"} /\ Fits(i, A[i].to)'
          /\ \A i \in DOMAIN R : R[i].is \in {"ok", "refused"} /\ Fits(Len(A) + i, R[i].to)'
      BY <1>5, <1>6, <2>2, <3>0, FitsSame DEF Answers
    <3>2. \A i \in DOMAIN RR : i \in DOMAIN R /\ RR[i] = R[i]
      BY <1>3, <3>0
    <3>3. DOMAIN written'[k] = {} /\ arrived'[k] = A /\ replies'[k] = RR /\ k \in broken'
      BY <1>U, <1>3, <3>0, Empty
    <3> QED BY <3>1, <3>2, <3>3 DEF Answers
  <2> QED BY <1>U, <2>1, <2>2 DEF InOrder, Reading
<1>Matched. Matched'
  BY <1>U, <1>5, <1>7, Atoms DEF Matched
<1>8. In(replies'[k]) \subseteq In(replies[k]) /\ In(written'[k]) = {}
  BY <1>U, <1>3, Contents, Empty DEF Typed
<1>9. \A j \in Conns : (Live(j)' <=> Live(j)) /\ Resp(j)' \subseteq Resp(j)
  BY <1>U, <1>8 DEF Live, Resp, Reading
<1>Calm. Calm
  BY <1>U, <1>8, <1>9, Atoms DEF Calm, Pre, Has
<1> QED BY <1>Typed, <1>Scheduled, <1>Joins, <1>Leads, <1>FreeClean, <1>OneOpening, <1>OpenUsed,
           <1>OneOpened, <1>OneClosing, <1>Broken, <1>SockOpen, <1>ReadsFor, <1>Serves, <1>Ends,
           <1>Wakes, <1>Signals, <1>AuthAlone, <1>AuthSock, <1>Writes, <1>WaitOnce, <1>Results,
           <1>InOrder, <1>Matched, <1>Calm

\* A message about connection k wakes who reads from it and who closes it.
LEMMA MessageStep ==
  ASSUME CInv, NEW k \in Conns, Quiet, WakeReader(k), at' = at,
         conn[k] = "open",
         \/ ready' = Reader(k)
         \/ ~Reads(k) /\ ready' = Closer(k)
  PROVE  /\ Scheduled' /\ ready' \in Seq(Callers \cup {"dispatch"})
         /\ ready = <<>> /\ In(ready) = {} /\ dispatch.at \in {"none", "wait", "wait_data"}
         /\ dispatch' \in [at : {"none", "new", "loop", "pop", "wait", "read", "wait_data"},
                           for : Callers \cup {None}, conn : Conns \cup {None}]
         /\ dispatch'.for = dispatch.for /\ dispatch'.conn = dispatch.conn
         /\ Reads(k) => /\ dispatch'.at = "read" /\ ready' # <<>> /\ Head(ready') = "dispatch"
                        /\ In(ready') = {"dispatch"} \cup ({closer[k]} \ {None})
         /\ ~Reads(k) => dispatch' = dispatch
         /\ \A x \in In(ready') : x = "dispatch" \/ (x = closer[k] /\ closer[k] # None)
         /\ ~Reads(k) /\ ready' = Closer(k) => In(ready') = {closer[k]} \ {None}
         /\ \A a \in Callers : a \in In(ready') => at[a] \in {"close", "auth_close"} /\ a = closer[k]
         /\ \A a \in Callers : a \in In(ready') => dispatch'.at \in {"none", "wait", "read"}
         /\ \A b \in Callers :
              at[b] \notin {"check", "connect", "opened", "write", "failed", "connected", "check_again"}
<1> USE DEF CInv, Connects, Net, Dispatches, Authenticates
<1> DEFINE S == Callers \cup {"dispatch"}
<1>1. /\ ready = <<>> /\ In(ready) = {} /\ dispatch.at # "new"
      /\ \A b \in Callers : at[b] \notin Steps
  BY Empty DEF Quiet, Scheduled
<1>2. dispatch.at \in {"none", "wait", "wait_data"}
  BY <1>1 DEF Scheduled, Typed, ChannelTypeOK
<1>3. /\ Closer(k) \in Seq(S) /\ Once(Closer(k)) /\ In(Closer(k)) = {closer[k]} \ {None}
      /\ closer[k] # None => closer[k] \in Callers /\ at[closer[k]] \in {"close", "auth_close"}
  <2>1. CASE closer[k] = None
    BY <2>1, Empty DEF Closer
  <2>2. CASE closer[k] # None
    BY <2>2, Single, SingleIn, Atoms DEF Closer, OneClosing
  <2> QED BY <2>1, <2>2
<1>4. CASE Reads(k)
  <2> DEFINE C == Closer(k)
             D == <<"dispatch">>
  <2>1. D \in Seq(S) /\ In(D) = {"dispatch"} /\ Once(D) /\ D # <<>> /\ Head(D) = "dispatch"
    BY Single, SingleIn
  <2>2. ready' = D \o C
    BY <1>4 DEF Reader
  <2>3. C \in Seq(S) /\ Once(C) /\ In(C) = {closer[k]} \ {None} /\ In(D) \cap In(C) = {}
    BY <1>3, <2>1, Atoms
  <2>4. /\ ready' \in Seq(S) /\ Once(ready') /\ In(ready') = {"dispatch"} \cup ({closer[k]} \ {None})
        /\ ready' # <<>> /\ Head(ready') = "dispatch"
    <3> HIDE DEF S, C, D
    <3>0. D \in Seq(S) /\ C \in Seq(S) /\ Once(D) /\ Once(C) /\ In(D) \cap In(C) = {} /\ D # <<>>
      BY <2>1, <2>3
    <3>1. /\ D \o C \in Seq(S) /\ In(D \o C) = In(D) \cup In(C) /\ Once(D \o C)
          /\ D \o C # <<>> /\ Head(D \o C) = Head(D)
      BY <3>0, ConcatIs
    <3> QED BY <2>1, <2>2, <2>3, <3>1
  <2>5. /\ dispatch'.at = "read" /\ dispatch'.for = dispatch.for /\ dispatch'.conn = dispatch.conn
        /\ dispatch' \in [at : {"none", "new", "loop", "pop", "wait", "read", "wait_data"},
                           for : Callers \cup {None}, conn : Conns \cup {None}]
    BY <1>4 DEF WakeReader, Typed, ChannelTypeOK
  <2>6. Scheduled'
    BY <1>1, <1>3, <2>4, <2>5, Atoms DEF Scheduled, Steps
  <2> QED BY <1>1, <1>2, <1>3, <1>4, <2>4, <2>5, <2>6, Atoms DEF Steps
<1>5. CASE ~Reads(k)
  <2>1. dispatch' = dispatch
    BY <1>5 DEF WakeReader
  <2>2. ready' = <<>> \/ ready' = Closer(k)
    BY <1>5 DEF Reader
  <2>3. /\ ready' \in Seq(S) /\ Once(ready') /\ In(ready') \subseteq {closer[k]} \ {None}
        /\ ready' = Closer(k) => In(ready') = {closer[k]} \ {None}
    <3>1. CASE ready' = Closer(k)
      BY <1>3, <3>1
    <3>2. CASE ready' = <<>> /\ ready' # Closer(k)
      <4>1. <<>> \in Seq(S)
        OBVIOUS
      <4> QED BY <3>2, <4>1, Empty
    <3> QED BY <2>2, <3>1, <3>2
  <2>4. Scheduled'
    BY <1>1, <1>2, <1>3, <2>1, <2>3, Atoms DEF Scheduled, Steps
  <2>5. closer[k] # None => dispatch.at \in {"none", "wait"}
    BY <1>2, <1>5, Atoms DEF Reads, ReadsFor, Reading, OneClosing
  <2> QED BY <1>1, <1>2, <1>3, <1>5, <2>1, <2>3, <2>4, <2>5, Atoms DEF Steps, Typed, ChannelTypeOK
<1> QED BY <1>4, <1>5

LEMMA DoData ==
  ASSUME CInv, NEW k \in Conns, Data(k)
  PROVE  CInv' /\ Calm
<1> USE DEF CInv, Connects, Net, Dispatches, Authenticates
<1>1. /\ Quiet /\ conn[k] = "open" /\ replies[k] # <<>> /\ WakeReader(k) /\ ready' = Reader(k)
      /\ replies' = [replies EXCEPT ![k] = Tail(replies[k])]
      /\ arrived' = [arrived EXCEPT ![k] = Append(arrived[k], Head(replies[k]))]
      /\ UNCHANGED <<sock, thread, connecting, authcoroutine, result, at,
                     request, conn, broken, closer, written, faults>>
  BY DEF Data, chan
<1>2. /\ Scheduled' /\ ready' \in Seq(Callers \cup {"dispatch"})
      /\ ready = <<>> /\ In(ready) = {} /\ dispatch.at \in {"none", "wait", "wait_data"}
      /\ dispatch' \in [at : {"none", "new", "loop", "pop", "wait", "read", "wait_data"},
                        for : Callers \cup {None}, conn : Conns \cup {None}]
      /\ dispatch'.for = dispatch.for /\ dispatch'.conn = dispatch.conn
      /\ Reads(k) => dispatch'.at = "read"
      /\ ~Reads(k) => dispatch' = dispatch
      /\ \A a \in Callers : a \in In(ready') => at[a] \in {"close", "auth_close"} /\ a = closer[k]
      /\ \A a \in Callers : a \in In(ready') => dispatch'.at \in {"none", "wait", "read"}
      /\ \A b \in Callers :
           at[b] \notin {"check", "connect", "opened", "write", "failed", "connected", "check_again"}
  BY <1>1, MessageStep
<1>U. /\ conn[k] = "open" /\ replies[k] # <<>>
      /\ replies'[k] = Tail(replies[k]) /\ arrived'[k] = Append(arrived[k], Head(replies[k]))
      /\ \A j \in Conns : j # k => replies'[j] = replies[j] /\ arrived'[j] = arrived[j]
      /\ UNCHANGED <<sock, thread, connecting, authcoroutine, result, at,
                     request, conn, broken, closer, written, faults>>
      /\ \/ dispatch'.at = dispatch.at
         \/ dispatch'.at = "read" /\ dispatch.at = "wait_data"
  BY <1>1, <1>2 DEF Typed, Reads
<1>5. Pend' = Pend
  BY <1>U, <1>2, PendSame DEF Reading
<1>6. \A b \in Callers : Command(b)' = Command(b)
  BY <1>1 DEF Command
<1>Scheduled. Scheduled'
  BY <1>2
<1>Typed. Typed'
  <2>1. IsSeq(arrived'[k]) /\ IsSeq(replies'[k])
    BY <1>U, TailAny, AppendAny DEF Typed
  <2>2. \A j \in Conns : IsSeq(arrived'[j]) /\ IsSeq(replies'[j])
    BY <1>U, <2>1 DEF Typed
  <2>3. ChannelTypeOK'
    BY <1>U, <1>2 DEF Typed, ChannelTypeOK
  <2> QED BY <1>1, <2>2, <2>3 DEF Typed
<1>Joins. Joins'
  BY <1>U, <1>2, Queue, Atoms DEF Joins
<1>Leads. Leads'
  BY <1>U, <1>2, <1>5, Atoms DEF Leads
<1>FreeClean. FreeClean'
  BY <1>U, <1>2, <1>5, Atoms DEF FreeClean, Clean
<1>OneOpening. OneOpening'
  BY <1>U, <1>2, <1>5, Atoms DEF OneOpening
<1>OpenUsed. OpenUsed'
  BY <1>U, <1>2, <1>5, Atoms DEF OpenUsed, Clean
<1>OneOpened. OneOpened'
  BY <1>U, <1>2, <1>5, Atoms DEF OneOpened
<1>OneClosing. OneClosing'
  BY <1>U, <1>2, <1>5, Atoms DEF OneClosing
<1>Broken. Broken'
  BY <1>U, <1>2, <1>5, Atoms DEF Broken
<1>SockOpen. SockOpen'
  BY <1>U, <1>2, <1>5, Atoms DEF SockOpen
<1>ReadsFor. ReadsFor'
  BY <1>U, <1>2, <1>5, Atoms DEF ReadsFor, Reading, Closing
<1>Serves. Serves'
  BY <1>U, <1>2, <1>5, Atoms DEF Serves, Closing, EndSignal
<1>Ends. Ends'
  BY <1>U, <1>2, <1>5, Atoms DEF Ends, Closing, EndSignal
<1>8. arrived'[k] # <<>>
  BY <1>U, AppendAny DEF Typed
<1>Wakes. Wakes'
  BY <1>U, <1>2, <1>8, Atoms DEF Wakes, Reads
<1>Signals. Signals'
  BY <1>U, <1>2, <1>5, Atoms DEF Signals
<1>AuthAlone. AuthAlone'
  BY <1>U, <1>2, <1>5, Atoms DEF AuthAlone
<1>AuthSock. AuthSock'
  BY <1>U, <1>2, <1>5, Atoms DEF AuthSock
<1>Writes. Writes'
  BY <1>U, <1>2, <1>5, Atoms DEF Writes
<1>WaitOnce. WaitOnce'
  BY <1>U, <1>2, <1>5, Atoms DEF WaitOnce
<1>Results. Results'
  BY <1>U, <1>2, <1>5, <1>6, Atoms DEF Results
<1>InOrder. InOrder'
  <2>1. ASSUME NEW j \in Conns, j # k, Answers(j) PROVE Answers(j)'
    BY <1>U, <1>5, <1>6, <2>1, AnswersSame
  <2>2. ASSUME Answers(k) PROVE Answers(k)'
    <3>0. PICK A, R, Q, RR, AA :
            /\ A = arrived[k] /\ R = replies[k] /\ Q = written[k]
            /\ RR = Tail(R) /\ AA = Append(A, Head(R))
      OBVIOUS
    <3>1. /\ Len(A) \in Nat /\ DOMAIN AA = 1 .. Len(A) + 1 /\ Len(AA) = Len(A) + 1
          /\ \A i \in 1 .. Len(A) : AA[i] = A[i]
          /\ AA[Len(A) + 1] = Head(R) /\ DOMAIN A = 1 .. Len(A)
      BY <3>0, AppendAny DEF Typed
    <3>2. /\ Len(R) \in Nat /\ Len(R) >= 1 /\ DOMAIN RR = 1 .. Len(R) - 1 /\ Len(RR) = Len(R) - 1
          /\ \A i \in 1 .. Len(R) - 1 : RR[i] = R[i + 1]
          /\ Head(R) = R[1] /\ DOMAIN R = 1 .. Len(R)
      BY <1>U, <3>0, TailAny DEF Typed
    <3>4. /\ \A i \in DOMAIN A : A[i].is \in {"ok", "refused"} /\ Fits(i, A[i].to)'
          /\ \A i \in DOMAIN R : R[i].is \in {"ok", "refused"} /\ Fits(Len(A) + i, R[i].to)'
          /\ \A i \in DOMAIN Q : Fits(Len(A) + Len(R) + i, Q[i])'
          /\ k = sock /\ k \notin broken => Len(Pend) = Len(A) + Len(R) + Len(Q)
      BY <1>5, <1>6, <2>2, <3>0, FitsSame DEF Answers
    <3>5. /\ arrived'[k] = AA /\ replies'[k] = RR /\ written'[k] = Q
          /\ sock' = sock /\ broken' = broken
      BY <1>U, <3>0
    <3>a. /\ Len(A) \in Nat /\ Len(R) \in Nat /\ Len(R) >= 1
          /\ Len(AA) = Len(A) + 1 /\ Len(RR) = Len(R) - 1
      BY <3>1, <3>2
    <3>6. Len(AA) + Len(RR) = Len(A) + Len(R)
      BY <3>a
    <3>7. ASSUME NEW i \in DOMAIN AA PROVE AA[i].is \in {"ok", "refused"} /\ Fits(i, AA[i].to)'
      <4>1. CASE i \in DOMAIN A
        BY <3>1, <3>4, <4>1
      <4>2. CASE i = Len(A) + 1
        <5>1. 1 \in DOMAIN R /\ AA[i] = R[1]
          BY <3>1, <3>2, <4>2
        <5> QED BY <3>4, <4>2, <5>1
      <4> QED BY <3>1, <3>7, <4>1, <4>2
    <3>8. ASSUME NEW i \in DOMAIN RR PROVE RR[i].is \in {"ok", "refused"} /\ Fits(Len(AA) + i, RR[i].to)'
      <4>1. i \in 1 .. Len(R) - 1 /\ RR[i] = R[i + 1] /\ DOMAIN R = 1 .. Len(R)
        BY <3>2, <3>8
      <4>2. i + 1 \in 1 .. Len(R) /\ Len(AA) + i = Len(A) + (i + 1)
        BY <3>a, <4>1
      <4> QED BY <3>4, <4>1, <4>2
    <3> QED BY <1>5, <3>4, <3>5, <3>6, <3>7, <3>8 DEF Answers
  <2> QED BY <1>U, <1>2, <2>1, <2>2 DEF InOrder, Reading
<1>Matched. Matched'
  BY <1>U, <1>2, <1>5, Atoms DEF Matched
<1>9. Resp(k)' \subseteq Resp(k)
  <2>1. IsSeq(arrived[k]) /\ IsSeq(replies[k])
    BY DEF Typed
  <2>2. In(arrived'[k]) = In(arrived[k]) \cup {Head(replies[k])}
    BY <1>U, <2>1, Contents
  <2>3. In(replies'[k]) \subseteq In(replies[k]) /\ Head(replies[k]) \in In(replies[k])
    BY <1>U, <2>1, Contents
  <2> QED BY <2>2, <2>3 DEF Resp
<1>10. \A j \in Conns : (Live(j)' <=> Live(j)) /\ Resp(j)' \subseteq Resp(j)
  BY <1>U, <1>2, <1>9 DEF Live, Resp, Reading
<1>Calm. Calm
  BY <1>U, <1>2, <1>10, Atoms DEF Calm, Pre, Has
<1> QED BY <1>Typed, <1>Scheduled, <1>Joins, <1>Leads, <1>FreeClean, <1>OneOpening, <1>OpenUsed,
           <1>OneOpened, <1>OneClosing, <1>Broken, <1>SockOpen, <1>ReadsFor, <1>Serves, <1>Ends,
           <1>Wakes, <1>Signals, <1>AuthAlone, <1>AuthSock, <1>Writes, <1>WaitOnce, <1>Results,
           <1>InOrder, <1>Matched, <1>Calm

LEMMA DoCloseMessage ==
  ASSUME CInv, NEW k \in Conns, CloseMessage(k)
  PROVE  CInv' /\ Calm
<1> USE DEF CInv, Connects, Net, Dispatches, Authenticates
<1>1. /\ Quiet /\ conn[k] = "open" /\ k \in broken /\ replies[k] = <<>> /\ WakeReader(k)
      /\ ready' = IF Reads(k) THEN Reader(k) ELSE Closer(k)
      /\ conn' = [conn EXCEPT ![k] = "lost"]
      /\ UNCHANGED <<sock, thread, connecting, authcoroutine, result, at,
                     request, broken, closer, written, replies, arrived, faults>>
  BY DEF CloseMessage, chan
<1>2. /\ Scheduled' /\ ready' \in Seq(Callers \cup {"dispatch"})
      /\ ready = <<>> /\ In(ready) = {} /\ dispatch.at \in {"none", "wait", "wait_data"}
      /\ dispatch' \in [at : {"none", "new", "loop", "pop", "wait", "read", "wait_data"},
                        for : Callers \cup {None}, conn : Conns \cup {None}]
      /\ dispatch'.for = dispatch.for /\ dispatch'.conn = dispatch.conn
      /\ Reads(k) => dispatch'.at = "read" /\ ready' # <<>> /\ Head(ready') = "dispatch"
      /\ ~Reads(k) => dispatch' = dispatch
      /\ closer[k] # None => closer[k] \in In(ready')
      /\ \A a \in Callers : a \in In(ready') => at[a] \in {"close", "auth_close"} /\ a = closer[k]
      /\ \A a \in Callers : a \in In(ready') => dispatch'.at \in {"none", "wait", "read"}
      /\ \A b \in Callers :
           at[b] \notin {"check", "connect", "opened", "write", "failed", "connected", "check_again"}
  BY <1>1, MessageStep
<1>U. /\ conn[k] = "open" /\ replies[k] = <<>> /\ k \in broken
      /\ conn'[k] = "lost" /\ \A j \in Conns : j # k => conn'[j] = conn[j]
      /\ UNCHANGED <<sock, thread, connecting, authcoroutine, result, at,
                     request, broken, closer, written, replies, arrived, faults>>
      /\ \/ dispatch'.at = dispatch.at
         \/ dispatch'.at = "read" /\ dispatch.at = "wait_data"
  BY <1>1, <1>2 DEF Typed, ChannelTypeOK, Reads
<1>5. Pend' = Pend
  BY <1>U, <1>2, PendSame DEF Reading
<1>6. \A b \in Callers : Command(b)' = Command(b)
  BY <1>1 DEF Command
<1>7. k = sock /\ Pend # <<>> => Reads(k)
  <2>1. k = sock /\ Pend # <<>> => dispatch.at = "wait_data"
    BY <1>2, PendIs, Atoms DEF Serves, Reading
  <2> QED BY <2>1, Atoms DEF ReadsFor, Reading, OneClosing, Reads
<1>Scheduled. Scheduled'
  BY <1>2
<1>Typed. Typed'
  <2>1. conn' \in [Conns -> {"none", "opening", "open", "lost"}]
    BY <1>1 DEF Typed, ChannelTypeOK
  <2>3. ChannelTypeOK'
    BY <1>U, <1>2, <2>1 DEF Typed, ChannelTypeOK
  <2> QED BY <1>1, <2>3 DEF Typed
<1>Joins. Joins'
  BY <1>U, <1>2, Queue, Atoms DEF Joins
<1>Leads. Leads'
  BY <1>U, <1>2, <1>5, Atoms DEF Leads
<1>FreeClean. FreeClean'
  BY <1>U, <1>2, <1>5, Atoms DEF FreeClean, Clean
<1>OneOpening. OneOpening'
  BY <1>U, <1>2, <1>5, Atoms DEF OneOpening
<1>OpenUsed. OpenUsed'
  BY <1>U, <1>2, <1>5, Atoms DEF OpenUsed, Clean
<1>OneOpened. OneOpened'
  BY <1>U, <1>2, <1>5, Atoms DEF OneOpened
<1>OneClosing. OneClosing'
  BY <1>U, <1>2, <1>5, Atoms DEF OneClosing
<1>Broken. Broken'
  BY <1>U, <1>2, <1>5, Atoms DEF Broken
<1>SockOpen. SockOpen'
  BY <1>U, <1>2, <1>5, <1>7, Atoms DEF SockOpen
<1>ReadsFor. ReadsFor'
  BY <1>U, <1>2, <1>5, Atoms DEF ReadsFor, Reading, Closing, Reads
<1>Serves. Serves'
  BY <1>U, <1>2, <1>5, Atoms DEF Serves, Closing, EndSignal
<1>Ends. Ends'
  BY <1>U, <1>2, <1>5, Atoms DEF Ends, Closing, EndSignal
<1>Wakes. Wakes'
  BY <1>U, <1>2, <1>5, Atoms DEF Wakes, Reads
<1>Signals. Signals'
  BY <1>U, <1>2, <1>5, Atoms DEF Signals
<1>AuthAlone. AuthAlone'
  BY <1>U, <1>2, <1>5, Atoms DEF AuthAlone
<1>AuthSock. AuthSock'
  BY <1>U, <1>2, <1>5, Atoms DEF AuthSock
<1>Writes. Writes'
  BY <1>U, <1>2, <1>5, Atoms DEF Writes
<1>WaitOnce. WaitOnce'
  BY <1>U, <1>2, <1>5, Atoms DEF WaitOnce
<1>Results. Results'
  BY <1>U, <1>2, <1>5, <1>6, Atoms DEF Results
<1>InOrder. InOrder'
  <2>1. ASSUME NEW j \in Conns, Answers(j) PROVE Answers(j)'
    BY <1>U, <1>5, <1>6, <2>1, AnswersSame
  <2> QED BY <1>U, <1>2, <2>1 DEF InOrder, Reading
<1>Matched. Matched'
  BY <1>U, <1>2, <1>5, Atoms DEF Matched
<1>Calm. Calm
  BY <1>U, <1>2, <1>5, Atoms DEF Calm, Pre, Has, Live, Resp, Reading
<1> QED BY <1>Typed, <1>Scheduled, <1>Joins, <1>Leads, <1>FreeClean, <1>OneOpening, <1>OpenUsed,
           <1>OneOpened, <1>OneClosing, <1>Broken, <1>SockOpen, <1>ReadsFor, <1>Serves, <1>Ends,
           <1>Wakes, <1>Signals, <1>AuthAlone, <1>AuthSock, <1>Writes, <1>WaitOnce, <1>Results,
           <1>InOrder, <1>Matched, <1>Calm

LEMMA DoPart ==
  ASSUME CInv, NEW k \in Conns, Part(k), ~cut'
  PROVE  CInv' /\ Calm
<1> USE DEF CInv, Connects, Net, Dispatches, Authenticates
<1>1. /\ Quiet /\ conn[k] = "open" /\ WakeReader(k) /\ ready' = Reader(k)
      /\ Reads(k) => closer[k] = None
      /\ UNCHANGED <<sock, thread, connecting, authcoroutine, result, at,
                     request, conn, broken, closer, written, replies, arrived, faults>>
  BY DEF Part, chan
<1>2. /\ Scheduled' /\ ready' \in Seq(Callers \cup {"dispatch"})
      /\ ready = <<>> /\ In(ready) = {} /\ dispatch.at \in {"none", "wait", "wait_data"}
      /\ dispatch' \in [at : {"none", "new", "loop", "pop", "wait", "read", "wait_data"},
                        for : Callers \cup {None}, conn : Conns \cup {None}]
      /\ dispatch'.for = dispatch.for /\ dispatch'.conn = dispatch.conn
      /\ Reads(k) => dispatch'.at = "read" /\ ready' # <<>> /\ Head(ready') = "dispatch"
      /\ ~Reads(k) => dispatch' = dispatch
      /\ Reads(k) => In(ready') = {"dispatch"} \cup ({closer[k]} \ {None})
      /\ \A a \in Callers : a \in In(ready') => at[a] \in {"close", "auth_close"} /\ a = closer[k]
      /\ \A a \in Callers : a \in In(ready') => dispatch'.at \in {"none", "wait", "read"}
      /\ \A b \in Callers :
           at[b] \notin {"check", "connect", "opened", "write", "failed", "connected", "check_again"}
  BY <1>1, MessageStep
<1>U. /\ conn[k] = "open" /\ (Reads(k) => closer[k] = None)
      /\ UNCHANGED <<sock, thread, connecting, authcoroutine, result, at,
                     request, conn, broken, closer, written, replies, arrived, faults>>
      /\ \/ dispatch'.at = dispatch.at
         \/ dispatch'.at = "read" /\ dispatch.at = "wait_data"
  BY <1>1, <1>2 DEF Reads
<1>5. Pend' = Pend
  BY <1>U, <1>2, PendSame DEF Reading
<1>6. \A b \in Callers : Command(b)' = Command(b)
  BY <1>1 DEF Command
<1>7. \A a \in Callers : a \in In(ready') => ~Reads(k)
  BY <1>U, <1>2, Atoms
<1>Scheduled. Scheduled'
  BY <1>2
<1>Typed. Typed'
  <2>1. ChannelTypeOK'
    BY <1>U, <1>2 DEF Typed, ChannelTypeOK
  <2> QED BY <1>1, <2>1 DEF Typed
<1>Joins. Joins'
  BY <1>U, <1>2, Queue, Atoms DEF Joins
<1>Leads. Leads'
  BY <1>U, <1>2, <1>5, Atoms DEF Leads
<1>FreeClean. FreeClean'
  BY <1>U, <1>2, <1>5, Atoms DEF FreeClean, Clean
<1>OneOpening. OneOpening'
  BY <1>U, <1>2, <1>5, Atoms DEF OneOpening
<1>OpenUsed. OpenUsed'
  BY <1>U, <1>2, <1>5, Atoms DEF OpenUsed, Clean
<1>OneOpened. OneOpened'
  BY <1>U, <1>2, <1>5, Atoms DEF OneOpened
<1>OneClosing. OneClosing'
  BY <1>U, <1>2, <1>5, Atoms DEF OneClosing
<1>Broken. Broken'
  BY <1>U, <1>2, <1>5, Atoms DEF Broken
<1>SockOpen. SockOpen'
  BY <1>U, <1>2, <1>5, <1>7, Atoms DEF SockOpen
<1>ReadsFor. ReadsFor'
  BY <1>U, <1>2, <1>5, Atoms DEF ReadsFor, Reading, Closing, Reads
<1>Serves. Serves'
  BY <1>U, <1>2, <1>5, Atoms DEF Serves, Closing, EndSignal
<1>Ends. Ends'
  BY <1>U, <1>2, <1>5, Atoms DEF Ends, Closing, EndSignal
<1>Wakes. Wakes'
  BY <1>U, <1>2, <1>5, <1>7, Atoms DEF Wakes, Reads
<1>Signals. Signals'
  BY <1>U, <1>2, <1>5, Atoms DEF Signals
<1>AuthAlone. AuthAlone'
  BY <1>U, <1>2, <1>5, Atoms DEF AuthAlone
<1>AuthSock. AuthSock'
  BY <1>U, <1>2, <1>5, Atoms DEF AuthSock
<1>Writes. Writes'
  BY <1>U, <1>2, <1>5, Atoms DEF Writes
<1>WaitOnce. WaitOnce'
  BY <1>U, <1>2, <1>5, Atoms DEF WaitOnce
<1>Results. Results'
  BY <1>U, <1>2, <1>5, <1>6, Atoms DEF Results
<1>InOrder. InOrder'
  <2>1. ASSUME NEW j \in Conns, Answers(j) PROVE Answers(j)'
    BY <1>U, <1>5, <1>6, <2>1, AnswersSame
  <2> QED BY <1>U, <1>2, <2>1 DEF InOrder, Reading
<1>Matched. Matched'
  BY <1>U, <1>2, <1>5, Atoms DEF Matched
<1>Calm. Calm
  BY <1>U, <1>2, <1>5, Atoms DEF Calm, Pre, Has, Live, Resp, Reading
<1> QED BY <1>Typed, <1>Scheduled, <1>Joins, <1>Leads, <1>FreeClean, <1>OneOpening, <1>OpenUsed,
           <1>OneOpened, <1>OneClosing, <1>Broken, <1>SockOpen, <1>ReadsFor, <1>Serves, <1>Ends,
           <1>Wakes, <1>Signals, <1>AuthAlone, <1>AuthSock, <1>Writes, <1>WaitOnce, <1>Results,
           <1>InOrder, <1>Matched, <1>Calm

-----------------------------------------------------------------------------
(* Connecting.                                                             *)

\* Appending to the second of two sequences.
LEMMA ConcatAppend ==
  ASSUME NEW S, NEW s \in Seq(S), NEW r \in Seq(S), NEW x \in S
  PROVE  s \o Append(r, x) = Append(s \o r, x)
OBVIOUS

\* x waits behind all others.
LEMMA PendPush ==
  ASSUME Typed, ReadsFor, NEW x \in Callers \cup {"signal"}, thread' = Append(thread, x),
         Reading' <=> Reading, dispatch'.for = dispatch.for
  PROVE  /\ Pend' = Append(Pend, x) /\ In(Pend') = In(Pend) \cup {x} /\ Len(Pend) \in Nat
         /\ Len(Pend') = Len(Pend) + 1 /\ Pend' # <<>>
         /\ DOMAIN Pend = 1 .. Len(Pend) /\ DOMAIN Pend' = 1 .. Len(Pend) + 1
         /\ \A i \in 1 .. Len(Pend) : Pend'[i] = Pend[i]
         /\ Pend'[Len(Pend) + 1] = x
         /\ Once(Pend) /\ x \notin In(Pend) => Once(Pend')
         /\ In(thread') = In(thread) \cup {x} /\ Len(thread') = Len(thread) + 1
         /\ DOMAIN thread = 1 .. Len(thread) /\ DOMAIN thread' = 1 .. Len(thread) + 1
         /\ Len(thread) \in Nat /\ thread' # <<>>
         /\ \A i \in 1 .. Len(thread) : thread'[i] = thread[i]
         /\ thread'[Len(thread) + 1] = x
         /\ thread' \in Seq(Callers \cup {"signal"})
<1> DEFINE S == Callers \cup {"signal"}
<1>1. thread \in Seq(S) /\ Pend \in Seq(S) /\ x \in S
  BY Types, PendIs
<1>2. /\ Append(thread, x) \in Seq(S) /\ Append(Pend, x) \in Seq(S)
      /\ Append(thread, x) # <<>> /\ Append(Pend, x) # <<>>
      /\ Len(Append(thread, x)) = Len(thread) + 1 /\ Len(Append(Pend, x)) = Len(Pend) + 1
      /\ \A i \in 1 .. Len(thread) : Append(thread, x)[i] = thread[i]
      /\ \A i \in 1 .. Len(Pend) : Append(Pend, x)[i] = Pend[i]
      /\ Append(thread, x)[Len(thread) + 1] = x /\ Append(Pend, x)[Len(Pend) + 1] = x
      /\ In(Append(thread, x)) = In(thread) \cup {x} /\ In(Append(Pend, x)) = In(Pend) \cup {x}
      /\ Once(Pend) /\ x \notin In(Pend) => Once(Append(Pend, x))
  BY <1>1, AppendIs, SMTT(30)
<1>3. /\ Len(thread) \in Nat /\ Len(Pend) \in Nat
      /\ DOMAIN thread = 1 .. Len(thread) /\ DOMAIN Pend = 1 .. Len(Pend)
  BY <1>1, Elements
<1>4. /\ DOMAIN Append(thread, x) = 1 .. Len(Append(thread, x))
      /\ DOMAIN Append(Pend, x) = 1 .. Len(Append(Pend, x))
  BY <1>2, Elements
<1>5. Pend' = Append(Pend, x)
  <2>1. CASE ~Reading
    <3>1. Pend' = <<>> \o Append(thread, x)
      BY <2>1 DEF Pend
    <3>2. <<>> \o Append(thread, x) = Append(thread, x)
      <4>1. <<>> \in Seq(S)
        OBVIOUS
      <4> HIDE DEF S
      <4> QED BY <1>2, <4>1, ConcatIs
    <3> QED BY <2>1, <3>1, <3>2, PendIs
  <2>2. CASE Reading
    <3> DEFINE f == <<dispatch.for>>
    <3>1. f \in Seq(S)
      BY <1>1, <2>2, SingleIn DEF ReadsFor
    <3>2. Pend' = f \o Append(thread, x) /\ Pend = f \o thread
      BY <2>2 DEF Pend
    <3>3. f \o Append(thread, x) = Append(f \o thread, x)
      <4> HIDE DEF f, S
      <4> QED BY <1>1, <3>1, ConcatAppend
    <3> QED BY <3>2, <3>3
  <2> QED BY <2>1, <2>2
<1> HIDE DEF S
<1>6. DOMAIN Pend' = 1 .. Len(Pend) + 1 /\ DOMAIN thread' = 1 .. Len(thread) + 1
  BY <1>2, <1>4, <1>5
<1> QED BY <1>2, <1>3, <1>5, <1>6 DEF S

LEMMA FitsGrow ==
  ASSUME NEW x, Len(Pend) \in Nat,
         DOMAIN Pend = 1 .. Len(Pend), DOMAIN Pend' = 1 .. Len(Pend) + 1,
         \A i \in 1 .. Len(Pend) : Pend'[i] = Pend[i],
         \A a \in Callers : a \in In(Pend) => Command(a)' = Command(a)
  PROVE  \A i, c : Fits(i, c) => Fits(i, c)'
<1>1. \A i \in 1 .. Len(Pend) : i \in 1 .. Len(Pend) + 1
  OBVIOUS
<1> QED BY <1>1 DEF Fits, In

LEMMA AnswersGrow ==
  ASSUME NEW k \in Conns, Answers(k), \A i, c : Fits(i, c) => Fits(i, c)',
         arrived'[k] = arrived[k], replies'[k] = replies[k], written'[k] = written[k],
         k # sock' \/ k \in broken'
  PROVE  Answers(k)'
<1>1. PICK A, R, Q : A = arrived[k] /\ R = replies[k] /\ Q = written[k]
  OBVIOUS
<1>2. /\ \A i \in DOMAIN A : A[i].is \in {"ok", "refused"} /\ Fits(i, A[i].to)'
      /\ \A i \in DOMAIN R : R[i].is \in {"ok", "refused"} /\ Fits(Len(A) + i, R[i].to)'
      /\ \A i \in DOMAIN Q : Fits(Len(A) + Len(R) + i, Q[i])'
  BY <1>1 DEF Answers
<1>3. arrived'[k] = A /\ replies'[k] = R /\ written'[k] = Q
  BY <1>1
<1> QED BY <1>2, <1>3 DEF Answers

LEMMA DoConnectOnce ==
  ASSUME CInv, NEW a \in Callers, ConnectOnce(a)
  PROVE  CInv' /\ Calm
<1> USE DEF CInv, Connects, Net, Dispatches, Authenticates
<1>1. /\ at[a] = "connect" /\ ready # <<>> /\ Head(ready) = a /\ Signal
      /\ at' = [at EXCEPT ![a] = "open"] /\ ready' = Tail(ready) \o Pushed
      /\ UNCHANGED <<sock, connecting, authcoroutine, result, request, broken, closer, written,
                     replies, arrived, faults>>
  BY DEF ConnectOnce, Runs, Yield, Go
<1>2. /\ ready = <<a>> /\ In(ready) = {a} /\ sock = None /\ authcoroutine = None
      /\ connecting # <<>> /\ Head(connecting) = a
      /\ \A b \in Callers : b # a => at[b] \notin {"connect", "open", "opened", "connected"}
  BY <1>1, Single DEF Scheduled, SockOpen, Leads
<1>3. dispatch.at \in {"none", "wait", "wait_data"}
  BY <1>1, <1>2, Atoms DEF Scheduled, Ends, Typed, ChannelTypeOK
<1>4. PICK k \in Conns : conn[k] = "none" /\ conn' = [conn EXCEPT ![k] = "opening"]
  <2>1. \E j \in Conns : conn[j] = "none"
    <3>1. \A j \in Conns : conn[j] # "none" => closer[j] # None
      BY <1>1, <1>2, Atoms DEF OneOpening, OpenUsed, Typed, ChannelTypeOK
    <3> QED BY <3>1, ChannelAssumption DEF OneClosing
  <2> QED BY <2>1 DEF ConnectOnce
<1>5. "signal" \notin In(thread) /\ (dispatch.at = "wait" => thread = <<>>)
  BY <1>1, <1>2 DEF Signals, Serves
<1>6. PICK p \in BOOLEAN :
        /\ p <=> dispatch.at # "none"
        /\ p => thread' = Append(thread, "signal")
        /\ ~p => thread' = thread
        /\ dispatch'.for = dispatch.for /\ dispatch'.conn = dispatch.conn
        /\ dispatch' \in [at : {"none", "new", "loop", "pop", "wait", "read", "wait_data"},
                          for : Callers \cup {None}, conn : Conns \cup {None}]
        /\ dispatch.at = "wait" => dispatch'.at = "pop" /\ Pushed = <<"dispatch">>
        /\ dispatch.at # "wait" => dispatch'.at = dispatch.at /\ Pushed = <<>>
  <2>1. dispatch \in [at : {"none", "new", "loop", "pop", "wait", "read", "wait_data"},
                      for : Callers \cup {None}, conn : Conns \cup {None}]
    BY DEF Typed, ChannelTypeOK
  <2>2. CASE dispatch.at = "none"
    BY <1>1, <2>1, <2>2 DEF Signal, Pushed
  <2>3. CASE dispatch.at = "wait"
    BY <1>1, <2>1, <2>3 DEF Signal, Push, PushedDispatch, Pushed
  <2>4. CASE dispatch.at = "wait_data"
    BY <1>1, <2>1, <2>4 DEF Signal, Push, PushedDispatch, Pushed
  <2> QED BY <1>3, <2>2, <2>3, <2>4
<1>7. /\ Scheduled' /\ ready' \in Seq(Callers \cup {"dispatch"})
      /\ at' \in [Callers -> Yields \cup Steps]
      /\ \A b \in Callers : b \notin In(ready')
      /\ \A b \in Callers : b # a =>
           at[b] \notin {"check", "connect", "opened", "write", "failed", "connected", "check_again"}
      /\ at'[a] = "open" /\ \A b \in Callers : b # a => at'[b] = at[b]
  <2>1. /\ Pushed \in Seq(Callers \cup {"dispatch"}) /\ Once(Pushed)
        /\ In(Pushed) = IF dispatch.at = "wait" THEN {"dispatch"} ELSE {}
    <3>1. <<>> \in Seq(Callers \cup {"dispatch"}) /\ <<"dispatch">> \in Seq(Callers \cup {"dispatch"})
      BY SingleIn
    <3>2. CASE dispatch.at = "wait"
      <4>1. Pushed = <<"dispatch">>
        BY <1>6, <3>2
      <4> QED BY <3>1, <3>2, <4>1, Single
    <3>3. CASE dispatch.at # "wait"
      <4>1. Pushed = <<>>
        BY <1>6, <3>3
      <4> QED BY <3>1, <3>3, <4>1, Empty
    <3> QED BY <3>2, <3>3
  <2>2. "open" \in Yields
    BY DEF Yields
  <2>3. /\ In(Pushed) \cap In(ready) = {} /\ \A b \in Callers : b \notin In(Pushed)
        /\ dispatch'.at \in {"loop", "pop", "read"} <=>
             dispatch.at \in {"loop", "pop", "read"} \/ "dispatch" \in In(Pushed)
        /\ dispatch'.at \in {"loop", "read"} => dispatch.at \in {"loop", "read"}
    BY <1>2, <1>3, <1>6, <2>1, Atoms
  <2>4. /\ Scheduled' /\ ready' \in Seq(Callers \cup {"dispatch"})
        /\ at' \in [Callers -> Yields \cup Steps]
        /\ In(ready') = (In(ready) \ {a}) \cup In(Pushed)
        /\ \A b \in Callers : b # a =>
             at[b] \notin {"check", "connect", "opened", "write", "failed", "connected", "check_again"}
        /\ at'[a] = "open" /\ \A b \in Callers : b # a => at'[b] = at[b]
    <3> HIDE DEF Pushed
    <3> QED BY <1>1, <2>1, <2>2, <2>3, CallerStep
  <2> QED BY <1>2, <2>1, <2>4, Atoms
<1>8. Reading' <=> Reading
  BY <1>3, <1>6 DEF Reading
<1>9. p => /\ In(Pend') = In(Pend) \cup {"signal"} /\ Len(Pend) \in Nat /\ Pend' # <<>>
           /\ DOMAIN Pend = 1 .. Len(Pend) /\ DOMAIN Pend' = 1 .. Len(Pend) + 1
           /\ \A i \in 1 .. Len(Pend) : Pend'[i] = Pend[i]
           /\ Once(Pend) /\ "signal" \notin In(Pend) => Once(Pend')
           /\ In(thread') = In(thread) \cup {"signal"} /\ Len(thread') = Len(thread) + 1
           /\ DOMAIN thread = 1 .. Len(thread) /\ DOMAIN thread' = 1 .. Len(thread) + 1
           /\ Len(thread) \in Nat /\ thread' # <<>>
           /\ \A i \in 1 .. Len(thread) : thread'[i] = thread[i]
           /\ thread' \in Seq(Callers \cup {"signal"})
  BY <1>6, <1>8, PendPush
<1>10. ~p => Pend' = Pend
  BY <1>6, <1>8, PendSame
<1>11. dispatch.at = "wait" => thread' = <<"signal">>
  BY <1>5, <1>6
<1>12. \A b \in Callers : Command(b)' = Command(b)
  BY <1>1 DEF Command
<1>U. /\ at[a] = "connect" /\ sock = None /\ authcoroutine = None
      /\ conn[k] = "none" /\ conn'[k] = "opening" /\ \A j \in Conns : j # k => conn'[j] = conn[j]
      /\ dispatch'.for = dispatch.for /\ dispatch'.conn = dispatch.conn
      /\ dispatch.at \in {"none", "wait", "wait_data"}
      /\ dispatch.at = "wait" => dispatch'.at = "pop" /\ thread' = <<"signal">>
      /\ dispatch.at # "wait" => dispatch'.at = dispatch.at
      /\ p <=> dispatch.at # "none"
      /\ ~p => thread' = thread
      /\ UNCHANGED <<sock, connecting, authcoroutine, result, request, broken, closer, written,
                     replies, arrived, faults>>
  BY <1>1, <1>2, <1>3, <1>4, <1>6, <1>11 DEF Typed, ChannelTypeOK
<1>13. /\ ~p => In(thread') = In(thread) /\ In(Pend') = In(Pend)
       /\ p => In(thread') = In(thread) \cup {"signal"} /\ In(Pend') = In(Pend) \cup {"signal"}
  BY <1>9, <1>10, <1>U
<1>14. dispatch.at = "wait_data" => Closing
  BY <1>U DEF ReadsFor, Reading
<1>Scheduled. Scheduled'
  BY <1>7
<1>Typed. Typed'
  <2>1. conn' \in [Conns -> {"none", "opening", "open", "lost"}]
    BY <1>4 DEF Typed, ChannelTypeOK
  <2>2. thread' \in Seq(Callers \cup {"signal"})
    BY <1>6, <1>9, Types
  <2>3. ChannelTypeOK'
    BY <1>1, <1>6, <1>7, <2>1, <2>2 DEF Typed, ChannelTypeOK
  <2> QED BY <1>1, <2>3 DEF Typed
<1>Joins. Joins'
  BY <1>U, <1>2, <1>7, Queue, Atoms DEF Joins
<1>Leads. Leads'
  BY <1>U, <1>2, <1>7, Queue, Atoms DEF Leads
<1>FreeClean. FreeClean'
  BY <1>U, <1>2, <1>7, Atoms DEF FreeClean, Clean
<1>OneOpening. OneOpening'
  BY <1>U, <1>2, <1>7, Atoms DEF OneOpening
<1>OpenUsed. OpenUsed'
  BY <1>U, <1>2, <1>7, Atoms DEF OpenUsed, Clean
<1>OneOpened. OneOpened'
  BY <1>U, <1>2, <1>7, Atoms DEF OneOpened
<1>OneClosing. OneClosing'
  BY <1>U, <1>2, <1>7, Atoms DEF OneClosing
<1>Broken. Broken'
  BY <1>U, <1>2, <1>7, Atoms DEF Broken
<1>SockOpen. SockOpen'
  BY <1>U, <1>2, <1>7, Atoms DEF SockOpen
<1>ReadsFor. ReadsFor'
  BY <1>U, <1>2, <1>7, Atoms DEF ReadsFor, Reading, Closing
<1>Serves. Serves'
  BY <1>U, <1>2, <1>7, <1>14, <1>5, Atoms DEF Serves, Closing, EndSignal
<1>Ends. Ends'
  BY <1>U, <1>2, <1>7, <1>14, Atoms DEF Ends, Closing, EndSignal
<1>Wakes. Wakes'
  BY <1>U, <1>2, <1>7, Atoms DEF Wakes
<1>Signals. Signals'
  <2>1. CASE p
    <3>1. \A i \in 1 .. Len(thread) + 1 : i \in 1 .. Len(thread) \/ i = Len(thread) + 1
      BY <1>9, <2>1
    <3>2. \A i \in 1 .. Len(thread) : thread'[i] # "signal"
      BY <1>5, <1>9, <2>1 DEF In
    <3> QED BY <1>7, <1>9, <2>1, <3>1, <3>2 DEF Signals
  <2>2. CASE ~p
    BY <1>U, <1>5, <1>7, <2>2 DEF Signals
  <2> QED BY <2>1, <2>2
<1>AuthAlone. AuthAlone'
  BY <1>U, Atoms DEF AuthAlone
<1>AuthSock. AuthSock'
  BY <1>U, Atoms DEF AuthSock
<1>Writes. Writes'
  BY <1>U, <1>2, <1>7, Atoms DEF Writes
<1>WaitOnce. WaitOnce'
  <2>1. "signal" \notin In(Pend)
    BY <1>5, PendIs, Atoms DEF ReadsFor
  <2> QED BY <1>U, <1>7, <1>9, <1>10, <1>13, <2>1, Atoms DEF WaitOnce
<1>Results. Results'
  BY <1>U, <1>7, <1>12, Atoms DEF Results
<1>InOrder. InOrder'
  <2>1. ASSUME NEW j \in Conns, Answers(j) PROVE Answers(j)'
    <3>1. CASE ~p
      BY <1>U, <1>10, <1>12, <2>1, <3>1, AnswersSame
    <3>2. CASE p
      <4>1. \A i, c : Fits(i, c) => Fits(i, c)'
        BY <1>9, <1>12, <3>2, FitsGrow
      <4> QED BY <1>U, <2>1, <4>1, AnswersGrow, Atoms
    <3> QED BY <3>1, <3>2
  <2> QED BY <1>U, <1>8, <2>1 DEF InOrder
<1>Matched. Matched'
  BY <1>U, <1>2, <1>7, Atoms DEF Matched
<1>Calm. Calm
  BY <1>U, <1>2, <1>7, Atoms DEF Calm, Pre, Has, Live, Resp, Reading
<1> QED BY <1>Typed, <1>Scheduled, <1>Joins, <1>Leads, <1>FreeClean, <1>OneOpening, <1>OpenUsed,
           <1>OneOpened, <1>OneClosing, <1>Broken, <1>SockOpen, <1>ReadsFor, <1>Serves, <1>Ends,
           <1>Wakes, <1>Signals, <1>AuthAlone, <1>AuthSock, <1>Writes, <1>WaitOnce, <1>Results,
           <1>InOrder, <1>Matched, <1>Calm

LEMMA DoOpened ==
  ASSUME CInv, NEW a \in Callers, NEW ok \in BOOLEAN, Opened(a, ok)
  PROVE  CInv' /\ Calm
<1> USE DEF CInv, Connects, Net, Dispatches, Authenticates
<1> DEFINE s == IF ok THEN "opened" ELSE "connected"
<1>1. /\ ready = <<>> /\ dispatch.at # "new" /\ at[a] = "open" /\ ready' = <<a>>
      /\ at' = [at EXCEPT ![a] = s]
      /\ \A k \in broken : conn[k] # "open"
      /\ ok => faults' = faults
      /\ ~ok => faults < MaxFault /\ faults' = faults + 1
      /\ UNCHANGED <<sock, thread, connecting, authcoroutine, result, dispatch, request, broken,
                     closer, written, replies, arrived>>
  BY DEF Opened, Quiet, Go, chan
<1>2. s \in Steps /\ s \in {"opened", "connected"} /\ (s = "opened" <=> ok)
  BY DEF Steps
<1> HIDE DEF s
<1>3. PICK k \in Conns :
        /\ conn[k] = "opening"
        /\ conn' = [conn EXCEPT ![k] = IF ok THEN "open" ELSE "none"]
  BY <1>1 DEF Opened, OneOpening
<1>4. /\ Scheduled' /\ In(ready) = {} /\ In(ready') = {a}
      /\ ready' # <<>> /\ Head(ready') = a
      /\ at'[a] = s /\ \A b \in Callers : b # a => at'[b] = at[b]
      /\ \A b \in Callers :
           at[b] \notin {"check", "connect", "opened", "write", "failed", "connected", "check_again"}
  BY <1>1, <1>2, OneReady
<1>5. Pend' = Pend
  BY <1>1, PendSame
<1>6. \A b \in Callers : Command(b)' = Command(b)
  BY <1>1 DEF Command
<1>7. /\ sock = None /\ authcoroutine = None /\ \A j \in Conns : closer[j] = None
      /\ connecting # <<>> /\ Head(connecting) = a
      /\ \A b \in Callers : b # a => at[b] \notin {"connect", "open", "opened", "connected"}
  <2>1. /\ sock = None /\ authcoroutine = None
        /\ connecting # <<>> /\ Head(connecting) = a
        /\ \A b \in Callers : b # a => at[b] \notin {"connect", "open", "opened", "connected"}
    BY <1>1 DEF SockOpen, Leads
  <2>2. ASSUME NEW j \in Conns, closer[j] # None PROVE FALSE
    <3>1. j \in broken /\ conn[j] # "lost" /\ conn[j] # "open"
      BY <1>1, <1>4, <2>2 DEF OneClosing
    <3>2. conn[j] \in {"none", "opening"}
      BY <3>1 DEF Typed, ChannelTypeOK
    <3> QED BY <2>2, <3>2 DEF FreeClean
  <2> QED BY <2>1, <2>2
<1>8. ~Reading /\ thread = <<>> /\ In(thread) = {} /\ dispatch.at = "none"
  <2>1. ~Reading
    BY <1>7 DEF ReadsFor, Closing
  <2>2. dispatch.at # "pop"
    BY <1>4 DEF Scheduled
  <2>3. thread = <<>> /\ dispatch.at = "none"
    BY <1>1, <1>7, <2>2 DEF Serves, Ends, Closing, EndSignal
  <2> QED BY <2>1, <2>3, Empty
<1>9. \A j \in Conns : conn[j] \notin {"open", "lost"}
  BY <1>4, <1>7, Atoms DEF OpenUsed
<1>U. /\ ready = <<>> /\ dispatch.at # "new" /\ at[a] = "open"
      /\ conn[k] = "opening" /\ \A j \in Conns : j # k => conn'[j] = conn[j]
      /\ s = "opened" => conn'[k] = "open"
      /\ s = "connected" => conn'[k] = "none"
      /\ s \in {"opened", "connected"}
      /\ UNCHANGED <<sock, thread, connecting, authcoroutine, result, dispatch, request, broken,
                     closer, written, replies, arrived>>
  BY <1>1, <1>2, <1>3 DEF Typed, ChannelTypeOK
<1>Scheduled. Scheduled'
  BY <1>4
<1>Typed. Typed'
  <2>1. conn' \in [Conns -> {"none", "opening", "open", "lost"}]
    BY <1>3 DEF Typed, ChannelTypeOK
  <2>2. faults' \in 0 .. MaxFault
    BY <1>1, ChannelAssumption DEF Typed, ChannelTypeOK
  <2>3. ready' \in Seq(Callers \cup {"dispatch"}) /\ at' \in [Callers -> Yields \cup Steps]
    BY <1>1, <1>2, SingleIn, Types
  <2>4. ChannelTypeOK'
    BY <1>U, <2>1, <2>2, <2>3 DEF Typed, ChannelTypeOK
  <2> QED BY <1>U, <2>4 DEF Typed
<1>Joins. Joins'
  BY <1>U, <1>4, Queue, Atoms DEF Joins
<1>Leads. Leads'
  BY <1>U, <1>4, <1>7, Queue, Atoms DEF Leads
<1>FreeClean. FreeClean'
  BY <1>U, <1>4, <1>5, <1>7, <1>8, <1>9, Atoms DEF FreeClean, Clean
<1>OneOpening. OneOpening'
  BY <1>U, <1>4, <1>5, <1>7, <1>8, <1>9, Atoms DEF OneOpening
<1>OpenUsed. OpenUsed'
  BY <1>U, <1>4, <1>5, <1>7, <1>8, <1>9, Atoms DEF OpenUsed, Clean, FreeClean
<1>OneOpened. OneOpened'
  BY <1>U, <1>4, <1>5, <1>7, <1>8, <1>9, Atoms DEF OneOpened
<1>OneClosing. OneClosing'
  BY <1>U, <1>4, <1>5, <1>7, <1>8, <1>9, Atoms DEF OneClosing
<1>Broken. Broken'
  BY <1>U, <1>4, <1>5, <1>7, <1>8, <1>9, Atoms DEF Broken
<1>SockOpen. SockOpen'
  BY <1>U, <1>4, <1>5, <1>7, <1>8, <1>9, Atoms DEF SockOpen
<1>ReadsFor. ReadsFor'
  BY <1>U, <1>4, <1>5, <1>7, <1>8, <1>9, Atoms DEF ReadsFor, Reading, Closing
<1>Serves. Serves'
  BY <1>U, <1>4, <1>5, <1>7, <1>8, <1>9, Atoms DEF Serves, Closing, EndSignal
<1>Ends. Ends'
  BY <1>U, <1>4, <1>5, <1>7, <1>8, <1>9, Atoms DEF Ends, Closing, EndSignal
<1>Wakes. Wakes'
  BY <1>U, <1>4, <1>5, <1>7, <1>8, <1>9, Atoms DEF Wakes
<1>Signals. Signals'
  BY <1>U, <1>4, <1>5, <1>7, <1>8, <1>9, Atoms DEF Signals
<1>AuthAlone. AuthAlone'
  BY <1>U, <1>4, <1>5, <1>7, <1>8, <1>9, Atoms DEF AuthAlone
<1>AuthSock. AuthSock'
  BY <1>U, <1>4, <1>5, <1>7, <1>8, <1>9, Atoms DEF AuthSock
<1>Writes. Writes'
  BY <1>U, <1>4, <1>5, <1>7, <1>8, <1>9, Atoms DEF Writes
<1>WaitOnce. WaitOnce'
  BY <1>U, <1>4, <1>5, <1>7, <1>8, <1>9, Atoms DEF WaitOnce
<1>Results. Results'
  BY <1>U, <1>4, <1>6, Atoms DEF Results
<1>InOrder. InOrder'
  BY <1>U, <1>7, <1>8, Atoms DEF InOrder, Reading
<1>Matched. Matched'
  BY <1>U, <1>4, <1>5, <1>7, <1>8, <1>9, Atoms DEF Matched
<1>Calm. Calm
  BY <1>U, <1>4, <1>5, <1>7, <1>8, <1>9, Atoms DEF Calm, Pre, Has, Live, Resp, Reading
<1> QED BY <1>Typed, <1>Scheduled, <1>Joins, <1>Leads, <1>FreeClean, <1>OneOpening, <1>OpenUsed,
           <1>OneOpened, <1>OneClosing, <1>Broken, <1>SockOpen, <1>ReadsFor, <1>Serves, <1>Ends,
           <1>Wakes, <1>Signals, <1>AuthAlone, <1>AuthSock, <1>Writes, <1>WaitOnce, <1>Results,
           <1>InOrder, <1>Matched, <1>Calm

LEMMA DoAuthenticate ==
  ASSUME CInv, NEW a \in Callers, Authenticate(a)
  PROVE  CInv' /\ Calm
<1> USE DEF CInv, Connects, Net, Dispatches, Authenticates
<1>1. /\ at[a] = "opened" /\ ready # <<>> /\ Head(ready) = a /\ dispatch.at = "none"
      /\ sock' = CHOOSE k \in Conns : conn[k] \in {"open", "lost"} /\ closer[k] = None
      /\ dispatch' = [NoDispatch EXCEPT !.at = "new"]
      /\ authcoroutine' = a
      /\ at' = [at EXCEPT ![a] = "check"] /\ ready' = ready \o <<>>
      /\ UNCHANGED <<thread, connecting, result, request, conn, broken, closer, written, replies,
                     arrived, faults>>
  BY DEF Authenticate, Runs, GoOn, Go, net
<1>2. /\ ready = <<a>> /\ In(ready) = {a} /\ sock = None /\ authcoroutine = None
      /\ connecting # <<>> /\ Head(connecting) = a /\ \A k \in Conns : closer[k] = None
      /\ \A b \in Callers : b # a => at[b] \notin {"connect", "open", "opened", "connected"}
  BY <1>1, Single DEF Scheduled, SockOpen, Leads, OneClosing
<1>3. PICK k \in Conns : /\ sock' = k /\ conn[k] = "open" /\ Clean(k)
                         /\ \A j \in Conns : conn[j] \in {"open", "lost"} => j = k
  <2>1. \E k \in Conns : conn[k] = "open"
    BY <1>1 DEF OneOpened
  <2>2. PICK k \in Conns : sock' = k /\ conn[k] \in {"open", "lost"}
    BY <1>1, <1>2, <2>1
  <2>3. conn[k] = "open" /\ Clean(k)
    BY <1>2, <2>2, Atoms DEF OpenUsed
  <2>4. \A j \in Conns : conn[j] \in {"open", "lost"} => j = k
    BY <1>1, <2>2 DEF OneOpened
  <2> QED BY <2>2, <2>3, <2>4
<1>4. /\ dispatch'.at = "new" /\ dispatch'.for = None /\ dispatch'.conn = None
      /\ dispatch' \in [at : {"none", "new", "loop", "pop", "wait", "read", "wait_data"},
                        for : Callers \cup {None}, conn : Conns \cup {None}]
  BY <1>1 DEF NoDispatch
<1>5. /\ Scheduled' /\ ready' = ready /\ at' \in [Callers -> Yields \cup Steps]
      /\ ready' \in Seq(Callers \cup {"dispatch"})
      /\ \A b \in Callers : b # a =>
           at[b] \notin {"check", "connect", "opened", "write", "failed", "connected", "check_again"}
      /\ at'[a] = "check" /\ \A b \in Callers : b # a => at'[b] = at[b]
  <2>1. <<>> \in Seq(Callers \cup {"dispatch"}) /\ "check" \in Steps
    BY DEF Steps
  <2> QED BY <1>1, <1>2, <1>4, <2>1, CallerStep, Empty
<1>6. /\ thread = <<>> /\ In(thread) = {} /\ Pend = <<>> /\ Pend' = <<>> /\ In(Pend') = {}
  <2>1. thread = <<>>
    BY <1>1, <1>2 DEF Serves, Closing, EndSignal
  <2>2. thread' = <<>> /\ ~Reading /\ ~Reading'
    BY <1>1, <1>4, <2>1 DEF Reading
  <2>3. Pend = <<>> /\ Pend' = <<>>
    BY <2>1, <2>2 DEF Pend
  <2> QED BY <2>1, <2>3, Empty
<1>7. \A b \in Callers : b # a => Command(b)' = Command(b)
  BY <1>1, <1>2, Atoms DEF Command
<1>U. /\ at[a] = "opened" /\ dispatch.at = "none" /\ authcoroutine' = a
      /\ UNCHANGED <<thread, connecting, result, request, conn, broken, closer, written, replies,
                     arrived, faults>>
  BY <1>1
<1>Scheduled. Scheduled'
  BY <1>5
<1>Typed. Typed'
  <2>1. ChannelTypeOK'
    BY <1>U, <1>3, <1>4, <1>5 DEF Typed, ChannelTypeOK
  <2> QED BY <1>U, <2>1 DEF Typed
<1>Joins. Joins'
  BY <1>U, <1>5, Queue, Atoms DEF Joins
<1>Leads. Leads'
  BY <1>U, <1>2, <1>5, Queue, Atoms DEF Leads
<1>FreeClean. FreeClean'
  BY <1>U, <1>2, <1>3, <1>4, <1>5, <1>6, Atoms DEF FreeClean, Clean
<1>OneOpening. OneOpening'
  BY <1>U, <1>2, <1>3, <1>4, <1>5, <1>6, Atoms DEF OneOpening
<1>OpenUsed. OpenUsed'
  BY <1>U, <1>2, <1>3, <1>4, <1>5, <1>6, Atoms DEF OpenUsed, Clean
<1>OneOpened. OneOpened'
  BY <1>U, <1>2, <1>3, <1>4, <1>5, <1>6, Atoms DEF OneOpened
<1>OneClosing. OneClosing'
  BY <1>U, <1>2, <1>3, <1>4, <1>5, <1>6, Atoms DEF OneClosing
<1>Broken. Broken'
  BY <1>U, <1>2, <1>3, <1>4, <1>5, <1>6, Atoms DEF Broken
<1>SockOpen. SockOpen'
  BY <1>U, <1>2, <1>3, <1>4, <1>5, <1>6, Atoms DEF SockOpen
<1>ReadsFor. ReadsFor'
  BY <1>U, <1>2, <1>3, <1>4, <1>5, <1>6, Atoms DEF ReadsFor, Reading, Closing
<1>Serves. Serves'
  BY <1>U, <1>2, <1>3, <1>4, <1>5, <1>6, Atoms DEF Serves, Closing, EndSignal
<1>Ends. Ends'
  BY <1>U, <1>2, <1>3, <1>4, <1>5, <1>6, Atoms DEF Ends, Closing, EndSignal
<1>Wakes. Wakes'
  BY <1>U, <1>2, <1>3, <1>4, <1>5, <1>6, Atoms DEF Wakes
<1>Signals. Signals'
  BY <1>U, <1>2, <1>3, <1>4, <1>5, <1>6, Atoms DEF Signals
<1>AuthAlone. AuthAlone'
  BY <1>U, <1>2, <1>3, <1>4, <1>5, <1>6, Atoms DEF AuthAlone
<1>AuthSock. AuthSock'
  BY <1>U, <1>2, <1>3, <1>4, <1>5, <1>6, Atoms DEF AuthSock
<1>Writes. Writes'
  BY <1>U, <1>2, <1>3, <1>4, <1>5, <1>6, Atoms DEF Writes
<1>WaitOnce. WaitOnce'
  BY <1>U, <1>2, <1>3, <1>4, <1>5, <1>6, Empty, Atoms DEF WaitOnce
<1>Results. Results'
  BY <1>U, <1>2, <1>5, <1>7, Atoms DEF Results
<1>InOrder. InOrder'
  <2>1. arrived'[k] = <<>> /\ replies'[k] = <<>> /\ written'[k] = <<>>
    BY <1>U, <1>3 DEF Clean
  <2>2. Answers(k)'
    BY <1>6, <2>1, Empty DEF Answers
  <2> QED BY <1>3, <1>4, <2>2 DEF InOrder, Reading
<1>Matched. Matched'
  BY <1>U, <1>2, <1>3, <1>4, <1>5, <1>6, Atoms DEF Matched
<1>8. In(written'[k]) = {} /\ Resp(k)' = {} /\ \A j \in Conns : Live(j)' => j = k
  BY <1>U, <1>3, <1>4, Empty, Atoms DEF Clean, Resp, Live, Reading
<1>Calm. Calm
  BY <1>U, <1>2, <1>3, <1>5, <1>8, Atoms DEF Calm, Pre, Has
<1> QED BY <1>Typed, <1>Scheduled, <1>Joins, <1>Leads, <1>FreeClean, <1>OneOpening, <1>OpenUsed,
           <1>OneOpened, <1>OneClosing, <1>Broken, <1>SockOpen, <1>ReadsFor, <1>Serves, <1>Ends,
           <1>Wakes, <1>Signals, <1>AuthAlone, <1>AuthSock, <1>Writes, <1>WaitOnce, <1>Results,
           <1>InOrder, <1>Matched, <1>Calm

-----------------------------------------------------------------------------
(* Writing.                                                                *)

\* The connection is found broken: the caller closes it.
LEMMA DoWriteBroken ==
  ASSUME CInv, NEW a \in Callers, Write(a), sock \in broken
  PROVE  CInv' /\ Calm
<1> USE DEF CInv, Connects, Net, Dispatches, Authenticates
<1>1. /\ at[a] = "write" /\ ready # <<>> /\ Head(ready) = a
      /\ sock' = None /\ closer' = [closer EXCEPT ![sock] = a]
      /\ at' = [at EXCEPT ![a] = "close"] /\ ready' = Tail(ready) \o <<>>
      /\ UNCHANGED <<thread, dispatch, written, connecting, authcoroutine, result, request, conn,
                     broken, replies, arrived, faults>>
  BY DEF Write, Runs, Yield, Go
<1>2. /\ sock # None /\ sock \in Conns /\ conn[sock] = "open" /\ authcoroutine \in {None, a}
      /\ \A k \in Conns : closer[k] = None
      /\ \A b \in Callers : at[b] \notin {"connect", "open", "opened"}
  BY <1>1, Atoms DEF Writes, OneClosing, SockOpen
<1>4. /\ Scheduled' /\ a \in In(ready)
      /\ ready' \in Seq(Callers \cup {"dispatch"}) /\ at' \in [Callers -> Yields \cup Steps]
      /\ In(ready') = In(ready) \ {a}
      /\ dispatch.at \notin {"loop", "read"}
      /\ \A b \in Callers : b # a =>
           at[b] \notin {"check", "connect", "opened", "write", "failed", "connected", "check_again"}
      /\ at'[a] = "close" /\ \A b \in Callers : b # a => at'[b] = at[b]
  <2>1. "close" \in Yields
    BY DEF Yields
  <2> QED BY <1>1, <2>1, CallerAlone
<1>U. /\ at[a] = "write" /\ sock' = None /\ sock \in broken
      /\ closer'[sock] = a /\ \A k \in Conns : k # sock => closer'[k] = closer[k]
      /\ UNCHANGED <<thread, dispatch, written, connecting, authcoroutine, result, request, conn,
                     broken, replies, arrived, faults>>
  BY <1>1, <1>2 DEF Typed, ChannelTypeOK
<1>5. Pend' = Pend
  BY <1>U, PendSame
<1>6. \A b \in Callers : Command(b)' = Command(b)
  BY <1>U DEF Command
<1>7. a \notin In(Pend)
  BY <1>U DEF WaitOnce
<1>Scheduled. Scheduled'
  BY <1>4
<1>Typed. Typed'
  <2>1. closer' \in [Conns -> Callers \cup {None}]
    BY <1>1, <1>2 DEF Typed, ChannelTypeOK
  <2>2. ChannelTypeOK'
    BY <1>U, <1>4, <2>1 DEF Typed, ChannelTypeOK
  <2> QED BY <1>U, <2>2 DEF Typed
<1>Joins. Joins'
  BY <1>U, <1>4, Queue, Atoms DEF Joins
<1>Leads. Leads'
  BY <1>U, <1>2, <1>4, Queue, Atoms DEF Leads
<1>FreeClean. FreeClean'
  BY <1>U, <1>2, <1>4, <1>5, <1>7, Atoms DEF FreeClean, Clean
<1>OneOpening. OneOpening'
  BY <1>U, <1>2, <1>4, <1>5, <1>7, Atoms DEF OneOpening
<1>OpenUsed. OpenUsed'
  BY <1>U, <1>2, <1>4, <1>5, <1>7, Atoms DEF OpenUsed, Clean
<1>OneOpened. OneOpened'
  BY <1>U, <1>2, <1>4, <1>5, <1>7, Atoms DEF OneOpened
<1>OneClosing. OneClosing'
  BY <1>U, <1>2, <1>4, <1>5, <1>7, Atoms DEF OneClosing
<1>Broken. Broken'
  BY <1>U, <1>2, <1>4, <1>5, <1>7, Atoms DEF Broken
<1>SockOpen. SockOpen'
  BY <1>U, <1>2, <1>4, <1>5, <1>7, Atoms DEF SockOpen
<1>ReadsFor. ReadsFor'
  BY <1>U, <1>2, <1>4, <1>5, <1>7, Atoms DEF ReadsFor, Reading, Closing
<1>Serves. Serves'
  BY <1>U, <1>2, <1>4, <1>5, <1>7, Atoms DEF Serves, Closing, EndSignal
<1>Ends. Ends'
  BY <1>U, <1>2, <1>4, <1>5, <1>7, Atoms DEF Ends, Closing, EndSignal
<1>Wakes. Wakes'
  BY <1>U, <1>2, <1>4, <1>5, <1>7, Atoms DEF Wakes
<1>Signals. Signals'
  BY <1>U, <1>2, <1>4, <1>5, <1>7, Atoms DEF Signals
<1>AuthAlone. AuthAlone'
  BY <1>U, <1>2, <1>4, <1>5, <1>7, Atoms DEF AuthAlone
<1>AuthSock. AuthSock'
  BY <1>U, <1>2, <1>4, <1>5, <1>7, Atoms DEF AuthSock
<1>Writes. Writes'
  BY <1>U, <1>2, <1>4, <1>5, <1>7, Atoms DEF Writes
<1>WaitOnce. WaitOnce'
  BY <1>U, <1>2, <1>4, <1>5, <1>7, Atoms DEF WaitOnce
<1>Results. Results'
  BY <1>U, <1>4, <1>6, Atoms DEF Results
<1>InOrder. InOrder'
  <2>1. ASSUME NEW k \in Conns, Answers(k) PROVE Answers(k)'
    BY <1>U, <1>5, <1>6, <2>1, AnswersSame, Atoms
  <2> QED BY <1>U, <2>1, Atoms DEF InOrder, Reading
<1>Matched. Matched'
  BY <1>U, <1>2, <1>4, <1>5, <1>7, Atoms DEF Matched
<1>Calm. Calm
  BY <1>U, <1>2, <1>4, <1>5, <1>7, Atoms DEF Calm, Pre, Has, Live, Resp, Reading
<1> QED BY <1>Typed, <1>Scheduled, <1>Joins, <1>Leads, <1>FreeClean, <1>OneOpening, <1>OpenUsed,
           <1>OneOpened, <1>OneClosing, <1>Broken, <1>SockOpen, <1>ReadsFor, <1>Serves, <1>Ends,
           <1>Wakes, <1>Signals, <1>AuthAlone, <1>AuthSock, <1>Writes, <1>WaitOnce, <1>Results,
           <1>InOrder, <1>Matched, <1>Calm

LEMMA DoAuthCloseOpen ==
  ASSUME CInv, NEW a \in Callers, AuthClose(a), conn[sock] # "lost"
  PROVE  CInv' /\ Calm
<1> USE DEF CInv, Connects, Net, Dispatches, Authenticates
<1>1. /\ at[a] = "failed" /\ ready # <<>> /\ Head(ready) = a
      /\ authcoroutine = a /\ sock # None
      /\ sock' = None /\ broken' = broken \cup {sock} /\ closer' = [closer EXCEPT ![sock] = a]
      /\ at' = [at EXCEPT ![a] = "auth_close"] /\ ready' = Tail(ready) \o <<>>
      /\ UNCHANGED <<thread, dispatch, written, connecting, authcoroutine, result, request, conn,
                     replies, arrived, faults>>
  BY DEF AuthClose, Runs, Yield, Go
<1>2. /\ sock # None /\ sock \in Conns /\ conn[sock] = "open" /\ authcoroutine = a
      /\ \A k \in Conns : closer[k] = None
      /\ \A b \in Callers : at[b] \notin {"connect", "open", "opened"}
  BY <1>1, Atoms DEF OneClosing, SockOpen
<1>4. /\ Scheduled' /\ a \in In(ready)
      /\ ready' \in Seq(Callers \cup {"dispatch"}) /\ at' \in [Callers -> Yields \cup Steps]
      /\ In(ready') = In(ready) \ {a}
      /\ dispatch.at \notin {"loop", "read"}
      /\ \A b \in Callers : b # a =>
           at[b] \notin {"check", "connect", "opened", "write", "failed", "connected", "check_again"}
      /\ at'[a] = "auth_close" /\ \A b \in Callers : b # a => at'[b] = at[b]
  <2>1. "auth_close" \in Yields
    BY DEF Yields
  <2> QED BY <1>1, <2>1, CallerAlone
<1>U. /\ at[a] = "failed" /\ sock' = None
      /\ broken' \subseteq Conns /\ \A k \in Conns : k \in broken' <=> k \in broken \/ k = sock
      /\ closer'[sock] = a /\ \A k \in Conns : k # sock => closer'[k] = closer[k]
      /\ UNCHANGED <<thread, dispatch, written, connecting, authcoroutine, result, request, conn,
                     replies, arrived, faults>>
  BY <1>1, <1>2 DEF Typed, ChannelTypeOK
<1>5. Pend' = Pend
  BY <1>U, PendSame
<1>6. \A b \in Callers : Command(b)' = Command(b)
  BY <1>U DEF Command
<1>7. a \notin In(Pend) /\ Pend = <<>> /\ thread = <<>> /\ ~Reading /\ written[sock] = <<>>
  <2>1. a \notin In(Pend)
    BY <1>U DEF WaitOnce
  <2>2. In(Pend) = {}
    BY <1>2, <2>1, Atoms DEF AuthAlone
  <2>3. Pend \in Seq(Callers \cup {"signal"})
    BY PendIs
  <2>4. Pend = <<>>
    BY <2>2, <2>3, Elements DEF In
  <2>5. ~Reading /\ thread = <<>>
    BY <2>4, PendIs
  <2>6. DOMAIN written[sock] = {}
    BY <1>2, <2>4, Empty DEF InOrder, Answers, Fits
  <2>7. written[sock] = <<>>
    <3>1. written[sock] \in Seq(In(written[sock]))
      BY <1>2 DEF Typed, IsSeq
    <3>2. In(written[sock]) = {}
      BY <2>6 DEF In
    <3> QED BY <3>1, <3>2, Elements
  <2> QED BY <2>1, <2>4, <2>5, <2>7
<1>Scheduled. Scheduled'
  BY <1>4
<1>Typed. Typed'
  <2>1. closer' \in [Conns -> Callers \cup {None}]
    BY <1>1, <1>2 DEF Typed, ChannelTypeOK
  <2>2. ChannelTypeOK'
    BY <1>U, <1>4, <2>1 DEF Typed, ChannelTypeOK
  <2> QED BY <1>U, <2>2 DEF Typed
<1>Joins. Joins'
  BY <1>U, <1>4, Queue, Atoms DEF Joins
<1>Leads. Leads'
  BY <1>U, <1>2, <1>4, Queue, Atoms DEF Leads
<1>FreeClean. FreeClean'
  BY <1>U, <1>2, <1>4, <1>5, <1>7, Atoms DEF FreeClean, Clean
<1>OneOpening. OneOpening'
  BY <1>U, <1>2, <1>4, <1>5, <1>7, Atoms DEF OneOpening
<1>OpenUsed. OpenUsed'
  BY <1>U, <1>2, <1>4, <1>5, <1>7, Atoms DEF OpenUsed, Clean
<1>OneOpened. OneOpened'
  BY <1>U, <1>2, <1>4, <1>5, <1>7, Atoms DEF OneOpened
<1>OneClosing. OneClosing'
  BY <1>U, <1>2, <1>4, <1>5, <1>7, Atoms DEF OneClosing
<1>Broken. Broken'
  BY <1>U, <1>2, <1>4, <1>5, <1>7, Atoms DEF Broken
<1>SockOpen. SockOpen'
  BY <1>U, <1>2, <1>4, <1>5, <1>7, Atoms DEF SockOpen
<1>ReadsFor. ReadsFor'
  BY <1>U, <1>2, <1>4, <1>5, <1>7, Atoms DEF ReadsFor, Reading, Closing
<1>Serves. Serves'
  BY <1>U, <1>2, <1>4, <1>5, <1>7, Atoms DEF Serves, Closing, EndSignal
<1>Ends. Ends'
  BY <1>U, <1>2, <1>4, <1>5, <1>7, Atoms DEF Ends, Closing, EndSignal
<1>Wakes. Wakes'
  BY <1>U, <1>2, <1>4, <1>5, <1>7, Atoms DEF Wakes
<1>Signals. Signals'
  BY <1>U, <1>2, <1>4, <1>5, <1>7, Atoms DEF Signals
<1>AuthAlone. AuthAlone'
  BY <1>U, <1>2, <1>4, <1>5, <1>7, Atoms DEF AuthAlone
<1>AuthSock. AuthSock'
  BY <1>U, <1>2, <1>4, <1>5, <1>7, Atoms DEF AuthSock
<1>Writes. Writes'
  BY <1>U, <1>2, <1>4, <1>5, <1>7, Atoms DEF Writes
<1>WaitOnce. WaitOnce'
  BY <1>U, <1>2, <1>4, <1>5, <1>7, Atoms DEF WaitOnce
<1>Results. Results'
  BY <1>U, <1>4, <1>6, Atoms DEF Results
<1>InOrder. InOrder'
  <2>1. ASSUME NEW k \in Conns, Answers(k) PROVE Answers(k)'
    BY <1>U, <1>5, <1>6, <2>1, AnswersSame, Atoms
  <2> QED BY <1>U, <2>1, Atoms DEF InOrder, Reading
<1>Matched. Matched'
  BY <1>U, <1>2, <1>4, <1>5, <1>7, Atoms DEF Matched
<1>Calm. Calm
  BY <1>U, <1>2, <1>4, <1>5, <1>7, Atoms DEF Calm, Pre, Has, Live, Resp, Reading
<1> QED BY <1>Typed, <1>Scheduled, <1>Joins, <1>Leads, <1>FreeClean, <1>OneOpening, <1>OpenUsed,
           <1>OneOpened, <1>OneClosing, <1>Broken, <1>SockOpen, <1>ReadsFor, <1>Serves, <1>Ends,
           <1>Wakes, <1>Signals, <1>AuthAlone, <1>AuthSock, <1>Writes, <1>WaitOnce, <1>Results,
           <1>InOrder, <1>Matched, <1>Calm

LEMMA DoAuthCloseLost ==
  ASSUME CInv, NEW a \in Callers, AuthClose(a), conn[sock] = "lost"
  PROVE  CInv' /\ Calm
<1> USE DEF CInv, Connects, Net, Dispatches, Authenticates
<1>1. /\ at[a] = "failed" /\ ready # <<>> /\ Head(ready) = a /\ CloseLost
      /\ UNCHANGED <<thread, connecting, authcoroutine, result, dispatch, request>>
  BY DEF AuthClose, Runs
<1>2. at' = at /\ ready' = ready /\ Lost /\ authcoroutine = a
  BY DEF AuthClose, Lost
<1>4. /\ Scheduled' /\ a \in In(ready)
      /\ ready' \in Seq(Callers \cup {"dispatch"}) /\ at' \in [Callers -> Yields \cup Steps]
      /\ ready' = ready
      /\ dispatch.at \notin {"loop", "read"}
      /\ \A b \in Callers : b # a =>
           at[b] \notin {"check", "connect", "opened", "write", "failed", "connected", "check_again"}
      /\ at'[a] = "failed" /\ \A b \in Callers : b # a => at'[b] = at[b]
  <2>1. at' = [at EXCEPT ![a] = "failed"] /\ ready' = ready \o <<>>
    BY <1>1, <1>2, Types
  <2>2. "failed" \in Steps
    BY DEF Steps
  <2> QED BY <1>1, <1>2, <2>1, <2>2, CallerAlone
<1>U. /\ at[a] = "failed" /\ ready # <<>> /\ Head(ready) = a
      /\ UNCHANGED <<thread, connecting, authcoroutine, result, dispatch, request>>
  BY <1>1
<1>5. Pend' = Pend
  BY <1>1, PendSame
<1>6. \A b \in Callers : Command(b)' = Command(b)
  BY <1>1 DEF Command
<1>7. /\ Pend = <<>> /\ thread = <<>> /\ ~Reading /\ In(Pend) = {}
      /\ Lost /\ authcoroutine = a
  <2>1. Head(ready) # "dispatch"
    BY <1>1, Types
  <2>2. Pend = <<>>
    BY <1>2, <2>1 DEF SockOpen, Lost
  <2> QED BY <1>2, <2>2, PendIs, Empty
<1>8. /\ sock' = IF Lost THEN None ELSE sock
      /\ \A k \in Conns : ~Lost \/ k # sock =>
           /\ conn'[k] = conn[k] /\ closer'[k] = closer[k] /\ (k \in broken' <=> k \in broken)
           /\ written'[k] = written[k] /\ replies'[k] = replies[k] /\ arrived'[k] = arrived[k]
      /\ Lost => /\ sock \in Conns /\ conn'[sock] = "none" /\ sock \notin broken'
                 /\ closer'[sock] = None
                 /\ written'[sock] = <<>> /\ replies'[sock] = <<>> /\ arrived'[sock] = <<>>
      /\ broken' \subseteq Conns
  BY <1>1, LostIs
<1>Scheduled. Scheduled'
  BY <1>4
<1>Typed. Typed'
  <2>1. ChannelTypeOK'
    BY <1>1, <1>4, <1>8, LostIs DEF Typed, ChannelTypeOK
  <2> QED BY <1>1, <2>1, LostIs DEF Typed
<1>Joins. Joins'
  BY <1>U, <1>4, Queue, Atoms DEF Joins
<1>Leads. Leads'
  BY <1>U, <1>4, <1>7, Queue, Atoms DEF Leads
<1>FreeClean. FreeClean'
  BY <1>U, <1>4, <1>5, <1>7, <1>8, Atoms DEF FreeClean, Clean
<1>OneOpening. OneOpening'
  BY <1>U, <1>4, <1>5, <1>7, <1>8, Atoms DEF OneOpening, Lost
<1>OpenUsed. OpenUsed'
  BY <1>U, <1>4, <1>5, <1>7, <1>8, Atoms DEF OpenUsed, Clean, Lost
<1>OneOpened. OneOpened'
  BY <1>U, <1>4, <1>5, <1>7, <1>8, Atoms DEF OneOpened, Lost
<1>OneClosing. OneClosing'
  BY <1>U, <1>4, <1>5, <1>7, <1>8, SMTT(30), Atoms DEF OneClosing, Lost
<1>Broken. Broken'
  BY <1>U, <1>4, <1>5, <1>7, <1>8, Atoms DEF Broken
<1>SockOpen. SockOpen'
  BY <1>U, <1>4, <1>5, <1>7, <1>8, Atoms DEF SockOpen, Lost
<1>ReadsFor. ReadsFor'
  BY <1>U, <1>4, <1>5, <1>7, <1>8, Atoms DEF ReadsFor, Reading, Closing, Lost, OneClosing
<1>Serves. Serves'
  BY <1>U, <1>4, <1>5, <1>7, <1>8, Atoms DEF Serves, Closing, EndSignal, Lost, OneClosing
<1>Ends. Ends'
  BY <1>U, <1>4, <1>5, <1>7, <1>8, SMTT(30), Atoms
     DEF Ends, Closing, EndSignal, Lost, OneClosing
<1>Wakes. Wakes'
  BY <1>U, <1>4, <1>5, <1>7, <1>8, Atoms DEF Wakes
<1>Signals. Signals'
  BY <1>U, <1>4, <1>5, <1>7, <1>8, Atoms DEF Signals
<1>AuthAlone. AuthAlone'
  BY <1>U, <1>4, <1>5, <1>7, <1>8, Atoms DEF AuthAlone
<1>AuthSock. AuthSock'
  BY <1>U, <1>4, <1>5, <1>7, <1>8, Atoms DEF AuthSock
<1>Writes. Writes'
  BY <1>U, <1>4, <1>5, <1>7, <1>8, Atoms DEF Writes
<1>WaitOnce. WaitOnce'
  BY <1>U, <1>4, <1>5, <1>7, <1>8, Atoms DEF WaitOnce
<1>Results. Results'
  BY <1>U, <1>4, <1>6, Atoms DEF Results
<1>InOrder. InOrder'
  <2>1. ASSUME NEW k \in Conns, Answers(k), ~Lost PROVE Answers(k)'
    BY <1>1, <1>5, <1>6, <1>8, <2>1, AnswersSame
  <2> QED BY <1>1, <1>7, <1>8, <2>1, Types DEF InOrder, Reading
<1>Matched. Matched'
  BY <1>U, <1>4, <1>5, <1>7, <1>8, Atoms DEF Matched
<1>Calm. Calm
  BY <1>U, <1>4, <1>5, <1>7, <1>8, Atoms DEF Calm, Pre, Has, Live, Resp, Reading
<1> QED BY <1>Typed, <1>Scheduled, <1>Joins, <1>Leads, <1>FreeClean, <1>OneOpening, <1>OpenUsed,
           <1>OneOpened, <1>OneClosing, <1>Broken, <1>SockOpen, <1>ReadsFor, <1>Serves, <1>Ends,
           <1>Wakes, <1>Signals, <1>AuthAlone, <1>AuthSock, <1>Writes, <1>WaitOnce, <1>Results,
           <1>InOrder, <1>Matched, <1>Calm

LEMMA DoWriteOpen ==
  ASSUME CInv, NEW a \in Callers, Write(a), sock \notin broken
  PROVE  CInv' /\ Calm
<1> USE DEF CInv, Connects, Net, Dispatches, Authenticates
<1>1. /\ at[a] = "write" /\ ready # <<>> /\ Head(ready) = a
      /\ written' = [written EXCEPT ![sock] = Append(written[sock], Command(a))]
      /\ thread' = Append(thread, a) /\ PushedDispatch
      /\ at' = [at EXCEPT ![a] = "reply"] /\ ready' = Tail(ready) \o Pushed
      /\ UNCHANGED <<sock, closer, connecting, authcoroutine, result, request, conn,
                     broken, replies, arrived, faults>>
  BY DEF Write, Runs, Yield, Go, Push
<1>2. /\ sock # None /\ sock \in Conns /\ conn[sock] = "open" /\ authcoroutine \in {None, a}
      /\ \A k \in Conns : closer[k] = None
      /\ \A b \in Callers : at[b] \notin {"connect", "open", "opened"}
      /\ \A b \in Callers : at[b] \notin {"close", "auth_close"}
  BY <1>1, Atoms DEF Writes, OneClosing, SockOpen
<1>3. /\ dispatch'.for = dispatch.for /\ dispatch'.conn = dispatch.conn
      /\ dispatch' \in [at : {"none", "new", "loop", "pop", "wait", "read", "wait_data"},
                        for : Callers \cup {None}, conn : Conns \cup {None}]
      /\ dispatch.at = "wait" => dispatch'.at = "pop" /\ Pushed = <<"dispatch">>
      /\ dispatch.at # "wait" => dispatch'.at = dispatch.at /\ Pushed = <<>>
  <2>1. dispatch \in [at : {"none", "new", "loop", "pop", "wait", "read", "wait_data"},
                      for : Callers \cup {None}, conn : Conns \cup {None}]
    BY DEF Typed, ChannelTypeOK
  <2>2. CASE dispatch.at = "wait"
    BY <1>1, <2>1, <2>2 DEF PushedDispatch, Pushed
  <2>3. CASE dispatch.at # "wait"
    BY <1>1, <2>1, <2>3 DEF PushedDispatch, Pushed
  <2> QED BY <2>2, <2>3
<1>4. /\ Scheduled' /\ ready' \in Seq(Callers \cup {"dispatch"})
      /\ at' \in [Callers -> Yields \cup Steps]
      /\ a \in In(ready) /\ a \notin In(ready')
      /\ \A b \in Callers : b \in In(ready') => b \in In(ready)
      /\ dispatch.at \notin {"loop", "read"}
      /\ \A b \in Callers : b # a =>
           at[b] \notin {"check", "connect", "opened", "write", "failed", "connected", "check_again"}
      /\ at'[a] = "reply" /\ \A b \in Callers : b # a => at'[b] = at[b]
  <2>1. /\ Pushed \in Seq(Callers \cup {"dispatch"}) /\ Once(Pushed)
        /\ In(Pushed) = IF dispatch.at = "wait" THEN {"dispatch"} ELSE {}
    <3>1. <<>> \in Seq(Callers \cup {"dispatch"}) /\ <<"dispatch">> \in Seq(Callers \cup {"dispatch"})
      BY SingleIn
    <3>2. CASE dispatch.at = "wait"
      <4>1. Pushed = <<"dispatch">>
        BY <1>3, <3>2
      <4> QED BY <3>1, <3>2, <4>1, Single
    <3>3. CASE dispatch.at # "wait"
      <4>1. Pushed = <<>>
        BY <1>3, <3>3
      <4> QED BY <3>1, <3>3, <4>1, Empty
    <3> QED BY <3>2, <3>3
  <2>2. "reply" \in Yields
    BY DEF Yields
  <2>3. /\ In(Pushed) \cap In(ready) = {} /\ \A b \in Callers : b \notin In(Pushed)
        /\ dispatch'.at \in {"loop", "pop", "read"} <=>
             dispatch.at \in {"loop", "pop", "read"} \/ "dispatch" \in In(Pushed)
        /\ dispatch'.at \in {"loop", "read"} => dispatch.at \in {"loop", "read"}
    BY <1>3, <2>1, Atoms DEF Scheduled
  <2>4. /\ Scheduled' /\ ready' \in Seq(Callers \cup {"dispatch"}) /\ a \in In(ready)
        /\ at' \in [Callers -> Yields \cup Steps]
        /\ In(ready') = (In(ready) \ {a}) \cup In(Pushed)
        /\ dispatch.at \notin {"loop", "read"}
        /\ \A b \in Callers : b # a =>
             at[b] \notin {"check", "connect", "opened", "write", "failed", "connected", "check_again"}
        /\ at'[a] = "reply" /\ \A b \in Callers : b # a => at'[b] = at[b]
    <3> HIDE DEF Pushed
    <3> QED BY <1>1, <2>1, <2>2, <2>3, CallerStep
  <2> QED BY <2>3, <2>4
<1>8. Reading' <=> Reading
  BY <1>3 DEF Reading
<1>9. /\ In(Pend') = In(Pend) \cup {a} /\ Len(Pend) \in Nat /\ Len(Pend') = Len(Pend) + 1
      /\ DOMAIN Pend = 1 .. Len(Pend) /\ DOMAIN Pend' = 1 .. Len(Pend) + 1
      /\ \A i \in 1 .. Len(Pend) : Pend'[i] = Pend[i]
      /\ Pend'[Len(Pend) + 1] = a
      /\ Once(Pend) /\ a \notin In(Pend) => Once(Pend')
      /\ In(thread') = In(thread) \cup {a}
      /\ thread' \in Seq(Callers \cup {"signal"})
  BY <1>1, <1>3, <1>8, PendPush
<1>U. /\ at[a] = "write" /\ sock \notin broken
      /\ \A k \in Conns : k # sock => written'[k] = written[k]
      /\ written'[sock] = Append(written[sock], Command(a))
      /\ dispatch'.for = dispatch.for /\ dispatch'.conn = dispatch.conn
      /\ dispatch.at = "wait" => dispatch'.at = "pop"
      /\ dispatch.at # "wait" => dispatch'.at = dispatch.at
      /\ UNCHANGED <<sock, closer, connecting, authcoroutine, result, request, conn,
                     broken, replies, arrived, faults>>
  BY <1>1, <1>2, <1>3 DEF Typed
<1>6. \A b \in Callers : Command(b)' = Command(b)
  BY <1>U DEF Command
<1>7. a \notin In(Pend)
  BY <1>U DEF WaitOnce
<1>10. /\ "signal" \notin In(thread) /\ dispatch.at # "none" /\ "signal" \notin In(thread')
       /\ thread' # <<>>
  <2>1. "signal" \notin In(thread) /\ dispatch.at # "none"
    BY <1>2 DEF Serves
  <2> QED BY <1>9, <2>1, Empty, Atoms
<1>Scheduled. Scheduled'
  BY <1>4
<1>Typed. Typed'
  <2>1. IsSeq(written'[sock])
    BY <1>2, <1>U, AppendAny DEF Typed
  <2>2. \A k \in Conns : IsSeq(written'[k])
    BY <1>U, <2>1 DEF Typed
  <2>3. ChannelTypeOK'
    BY <1>U, <1>3, <1>4, <1>9 DEF Typed, ChannelTypeOK
  <2> QED BY <1>1, <1>2, <1>U, <2>2, <2>3 DEF Typed
<1>Joins. Joins'
  BY <1>U, <1>4, Queue, Atoms DEF Joins
<1>Leads. Leads'
  BY <1>U, <1>2, <1>4, Queue, Atoms DEF Leads
<1>FreeClean. FreeClean'
  BY <1>U, <1>2, <1>4, <1>7, <1>10, Atoms DEF FreeClean, Clean
<1>OneOpening. OneOpening'
  BY <1>U, <1>2, <1>4, <1>7, <1>10, Atoms DEF OneOpening
<1>OpenUsed. OpenUsed'
  BY <1>U, <1>2, <1>4, <1>7, <1>10, Atoms DEF OpenUsed, Clean
<1>OneOpened. OneOpened'
  BY <1>U, <1>2, <1>4, <1>7, <1>10, Atoms DEF OneOpened
<1>OneClosing. OneClosing'
  BY <1>U, <1>2, <1>4, <1>7, <1>10, Atoms DEF OneClosing
<1>Broken. Broken'
  BY <1>U, <1>2, <1>4, <1>7, <1>10, Atoms DEF Broken
<1>SockOpen. SockOpen'
  BY <1>U, <1>2, <1>4, <1>7, <1>10, Atoms DEF SockOpen
<1>ReadsFor. ReadsFor'
  BY <1>U, <1>2, <1>4, <1>7, <1>10, Atoms DEF ReadsFor, Reading, Closing
<1>Serves. Serves'
  BY <1>U, <1>2, <1>4, <1>7, <1>10, Atoms DEF Serves, Closing, EndSignal
<1>Ends. Ends'
  BY <1>U, <1>2, <1>4, <1>7, <1>10, Atoms DEF Ends, Closing, EndSignal
<1>Wakes. Wakes'
  BY <1>U, <1>2, <1>4, <1>7, <1>10, Atoms DEF Wakes
<1>Signals. Signals'
  BY <1>U, <1>2, <1>4, <1>7, <1>10, Atoms DEF Signals, In
<1>AuthAlone. AuthAlone'
  BY <1>U, <1>2, <1>4, <1>7, <1>10, <1>9, Atoms DEF AuthAlone
<1>AuthSock. AuthSock'
  BY <1>U, <1>2, <1>4, <1>7, <1>10, <1>9, Atoms DEF AuthSock
<1>Writes. Writes'
  BY <1>U, <1>2, <1>4, <1>7, <1>10, Atoms DEF Writes
<1>WaitOnce. WaitOnce'
  BY <1>U, <1>2, <1>4, <1>7, <1>10, <1>9, Atoms DEF WaitOnce
<1>Results. Results'
  BY <1>U, <1>4, <1>6, Atoms DEF Results
<1>InOrder. InOrder'
  <2>1. ASSUME Answers(sock) PROVE Answers(sock)'
    <3>0. PICK A, R, Q, QQ, n, c, k :
            /\ A = arrived[sock] /\ R = replies[sock] /\ Q = written[sock]
            /\ QQ = Append(Q, c) /\ n = Len(Pend) /\ c = Command(a) /\ k = sock
      OBVIOUS
    <3>1. \A i, d : Fits(i, d) => Fits(i, d)'
      BY <1>6, <1>9, FitsGrow
    <3>2. /\ \A i \in DOMAIN A : A[i].is \in {"ok", "refused"} /\ Fits(i, A[i].to)'
          /\ \A i \in DOMAIN R : R[i].is \in {"ok", "refused"} /\ Fits(Len(A) + i, R[i].to)'
          /\ \A i \in DOMAIN Q : Fits(Len(A) + Len(R) + i, Q[i])'
          /\ n = Len(A) + Len(R) + Len(Q)
      BY <1>U, <2>1, <3>0, <3>1 DEF Answers
    <3>3. /\ Len(Q) \in Nat /\ DOMAIN QQ = 1 .. Len(Q) + 1 /\ Len(QQ) = Len(Q) + 1
          /\ \A i \in 1 .. Len(Q) : QQ[i] = Q[i]
          /\ QQ[Len(Q) + 1] = c /\ DOMAIN Q = 1 .. Len(Q)
      BY <1>2, <3>0, AppendAny DEF Typed
    <3>4. Len(A) \in Nat /\ Len(R) \in Nat
      BY <1>2, <3>0, Elements DEF Typed, IsSeq
    <3>5. Fits(n + 1, c)'
      <4>1. Command(a)' = c
        BY <1>6, <3>0
      <4>2. n + 1 \in DOMAIN Pend' /\ Pend'[n + 1] = a
        BY <1>9, <3>0
      <4> QED BY <4>1, <4>2 DEF Fits
    <3>6. ASSUME NEW i \in DOMAIN QQ PROVE Fits(Len(A) + Len(R) + i, QQ[i])'
      <4>1. CASE i \in DOMAIN Q
        BY <3>2, <3>3, <4>1
      <4>2. CASE i = Len(Q) + 1
        <5>1. Len(A) + Len(R) + i = n + 1 /\ QQ[i] = c
          BY <3>2, <3>3, <3>4, <4>2
        <5> QED BY <3>5, <5>1
      <4> QED BY <3>3, <3>6, <4>1, <4>2
    <3>7. Len(Pend') = Len(A) + Len(R) + Len(QQ)
      <4>1. Len(Pend') = n + 1
        BY <1>9, <3>0
      <4>2. Len(QQ) = Len(Q) + 1 /\ n = Len(A) + Len(R) + Len(Q) /\ Len(Q) \in Nat
        BY <3>2, <3>3
      <4> QED BY <3>4, <4>1, <4>2
    <3>8. arrived'[k] = A /\ replies'[k] = R /\ written'[k] = QQ /\ sock' = k
      BY <1>U, <3>0
    <3>9. /\ \A i \in DOMAIN A : A[i].is \in {"ok", "refused"} /\ Fits(i, A[i].to)'
          /\ \A i \in DOMAIN R : R[i].is \in {"ok", "refused"} /\ Fits(Len(A) + i, R[i].to)'
      BY <3>2
    <3> HIDE DEF Answers
    <3>10. Answers(k)'
      BY <3>6, <3>7, <3>8, <3>9 DEF Answers
    <3> QED BY <3>0, <3>8, <3>10
  <2> QED BY <1>2, <1>U, <1>8, <2>1, Atoms DEF InOrder, ReadsFor
<1>Matched. Matched'
  BY <1>U, <1>2, <1>4, <1>7, <1>10, Atoms DEF Matched
<1>11. In(written'[sock]) = In(written[sock]) \cup {Command(a)} /\ Command(a).by = a
  BY <1>2, <1>U, Contents DEF Typed, Command
<1>12. \A k \in Conns : (Live(k)' <=> Live(k)) /\ Resp(k)' = Resp(k)
  BY <1>U, <1>8 DEF Live, Resp
<1>Calm. Calm
  BY <1>U, <1>2, <1>4, <1>11, <1>12, Atoms DEF Calm, Pre, Has
<1> QED BY <1>Typed, <1>Scheduled, <1>Joins, <1>Leads, <1>FreeClean, <1>OneOpening, <1>OpenUsed,
           <1>OneOpened, <1>OneClosing, <1>Broken, <1>SockOpen, <1>ReadsFor, <1>Serves, <1>Ends,
           <1>Wakes, <1>Signals, <1>AuthAlone, <1>AuthSock, <1>Writes, <1>WaitOnce, <1>Results,
           <1>InOrder, <1>Matched, <1>Calm

-----------------------------------------------------------------------------
(* wakeup_all.                                                             *)

\* All but a mark that can only be the last.
LEMMA ButLast ==
  ASSUME NEW C, NEW e, e \notin C, NEW s \in Seq(C \cup {e}), Once(s),
         \A i \in DOMAIN s : s[i] = e => i = Len(s)
  PROVE  /\ ~(s # <<>> /\ s[Len(s)] = e) => s \in Seq(C) /\ e \notin In(s)
         /\ s # <<>> /\ s[Len(s)] = e =>
              LET w == SubSeq(s, 1, Len(s) - 1)
              IN  w \in Seq(C) /\ Once(w) /\ In(w) = In(s) \ {e}
<1> DEFINE S == C \cup {e}
<1>1. PICK m \in Nat : m = Len(s)
  BY Elements
<1>2. /\ DOMAIN s = 1 .. m /\ (s = <<>> <=> m = 0)
      /\ \A i \in 1 .. m : s[i] \in C \/ s[i] = e
  BY <1>1, Elements
<1>3. \A i \in 1 .. m : s[i] = e => i = m
  BY <1>1, <1>2
<1>4. m > 0 => m \in 1 .. m
  OBVIOUS
<1>5. CASE ~(s # <<>> /\ s[Len(s)] = e)
  <2>1. \A i \in 1 .. m : s[i] # e
    <3>1. \A i \in 1 .. m : m > 0
      OBVIOUS
    <3> QED BY <1>1, <1>2, <1>3, <1>5, <3>1
  <2>2. \A i \in 1 .. m : s[i] \in C
    BY <1>2, <2>1
  <2>3. s \in Seq(C)
    BY <1>1, <1>2, <2>2
  <2>4. e \notin In(s)
    BY <1>2, <2>1 DEF In
  <2> QED BY <1>5, <2>3, <2>4
<1>6. CASE s # <<>> /\ s[Len(s)] = e
  <2> DEFINE n == m - 1
             w == SubSeq(s, 1, n)
  <2>1. m > 0 /\ s[m] = e
    BY <1>1, <1>2, <1>6
  <2>2. n \in 0 .. m /\ n \in Nat /\ \A i \in 1 .. n : i \in 1 .. m /\ i # m
    BY <2>1
  <2>3. \A i \in 1 .. m : i \in 1 .. n \/ i = m
    OBVIOUS
  <2>4. w \in Seq(S) /\ Len(w) = n /\ Once(w) /\ \A i \in 1 .. n : w[i] = s[i]
    <3>1. n \in 0 .. Len(s)
      BY <1>1, <2>2
    <3> HIDE DEF n
    <3> QED BY <3>1, PrefixIs
  <2> HIDE DEF w, n
  <2>5. DOMAIN w = 1 .. n
    BY <2>4, Elements
  <2>6. \A i \in 1 .. n : w[i] \in C
    BY <1>2, <1>3, <2>2, <2>4
  <2>7. w \in Seq(C)
    BY <2>4, <2>5, <2>6
  <2>8. In(w) = In(s) \ {e}
    <3>1. ASSUME NEW x \in In(w) PROVE x \in In(s) \ {e}
      BY <1>2, <1>3, <2>2, <2>4, <2>5, <3>1 DEF In
    <3>2. ASSUME NEW x \in In(s), x # e PROVE x \in In(w)
      BY <1>2, <2>1, <2>3, <2>4, <2>5, <3>2 DEF In
    <3> QED BY <3>1, <3>2
  <2>9. w = SubSeq(s, 1, Len(s) - 1)
    BY <1>1 DEF w, n
  <2> QED BY <1>6, <2>4, <2>7, <2>8, <2>9
<1> QED BY <1>5, <1>6

LEMMA WaitingIs ==
  ASSUME Typed, Signals, Once(thread)
  PROVE  /\ Waiting \in Seq(Callers) /\ Once(Waiting)
         /\ In(Waiting) = In(thread) \ {"signal"}
         /\ WokenAll(<<>>) = Waiting
<1>1. /\ thread \in Seq(Callers \cup {"signal"}) /\ "signal" \notin Callers
      /\ \A i \in DOMAIN thread : thread[i] = "signal" => i = Len(thread)
  BY Types DEF Signals
<1>2. /\ Waiting \in Seq(Callers) /\ Once(Waiting)
      /\ In(Waiting) = In(thread) \ {"signal"}
  <2>1. CASE ~Signalled
    <3>1. thread \in Seq(Callers) /\ "signal" \notin In(thread)
      BY <1>1, <2>1, ButLast DEF Signalled
    <3> QED BY <2>1, <3>1 DEF Waiting
  <2>2. CASE Signalled
    <3> DEFINE w == SubSeq(thread, 1, Len(thread) - 1)
    <3>1. w \in Seq(Callers) /\ Once(w) /\ In(w) = In(thread) \ {"signal"}
      BY <1>1, <2>2, ButLast DEF Signalled
    <3> QED BY <2>2, <3>1 DEF Waiting
  <2> QED BY <2>1, <2>2
<1>3. WokenAll(<<>>) = Waiting
  <2>1. <<>> \in Seq(Callers)
    OBVIOUS
  <2> HIDE DEF Waiting
  <2> QED BY <1>2, <2>1, ConcatIs DEF WokenAll
<1> QED BY <1>2, <1>3

LEMMA DoClosed ==
  ASSUME CInv, NEW a \in Callers, Closed(a)
  PROVE  CInv' /\ Calm
<1> USE DEF CInv, Connects, Net, Dispatches, Authenticates
<1> DEFINE W == WokenAll(<<>>)
<1>1. /\ at[a] = "close" /\ ready # <<>> /\ Head(ready) = a
      /\ Free(CHOOSE k \in Conns : closer[k] = a)
      /\ thread' = <<>>
      /\ result' = [b \in Callers |-> IF b \in In(W) THEN Error ELSE result[b]]
      /\ at' = [at EXCEPT ![a] = "failed"] /\ ready' = ready \o W
      /\ dispatch.at # "wait_data" => dispatch' = dispatch
      /\ UNCHANGED <<sock, connecting, authcoroutine, request>>
  BY DEF Closed, Reads, Runs, GoOn, Go, WakeAll, In
<1>2. PICK k \in Conns : closer[k] = a /\ Free(k)
  BY <1>1 DEF OneClosing
<1>3. /\ sock = None /\ \A j \in Conns : j # k => closer[j] = None
      /\ \A b \in Callers : at[b] # "opened"
      /\ \A b \in Callers : b # a => at[b] \notin {"close", "auth_close"}
  BY <1>2, Atoms DEF OneClosing
<1>4. a \in In(ready) /\ dispatch.at \in {"none", "wait"} /\ dispatch' = dispatch
  <2>1. a \in In(ready)
    BY <1>1, Types, TailIs
  <2>2. dispatch.at \in {"none", "wait", "read", "loop"}
    BY <1>1, <2>1 DEF Ends
  <2> QED BY <1>1, <2>1, <2>2, Atoms DEF Scheduled
<1>5. /\ ~Reading /\ Pend = thread /\ Pend' = <<>> /\ In(Pend') = {} /\ In(thread') = {}
      /\ Once(thread)
  <2>1. ~Reading /\ ~Reading'
    BY <1>4 DEF Reading
  <2>2. Pend = thread
    BY <2>1, PendIs
  <2>3. Pend' = <<>>
    BY <1>1, <2>1 DEF Pend
  <2> QED BY <1>1, <2>1, <2>2, <2>3, Empty DEF WaitOnce
<1>6. /\ W \in Seq(Callers) /\ Once(W) /\ In(W) = In(thread) \ {"signal"}
      /\ \A b \in In(W) : b \in Callers /\ at[b] = "reply" /\ b \notin In(ready)
  <2>1. W \in Seq(Callers) /\ Once(W) /\ In(W) = In(thread) \ {"signal"}
    BY <1>5, WaitingIs
  <2>2. In(W) \subseteq Callers
    BY <2>1, Elements
  <2> HIDE DEF W
  <2> QED BY <1>5, <2>1, <2>2 DEF WaitOnce
<1> HIDE DEF W
<1>7. /\ Scheduled' /\ ready' \in Seq(Callers \cup {"dispatch"})
      /\ at' \in [Callers -> Yields \cup Steps]
      /\ In(ready') = In(ready) \cup In(W)
      /\ \A b \in Callers : b # a =>
           at[b] \notin {"check", "connect", "opened", "write", "failed", "connected", "check_again"}
      /\ at'[a] = "failed" /\ \A b \in Callers : b # a => at'[b] = at[b]
  <2>1. W \in Seq(Callers \cup {"dispatch"}) /\ "dispatch" \notin In(W) /\ In(W) \cap In(ready) = {}
    BY <1>6, Atoms
  <2>2. "failed" \in Steps
    BY DEF Steps
  <2> QED BY <1>1, <1>4, <1>6, <2>1, <2>2, CallerStep
<1>8. \A b \in Callers : Command(b)' = Command(b)
  BY <1>1 DEF Command
<1>9. /\ conn' = [conn EXCEPT ![k] = "none"]
      /\ broken' = broken \ {k} /\ closer' = [closer EXCEPT ![k] = None]
      /\ written' = [written EXCEPT ![k] = <<>>]
      /\ replies' = [replies EXCEPT ![k] = <<>>] /\ arrived' = [arrived EXCEPT ![k] = <<>>]
      /\ faults' = faults
  BY <1>2 DEF Free
<1>U. /\ at[a] = "close" /\ closer[k] = a /\ thread' = <<>>
      /\ conn'[k] = "none" /\ k \notin broken'
      /\ written'[k] = <<>> /\ replies'[k] = <<>> /\ arrived'[k] = <<>>
      /\ \A j \in Conns : j # k =>
           /\ conn'[j] = conn[j] /\ (j \in broken' <=> j \in broken)
           /\ written'[j] = written[j] /\ replies'[j] = replies[j] /\ arrived'[j] = arrived[j]
      /\ broken' \subseteq Conns
      /\ \A j \in Conns : closer'[j] = None
      /\ \A b \in Callers : result'[b] = IF b \in In(W) THEN Error ELSE result[b]
      /\ UNCHANGED <<sock, connecting, authcoroutine, dispatch, request>>
  BY <1>1, <1>2, <1>3, <1>4, <1>9, Atoms DEF Typed, ChannelTypeOK
<1>10. authcoroutine # None => authcoroutine = a /\ In(W) = {}
  BY <1>U, <1>5, <1>6, Atoms DEF AuthAlone
<1>11. \A j \in Conns : conn[j] \in {"open", "lost"} => j = k
  BY <1>3, Atoms DEF OpenUsed
<1>Scheduled. Scheduled'
  BY <1>7
<1>Typed. Typed'
  <2>1. /\ conn' \in [Conns -> {"none", "opening", "open", "lost"}]
        /\ closer' \in [Conns -> Callers \cup {None}]
        /\ written' = [j \in Conns |-> written'[j]] /\ replies' = [j \in Conns |-> replies'[j]]
        /\ arrived' = [j \in Conns |-> arrived'[j]]
    BY <1>9 DEF Typed, ChannelTypeOK
  <2>2. \A j \in Conns : IsSeq(written'[j]) /\ IsSeq(replies'[j]) /\ IsSeq(arrived'[j])
    BY <1>U, Empty DEF Typed
  <2>3. thread' \in Seq(Callers \cup {"signal"})
    BY <1>U
  <2>4. ChannelTypeOK'
    BY <1>U, <1>7, <1>9, <2>1, <2>3 DEF Typed, ChannelTypeOK
  <2>5. result' = [b \in Callers |-> result'[b]]
    BY <1>1
  <2> QED BY <1>U, <2>1, <2>2, <2>4, <2>5 DEF Typed
<1>Joins. Joins'
  BY <1>U, <1>6, <1>7, Queue, Atoms DEF Joins
<1>Leads. Leads'
  BY <1>U, <1>3, <1>7, <1>10, Queue, Atoms DEF Leads
<1>FreeClean. FreeClean'
  BY <1>U, <1>3, <1>4, <1>5, <1>6, <1>7, <1>10, <1>11, Atoms DEF FreeClean, Clean
<1>OneOpening. OneOpening'
  BY <1>U, <1>3, <1>4, <1>5, <1>6, <1>7, <1>10, <1>11, Atoms DEF OneOpening, FreeClean
<1>OpenUsed. OpenUsed'
  BY <1>U, <1>3, <1>4, <1>5, <1>6, <1>7, <1>10, <1>11, Atoms DEF OpenUsed, Clean
<1>OneOpened. OneOpened'
  BY <1>U, <1>3, <1>4, <1>5, <1>6, <1>7, <1>10, <1>11, Atoms DEF OneOpened
<1>OneClosing. OneClosing'
  BY <1>U, <1>3, <1>4, <1>5, <1>6, <1>7, <1>10, <1>11, Atoms DEF OneClosing
<1>Broken. Broken'
  BY <1>U, <1>3, <1>4, <1>5, <1>6, <1>7, <1>10, <1>11, SMTT(30), Atoms DEF Broken
<1>SockOpen. SockOpen'
  BY <1>U, <1>3, <1>4, <1>5, <1>6, <1>7, <1>10, <1>11, Atoms DEF SockOpen
<1>ReadsFor. ReadsFor'
  BY <1>U, <1>3, <1>4, <1>5, <1>6, <1>7, <1>10, <1>11, Atoms DEF ReadsFor, Reading, Closing
<1>Serves. Serves'
  BY <1>U, <1>3, <1>4, <1>5, <1>6, <1>7, <1>10, <1>11, Atoms DEF Serves, Closing, EndSignal
<1>Ends. Ends'
  BY <1>U, <1>3, <1>4, <1>5, <1>6, <1>7, <1>10, <1>11, Atoms DEF Ends, Closing, EndSignal
<1>Wakes. Wakes'
  BY <1>U, <1>3, <1>4, <1>5, <1>6, <1>7, <1>10, <1>11, Atoms DEF Wakes
<1>Signals. Signals'
  BY <1>U, <1>3, <1>4, <1>5, <1>6, <1>7, <1>10, <1>11, Empty, Atoms DEF Signals
<1>AuthAlone. AuthAlone'
  BY <1>U, <1>3, <1>4, <1>5, <1>6, <1>7, <1>10, <1>11, Atoms DEF AuthAlone
<1>AuthSock. AuthSock'
  BY <1>U, <1>3, <1>4, <1>5, <1>6, <1>7, <1>10, <1>11, Atoms DEF AuthSock
<1>Writes. Writes'
  BY <1>U, <1>3, <1>4, <1>5, <1>6, <1>7, <1>10, <1>11, Atoms DEF Writes
<1>WaitOnce. WaitOnce'
  BY <1>U, <1>3, <1>4, <1>5, <1>6, <1>7, <1>10, <1>11, Empty, Atoms DEF WaitOnce
<1>Results. Results'
  BY <1>U, <1>7, <1>8, Atoms DEF Results
<1>InOrder. InOrder'
  BY <1>U, <1>3, <1>4, Atoms DEF InOrder, Reading
<1>Matched. Matched'
  BY <1>U, <1>3, <1>4, <1>5, <1>6, <1>7, <1>10, <1>11, Atoms DEF Matched
<1>12. \A j \in Conns : ~Live(j)'
  BY <1>U, <1>3, <1>5, Atoms DEF Live, Reading
<1>Calm. Calm
  BY <1>U, <1>3, <1>6, <1>7, <1>12, Atoms DEF Calm, Pre, Has, Error
<1> QED BY <1>Typed, <1>Scheduled, <1>Joins, <1>Leads, <1>FreeClean, <1>OneOpening, <1>OpenUsed,
           <1>OneOpened, <1>OneClosing, <1>Broken, <1>SockOpen, <1>ReadsFor, <1>Serves, <1>Ends,
           <1>Wakes, <1>Signals, <1>AuthAlone, <1>AuthSock, <1>Writes, <1>WaitOnce, <1>Results,
           <1>InOrder, <1>Matched, <1>Calm

LEMMA DoAuthClosed ==
  ASSUME CInv, NEW a \in Callers, AuthClosed(a)
  PROVE  CInv' /\ Calm
<1> USE DEF CInv, Connects, Net, Dispatches, Authenticates
<1>1. /\ at[a] = "auth_close" /\ ready # <<>> /\ Head(ready) = a
      /\ Free(CHOOSE k \in Conns : closer[k] = a)
      /\ at' = [at EXCEPT ![a] = "failed"] /\ ready' = ready \o <<>>
      /\ UNCHANGED <<sock, thread, connecting, authcoroutine, result, dispatch, request>>
  BY DEF AuthClosed, Runs, GoOn, Go, chan
<1>2. PICK k \in Conns : closer[k] = a /\ Free(k)
  BY <1>1 DEF OneClosing
<1>3. /\ sock = None /\ \A j \in Conns : j # k => closer[j] = None
      /\ \A b \in Callers : at[b] # "opened"
      /\ \A b \in Callers : b # a => at[b] \notin {"close", "auth_close"}
  BY <1>2, Atoms DEF OneClosing
<1>4. a \in In(ready) /\ dispatch.at \in {"none", "wait"}
  <2>1. a \in In(ready)
    BY <1>1, Types, TailIs
  <2>2. dispatch.at \in {"none", "wait", "read", "loop"}
    BY <1>1, <2>1 DEF Ends
  <2> QED BY <1>1, <2>1, <2>2, Atoms DEF Scheduled
<1>5. ~Reading /\ Pend' = Pend /\ thread = Pend
  BY <1>1, <1>4, PendIs, PendSame DEF Reading
<1>7. /\ Scheduled' /\ ready' \in Seq(Callers \cup {"dispatch"})
      /\ at' \in [Callers -> Yields \cup Steps]
      /\ ready' = ready
      /\ \A b \in Callers : b # a =>
           at[b] \notin {"check", "connect", "opened", "write", "failed", "connected", "check_again"}
      /\ at'[a] = "failed" /\ \A b \in Callers : b # a => at'[b] = at[b]
  <2>1. "failed" \in Steps
    BY DEF Steps
  <2> QED BY <1>1, <2>1, CallerAlone
<1>8. \A b \in Callers : Command(b)' = Command(b)
  BY <1>1 DEF Command
<1>9. /\ conn' = [conn EXCEPT ![k] = "none"]
      /\ broken' = broken \ {k} /\ closer' = [closer EXCEPT ![k] = None]
      /\ written' = [written EXCEPT ![k] = <<>>]
      /\ replies' = [replies EXCEPT ![k] = <<>>] /\ arrived' = [arrived EXCEPT ![k] = <<>>]
      /\ faults' = faults
  BY <1>2 DEF Free
<1>U. /\ at[a] = "auth_close" /\ closer[k] = a
      /\ conn'[k] = "none" /\ k \notin broken'
      /\ written'[k] = <<>> /\ replies'[k] = <<>> /\ arrived'[k] = <<>>
      /\ \A j \in Conns : j # k =>
           /\ conn'[j] = conn[j] /\ (j \in broken' <=> j \in broken)
           /\ written'[j] = written[j] /\ replies'[j] = replies[j] /\ arrived'[j] = arrived[j]
      /\ broken' \subseteq Conns
      /\ \A j \in Conns : closer'[j] = None
      /\ UNCHANGED <<sock, thread, connecting, authcoroutine, result, dispatch, request>>
  BY <1>1, <1>2, <1>3, <1>4, <1>9, Atoms DEF Typed, ChannelTypeOK
<1>10. a \notin In(Pend) /\ thread = <<>> /\ authcoroutine = a
  <2>1. authcoroutine = a /\ a \notin In(Pend)
    BY <1>U DEF WaitOnce, Writes
  <2>2. In(thread) = {}
    BY <1>5, <2>1, Atoms DEF AuthAlone
  <2> QED BY <2>1, <2>2, Types, Elements
<1>11. \A j \in Conns : conn[j] \in {"open", "lost"} => j = k
  BY <1>3, Atoms DEF OpenUsed
<1>Scheduled. Scheduled'
  BY <1>7
<1>Typed. Typed'
  <2>1. /\ conn' \in [Conns -> {"none", "opening", "open", "lost"}]
        /\ closer' \in [Conns -> Callers \cup {None}]
        /\ written' = [j \in Conns |-> written'[j]] /\ replies' = [j \in Conns |-> replies'[j]]
        /\ arrived' = [j \in Conns |-> arrived'[j]]
    BY <1>9 DEF Typed, ChannelTypeOK
  <2>2. \A j \in Conns : IsSeq(written'[j]) /\ IsSeq(replies'[j]) /\ IsSeq(arrived'[j])
    BY <1>U, Empty DEF Typed
  <2>3. ChannelTypeOK'
    BY <1>U, <1>7, <1>9, <2>1 DEF Typed, ChannelTypeOK
  <2> QED BY <1>U, <2>1, <2>2, <2>3 DEF Typed
<1>Joins. Joins'
  BY <1>U, <1>7, Queue, Atoms DEF Joins
<1>Leads. Leads'
  BY <1>U, <1>3, <1>7, <1>10, Queue, Atoms DEF Leads
<1>FreeClean. FreeClean'
  BY <1>U, <1>3, <1>4, <1>5, <1>7, <1>10, <1>11, Atoms DEF FreeClean, Clean
<1>OneOpening. OneOpening'
  BY <1>U, <1>3, <1>4, <1>5, <1>7, <1>10, <1>11, Atoms DEF OneOpening, FreeClean
<1>OpenUsed. OpenUsed'
  BY <1>U, <1>3, <1>4, <1>5, <1>7, <1>10, <1>11, Atoms DEF OpenUsed, Clean
<1>OneOpened. OneOpened'
  BY <1>U, <1>3, <1>4, <1>5, <1>7, <1>10, <1>11, Atoms DEF OneOpened
<1>OneClosing. OneClosing'
  BY <1>U, <1>3, <1>4, <1>5, <1>7, <1>10, <1>11, Atoms DEF OneClosing
<1>Broken. Broken'
  BY <1>U, <1>3, <1>4, <1>5, <1>7, <1>10, <1>11, SMTT(30), Atoms DEF Broken
<1>SockOpen. SockOpen'
  BY <1>U, <1>3, <1>4, <1>5, <1>7, <1>10, <1>11, Atoms DEF SockOpen
<1>ReadsFor. ReadsFor'
  BY <1>U, <1>3, <1>4, <1>5, <1>7, <1>10, <1>11, Atoms DEF ReadsFor, Reading, Closing
<1>Serves. Serves'
  BY <1>U, <1>3, <1>4, <1>5, <1>7, <1>10, <1>11, Atoms DEF Serves, Closing, EndSignal
<1>Ends. Ends'
  BY <1>U, <1>3, <1>4, <1>5, <1>7, <1>10, <1>11, Atoms DEF Ends, Closing, EndSignal
<1>Wakes. Wakes'
  BY <1>U, <1>3, <1>4, <1>5, <1>7, <1>10, <1>11, Atoms DEF Wakes
<1>Signals. Signals'
  BY <1>U, <1>3, <1>4, <1>5, <1>7, <1>10, <1>11, Empty, Atoms DEF Signals
<1>AuthAlone. AuthAlone'
  BY <1>U, <1>3, <1>4, <1>5, <1>7, <1>10, <1>11, Atoms DEF AuthAlone
<1>AuthSock. AuthSock'
  BY <1>U, <1>3, <1>4, <1>5, <1>7, <1>10, <1>11, Atoms DEF AuthSock
<1>Writes. Writes'
  BY <1>U, <1>3, <1>4, <1>5, <1>7, <1>10, <1>11, Atoms DEF Writes
<1>WaitOnce. WaitOnce'
  BY <1>U, <1>3, <1>4, <1>5, <1>7, <1>10, <1>11, Empty, Atoms DEF WaitOnce
<1>Results. Results'
  BY <1>U, <1>7, <1>8, Atoms DEF Results
<1>InOrder. InOrder'
  BY <1>U, <1>3, <1>4, Atoms DEF InOrder, Reading
<1>Matched. Matched'
  BY <1>U, <1>3, <1>4, <1>5, <1>7, <1>10, <1>11, Atoms DEF Matched
<1>12. \A j \in Conns : ~Live(j)'
  BY <1>U, <1>3, <1>5, Atoms DEF Live, Reading
<1>Calm. Calm
  BY <1>U, <1>3, <1>7, <1>12, Atoms DEF Calm, Pre, Has
<1> QED BY <1>Typed, <1>Scheduled, <1>Joins, <1>Leads, <1>FreeClean, <1>OneOpening, <1>OpenUsed,
           <1>OneOpened, <1>OneClosing, <1>Broken, <1>SockOpen, <1>ReadsFor, <1>Serves, <1>Ends,
           <1>Wakes, <1>Signals, <1>AuthAlone, <1>AuthSock, <1>Writes, <1>WaitOnce, <1>Results,
           <1>InOrder, <1>Matched, <1>Calm

-----------------------------------------------------------------------------
(* The dispatch thread.                                                    *)

\* Nobody waits: it waits for somebody.
LEMMA DoPopNone ==
  ASSUME CInv, PopResponse, thread = <<>>
  PROVE  CInv' /\ Calm
<1> USE DEF CInv, Connects, Net, Dispatches, Authenticates
<1>1. /\ ready # <<>> /\ Head(ready) = "dispatch" /\ dispatch.at = "pop"
      /\ dispatch' = [dispatch EXCEPT !.at = "wait"] /\ ready' = Tail(ready)
      /\ UNCHANGED <<sock, thread, connecting, authcoroutine, result, at, request, conn,
                     broken, closer, written, replies, arrived, faults>>
  BY DEF PopResponse, DispatchRuns, DispatchGo, net
<1>2. /\ dispatch'.at = "wait" /\ dispatch'.for = dispatch.for /\ dispatch'.conn = dispatch.conn
      /\ dispatch' \in [at : {"none", "new", "loop", "pop", "wait", "read", "wait_data"},
                        for : Callers \cup {None}, conn : Conns \cup {None}]
  BY <1>1 DEF Typed, ChannelTypeOK
<1>3. /\ Scheduled' /\ ready' \in Seq(Callers \cup {"dispatch"})
      /\ In(ready') \subseteq In(ready)
      /\ \A b \in Callers :
           at[b] \notin {"check", "connect", "opened", "write", "failed", "connected", "check_again"}
  <2>1. ready' = Tail(ready) \o <<>>
    <3>1. Tail(ready) \in Seq(Callers \cup {"dispatch"})
      BY <1>1, Types, TailIs
    <3> QED BY <1>1, <3>1, ConcatEmptySeq
  <2>2. <<>> \in Seq(Callers)
    OBVIOUS
  <2> QED BY <1>1, <1>2, <2>1, <2>2, Empty, DispatchStep
<1>U. /\ dispatch.at = "pop" /\ thread = <<>>
      /\ UNCHANGED <<sock, thread, connecting, authcoroutine, result, at, request, conn,
                     broken, closer, written, replies, arrived, faults>>
  BY <1>1
<1>5. Pend' = Pend
  BY <1>U, <1>2, PendSame DEF Reading
<1>6. \A b \in Callers : Command(b)' = Command(b)
  BY <1>U DEF Command
<1>7. Pend = <<>> /\ ~Reading /\ thread # <<"signal">> /\ In(thread) = {}
  BY <1>U, PendIs, Empty DEF Reading
<1>Scheduled. Scheduled'
  BY <1>3
<1>Typed. Typed'
  <2>1. ChannelTypeOK'
    BY <1>U, <1>2, <1>3 DEF Typed, ChannelTypeOK
  <2> QED BY <1>U, <2>1 DEF Typed
<1>Joins. Joins'
  BY <1>U, <1>3, Queue, Atoms DEF Joins
<1>Leads. Leads'
  BY <1>U, Queue, Atoms DEF Leads
<1>FreeClean. FreeClean'
  BY <1>U, <1>2, <1>3, <1>5, <1>7, Atoms DEF FreeClean, Clean
<1>OneOpening. OneOpening'
  BY <1>U, <1>2, <1>3, <1>5, <1>7, Atoms DEF OneOpening
<1>OpenUsed. OpenUsed'
  BY <1>U, <1>2, <1>3, <1>5, <1>7, Atoms DEF OpenUsed, Clean
<1>OneOpened. OneOpened'
  BY <1>U, <1>2, <1>3, <1>5, <1>7, Atoms DEF OneOpened
<1>OneClosing. OneClosing'
  <2>1. \A k \in Conns : closer[k] # None => closer[k] \notin In(ready)
    BY <1>U, Atoms DEF Ends, OneClosing
  <2> QED BY <1>U, <1>3, <2>1, Atoms DEF OneClosing
<1>Broken. Broken'
  BY <1>U, <1>2, <1>3, <1>5, <1>7, Atoms DEF Broken
<1>SockOpen. SockOpen'
  BY <1>U, <1>2, <1>3, <1>5, <1>7, Atoms DEF SockOpen
<1>ReadsFor. ReadsFor'
  BY <1>U, <1>2, <1>3, <1>5, <1>7, Atoms DEF ReadsFor, Reading, Closing
<1>Serves. Serves'
  BY <1>U, <1>2, <1>3, <1>5, <1>7, Atoms DEF Serves, Closing, EndSignal
<1>Ends. Ends'
  BY <1>U, <1>2, <1>3, <1>5, <1>7, Atoms DEF Ends, Closing, EndSignal
<1>Wakes. Wakes'
  BY <1>U, <1>2, <1>3, <1>5, <1>7, Atoms DEF Wakes
<1>Signals. Signals'
  BY <1>U, <1>2, <1>3, <1>5, <1>7, Atoms DEF Signals
<1>AuthAlone. AuthAlone'
  BY <1>U, <1>2, <1>3, <1>5, <1>7, Atoms DEF AuthAlone
<1>AuthSock. AuthSock'
  BY <1>U, <1>2, <1>3, <1>5, <1>7, Atoms DEF AuthSock
<1>Writes. Writes'
  BY <1>U, <1>2, <1>3, <1>5, <1>7, Atoms DEF Writes
<1>WaitOnce. WaitOnce'
  BY <1>U, <1>2, <1>3, <1>5, <1>7, Atoms DEF WaitOnce
<1>Results. Results'
  BY <1>U, <1>3, <1>6, Atoms DEF Results
<1>InOrder. InOrder'
  <2>1. ASSUME NEW k \in Conns, Answers(k) PROVE Answers(k)'
    BY <1>U, <1>5, <1>6, <2>1, AnswersSame
  <2> QED BY <1>U, <1>2, <2>1 DEF InOrder, Reading
<1>Matched. Matched'
  BY <1>U, <1>2, <1>3, <1>5, <1>7, Atoms DEF Matched
<1>Calm. Calm
  BY <1>U, <1>2, <1>3, <1>5, <1>7, Atoms DEF Calm, Pre, Has, Live, Resp, Reading
<1> QED BY <1>Typed, <1>Scheduled, <1>Joins, <1>Leads, <1>FreeClean, <1>OneOpening, <1>OpenUsed,
           <1>OneOpened, <1>OneClosing, <1>Broken, <1>SockOpen, <1>ReadsFor, <1>Serves, <1>Ends,
           <1>Wakes, <1>Signals, <1>AuthAlone, <1>AuthSock, <1>Writes, <1>WaitOnce, <1>Results,
           <1>InOrder, <1>Matched, <1>Calm

\* The close signal: it ends.
LEMMA DoPopSignal ==
  ASSUME CInv, PopResponse, thread # <<>>, Head(thread) = "signal"
  PROVE  CInv' /\ Calm
<1> USE DEF CInv, Connects, Net, Dispatches, Authenticates
<1> DEFINE W == WokenAll(<<>>)
<1>1. /\ ready # <<>> /\ Head(ready) = "dispatch" /\ dispatch.at = "pop"
      /\ dispatch' = NoDispatch /\ ready' = Tail(ready) \o W
      /\ thread' = <<>>
      /\ result' = [b \in Callers |-> IF b \in In(W) THEN Error ELSE result[b]]
      /\ UNCHANGED <<sock, connecting, authcoroutine, at, request, conn,
                     broken, closer, written, replies, arrived, faults>>
  BY DEF PopResponse, DispatchRuns, DispatchEnds, WakeAll, Popped, In, net
<1>2. /\ dispatch'.at = "none" /\ dispatch'.for = None /\ dispatch'.conn = None
      /\ dispatch' \in [at : {"none", "new", "loop", "pop", "wait", "read", "wait_data"},
                        for : Callers \cup {None}, conn : Conns \cup {None}]
  BY <1>1 DEF NoDispatch
<1>3. ~Reading /\ Pend = thread /\ ~Reading' /\ Once(thread)
  <2>1. ~Reading /\ ~Reading'
    BY <1>1, <1>2 DEF Reading
  <2>2. Pend = thread
    BY <2>1, PendIs
  <2> QED BY <2>1, <2>2 DEF WaitOnce
<1>4. Len(thread) = 1 /\ In(thread) = {"signal"}
  <2>1. thread \in Seq(Callers \cup {"signal"})
    BY Types
  <2>2. Head(thread) = thread[1] /\ Len(thread) >= 1 /\ DOMAIN thread = 1 .. Len(thread)
    BY <2>1, TailIs, Elements
  <2>3. Len(thread) \in Nat
    BY <2>1, Elements
  <2>4. 1 \in DOMAIN thread
    BY <2>2, <2>3
  <2>5. Len(thread) = 1
    BY <2>2, <2>4 DEF Signals
  <2>6. DOMAIN thread = {1} /\ thread[1] = "signal"
    BY <2>2, <2>5
  <2> QED BY <2>5, <2>6 DEF In
<1>5. W = <<>> /\ In(W) = {}
  <2>1. W \in Seq(Callers) /\ In(W) = {}
    BY <1>3, <1>4, WaitingIs
  <2> QED BY <2>1, Elements
<1> HIDE DEF W
<1>6. /\ Scheduled' /\ ready' \in Seq(Callers \cup {"dispatch"})
      /\ In(ready') \subseteq In(ready)
      /\ \A b \in Callers : b \in In(ready) => b \in In(ready')
      /\ \A b \in Callers :
           at[b] \notin {"check", "connect", "opened", "write", "failed", "connected", "check_again"}
  <2>1. ready' = Tail(ready) \o <<>>
    BY <1>1, <1>5
  <2>2. <<>> \in Seq(Callers)
    OBVIOUS
  <2>3. "dispatch" \notin Callers
    BY Types
  <2> QED BY <1>1, <1>2, <2>1, <2>2, <2>3, Empty, DispatchStep
<1>U. /\ dispatch.at = "pop" /\ thread' = <<>> /\ "signal" \in In(thread)
      /\ \A b \in Callers : result'[b] = result[b]
      /\ UNCHANGED <<sock, connecting, authcoroutine, at, request, conn,
                     broken, closer, written, replies, arrived, faults>>
  BY <1>1, <1>4, <1>5
<1>7. Pend' = <<>> /\ In(Pend') = {} /\ In(thread') = {}
  BY <1>3, <1>U, Empty DEF Pend
<1>8. \A b \in Callers : Command(b)' = Command(b)
  BY <1>U DEF Command
<1>9. sock = None
  BY <1>4 DEF Serves
<1>Scheduled. Scheduled'
  BY <1>6
<1>Typed. Typed'
  <2>1. thread' \in Seq(Callers \cup {"signal"}) /\ result' = [b \in Callers |-> result'[b]]
    BY <1>1
  <2>2. ChannelTypeOK'
    BY <1>U, <1>2, <1>6, <2>1 DEF Typed, ChannelTypeOK
  <2> QED BY <1>U, <2>1, <2>2 DEF Typed
<1>Joins. Joins'
  BY <1>U, <1>6, Queue, Atoms DEF Joins
<1>Leads. Leads'
  BY <1>U, Queue, Atoms DEF Leads
<1>FreeClean. FreeClean'
  BY <1>U, <1>2, <1>6, <1>7, <1>9, Atoms DEF FreeClean, Clean
<1>OneOpening. OneOpening'
  BY <1>U, <1>2, <1>6, <1>7, <1>9, Atoms DEF OneOpening
<1>OpenUsed. OpenUsed'
  BY <1>U, <1>2, <1>6, <1>7, <1>9, Atoms DEF OpenUsed, Clean
<1>OneOpened. OneOpened'
  BY <1>U, <1>2, <1>6, <1>7, <1>9, Atoms DEF OneOpened
<1>OneClosing. OneClosing'
  BY <1>U, <1>2, <1>6, <1>7, <1>9, Atoms DEF OneClosing
<1>Broken. Broken'
  BY <1>U, <1>2, <1>6, <1>7, <1>9, Atoms DEF Broken
<1>SockOpen. SockOpen'
  BY <1>U, <1>2, <1>6, <1>7, <1>9, Atoms DEF SockOpen
<1>ReadsFor. ReadsFor'
  BY <1>U, <1>2, <1>6, <1>7, <1>9, Atoms DEF ReadsFor, Reading, Closing
<1>Serves. Serves'
  BY <1>U, <1>2, <1>6, <1>7, <1>9, Atoms DEF Serves, Closing, EndSignal
<1>Ends. Ends'
  BY <1>U, <1>2, <1>6, <1>7, <1>9, Atoms DEF Ends, Closing, EndSignal
<1>Wakes. Wakes'
  BY <1>U, <1>2, <1>6, <1>7, <1>9, Atoms DEF Wakes
<1>Signals. Signals'
  BY <1>U, <1>2, <1>6, <1>7, <1>9, Empty, Atoms DEF Signals
<1>AuthAlone. AuthAlone'
  BY <1>U, <1>2, <1>6, <1>7, <1>9, Atoms DEF AuthAlone
<1>AuthSock. AuthSock'
  BY <1>U, <1>2, <1>6, <1>7, <1>9, Atoms DEF AuthSock
<1>Writes. Writes'
  BY <1>U, <1>2, <1>6, <1>7, <1>9, Atoms DEF Writes
<1>WaitOnce. WaitOnce'
  BY <1>U, <1>2, <1>6, <1>7, <1>9, Empty, Atoms DEF WaitOnce
<1>Results. Results'
  BY <1>U, <1>6, <1>8, Atoms DEF Results
<1>InOrder. InOrder'
  BY <1>U, <1>2, <1>9, Atoms DEF InOrder, Reading
<1>Matched. Matched'
  BY <1>U, <1>2, <1>6, <1>7, <1>9, Atoms DEF Matched
<1>Calm. Calm
  BY <1>U, <1>2, <1>6, <1>7, <1>9, Atoms DEF Calm, Pre, Has, Live, Resp, Reading
<1> QED BY <1>Typed, <1>Scheduled, <1>Joins, <1>Leads, <1>FreeClean, <1>OneOpening, <1>OpenUsed,
           <1>OneOpened, <1>OneClosing, <1>Broken, <1>SockOpen, <1>ReadsFor, <1>Serves, <1>Ends,
           <1>Wakes, <1>Signals, <1>AuthAlone, <1>AuthSock, <1>Writes, <1>WaitOnce, <1>Results,
           <1>InOrder, <1>Matched, <1>Calm

\* A caller: it reads the response to that one.
LEMMA DoPopCaller ==
  ASSUME CInv, PopResponse, thread # <<>>, Head(thread) # "signal"
  PROVE  CInv' /\ Calm
<1> USE DEF CInv, Connects, Net, Dispatches, Authenticates
<1>1. /\ ready # <<>> /\ Head(ready) = "dispatch" /\ dispatch.at = "pop"
      /\ dispatch' = [at |-> "read", for |-> Head(thread), conn |-> sock] /\ ready' = ready
      /\ thread' = Tail(thread)
      /\ UNCHANGED <<sock, connecting, authcoroutine, result, at, request, conn,
                     broken, closer, written, replies, arrived, faults>>
  BY DEF PopResponse, DispatchRuns, Popped, net
<1>2. /\ Head(thread) \in Callers /\ Tail(thread) \in Seq(Callers \cup {"signal"})
      /\ In(Tail(thread)) \subseteq In(thread)
      /\ thread = <<Head(thread)>> \o Tail(thread) /\ thread # <<"signal">>
  <2>1. thread \in Seq(Callers \cup {"signal"})
    BY Types
  <2>2. /\ Head(thread) \in Callers \cup {"signal"} /\ Tail(thread) \in Seq(Callers \cup {"signal"})
        /\ In(Tail(thread)) \subseteq In(thread)
    BY <2>1, TailIs
  <2>3. thread = <<Head(thread)>> \o Tail(thread)
    BY <2>1, HeadTailProperties, SMT
  <2>4. thread # <<"signal">>
    BY Single
  <2> QED BY <2>2, <2>3, <2>4
<1>3. /\ dispatch'.at = "read" /\ dispatch'.for \in Callers /\ dispatch'.conn = sock
      /\ dispatch'.for = Head(thread)
      /\ dispatch' \in [at : {"none", "new", "loop", "pop", "wait", "read", "wait_data"},
                        for : Callers \cup {None}, conn : Conns \cup {None}]
  BY <1>1, <1>2, Atoms
<1>4. /\ Scheduled'
      /\ \A b \in Callers :
           at[b] \notin {"check", "connect", "opened", "write", "failed", "connected", "check_again"}
  <2>1. ready' = ready \o <<>>
    BY <1>1, Types, ConcatEmptySeq
  <2>2. <<>> \in Seq(Callers)
    OBVIOUS
  <2> QED BY <1>1, <1>3, <2>1, <2>2, Empty, DispatchStep
<1>U. /\ dispatch.at = "pop" /\ thread # <<>> /\ thread # <<"signal">>
      /\ In(thread') \subseteq In(thread)
      /\ ready # <<>> /\ Head(ready) = "dispatch" /\ ready' = ready
      /\ UNCHANGED <<sock, connecting, authcoroutine, result, at, request, conn,
                     broken, closer, written, replies, arrived, faults>>
  BY <1>1, <1>2
<1>5. Pend' = Pend
  <2>1. Pend = thread
    BY <1>U, PendIs DEF Reading
  <2>2. Pend' = <<Head(thread)>> \o Tail(thread)
    BY <1>1, <1>3 DEF Pend, Reading
  <2> QED BY <1>2, <2>1, <2>2
<1>6. \A b \in Callers : Command(b)' = Command(b)
  BY <1>U DEF Command
<1>7. /\ sock # None \/ Closing
      /\ \A b \in Callers : at[b] # "open"
      /\ "signal" \notin In(thread)
  BY <1>U DEF Serves, Ends, Signals, EndSignal
<1>Scheduled. Scheduled'
  BY <1>4
<1>Typed. Typed'
  <2>1. ChannelTypeOK'
    BY <1>U, <1>1, <1>2, <1>3 DEF Typed, ChannelTypeOK
  <2> QED BY <1>U, <2>1 DEF Typed
<1>Joins. Joins'
  BY <1>U, <1>3, <1>4, <1>5, <1>7, Atoms DEF Joins
<1>Leads. Leads'
  BY <1>U, <1>3, <1>4, <1>5, <1>7, Atoms DEF Leads
<1>FreeClean. FreeClean'
  BY <1>U, <1>3, <1>4, <1>5, <1>7, Atoms DEF FreeClean, Clean
<1>OneOpening. OneOpening'
  BY <1>U, <1>3, <1>4, <1>5, <1>7, Atoms DEF OneOpening
<1>OpenUsed. OpenUsed'
  BY <1>U, <1>3, <1>4, <1>5, <1>7, Atoms DEF OpenUsed, Clean
<1>OneOpened. OneOpened'
  BY <1>U, <1>3, <1>4, <1>5, <1>7, Atoms DEF OneOpened
<1>OneClosing. OneClosing'
  BY <1>U, <1>3, <1>4, <1>5, <1>7, Atoms DEF OneClosing
<1>Broken. Broken'
  BY <1>U, <1>3, <1>4, <1>5, <1>7, Atoms DEF Broken
<1>SockOpen. SockOpen'
  BY <1>U, <1>3, <1>4, <1>5, <1>7, Atoms DEF SockOpen
<1>ReadsFor. ReadsFor'
  BY <1>U, <1>3, <1>4, <1>5, <1>7, Atoms DEF ReadsFor, Reading, Closing
<1>Serves. Serves'
  BY <1>U, <1>3, <1>4, <1>5, <1>7, Atoms DEF Serves, Closing, EndSignal
<1>Ends. Ends'
  BY <1>U, <1>3, <1>4, <1>5, <1>7, Atoms DEF Ends, Closing, EndSignal
<1>Wakes. Wakes'
  BY <1>U, <1>3, <1>4, <1>5, <1>7, Atoms DEF Wakes, Ends
<1>Signals. Signals'
  BY <1>U, <1>3, <1>4, <1>5, <1>7, Atoms DEF Signals, In
<1>AuthAlone. AuthAlone'
  BY <1>U, <1>3, <1>4, <1>5, <1>7, Atoms DEF AuthAlone
<1>AuthSock. AuthSock'
  BY <1>U, <1>3, <1>4, <1>5, <1>7, Atoms DEF AuthSock
<1>Writes. Writes'
  BY <1>U, <1>3, <1>4, <1>5, <1>7, Atoms DEF Writes
<1>WaitOnce. WaitOnce'
  BY <1>U, <1>3, <1>4, <1>5, <1>7, Atoms DEF WaitOnce
<1>Results. Results'
  BY <1>U, <1>6, Atoms DEF Results
<1>InOrder. InOrder'
  <2>1. ASSUME NEW k \in Conns, Answers(k) PROVE Answers(k)'
    BY <1>U, <1>5, <1>6, <2>1, AnswersSame
  <2> QED BY <1>U, <1>3, <2>1 DEF InOrder, Reading
<1>Matched. Matched'
  BY <1>U, <1>3, <1>4, <1>5, <1>7, Atoms DEF Matched
<1>Calm. Calm
  BY <1>U, <1>3, <1>4, <1>5, <1>7, Atoms DEF Calm, Pre, Has, Live, Resp, Reading
<1> QED BY <1>Typed, <1>Scheduled, <1>Joins, <1>Leads, <1>FreeClean, <1>OneOpening, <1>OpenUsed,
           <1>OneOpened, <1>OneClosing, <1>Broken, <1>SockOpen, <1>ReadsFor, <1>Serves, <1>Ends,
           <1>Wakes, <1>Signals, <1>AuthAlone, <1>AuthSock, <1>Writes, <1>WaitOnce, <1>Results,
           <1>InOrder, <1>Matched, <1>Calm

\* Its response is there.
LEMMA DoGetBuffered ==
  ASSUME CInv, GetResponse, Buffered(dispatch.conn) # <<>>
  PROVE  CInv' /\ Calm
<1> USE DEF CInv, Connects, Net, Dispatches, Authenticates
<1>0. PICK k, a : k = dispatch.conn /\ a = dispatch.for
  OBVIOUS
<1>1. /\ ready # <<>> /\ Head(ready) = "dispatch" /\ dispatch.at = "read"
      /\ result' = [result EXCEPT ![a] = Head(arrived[k])]
      /\ arrived' = [arrived EXCEPT ![k] = Tail(arrived[k])]
      /\ dispatch' = [NoDispatch EXCEPT !.at = "loop"] /\ ready' = Append(ready, a)
      /\ UNCHANGED <<sock, thread, connecting, authcoroutine, at, request, conn,
                     broken, closer, written, replies, faults>>
  BY <1>0 DEF GetResponse, DispatchRuns, DispatchNext
<1>2. /\ dispatch'.at = "loop" /\ dispatch'.for = None /\ dispatch'.conn = None
      /\ dispatch' \in [at : {"none", "new", "loop", "pop", "wait", "read", "wait_data"},
                        for : Callers \cup {None}, conn : Conns \cup {None}]
  BY <1>1 DEF NoDispatch
<1>3. /\ a \in Callers /\ k \in Conns /\ arrived[k] # <<>> /\ Reading /\ ~Reading'
      /\ k = sock \/ closer[k] # None
      /\ sock # None \/ Closing
  <2>1. Reading /\ ~Reading'
    BY <1>1, <1>2 DEF Reading
  <2>2. a \in Callers /\ (sock # None \/ Closing) /\ (k = sock \/ (k \in Conns /\ closer[k] # None))
    BY <1>0, <2>1 DEF ReadsFor
  <2>3. k # None /\ arrived[k] # <<>>
    BY <1>0 DEF Buffered
  <2> QED BY <2>1, <2>2, <2>3, Atoms
<1>4. /\ Pend # <<>> /\ Head(Pend) = a /\ Pend[1] = a /\ Tail(Pend) = thread /\ Pend' = thread
      /\ Pend \in Seq(Callers \cup {"signal"}) /\ Once(Pend)
  <2>1. /\ Pend # <<>> /\ Head(Pend) = a /\ Pend[1] = a /\ Tail(Pend) = thread
        /\ Pend \in Seq(Callers \cup {"signal"})
    BY <1>0, <1>3, PendIs
  <2>2. Pend' = thread
    <3>1. Pend' = <<>> \o thread
      BY <1>1, <1>3, SMTT(30) DEF Pend
    <3> QED BY <3>1, Types, ConcatEmptySeq, SMTT(30)
  <2> QED BY <2>1, <2>2 DEF WaitOnce
<1>5. /\ Once(Pend') /\ a \in In(Pend) /\ a \notin In(Pend') /\ In(Pend') \subseteq In(Pend)
      /\ Len(Pend) \in Nat /\ Len(Pend) >= 1 /\ Len(Pend') = Len(Pend) - 1
      /\ \A i \in 1 .. Len(Pend) - 1 : Pend'[i] = Pend[i + 1]
      /\ DOMAIN Pend = 1 .. Len(Pend) /\ DOMAIN Pend' = 1 .. Len(Pend) - 1
  <2>1. /\ Once(Tail(Pend)) /\ a \in In(Pend) /\ a \notin In(Tail(Pend))
        /\ In(Tail(Pend)) \subseteq In(Pend)
        /\ Len(Pend) \in Nat /\ Len(Pend) >= 1 /\ Len(Tail(Pend)) = Len(Pend) - 1
        /\ \A i \in 1 .. Len(Pend) - 1 : Tail(Pend)[i] = Pend[i + 1]
        /\ Tail(Pend) \in Seq(Callers \cup {"signal"})
    BY <1>4, TailIs
  <2>2. DOMAIN Pend = 1 .. Len(Pend) /\ DOMAIN Tail(Pend) = 1 .. Len(Tail(Pend))
    BY <1>4, <2>1, Elements
  <2> QED BY <1>4, <2>1, <2>2
<1>6. at[a] = "reply" /\ a \notin In(ready)
  BY <1>3, <1>5 DEF WaitOnce
<1>7. /\ Scheduled' /\ ready' \in Seq(Callers \cup {"dispatch"})
      /\ In(ready') = In(ready) \cup {a} /\ ready' # <<>> /\ Head(ready') = "dispatch"
      /\ \A b \in Callers :
           at[b] \notin {"check", "connect", "opened", "write", "failed", "connected", "check_again"}
  <2> DEFINE W == <<a>>
  <2>1. ready' = ready \o W
    BY <1>1, <1>3, Types, AppendIsConcat
  <2>2. W \in Seq(Callers) /\ In(W) = {a} /\ Once(W)
    BY <1>3, SingleIn, Single
  <2> HIDE DEF W
  <2>3. /\ In(W) \cap In(ready) = {}
        /\ \A b \in Callers : b \in In(W) => at[b] \in {"connecting", "reply", "close", "auth_close"}
    BY <1>6, <2>2
  <2> QED BY <1>1, <1>2, <2>1, <2>2, <2>3, DispatchStep
<1>8. Answers(k)
  BY <1>0, <1>3 DEF InOrder
<1>9. arrived[k][1].is \in {"ok", "refused"} /\ arrived[k][1].to = Command(a) /\ Head(arrived[k]) = arrived[k][1]
  <2>1. 1 \in DOMAIN arrived[k] /\ Head(arrived[k]) = arrived[k][1]
    BY <1>3, TailAny DEF Typed
  <2> QED BY <1>4, <1>8, <2>1 DEF Answers, Fits
<1>U. /\ dispatch.at = "read"
      /\ result'[a] = Head(arrived[k]) /\ \A b \in Callers : b # a => result'[b] = result[b]
      /\ arrived'[k] = Tail(arrived[k]) /\ \A j \in Conns : j # k => arrived'[j] = arrived[j]
      /\ UNCHANGED <<sock, thread, connecting, authcoroutine, at, request, conn,
                     broken, closer, written, replies, faults>>
  BY <1>1, <1>3 DEF Typed
<1>10. \A b \in Callers : Command(b)' = Command(b)
  BY <1>U DEF Command
<1>11. result'[a].is \in {"ok", "refused"} /\ result'[a].to = Command(a)
  BY <1>U, <1>9
<1>12. authcoroutine # None => a = authcoroutine /\ sock # None
  BY <1>5, Atoms DEF AuthAlone, AuthSock
<1>Scheduled. Scheduled'
  BY <1>7
<1>Typed. Typed'
  <2>1. IsSeq(arrived'[k])
    BY <1>3, <1>U, TailAny DEF Typed
  <2>2. \A j \in Conns : IsSeq(arrived'[j])
    BY <1>U, <2>1 DEF Typed
  <2>3. ChannelTypeOK'
    BY <1>U, <1>2, <1>7 DEF Typed, ChannelTypeOK
  <2>4. result' = [b \in Callers |-> result'[b]] /\ arrived' = [j \in Conns |-> arrived'[j]]
    BY <1>1, <1>3 DEF Typed
  <2> QED BY <1>U, <2>2, <2>3, <2>4 DEF Typed
<1>Joins. Joins'
  BY <1>U, <1>3, <1>6, <1>7, Queue, Atoms DEF Joins
<1>Leads. Leads'
  BY <1>U, <1>2, <1>3, <1>6, <1>7, Atoms DEF Leads
<1>FreeClean. FreeClean'
  BY <1>U, <1>2, <1>3, <1>6, <1>7, Atoms DEF FreeClean, Clean
<1>OneOpening. OneOpening'
  BY <1>U, <1>2, <1>3, <1>6, <1>7, Atoms DEF OneOpening
<1>OpenUsed. OpenUsed'
  BY <1>U, <1>2, <1>3, <1>6, <1>7, Atoms DEF OpenUsed, Clean
<1>OneOpened. OneOpened'
  BY <1>U, <1>2, <1>3, <1>6, <1>7, Atoms DEF OneOpened
<1>OneClosing. OneClosing'
  BY <1>U, <1>2, <1>3, <1>6, <1>7, Atoms DEF OneClosing
<1>Broken. Broken'
  BY <1>U, <1>2, <1>3, <1>6, <1>7, Atoms DEF Broken
<1>SockOpen. SockOpen'
  BY <1>U, <1>2, <1>3, <1>6, <1>7, Atoms DEF SockOpen
<1>ReadsFor. ReadsFor'
  BY <1>U, <1>2, <1>3, <1>6, <1>7, Atoms DEF ReadsFor, Reading, Closing
<1>Serves. Serves'
  BY <1>U, <1>2, <1>3, <1>6, <1>7, Atoms DEF Serves, Closing, EndSignal
<1>Ends. Ends'
  BY <1>U, <1>2, <1>3, <1>6, <1>7, Atoms DEF Ends, Closing, EndSignal
<1>Wakes. Wakes'
  BY <1>U, <1>2, <1>3, <1>6, <1>7, Atoms DEF Wakes
<1>Signals. Signals'
  BY <1>U, <1>2, <1>3, <1>6, <1>7, Atoms DEF Signals
<1>AuthAlone. AuthAlone'
  BY <1>U, <1>2, <1>3, <1>6, <1>7, <1>5, <1>12, Atoms DEF AuthAlone
<1>AuthSock. AuthSock'
  BY <1>U, <1>2, <1>3, <1>6, <1>7, <1>5, <1>11, <1>12, Atoms DEF AuthSock
<1>Writes. Writes'
  BY <1>U, <1>2, <1>3, <1>6, <1>7, Atoms DEF Writes
<1>WaitOnce. WaitOnce'
  BY <1>U, <1>2, <1>3, <1>6, <1>7, <1>5, Atoms DEF WaitOnce
<1>Results. Results'
  BY <1>U, <1>2, <1>3, <1>6, <1>7, <1>10, <1>11, Atoms DEF Results
<1>InOrder. InOrder'
  <2>1. CASE k = sock
    <3>0. PICK A, R, Q, AA, n :
            /\ A = arrived[k] /\ R = replies[k] /\ Q = written[k]
            /\ AA = Tail(A) /\ n = Len(Pend)
      OBVIOUS
    <3>1. \A i, c : i \in Nat \ {0} /\ Fits(i + 1, c) => Fits(i, c)'
      <4>1. \A i \in Nat \ {0} : i + 1 \in 1 .. n => i \in 1 .. n - 1
        BY <1>5, <3>0
      <4> QED BY <1>5, <1>10, <3>0, <4>1 DEF Fits
    <3>2. /\ \A i \in DOMAIN A : A[i].is \in {"ok", "refused"} /\ Fits(i, A[i].to)
          /\ \A i \in DOMAIN R : R[i].is \in {"ok", "refused"} /\ Fits(Len(A) + i, R[i].to)
          /\ \A i \in DOMAIN Q : Fits(Len(A) + Len(R) + i, Q[i])
          /\ k = sock /\ k \notin broken => n = Len(A) + Len(R) + Len(Q)
      BY <1>8, <3>0 DEF Answers
    <3>3. /\ Len(A) \in Nat /\ Len(A) >= 1 /\ DOMAIN AA = 1 .. Len(A) - 1 /\ Len(AA) = Len(A) - 1
          /\ \A i \in 1 .. Len(A) - 1 : AA[i] = A[i + 1]
          /\ DOMAIN A = 1 .. Len(A)
      BY <1>3, <3>0, TailAny DEF Typed
    <3>4. /\ Len(R) \in Nat /\ Len(Q) \in Nat /\ DOMAIN R = 1 .. Len(R) /\ DOMAIN Q = 1 .. Len(Q)
      BY <1>3, <3>0, Elements DEF Typed, IsSeq
    <3>a. /\ Len(A) \in Nat /\ Len(A) >= 1 /\ Len(AA) = Len(A) - 1 /\ Len(R) \in Nat
          /\ Len(Q) \in Nat
      BY <3>3, <3>4
    <3>5. ASSUME NEW i \in DOMAIN AA PROVE AA[i].is \in {"ok", "refused"} /\ Fits(i, AA[i].to)'
      <4>1. i \in 1 .. Len(A) - 1 /\ AA[i] = A[i + 1] /\ DOMAIN A = 1 .. Len(A)
        BY <3>3, <3>5
      <4>2. i + 1 \in 1 .. Len(A) /\ i \in Nat \ {0}
        BY <3>a, <4>1
      <4> QED BY <3>1, <3>2, <4>1, <4>2
    <3>6. ASSUME NEW i \in DOMAIN R PROVE R[i].is \in {"ok", "refused"} /\ Fits(Len(AA) + i, R[i].to)'
      <4>1. i \in 1 .. Len(R)
        BY <3>4, <3>6
      <4>2. Len(AA) + i \in Nat \ {0} /\ Len(AA) + i + 1 = Len(A) + i
        BY <3>a, <4>1
      <4> QED BY <3>1, <3>2, <4>2
    <3>7. ASSUME NEW i \in DOMAIN Q PROVE Fits(Len(AA) + Len(R) + i, Q[i])'
      <4>1. i \in 1 .. Len(Q)
        BY <3>4, <3>7
      <4>2. Len(AA) + Len(R) + i \in Nat \ {0} /\ Len(AA) + Len(R) + i + 1 = Len(A) + Len(R) + i
        BY <3>a, <4>1
      <4> QED BY <3>1, <3>2, <4>2
    <3>8. k = sock /\ k \notin broken => Len(Pend') = Len(AA) + Len(R) + Len(Q)
      <4>1. Len(Pend') = n - 1 /\ n \in Nat
        BY <1>5, <3>0
      <4>2. k = sock /\ k \notin broken => n = Len(A) + Len(R) + Len(Q)
        BY <3>2
      <4> QED BY <3>a, <4>1, <4>2
    <3>9. /\ arrived'[k] = AA /\ replies'[k] = R /\ written'[k] = Q
          /\ sock' = sock /\ broken' = broken
      BY <1>U, <3>0
    <3>10. Answers(k)'
      BY <3>5, <3>6, <3>7, <3>8, <3>9 DEF Answers
    <3> QED BY <1>U, <1>3, <2>1, <3>10 DEF InOrder
  <2>2. CASE k # sock
    BY <1>U, <1>3, <2>2, Atoms DEF InOrder, OneClosing
  <2> QED BY <2>1, <2>2
<1>Matched. Matched'
  BY <1>U, <1>2, <1>3, <1>6, <1>7, Atoms DEF Matched
<1>13. /\ Live(k) /\ result'[a] \in Resp(k) /\ result'[a].to.by = a
       /\ In(arrived'[k]) \subseteq In(arrived[k])
  <2>1. Head(arrived[k]) \in In(arrived[k]) /\ In(arrived'[k]) \subseteq In(arrived[k])
    BY <1>3, <1>U, Contents DEF Typed
  <2> QED BY <1>0, <1>3, <1>U, <1>11, <2>1 DEF Live, Resp, Command
<1>14. \A j \in Conns : (Live(j)' => Live(j)) /\ Resp(j)' \subseteq Resp(j)
  BY <1>U, <1>3, <1>13 DEF Live, Resp
<1>Calm. Calm
  BY <1>U, <1>3, <1>7, <1>13, <1>14, Atoms DEF Calm, Pre, Has
<1> QED BY <1>Typed, <1>Scheduled, <1>Joins, <1>Leads, <1>FreeClean, <1>OneOpening, <1>OpenUsed,
           <1>OneOpened, <1>OneClosing, <1>Broken, <1>SockOpen, <1>ReadsFor, <1>Serves, <1>Ends,
           <1>Wakes, <1>Signals, <1>AuthAlone, <1>AuthSock, <1>Writes, <1>WaitOnce, <1>Results,
           <1>InOrder, <1>Matched, <1>Calm

\* There is none yet: it waits for the data.
LEMMA DoGetWaits ==
  ASSUME CInv, GetResponse, Buffered(dispatch.conn) = <<>>, Connected(dispatch.conn)
  PROVE  CInv' /\ Calm
<1> USE DEF CInv, Connects, Net, Dispatches, Authenticates
<1>1. /\ ready # <<>> /\ Head(ready) = "dispatch" /\ dispatch.at = "read"
      /\ dispatch' = [dispatch EXCEPT !.at = "wait_data"] /\ ready' = Tail(ready)
      /\ UNCHANGED <<sock, thread, connecting, authcoroutine, result, at, request, conn,
                     broken, closer, written, replies, arrived, faults>>
  BY DEF GetResponse, DispatchRuns, DispatchGo, net
<1>2. /\ dispatch'.at = "wait_data" /\ dispatch'.for = dispatch.for
      /\ dispatch'.conn = dispatch.conn
      /\ dispatch' \in [at : {"none", "new", "loop", "pop", "wait", "read", "wait_data"},
                        for : Callers \cup {None}, conn : Conns \cup {None}]
  BY <1>1 DEF Typed, ChannelTypeOK
<1>3. /\ Scheduled' /\ ready' \in Seq(Callers \cup {"dispatch"})
      /\ In(ready') \subseteq In(ready)
      /\ \A b \in Callers : b \in In(ready) => b \in In(ready')
      /\ \A b \in Callers :
           at[b] \notin {"check", "connect", "opened", "write", "failed", "connected", "check_again"}
  <2>1. ready' = Tail(ready) \o <<>>
    <3>1. Tail(ready) \in Seq(Callers \cup {"dispatch"})
      BY <1>1, Types, TailIs
    <3> QED BY <1>1, <3>1, ConcatEmptySeq
  <2>2. <<>> \in Seq(Callers)
    OBVIOUS
  <2>3. "dispatch" \notin Callers
    BY Types
  <2> QED BY <1>1, <1>2, <2>1, <2>2, <2>3, Empty, DispatchStep
<1>U. /\ dispatch.at = "read"
      /\ UNCHANGED <<sock, thread, connecting, authcoroutine, result, at, request, conn,
                     broken, closer, written, replies, arrived, faults>>
  BY <1>1
<1>5. Pend' = Pend
  BY <1>U, <1>2, PendSame DEF Reading
<1>6. \A b \in Callers : Command(b)' = Command(b)
  BY <1>U DEF Command
<1>7. /\ dispatch.conn \in Conns /\ conn[dispatch.conn] = "open" /\ arrived[dispatch.conn] = <<>>
      /\ dispatch.conn = sock \/ closer[dispatch.conn] # None
  BY <1>U, Atoms DEF ReadsFor, Reading, Connected, Buffered
<1>8. \A b \in Callers : at[b] \in {"close", "auth_close"} => b \notin In(ready)
  BY <1>U, <1>7 DEF Wakes
<1>Scheduled. Scheduled'
  BY <1>3
<1>Typed. Typed'
  <2>1. ChannelTypeOK'
    BY <1>U, <1>2, <1>3 DEF Typed, ChannelTypeOK
  <2> QED BY <1>U, <2>1 DEF Typed
<1>Joins. Joins'
  BY <1>U, <1>3, Queue, Atoms DEF Joins
<1>Leads. Leads'
  BY <1>U, Queue, Atoms DEF Leads
<1>FreeClean. FreeClean'
  BY <1>U, <1>2, <1>3, <1>5, <1>7, <1>8, Atoms DEF FreeClean, Clean
<1>OneOpening. OneOpening'
  BY <1>U, <1>2, <1>3, <1>5, <1>7, <1>8, Atoms DEF OneOpening
<1>OpenUsed. OpenUsed'
  BY <1>U, <1>2, <1>3, <1>5, <1>7, <1>8, Atoms DEF OpenUsed, Clean
<1>OneOpened. OneOpened'
  BY <1>U, <1>2, <1>3, <1>5, <1>7, <1>8, Atoms DEF OneOpened
<1>OneClosing. OneClosing'
  BY <1>U, <1>2, <1>3, <1>5, <1>7, <1>8, Atoms DEF OneClosing
<1>Broken. Broken'
  BY <1>U, <1>2, <1>3, <1>5, <1>7, <1>8, Atoms DEF Broken
<1>SockOpen. SockOpen'
  BY <1>U, <1>2, <1>3, <1>5, <1>7, <1>8, Atoms DEF SockOpen, OneClosing
<1>ReadsFor. ReadsFor'
  BY <1>U, <1>2, <1>3, <1>5, <1>7, <1>8, Atoms DEF ReadsFor, Reading, Closing
<1>Serves. Serves'
  BY <1>U, <1>2, <1>3, <1>5, <1>7, <1>8, Atoms DEF Serves, Closing, EndSignal
<1>Ends. Ends'
  BY <1>U, <1>2, <1>3, <1>5, <1>7, <1>8, Atoms DEF Ends, Closing, EndSignal
<1>Wakes. Wakes'
  BY <1>U, <1>2, <1>3, <1>5, <1>7, <1>8, Atoms DEF Wakes
<1>Signals. Signals'
  BY <1>U, <1>2, <1>3, <1>5, <1>7, <1>8, Atoms DEF Signals
<1>AuthAlone. AuthAlone'
  BY <1>U, <1>2, <1>3, <1>5, <1>7, <1>8, Atoms DEF AuthAlone
<1>AuthSock. AuthSock'
  BY <1>U, <1>2, <1>3, <1>5, <1>7, <1>8, Atoms DEF AuthSock
<1>Writes. Writes'
  BY <1>U, <1>2, <1>3, <1>5, <1>7, <1>8, Atoms DEF Writes
<1>WaitOnce. WaitOnce'
  BY <1>U, <1>2, <1>3, <1>5, <1>7, <1>8, Atoms DEF WaitOnce
<1>Results. Results'
  BY <1>U, <1>3, <1>6, Atoms DEF Results
<1>InOrder. InOrder'
  <2>1. ASSUME NEW k \in Conns, Answers(k) PROVE Answers(k)'
    BY <1>U, <1>5, <1>6, <2>1, AnswersSame
  <2> QED BY <1>U, <1>2, <2>1 DEF InOrder, Reading
<1>Matched. Matched'
  BY <1>U, <1>2, <1>3, <1>5, <1>7, <1>8, Atoms DEF Matched
<1>Calm. Calm
  BY <1>U, <1>2, <1>3, <1>5, <1>7, <1>8, Atoms DEF Calm, Pre, Has, Live, Resp, Reading
<1> QED BY <1>Typed, <1>Scheduled, <1>Joins, <1>Leads, <1>FreeClean, <1>OneOpening, <1>OpenUsed,
           <1>OneOpened, <1>OneClosing, <1>Broken, <1>SockOpen, <1>ReadsFor, <1>Serves, <1>Ends,
           <1>Wakes, <1>Signals, <1>AuthAlone, <1>AuthSock, <1>Writes, <1>WaitOnce, <1>Results,
           <1>InOrder, <1>Matched, <1>Calm

\* The connection is lost: all who wait are failed.
LEMMA DoGetLost ==
  ASSUME CInv, GetResponse, Buffered(dispatch.conn) = <<>>, ~Connected(dispatch.conn)
  PROVE  CInv' /\ Calm
<1> USE DEF CInv, Connects, Net, Dispatches, Authenticates
<1>0. PICK a : a = dispatch.for
  OBVIOUS
<1> DEFINE W == WokenAll(<<a>>)
<1>1. /\ ready # <<>> /\ Head(ready) = "dispatch" /\ dispatch.at = "read" /\ CloseLost
      /\ thread' = <<>>
      /\ result' = [b \in Callers |-> IF b \in In(W) THEN Error ELSE result[b]]
      /\ dispatch' = [NoDispatch EXCEPT !.at = "loop"] /\ ready' = ready \o W
      /\ UNCHANGED <<connecting, authcoroutine, at, request>>
  <2>1. /\ ready # <<>> /\ Head(ready) = "dispatch" /\ dispatch.at = "read" /\ CloseLost
        /\ Loses(a) /\ DispatchNext /\ UNCHANGED <<connecting, authcoroutine, at, request>>
    BY <1>0 DEF GetResponse, DispatchRuns
  <2>2. WakeAll(<<a>>) /\ ready' = ready \o W
    BY <2>1 DEF Loses
  <2>3. \A b : b \in In(W) <=> \E i \in DOMAIN W : W[i] = b
    BY DEF In
  <2>4. /\ thread' = <<>>
        /\ result' = [b \in Callers |-> IF \E i \in DOMAIN W : W[i] = b THEN Error ELSE result[b]]
    BY <2>2 DEF WakeAll
  <2> HIDE DEF W
  <2> QED BY <2>1, <2>2, <2>3, <2>4 DEF DispatchNext
<1>2. /\ dispatch'.at = "loop" /\ dispatch'.for = None /\ dispatch'.conn = None
      /\ dispatch' \in [at : {"none", "new", "loop", "pop", "wait", "read", "wait_data"},
                        for : Callers \cup {None}, conn : Conns \cup {None}]
  BY <1>1 DEF NoDispatch
<1>3. /\ a \in Callers /\ Reading /\ ~Reading'
      /\ sock # None \/ Closing
      /\ dispatch.conn = sock \/ (dispatch.conn \in Conns /\ closer[dispatch.conn] # None)
  <2>1. Reading /\ ~Reading'
    BY <1>1, <1>2 DEF Reading
  <2> QED BY <1>0, <2>1 DEF ReadsFor
<1>4. /\ In(Pend) = {a} \cup In(thread) /\ Pend' = <<>> /\ In(Pend') = {} /\ In(thread') = {}
      /\ Once(thread) /\ a \notin In(thread)
  <2>1. /\ In(Pend) = {a} \cup In(thread) /\ Pend \in Seq(Callers \cup {"signal"})
        /\ Tail(Pend) = thread /\ Head(Pend) = a /\ Pend # <<>> /\ Once(Pend)
    BY <1>0, <1>3, PendIs DEF WaitOnce
  <2>2. Once(thread) /\ a \notin In(thread)
    BY <2>1, TailIs
  <2>3. Pend' = <<>>
    BY <1>1, <1>3 DEF Pend
  <2> QED BY <1>1, <2>1, <2>2, <2>3, Empty
<1>5. /\ W \in Seq(Callers) /\ Once(W) /\ In(W) = In(Pend) \ {"signal"}
      /\ \A b \in In(W) : b \in Callers /\ at[b] = "reply" /\ b \notin In(ready)
  <2> DEFINE f == <<a>>
             t == Waiting
  <2>1. t \in Seq(Callers) /\ Once(t) /\ In(t) = In(thread) \ {"signal"}
    BY <1>4, WaitingIs
  <2>2. f \in Seq(Callers) /\ Once(f) /\ In(f) = {a}
    BY <1>3, SingleIn, Single
  <2>3. In(f) \cap In(t) = {}
    BY <1>4, <2>1, <2>2
  <2>4. W = f \o t
    BY DEF WokenAll
  <2> HIDE DEF f, t, W
  <2>5. f \o t \in Seq(Callers) /\ Once(f \o t) /\ In(f \o t) = In(f) \cup In(t)
    BY <2>1, <2>2, <2>3, ConcatIs
  <2>6. W \in Seq(Callers) /\ Once(W) /\ In(W) = In(Pend) \ {"signal"}
    BY <1>3, <1>4, <2>1, <2>2, <2>4, <2>5, Atoms
  <2>7. In(W) \subseteq Callers
    BY <2>6, Elements
  <2> QED BY <2>6, <2>7 DEF WaitOnce
<1> HIDE DEF W
<1>6. a \in In(W)
  BY <1>3, <1>4, <1>5, Atoms
<1>7. /\ Scheduled' /\ ready' \in Seq(Callers \cup {"dispatch"})
      /\ In(ready') = In(ready) \cup In(W) /\ ready' # <<>> /\ Head(ready') = "dispatch"
      /\ \A b \in Callers :
           at[b] \notin {"check", "connect", "opened", "write", "failed", "connected", "check_again"}
  <2>1. In(W) \cap In(ready) = {}
    BY <1>5
  <2> QED BY <1>1, <1>2, <1>5, <2>1, DispatchStep
<1>8. /\ sock' = IF Lost THEN None ELSE sock
      /\ \A k \in Conns : ~Lost \/ k # sock =>
           /\ conn'[k] = conn[k] /\ closer'[k] = closer[k] /\ (k \in broken' <=> k \in broken)
           /\ written'[k] = written[k] /\ replies'[k] = replies[k] /\ arrived'[k] = arrived[k]
      /\ Lost => /\ sock \in Conns /\ conn'[sock] = "none" /\ sock \notin broken'
                 /\ closer'[sock] = None
                 /\ written'[sock] = <<>> /\ replies'[sock] = <<>> /\ arrived'[sock] = <<>>
      /\ broken' \subseteq Conns
  BY <1>1, LostIs
<1>9. /\ sock # None => Lost
      /\ Lost => \A k \in Conns : closer[k] = None
      /\ sock' = None
  <2>1. sock # None => Lost
    BY <1>3, Atoms DEF OneClosing, SockOpen, Connected, Lost
  <2>2. Lost => \A k \in Conns : closer[k] = None
    BY DEF Lost, OneClosing
  <2> QED BY <1>8, <2>1, <2>2
<1>U. /\ dispatch.at = "read" /\ thread' = <<>>
      /\ \A b \in Callers : result'[b] = IF b \in In(W) THEN Error ELSE result[b]
      /\ UNCHANGED <<connecting, authcoroutine, at, request>>
  BY <1>1
<1>10. \A b \in Callers : Command(b)' = Command(b)
  BY <1>U DEF Command
<1>11. authcoroutine # None => authcoroutine = a /\ \A b \in In(W) : b = a
  BY <1>4, <1>5, Atoms DEF AuthAlone
<1>12. at[a] = "reply" /\ a \notin In(ready) /\ result'[a].is = "error"
  BY <1>3, <1>5, <1>6, <1>U DEF Error
<1>Scheduled. Scheduled'
  BY <1>7
<1>Typed. Typed'
  <2>1. thread' \in Seq(Callers \cup {"signal"}) /\ result' = [b \in Callers |-> result'[b]]
    BY <1>1
  <2>2. ChannelTypeOK'
    BY <1>1, <1>2, <1>7, <1>9, <2>1, LostIs DEF Typed, ChannelTypeOK
  <2> QED BY <1>1, <2>1, <2>2, LostIs DEF Typed
<1>Joins. Joins'
  BY <1>U, <1>5, <1>7, Queue, Atoms DEF Joins
<1>Leads. Leads'
  BY <1>U, Atoms DEF Leads
<1>FreeClean. FreeClean'
  BY <1>U, <1>2, <1>3, <1>4, <1>5, <1>7, <1>8, <1>9, Atoms DEF FreeClean, Clean
<1>OneOpening. OneOpening'
  BY <1>U, <1>2, <1>3, <1>4, <1>5, <1>7, <1>8, <1>9, Atoms DEF OneOpening, Lost
<1>OpenUsed. OpenUsed'
  BY <1>U, <1>2, <1>3, <1>4, <1>5, <1>7, <1>8, <1>9, Atoms DEF OpenUsed, Clean, Lost
<1>OneOpened. OneOpened'
  BY <1>U, <1>2, <1>3, <1>4, <1>5, <1>7, <1>8, <1>9, Atoms DEF OneOpened, Lost, SockOpen
<1>OneClosing. OneClosing'
  BY <1>U, <1>2, <1>3, <1>4, <1>5, <1>7, <1>8, <1>9, SMTT(30), Atoms DEF OneClosing, Lost
<1>Broken. Broken'
  BY <1>U, <1>2, <1>3, <1>4, <1>5, <1>7, <1>8, <1>9, Atoms DEF Broken
<1>SockOpen. SockOpen'
  BY <1>U, <1>2, <1>3, <1>4, <1>5, <1>7, <1>8, <1>9, Atoms DEF SockOpen
<1>ReadsFor. ReadsFor'
  BY <1>U, <1>2, <1>3, <1>4, <1>5, <1>7, <1>8, <1>9, Atoms DEF ReadsFor, Reading, Closing
<1>Serves. Serves'
  BY <1>U, <1>2, <1>3, <1>4, <1>5, <1>7, <1>8, <1>9, Atoms DEF Serves, Closing, EndSignal
<1>Ends. Ends'
  BY <1>U, <1>2, <1>3, <1>4, <1>5, <1>7, <1>8, <1>9, Atoms
     DEF Ends, Closing, EndSignal, Lost, SockOpen
<1>Wakes. Wakes'
  BY <1>U, <1>2, <1>3, <1>4, <1>5, <1>7, <1>8, <1>9, Atoms DEF Wakes
<1>Signals. Signals'
  BY <1>U, <1>2, <1>3, <1>4, <1>5, <1>7, <1>8, <1>9, Empty, Atoms DEF Signals
<1>AuthAlone. AuthAlone'
  BY <1>U, <1>2, <1>3, <1>4, <1>5, <1>7, <1>8, <1>9, <1>11, Atoms DEF AuthAlone
<1>AuthSock. AuthSock'
  BY <1>U, <1>2, <1>3, <1>4, <1>5, <1>7, <1>8, <1>9, <1>11, <1>12, Atoms DEF AuthSock
<1>Writes. Writes'
  BY <1>U, <1>2, <1>3, <1>4, <1>5, <1>7, <1>8, <1>9, Atoms DEF Writes
<1>WaitOnce. WaitOnce'
  BY <1>U, <1>2, <1>3, <1>4, <1>5, <1>7, <1>8, <1>9, Empty, Atoms DEF WaitOnce
<1>Results. Results'
  BY <1>U, <1>2, <1>3, <1>4, <1>5, <1>7, <1>8, <1>9, <1>10, Atoms DEF Results
<1>InOrder. InOrder'
  BY <1>3, <1>9, Atoms DEF InOrder
<1>Matched. Matched'
  BY <1>U, <1>2, <1>3, <1>4, <1>5, <1>7, <1>8, <1>9, Atoms DEF Matched
<1>13. \A j \in Conns : ~Live(j)'
  BY <1>3, <1>9, Atoms DEF Live
<1>Calm. Calm
  BY <1>U, <1>5, <1>7, <1>9, <1>13, Atoms DEF Calm, Pre, Has, Error
<1> QED BY <1>Typed, <1>Scheduled, <1>Joins, <1>Leads, <1>FreeClean, <1>OneOpening, <1>OpenUsed,
           <1>OneOpened, <1>OneClosing, <1>Broken, <1>SockOpen, <1>ReadsFor, <1>Serves, <1>Ends,
           <1>Wakes, <1>Signals, <1>AuthAlone, <1>AuthSock, <1>Writes, <1>WaitOnce, <1>Results,
           <1>InOrder, <1>Matched, <1>Calm

LEMMA DoInit ==
  ASSUME ChannelInit
  PROVE  CInv
<1> USE DEF CInv, Connects, Net, Dispatches, Authenticates
<1>1. /\ sock = None /\ thread = <<>> /\ connecting = <<>> /\ authcoroutine = None
      /\ dispatch.at = "none" /\ dispatch.for = None /\ dispatch.conn = None /\ ready = <<>>
      /\ \A a \in Callers : at[a] = "idle"
      /\ \A k \in Conns : /\ conn[k] = "none" /\ closer[k] = None
                          /\ written[k] = <<>> /\ replies[k] = <<>> /\ arrived[k] = <<>>
      /\ broken = {}
  BY DEF ChannelInit, NoDispatch
<1>2. In(ready) = {} /\ In(thread) = {} /\ Once(ready) /\ Once(connecting) /\ ~Reading
  BY <1>1, Empty DEF Reading
<1>3. Pend = <<>> /\ In(Pend) = {} /\ Once(Pend) /\ DOMAIN connecting = {} /\ DOMAIN thread = {}
  BY <1>1, <1>2, Empty DEF Pend
<1>4. None \notin Callers /\ None \notin Conns
  BY ChannelAssumption
<1>Typed. Typed
  <2>1. /\ thread \in Seq(Callers \cup {"signal"}) /\ connecting \in Seq(Callers)
        /\ ready \in Seq(Callers \cup {"dispatch"})
    BY <1>1
  <2>2. at \in [Callers -> Yields \cup Steps]
    BY DEF ChannelInit, Yields
  <2>3. dispatch \in [at : {"none", "new", "loop", "pop", "wait", "read", "wait_data"},
                      for : Callers \cup {None}, conn : Conns \cup {None}]
    BY DEF ChannelInit, NoDispatch
  <2>4. ChannelTypeOK
    BY <2>1, <2>2, <2>3, ChannelAssumption DEF ChannelInit, ChannelTypeOK
  <2> QED BY <1>1, <2>4, Empty DEF Typed, ChannelInit
<1>Scheduled. Scheduled
  BY <1>1, <1>2 DEF Scheduled, Steps
<1>Connects. Connects
  BY <1>1, <1>2, <1>3 DEF Joins, Leads
<1>Net. Net
  BY <1>1, <1>4 DEF FreeClean, Clean, OneOpening, OpenUsed, OneOpened, OneClosing, Broken,
                    SockOpen
<1>Dispatches. Dispatches
  BY <1>1, <1>2, <1>3 DEF ReadsFor, Serves, Ends, Wakes, Signals, Reading
<1>Authenticates. Authenticates
  BY <1>1 DEF AuthAlone, AuthSock, Writes
<1>5. WaitOnce /\ Results /\ Matched
  BY <1>1, <1>2, <1>3 DEF WaitOnce, Results, Matched
<1>6. InOrder
  BY <1>1, <1>2, <1>4 DEF InOrder
<1> QED BY <1>Typed, <1>Scheduled, <1>Connects, <1>Net, <1>Dispatches, <1>Authenticates, <1>5, <1>6

-----------------------------------------------------------------------------

LEMMA DoStutter ==
  ASSUME CInv, UNCHANGED svars
  PROVE  CInv'
<1>1. UNCHANGED <<sock, thread, connecting, authcoroutine, result, dispatch, ready, at, request,
                  conn, broken, closer, written, replies, arrived, faults>>
  BY DEF svars, chan, net
<1>2. Pend' = Pend /\ \A b : Command(b)' = Command(b)
  BY <1>1 DEF Pend, Reading, Command
<1>3. \A k \in Conns : Answers(k) => Answers(k)'
  BY <1>1, <1>2, AnswersSame
<1>4. InOrder' /\ WaitOnce' /\ Results' /\ Matched'
  BY <1>1, <1>2, <1>3 DEF CInv, InOrder, WaitOnce, Results, Matched, Reading
<1>5. Typed' /\ Scheduled' /\ Connects'
  BY <1>1 DEF CInv, Typed, ChannelTypeOK, Scheduled, Connects, Joins, Leads
<1>6. Net'
  BY <1>1, <1>2 DEF CInv, Net, FreeClean, Clean, OneOpening, OpenUsed, OneOpened, OneClosing,
                    Broken, SockOpen
<1>7. Dispatches' /\ Authenticates'
  BY <1>1, <1>2 DEF CInv, Dispatches, ReadsFor, Serves, Ends, Wakes, Signals, Reading, Closing,
                    EndSignal, Authenticates, AuthAlone, AuthSock, Writes
<1> QED BY <1>4, <1>5, <1>6, <1>7 DEF CInv

\* connect_once never has to wait for the old dispatch thread.
LEMMA NoneAwaits ==
  ASSUME CInv, NEW a \in Callers, at[a] = "opened"
  PROVE  dispatch.at = "none" /\ ~AwaitDispatch(a)
<1> USE DEF CInv, Net, Dispatches
<1>1. ready = <<a>> /\ In(ready) = {a}
  BY Single DEF Scheduled
<1>2. dispatch.at # "pop"
  BY <1>1, Atoms DEF Scheduled
<1>3. ~Closing
  BY DEF Closing, OneClosing
<1>4. dispatch.at = "none"
  BY <1>2, <1>3 DEF Ends, EndSignal
<1> QED BY <1>4 DEF AwaitDispatch

LEMMA DoCaller ==
  ASSUME CInv, NEW a \in Callers, Caller(a)
  PROVE  CInv' /\ Calm
<1>1. CASE Write(a)
  BY <1>1, DoWriteBroken, DoWriteOpen
<1>2. CASE AwaitDispatch(a)
  BY <1>2, NoneAwaits DEF AwaitDispatch, Runs
<1>3. CASE AuthClose(a)
  BY <1>3, DoAuthCloseOpen, DoAuthCloseLost
<1> QED BY <1>1, <1>2, <1>3, DoCheck, DoCheckAgain, DoConnectOnce, DoAuthenticate, DoClosed,
           DoReplied, DoFailed, DoConnectEnds, DoJoined, DoAuthClosed DEF Caller

LEMMA DoOpening ==
  ASSUME CInv, NEW a \in Callers, Opening(a)
  PROVE  CInv' /\ Calm
BY DoOpened DEF Opening

LEMMA DoDispatch ==
  ASSUME CInv, Dispatch
  PROVE  CInv' /\ Calm
<1>1. CASE PopResponse
  BY <1>1, DoPopNone, DoPopSignal, DoPopCaller
<1>2. CASE GetResponse
  BY <1>2, DoGetBuffered, DoGetWaits, DoGetLost
<1> QED BY <1>1, <1>2, DoDispatchStart, DoDispatchLoop DEF Dispatch

\* The invariant of the channel, as long as no response was cut in two by a close.
Uncut == CInv /\ \A a \in Callers : at[a] # "await"

LEMMA AwaitStep ==
  ASSUME Uncut, Next
  PROVE  \A a \in Callers : at'[a] # "await"
<1> USE DEF Uncut
<1>1. ASSUME NEW a \in Callers, NEW t, t # "await", at' = [at EXCEPT ![a] = t]
      PROVE  \A b \in Callers : at'[b] # "await"
  BY <1>1, Types DEF CInv
<1>2. ASSUME at' = at PROVE \A b \in Callers : at'[b] # "await"
  BY <1>2
<1>3. ASSUME NEW a \in Callers, Agent(a) \/ Client(a)
      PROVE  \A b \in Callers : at'[b] # "await"
  <2>1. CASE Call(a)
    BY <1>1, <2>1 DEF Call, Request, Go
  <2>2. CASE Return(a) \/ Raise(a) \/ Generate(a)
    BY <1>1, <2>2 DEF Return, Raise, Generate, Taken, Go
  <2>3. CASE Enter(a) \/ Token(a) \/ Balance(a) \/ Client(a)
    BY <1>2, <2>3 DEF Enter, Token, Balance, Client, Receive, Disconnect, svars
  <2> QED BY <1>3, <2>1, <2>2, <2>3 DEF Agent
<1>4. ASSUME NEW a \in Callers, Caller(a) PROVE \A b \in Callers : at'[b] # "await"
  <2>1. CASE Check(a) \/ CheckAgain(a) \/ ConnectOnce(a) \/ Authenticate(a)
    BY <1>1, <2>1 DEF Check, CheckAgain, ConnectOnce, Authenticate, GoOn, Yield, Go
  <2>2. CASE AwaitDispatch(a)
    BY <2>2, NoneAwaits DEF AwaitDispatch, Runs
  <2>3. CASE Write(a) \/ Closed(a) \/ Replied(a)
    BY <1>1, <2>3 DEF Write, Closed, Replied, GoOn, Yield, Go
  <2>4. CASE AuthClose(a) \/ AuthClosed(a) \/ Failed(a)
    BY <1>1, <1>2, <2>4 DEF AuthClose, AuthClosed, Failed, GoOn, Yield, Go
  <2>5. CASE ConnectEnds(a) \/ Joined(a)
    BY <1>1, <2>5 DEF ConnectEnds, Joined, GoOn, Go
  <2> QED BY <1>4, <2>1, <2>2, <2>3, <2>4, <2>5 DEF Caller
<1>5. ASSUME NEW a \in Callers, Opening(a) \/ Awaited(a)
      PROVE  \A b \in Callers : at'[b] # "await"
  BY <1>1, <1>5 DEF Opening, Opened, Awaited, Go
<1>6. CASE Dispatch
  BY <1>2, <1>6 DEF Dispatch, DispatchStart, DispatchLoop, PopResponse, GetResponse
<1>7. ASSUME NEW k \in Conns, Execute(k) \/ Report(k) \/ Fault(k)
      PROVE  \A b \in Callers : at'[b] # "await"
  BY <1>2, <1>7 DEF Execute, Serve, Responds, Report, Part, Data, CloseMessage, Fault, Break, Refuse
<1> QED BY <1>3, <1>4, <1>5, <1>6, <1>7 DEF Next, Redisd

LEMMA ChannelStep ==
  ASSUME Uncut, [Next]_vars, ~cut'
  PROVE  Uncut'
<1>0. CInv /\ \A a \in Callers : ~Awaited(a)
  BY DEF Uncut, Awaited
<1>1. ASSUME UNCHANGED svars PROVE CInv'
  BY <1>0, <1>1, DoStutter
<1>2. ASSUME NEW a \in Callers, Agent(a) PROVE CInv'
  <2>1. CASE Call(a)
    BY <1>0, <2>1, DoRequest DEF Call
  <2>2. CASE Return(a) \/ Raise(a) \/ Generate(a)
    BY <1>0, <2>2, DoTaken DEF Return, Raise, Generate
  <2>3. CASE Enter(a) \/ Token(a) \/ Balance(a)
    BY <1>1, <2>3 DEF Enter, Token, Balance
  <2> QED BY <1>2, <2>1, <2>2, <2>3 DEF Agent
<1>3. ASSUME NEW a \in Callers, Client(a) PROVE CInv'
  BY <1>1, <1>3 DEF Client, Receive, Disconnect
<1>4. ASSUME Redisd PROVE CInv'
  BY <1>0, <1>4, DoCaller, DoOpening, DoDispatch DEF Redisd
<1>5. ASSUME NEW k \in Conns, Execute(k) PROVE CInv'
  BY <1>0, <1>5, DoServe DEF Execute
<1>6. ASSUME NEW k \in Conns, Report(k) PROVE CInv'
  BY <1>0, <1>6, DoPart, DoData, DoCloseMessage DEF Report
<1>7. ASSUME NEW k \in Conns, Fault(k) PROVE CInv'
  BY <1>0, <1>7, DoBreak, DoRefuse DEF Fault
<1>8. CASE Next
  <2>1. CInv'
    BY <1>2, <1>3, <1>4, <1>5, <1>6, <1>7, <1>8 DEF Next
  <2> QED BY <1>8, <2>1, AwaitStep DEF Uncut
<1>9. CASE UNCHANGED vars
  <2>1. UNCHANGED svars /\ at' = at
    BY <1>9 DEF vars, svars
  <2> QED BY <1>1, <2>1 DEF Uncut
<1> QED BY <1>8, <1>9

\* What is cut stays so, and the first parts of responses belong to connections.
Grows ==
  /\ begun' \subseteq begun \cup Conns
  /\ cut' = cut \/ (cut' \in BOOLEAN /\ (cut => cut'))

LEMMA CutGrows ==
  ASSUME [Next]_vars
  PROVE  Grows
<1> USE DEF Grows
<1>1. ASSUME NEW a \in Callers, Agent(a) \/ Client(a) PROVE Grows
  BY <1>1 DEF Agent, Client, Call, Request, Return, Raise, Generate, Taken, Enter, Token, Balance,
              Receive, Disconnect, svars, net
<1>2. ASSUME NEW a \in Callers, Caller(a) PROVE Grows
  <2>1. CASE Check(a) \/ CheckAgain(a) \/ ConnectOnce(a) \/ Authenticate(a) \/ AwaitDispatch(a)
    BY <2>1 DEF Check, CheckAgain, ConnectOnce, Authenticate, AwaitDispatch, CloseLost, Free, net
  <2>2. CASE Write(a) \/ Closed(a) \/ Replied(a)
    BY <2>2 DEF Write, Closed, Replied, Free, net
  <2>3. CASE AuthClose(a) \/ AuthClosed(a) \/ Failed(a)
    BY <2>3 DEF AuthClose, AuthClosed, Failed, CloseLost, Free, net
  <2>4. CASE ConnectEnds(a) \/ Joined(a)
    BY <2>4 DEF ConnectEnds, Joined, net
  <2> QED BY <1>2, <2>1, <2>2, <2>3, <2>4 DEF Caller
<1>3. ASSUME NEW a \in Callers, Opening(a) \/ Awaited(a) PROVE Grows
  BY <1>3 DEF Opening, Opened, Awaited, net
<1>4. CASE Dispatch
  BY <1>4 DEF Dispatch, DispatchStart, DispatchLoop, PopResponse, GetResponse, CloseLost, Free, net
<1>5. ASSUME NEW k \in Conns, Execute(k) \/ Report(k) \/ Fault(k) PROVE Grows
  <2>1. CASE Part(k)
    <3>1. begun' = begun \cup {k} /\ cut' = (cut \/ (Reads(k) /\ closer[k] # None))
      BY <2>1 DEF Part
    <3>2. cut' \in BOOLEAN /\ (cut => cut')
      BY <3>1, Zenon
    <3> QED BY <3>1, <3>2
  <2> QED BY <1>5, <2>1 DEF Execute, Serve, Responds, Report, Data, CloseMessage, Fault, Break,
                            Refuse
<1>6. CASE UNCHANGED vars
  BY <1>6 DEF vars, svars, net
<1> QED BY <1>1, <1>2, <1>3, <1>4, <1>5, <1>6 DEF Next, Redisd

LEMMA CutStays ==
  ASSUME cut, [Next]_vars
  PROVE  cut'
BY CutGrows DEF Grows

\* The invariant of the channel, under any sequence of commands of its callers.
THEOREM ChannelInvariance == Spec => [](cut \/ Uncut)
<1>1. Init => Uncut
  <2> SUFFICES ASSUME Init PROVE Uncut
    OBVIOUS
  <2>1. CInv
    BY DoInit DEF Init
  <2> QED BY <2>1 DEF Init, ChannelInit, Uncut
<1>2. (cut \/ Uncut) /\ [Next]_vars => (cut \/ Uncut)'
  BY ChannelStep, CutStays
<1> QED BY <1>1, <1>2, PTL DEF Spec

\* Every caller gets the response to its own command.
THEOREM ResponsesMatched == Spec => [](cut \/ Matched)
<1>1. Uncut => Matched
  BY DEF Uncut, CInv
<1> QED BY <1>1, ChannelInvariance, PTL

LEMMA Alone ==
  ASSUME Uncut
  PROVE  ConnectAlone
<1> USE DEF Uncut, CInv, Connects, Net, Dispatches, Authenticates
<1>1. \A a \in Callers : at[a] = "connect" => sock = None /\ authcoroutine = None
  BY DEF SockOpen, Leads
<1>2. \A a \in Callers : at[a] \in {"opened", "await"} => dispatch.at = "none"
  BY NoneAwaits
<1>3. ASSUME NEW a \in Callers, at[a] = "failed", authcoroutine = a, sock # None
      PROVE  thread = <<>> /\ ~Reads(sock)
  <2>1. In(Pend) = {}
    BY <1>3, Atoms DEF WaitOnce, AuthAlone
  <2>2. Pend \in Seq(Callers \cup {"signal"})
    BY PendIs
  <2>3. Pend = <<>>
    BY <2>1, <2>2, Elements DEF In
  <2>4. ~Reading /\ thread = <<>>
    BY <2>3, PendIs
  <2> QED BY <2>4 DEF Reading, Reads
<1>4. authcoroutine # None => connecting # <<>> /\ Head(connecting) = authcoroutine
  BY DEF Leads
<1>5. \A i, j \in DOMAIN connecting : connecting[i] = connecting[j] => i = j
  BY DEF Joins, Once
<1>6. \A j, k \in {k \in Conns : conn[k] \in {"opening", "open"} /\ k \notin broken} : j = k
  <2>1. ASSUME NEW k \in Conns, conn[k] = "open", k \notin broken
        PROVE  k = sock \/ \E a \in Callers : at[a] = "opened"
    BY <2>1 DEF OpenUsed, OneClosing
  <2>2. ASSUME NEW k \in Conns, conn[k] = "opening"
        PROVE  /\ sock = None /\ \A a \in Callers : at[a] # "opened"
    BY <2>2 DEF OneOpening, SockOpen, Leads
  <2> QED BY <2>1, <2>2, Atoms DEF OneOpening, OneOpened, SockOpen
<1>7. \A i \in DOMAIN thread : thread[i] = "signal" => i = Len(thread)
  BY DEF Signals
<1> QED BY <1>1, <1>2, <1>3, <1>4, <1>5, <1>6, <1>7 DEF ConnectAlone

\* One caller connects at a time, with the channel for itself.
THEOREM ConnectsAlone == Spec => [](cut \/ ConnectAlone)
BY ChannelInvariance, Alone, PTL

-----------------------------------------------------------------------------
(* How far the requests are, seen from the agents.                         *)

\* Who a response answers waits for it.
LEMMA RespWaits ==
  ASSUME CInv, NEW k \in Conns, Live(k), NEW r \in Resp(k), NEW a \in Callers, r.to.by = a
  PROVE  /\ a \in In(Pend)
         /\ \E i \in DOMAIN Pend : Pend[i] = a /\ i <= Len(arrived[k]) + Len(replies[k])
<1> DEFINE n == Len(arrived[k])
           m == Len(replies[k])
<1>1. Answers(k)
  BY DEF CInv, InOrder, Live
<1>2. /\ n \in Nat /\ m \in Nat
      /\ DOMAIN arrived[k] = 1 .. n /\ DOMAIN replies[k] = 1 .. m
  BY Elements DEF CInv, Typed, IsSeq
<1> HIDE DEF n, m
<1>3. \A i : Fits(i, r.to) => i \in DOMAIN Pend /\ Pend[i] = a
  BY DEF Fits, Command
<1>4. \E i \in DOMAIN Pend : Pend[i] = a /\ i <= n + m
  <2>1. CASE r \in In(arrived[k])
    <3>1. PICK i \in DOMAIN arrived[k] : r = arrived[k][i]
      BY <2>1 DEF In
    <3>2. i \in DOMAIN Pend /\ Pend[i] = a
      BY <1>1, <1>3, <3>1 DEF Answers, n
    <3>3. i <= n + m
      BY <1>2, <3>1
    <3> QED BY <3>2, <3>3
  <2>2. CASE r \in In(replies[k])
    <3>1. PICK i \in DOMAIN replies[k] : r = replies[k][i]
      BY <2>2 DEF In
    <3>2. n + i \in DOMAIN Pend /\ Pend[n + i] = a
      BY <1>1, <1>3, <3>1 DEF Answers, n
    <3>3. n + i <= n + m
      BY <1>2, <3>1
    <3> QED BY <3>2, <3>3
  <2> QED BY <2>1, <2>2 DEF Resp
<1> QED BY <1>4 DEF In, n, m

\* A command that is written is of somebody who waits, behind those with responses.
LEMMA WrittenWaits ==
  ASSUME CInv, NEW k \in Conns, k = sock, NEW c \in In(written[k])
  PROVE  \E i \in DOMAIN Pend : /\ Pend[i] \in Callers /\ c = Command(Pend[i])
                                /\ i > Len(arrived[k]) + Len(replies[k])
<1> DEFINE n == Len(arrived[k])
           m == Len(replies[k])
<1>1. Answers(k)
  BY DEF CInv, InOrder
<1>2. n \in Nat /\ m \in Nat /\ DOMAIN written[k] = 1 .. Len(written[k]) /\ Len(written[k]) \in Nat
  BY Elements DEF CInv, Typed, IsSeq
<1> HIDE DEF n, m
<1>3. PICK i \in DOMAIN written[k] : c = written[k][i]
  BY DEF In
<1>4. Fits(n + m + i, c)
  BY <1>1, <1>3 DEF Answers, n, m
<1>5. n + m + i > n + m
  BY <1>2, <1>3
<1> QED BY <1>4, <1>5 DEF Fits, n, m

\* A request is in one phase.
Phases ==
  \A a \in Callers :
    /\ Pre(a) => ~InFlight(a) /\ \A v : ~Answered(a, v)
    /\ InFlight(a) => \A v : ~Answered(a, v)
    /\ at[a] = "idle" => Pre(a)

LEMMA PhaseFacts == CInv => Phases
<1> SUFFICES ASSUME CInv, NEW a \in Callers
             PROVE  /\ Pre(a) => ~InFlight(a) /\ \A v : ~Answered(a, v)
                    /\ InFlight(a) => \A v : ~Answered(a, v)
                    /\ at[a] = "idle" => Pre(a)
  BY DEF Phases
<1>1. a \in In(Pend) => at[a] = "reply" /\ a \notin In(ready) /\ ~Has(a)
  BY DEF CInv, WaitOnce, Has
<1>2. ASSUME InFlight(a)
      PROVE  /\ sock # None /\ sock \in Conns /\ authcoroutine # a
             /\ \E i \in DOMAIN Pend : /\ Pend[i] = a
                                       /\ i > Len(arrived[sock]) + Len(replies[sock])
  <2>1. PICK k \in Conns : k = sock /\ [by |-> a, cmd |-> request[a]] \in In(written[k])
    BY <1>2 DEF InFlight
  <2>2. PICK i \in DOMAIN Pend : /\ [by |-> a, cmd |-> request[a]] = Command(Pend[i])
                                 /\ i > Len(arrived[k]) + Len(replies[k])
    BY <2>1, WrittenWaits
  <2>3. Pend[i] = a
    BY <2>2 DEF Command
  <2> QED BY <1>2, <2>1, <2>2, <2>3, Atoms DEF InFlight, CInv
<1>3. InFlight(a) => a \in In(Pend)
  BY <1>2 DEF In
<1>4. ASSUME NEW v, Answered(a, v) PROVE authcoroutine # a /\ (Has(a) \/ a \in In(Pend))
  BY <1>4, RespWaits DEF Answered
<1>5. ASSUME Pre(a), authcoroutine # a PROVE ~Has(a) /\ a \notin In(Pend)
  BY <1>1, <1>5 DEF Pre, Has
<1>6. ASSUME InFlight(a), NEW v, Answered(a, v) PROVE FALSE
  <2>1. PICK k \in Conns : Live(k) /\ \E r \in Resp(k) : r.to.by = a
    BY <1>1, <1>3, <1>6 DEF Answered
  <2>2. k = sock
    BY <1>2, <1>6, <2>1 DEF Live, CInv, Dispatches, ReadsFor, Net, OneClosing
  <2>3. PICK i \in DOMAIN Pend : Pend[i] = a /\ i > Len(arrived[k]) + Len(replies[k])
    BY <1>2, <1>6, <2>2
  <2>4. PICK j \in DOMAIN Pend : Pend[j] = a /\ j <= Len(arrived[k]) + Len(replies[k])
    BY <2>1, RespWaits
  <2>5. i = j
    BY <2>3, <2>4 DEF CInv, WaitOnce, Once
  <2>6. Len(arrived[k]) \in Nat /\ Len(replies[k]) \in Nat /\ DOMAIN Pend \subseteq Nat
    <3>1. Pend \in Seq(Callers \cup {"signal"})
      BY PendIs DEF CInv, Dispatches
    <3> QED BY <3>1, Elements DEF CInv, Typed, IsSeq
  <2> HIDE DEF Pend
  <2>7. \A x, y, z \in Nat : z > x + y => ~(z <= x + y)
    OBVIOUS
  <2> QED BY <2>3, <2>4, <2>5, <2>6, <2>7
<1>7. at[a] = "idle" => Pre(a)
  BY DEF Pre
<1> QED BY <1>2, <1>3, <1>4, <1>5, <1>6, <1>7

LEMMA PhaseFactsNext == CInv' => Phases'
BY PhaseFacts, PTL

\* The phase of b does not go back, and no answer is made.
Phase(b) ==
  /\ Pre(b)' => Pre(b)
  /\ InFlight(b)' => InFlight(b) \/ Pre(b)
  /\ \A v : Answered(b, v)' => Answered(b, v)

LEMMA CalmPhases ==
  ASSUME CInv, CInv', Calm, NEW b \in Callers
  PROVE  Phase(b) /\ request' = request /\ (at'[b] = "idle" <=> at[b] = "idle")
<1>1. ASSUME InFlight(b)' PROVE InFlight(b) \/ Pre(b)
  <2>1. PICK k \in Conns : k = sock' /\ [by |-> b, cmd |-> request[b]] \in In(written'[k])
    BY <1>1 DEF InFlight, Calm
  <2> DEFINE x == [by |-> b, cmd |-> request[b]]
  <2>2. (k = sock /\ x \in In(written[k])) \/ \E c \in Callers : Pre(c) /\ x.by = c
    BY <2>1 DEF Calm
  <2>3. x.by = b
    OBVIOUS
  <2>4. authcoroutine = b => Pre(b)
    BY DEF Pre
  <2> QED BY <2>2, <2>3, <2>4 DEF InFlight
<1>2. ASSUME NEW v, Answered(b, v)' PROVE Answered(b, v)
  <2>1. authcoroutine # b
    <3>1. authcoroutine = b => Pre(b)'
      BY <1>2 DEF Answered, Calm, Pre
    <3>2. ~Pre(b)'
      BY <1>2, PhaseFactsNext DEF Phases
    <3> QED BY <3>1, <3>2
  <2>2. CASE Has(b)' /\ result'[b].is = "ok" /\ result'[b].value = v
    BY <2>1, <2>2 DEF Calm, Answered
  <2>3. CASE \E k \in Conns : Live(k)' /\ \E r \in Resp(k)' : r.is = "ok" /\ r.to.by = b /\ r.value = v
    BY <2>1, <2>3 DEF Calm, Answered
  <2> QED BY <1>2, <2>2, <2>3 DEF Answered
<1> QED BY <1>1, <1>2 DEF Phase, Calm

\* Nothing of the channel changes for b.
LEMMA StillPhases ==
  ASSUME CInv, UNCHANGED svars, NEW b \in Callers
  PROVE  /\ Phase(b) /\ request' = request /\ at' = at
         /\ Pre(b)' = Pre(b) /\ InFlight(b)' = InFlight(b)
BY DEF svars, chan, net, Phase, Pre, InFlight, Answered, Has, Live, Resp, Reading

LEMMA RequestPhases ==
  ASSUME CInv, CInv', NEW a \in Callers, NEW c, Request(a, c)
  PROVE  /\ \A b \in Callers : Phase(b)
         /\ at[a] = "idle" /\ at'[a] = "check" /\ request'[a] = c
         /\ \A b \in Callers : b # a => at'[b] = at[b] /\ request'[b] = request[b]
<1>1. /\ ready = <<>> /\ at[a] = "idle" /\ at' = [at EXCEPT ![a] = "check"] /\ ready' = <<a>>
      /\ request' = [request EXCEPT ![a] = c]
      /\ UNCHANGED <<sock, authcoroutine, result, dispatch, written, replies, arrived>>
  BY DEF Request, Quiet, Go, chan, net
<1>2. /\ at'[a] = "check" /\ request'[a] = c
      /\ \A b \in Callers : b # a => at'[b] = at[b] /\ request'[b] = request[b]
  BY <1>1 DEF CInv, Typed, ChannelTypeOK
<1>3. In(ready') = {a}
  BY <1>1, Single
<1>4. Phase(a)
  <2>1. Pre(a) /\ Pre(a)'
    BY <1>1, <1>2 DEF Pre
  <2> QED BY <2>1, PhaseFactsNext DEF Phases, Phase
<1>5. ASSUME NEW b \in Callers, b # a PROVE Phase(b)
  <2>1. Has(b)' => Has(b)
    BY <1>2, <1>3, <1>5 DEF Has
  <2>2. Pre(b)' = Pre(b) /\ InFlight(b)' = InFlight(b)
    BY <1>1, <1>2, <1>5 DEF Pre, InFlight
  <2>3. ASSUME NEW v, Answered(b, v)' PROVE Answered(b, v)
    BY <1>1, <2>1, <2>3 DEF Answered, Live, Resp, Reading
  <2> QED BY <2>2, <2>3 DEF Phase
<1> QED BY <1>1, <1>2, <1>4, <1>5

LEMMA TakenPhases ==
  ASSUME CInv, CInv', NEW a \in Callers, at[a] = "done", Taken(a)
  PROVE  /\ \A b \in Callers : b # a =>
              Phase(b) /\ at'[b] = at[b] /\ request'[b] = request[b]
         /\ at'[a] = "idle" /\ Pre(a)' /\ ~InFlight(a)' /\ (\A v : ~Answered(a, v)')
         /\ ~Pre(a) /\ ~InFlight(a)
         /\ result[a] # Error => result[a].is = "ok" /\ Answered(a, result[a].value)
<1>1. /\ at' = [at EXCEPT ![a] = "idle"] /\ request' = [request EXCEPT ![a] = None]
      /\ result' = [result EXCEPT ![a] = NoResult]
      /\ UNCHANGED <<sock, authcoroutine, dispatch, ready, written, replies, arrived>>
  BY DEF Taken, Go, net
<1>2. /\ at'[a] = "idle"
      /\ \A b \in Callers : b # a => /\ at'[b] = at[b] /\ request'[b] = request[b]
                                     /\ result'[b] = result[b]
  BY <1>1 DEF CInv, Typed, ChannelTypeOK
<1>3. Pre(a)' /\ ~InFlight(a)' /\ \A v : ~Answered(a, v)'
  <2>1. Pre(a)'
    BY <1>2 DEF Pre
  <2> QED BY <2>1, PhaseFactsNext DEF Phases
<1>4. authcoroutine # a
  BY Atoms DEF CInv, Connects, Leads
<1>5. ~Pre(a)
  BY <1>4 DEF Pre
<1>6. ~InFlight(a)
  <2>1. ASSUME InFlight(a) PROVE FALSE
    <3>1. PICK k \in Conns : k = sock /\ [by |-> a, cmd |-> request[a]] \in In(written[k])
      BY <2>1 DEF InFlight
    <3>2. PICK i \in DOMAIN Pend : [by |-> a, cmd |-> request[a]] = Command(Pend[i])
      BY <3>1, WrittenWaits
    <3>3. Pend[i] = a
      BY <3>2 DEF Command
    <3> QED BY <3>3 DEF CInv, WaitOnce, In
  <2> QED BY <2>1
<1>7. result[a] # Error => result[a].is = "ok" /\ Answered(a, result[a].value)
  BY <1>4 DEF CInv, Matched, Answered, Has
<1>8. ASSUME NEW b \in Callers, b # a PROVE Phase(b)
  <2>1. (Has(b)' <=> Has(b)) /\ result'[b] = result[b]
    BY <1>1, <1>2, <1>8 DEF Has
  <2>2. Pre(b)' = Pre(b) /\ InFlight(b)' = InFlight(b)
    BY <1>1, <1>2, <1>8 DEF Pre, InFlight
  <2>3. ASSUME NEW v, Answered(b, v)' PROVE Answered(b, v)
    BY <1>1, <2>1, <2>3 DEF Answered, Live, Resp, Reading
  <2> QED BY <2>2, <2>3 DEF Phase
<1> QED BY <1>2, <1>3, <1>5, <1>6, <1>7, <1>8

\* The server executes the SELECT of a caller that authenticates, or a request.
LEMMA ServePhases ==
  ASSUME CInv, CInv', NEW k \in Conns, NEW v, Serve(k, v)
  PROVE  /\ at' = at /\ request' = request
         /\ \/ Head(written[k]).cmd = Select /\ \A b \in Callers : Phase(b)
            \/ \E a \in Callers :
                 /\ Head(written[k]).cmd = request[a]
                 /\ InFlight(a) /\ ~Pre(a) /\ ~Pre(a)' /\ ~InFlight(a)'
                 /\ \A w : Answered(a, w)' => w = v
                 /\ \A b \in Callers : b # a => Phase(b)
<1> DEFINE c == Head(written[k])
           r == Response(c, v)
<1>1. /\ conn[k] = "open" /\ k \notin broken /\ written[k] # <<>>
      /\ written' = [written EXCEPT ![k] = Tail(written[k])]
      /\ replies' = [replies EXCEPT ![k] = Append(replies[k], r)]
      /\ UNCHANGED <<sock, authcoroutine, result, dispatch, ready, at, request, arrived>>
  BY DEF Serve, Responds, chan
<1>2. k = sock
  BY <1>1 DEF CInv, Net, OpenUsed, OneClosing, Clean
<1>3. /\ In(written'[k]) \subseteq In(written[k]) /\ c \in In(written[k])
      /\ In(replies'[k]) = In(replies[k]) \cup {r}
      /\ \A j \in Conns : j # k => replies'[j] = replies[j] /\ written'[j] = written[j]
  BY <1>1, Contents DEF CInv, Typed
<1>4. PICK a \in Callers : c = Command(a) /\ a \in In(Pend)
  <2>1. PICK i \in DOMAIN Pend : Pend[i] \in Callers /\ c = Command(Pend[i])
    BY <1>2, <1>3, WrittenWaits
  <2> QED BY <2>1 DEF In
<1>5. c.by = a /\ r.to = c /\ r.value = v /\ r.is = "ok"
  BY <1>4 DEF Command, Response
<1> HIDE DEF c, r
<1>6. /\ \A b \in Callers : (Has(b)' <=> Has(b)) /\ (Pre(b)' <=> Pre(b))
      /\ \A j \in Conns : Live(j)' <=> Live(j)
      /\ \A j \in Conns : j # k => Resp(j)' = Resp(j)
      /\ Resp(k)' = Resp(k) \cup {r} /\ Live(k)
      /\ \A b \in Callers : InFlight(b)' => InFlight(b)
  BY <1>1, <1>2, <1>3 DEF Has, Pre, Live, Resp, Reading, InFlight
<1>7. ASSUME NEW b \in Callers, NEW w, Answered(b, w)'
      PROVE  Answered(b, w) \/ (b = a /\ w = v /\ authcoroutine # a)
  <2>1. CASE Has(b)' /\ result'[b].is = "ok" /\ result'[b].value = w
    BY <1>1, <1>6, <1>7, <2>1 DEF Answered
  <2>2. CASE \E j \in Conns : Live(j)' /\ \E q \in Resp(j)' : q.is = "ok" /\ q.to.by = b /\ q.value = w
    BY <1>1, <1>5, <1>6, <1>7, <2>2 DEF Answered
  <2> QED BY <1>7, <2>1, <2>2 DEF Answered
<1>8. CASE authcoroutine = a
  <2>1. c.cmd = Select
    BY <1>4, <1>8 DEF Command
  <2>2. \A b \in Callers : Phase(b)
    BY <1>6, <1>7, <1>8 DEF Phase
  <2> QED BY <1>1, <2>1, <2>2 DEF c
<1>9. CASE authcoroutine # a
  <2>1. c.cmd = request[a] /\ c = [by |-> a, cmd |-> request[a]]
    BY <1>4, <1>9 DEF Command
  <2>2. InFlight(a)
    BY <1>2, <1>3, <1>9, <2>1 DEF InFlight
  <2>3. ~Pre(a) /\ ~Pre(a)' /\ \A w : ~Answered(a, w)
    BY <1>6, <2>2, PhaseFacts DEF Phases
  <2>4. Answered(a, v)'
    BY <1>1, <1>5, <1>6, <1>9 DEF Answered
  <2>5. ~InFlight(a)'
    BY <2>4, PhaseFactsNext DEF Phases
  <2>6. \A w : Answered(a, w)' => w = v
    BY <1>7, <2>3
  <2>7. \A b \in Callers : b # a => Phase(b)
    BY <1>6, <1>7 DEF Phase
  <2> QED BY <1>1, <2>1, <2>2, <2>3, <2>5, <2>6, <2>7 DEF c
<1> QED BY <1>8, <1>9

-----------------------------------------------------------------------------
(* The invariant of the agents, the generator and the data base.           *)

\* The steps of on_login and of on_register after SADD.
Login == {"hget", "token", "token_in", "set", "expire", "balance"}
Register == {"uuid", "incr", "get", "hset"}
\* Who is at one of these has a request of redis to make, or under way.
Commands == AgentCommands \cup GeneratorCommands

\* Types.
ATyped ==
  /\ task \in [Callers -> Tasks \cup {None}]
  /\ pc \in [Callers -> {"idle", "sadd", "end"} \cup Register \cup Login]
  /\ uuid \in [Callers -> Nat \cup {None}] /\ token \in [Callers -> Nat \cup {None}]
  /\ outcome \in [Callers -> {None, "registered", "logged_in", "refused", "error", "gone"}]
  /\ left \subseteq Names /\ section \in Seq(Callers) /\ index \in Nat
  /\ db \in [account_list : SUBSET Names, account_cnt : Nat, account : [Names -> Records \cup {None}]]

\* Which handler a call is of.
Handles ==
  \A a \in Callers :
    /\ pc[a] # "idle" => task[a] \in Tasks
    /\ pc[a] \in Register => task[a].kind = "register"
    /\ pc[a] \in Login => task[a].kind = "login"
    /\ pc[a] = "hset" => uuid[a] \in Nat
\* The command under way is the one of the handler.
Asks ==
  \A a \in Callers :
    /\ pc[a] \notin Commands => at[a] = "idle"
    /\ at[a] # "idle" => request[a] = [op |-> pc[a], account |-> task[a].account,
                                       info |-> IF pc[a] = "hset" THEN Info(a) ELSE None]
\* How handlers end.
Outcomes ==
  \A a \in Callers :
    /\ outcome[a] \notin {None, "gone"} => pc[a] = "end"
    /\ pc[a] = "end" => outcome[a] # None
    /\ outcome[a] = "registered" => uuid[a] \in Nat
    /\ outcome[a] \in {"error", "gone"} => task[a] \in Tasks /\ task[a].account \in left

\* The queue of generatord; whoever uses redis is inside.
Section ==
  /\ Once(section)
  /\ \A a \in Callers : a \in In(section) <=> pc[a] \in {"incr", "get", "token_in"}
  /\ \A a \in Callers : pc[a] = "get" \/ (pc[a] = "incr" /\ at[a] # "idle") =>
       section # <<>> /\ Head(section) = a

\* a has its name: SADD added it for a's registration.
Ticket(a) ==
  pc[a] \in Register \/ (pc[a] = "sadd" /\ task[a].kind = "register" /\ Answered(a, Number(1)))
\* HSET is still to come.
Unstored(a) == pc[a] # "hset" \/ Pre(a) \/ InFlight(a)
\* A name is registered by one handler, and has no record before its HSET.
Tickets ==
  /\ \A a \in Callers : Ticket(a) =>
       /\ task[a].account \in db.account_list
       /\ Unstored(a) => db.account[task[a].account] = None
  /\ \A a, b \in Callers : Ticket(a) /\ Ticket(b) /\ task[a].account = task[b].account => a = b
  /\ \A n \in Names : db.account[n] # None => n \in db.account_list
\* What the answers say.
Told ==
  \A a \in Callers :
    /\ pc[a] = "sadd" => \A v : Answered(a, v) => v \in {Number(0), Number(1)}
    /\ pc[a] = "hset" => \A v : Answered(a, v) =>
                           v = Number(1) /\ db.account[task[a].account] = Info(a)
    /\ pc[a] = "hget" => \A v : Answered(a, v) =>
                           v.info = None \/ v.info = db.account[task[a].account]
    /\ pc[a] = "get" => \A v : Answered(a, v) => v = Number(db.account_cnt)

\* a has a number and no record yet.
Numbered(a) == pc[a] = "hset" /\ (Pre(a) \/ InFlight(a))
\* a has made a number that nobody has.
Counted(a) == pc[a] = "get" \/ (pc[a] = "incr" /\ \E v : Answered(a, v))
\* The numbers of records and of handlers are different, and below the next one.
Uuids ==
  /\ \A m, n \in Names : m # n /\ db.account[m] # None /\ db.account[n] # None
                         => db.account[m].uuid # db.account[n].uuid
  /\ \A a, b \in Callers : Numbered(a) /\ Numbered(b) /\ uuid[a] = uuid[b] => a = b
  /\ \A a \in Callers, n \in Names : Numbered(a) /\ db.account[n] # None
                                      => db.account[n].uuid # uuid[a]
  /\ \A n \in Names : db.account[n] # None => db.account[n].uuid <= db.account_cnt * 4095
  /\ \A a \in Callers : Numbered(a) => uuid[a] <= db.account_cnt * 4095
  /\ \A b \in Callers : Counted(b) =>
       /\ \A n \in Names : db.account[n] # None => db.account[n].uuid < db.account_cnt * 4095
       /\ \A a \in Callers : Numbered(a) => uuid[a] < db.account_cnt * 4095

\* A login that goes on gave the password.
Logins ==
  \A a \in Callers : pc[a] \in Login \ {"hget"} \/ outcome[a] = "logged_in" =>
    /\ db.account[task[a].account] # None
    /\ db.account[task[a].account].password = task[a].password
\* Every handler that went through CMD.token has a token of its own.
Tokens ==
  /\ \A a \in Callers : token[a] # None => token[a] < index
  /\ \A a, b \in Callers : token[a] # None /\ token[a] = token[b] => a = b
  /\ \A a \in Callers : pc[a] \in {"set", "expire", "balance"} \/ outcome[a] = "logged_in" =>
       token[a] # None

\* a accounts for a name without record.
Behind(a) ==
  \/ task[a].kind = "login"
  \/ pc[a] \in Register
  \/ pc[a] = "sadd" /\ ~Pre(a) /\ ~InFlight(a) /\ ~Answered(a, Number(0))
\* A name without record has somebody who accounts for it.
LostNames ==
  \A n \in db.account_list \ left : db.account[n] = None =>
    \E a \in Callers : pc[a] # "idle" /\ task[a].account = n /\ Behind(a)

\* The inductive invariant of the agents.
AInv == /\ ATyped /\ Handles /\ Asks /\ Outcomes /\ Section /\ Tickets /\ Told /\ Registered
        /\ Uuids /\ Logins /\ Tokens /\ LostNames

-----------------------------------------------------------------------------
(* The agents: facts for every step.                                       *)

LEMMA Facts ==
  ASSUME ATyped
  PROVE  /\ \A a \in Callers :
              /\ task[a] \in Tasks => /\ task[a].account \in Names /\ task[a].password \in Passwords
                                      /\ task[a].kind \in {"register", "login"} /\ task[a] # None
              /\ task[a] \notin Tasks => task[a] = None
              /\ uuid[a] \in Nat \cup {None} /\ token[a] \in Nat \cup {None}
              /\ pc[a] \in {"idle", "sadd", "end"} \cup Register \cup Login
         /\ db.account_list \subseteq Names /\ db.account_cnt \in Nat
         /\ \A n \in Names : db.account[n] # None => /\ db.account[n] \in Records
                                                     /\ db.account[n].uuid \in Nat
                                                     /\ db.account[n].password \in Passwords
         /\ None \notin Nat /\ None \notin Records /\ None \notin Tasks /\ index \in Nat
<1>1. None \notin Nat /\ None \notin Records /\ None \notin Tasks
  BY AccountsAssumption
<1>2. /\ db.account_list \subseteq Names /\ db.account_cnt \in Nat /\ index \in Nat
      /\ db.account \in [Names -> Records \cup {None}]
  BY DEF ATyped
<1>3. ASSUME NEW n \in Names, db.account[n] # None
      PROVE  /\ db.account[n] \in Records /\ db.account[n].uuid \in Nat
             /\ db.account[n].password \in Passwords
  BY <1>2, <1>3 DEF Records
<1>4. ASSUME NEW a \in Callers
      PROVE  /\ task[a] \in Tasks => /\ task[a].account \in Names /\ task[a].password \in Passwords
                                     /\ task[a].kind \in {"register", "login"} /\ task[a] # None
             /\ task[a] \notin Tasks => task[a] = None
             /\ uuid[a] \in Nat \cup {None} /\ token[a] \in Nat \cup {None}
             /\ pc[a] \in {"idle", "sadd", "end"} \cup Register \cup Login
  <2>1. task[a] \in Tasks => /\ task[a].account \in Names /\ task[a].password \in Passwords
                             /\ task[a].kind \in {"register", "login"}
    BY DEF Tasks
  <2> QED BY <1>1, <2>1 DEF ATyped
<1> QED BY <1>1, <1>2, <1>3, <1>4

\* Only the channel makes a step, and executes no command.
LEMMA SameHandlers ==
  ASSUME AInv, UNCHANGED <<handlers, generator, db>>, \A b \in Callers : Phase(b),
         Asks', Section'
  PROVE  AInv'
<1> USE DEF AInv
<1>U. UNCHANGED <<task, pc, uuid, token, outcome, left, section, index, db>>
  BY DEF handlers, generator
<1>P. \A b \in Callers : /\ Pre(b)' => Pre(b)
                         /\ InFlight(b)' => InFlight(b) \/ Pre(b)
                         /\ \A v : Answered(b, v)' => Answered(b, v)
  BY DEF Phase
<1>Asks. Asks'
  OBVIOUS
<1>Section. Section'
  OBVIOUS
<1>ATyped. ATyped'
  BY <1>U, <1>P DEF ATyped
<1>Handles. Handles'
  BY <1>U, <1>P DEF Handles, Register, Login
<1>Outcomes. Outcomes'
  BY <1>U, <1>P DEF Outcomes
<1>Tickets. Tickets'
  BY <1>U, <1>P DEF Tickets, Ticket, Unstored, Register
<1>Told. Told'
  BY <1>U, <1>P DEF Told, Info
<1>Registered. Registered'
  BY <1>U, <1>P DEF Registered, Info
<1>Uuids. Uuids'
  BY <1>U, <1>P DEF Uuids, Numbered, Counted
<1>Logins. Logins'
  BY <1>U, <1>P DEF Logins, Login
<1>Tokens. Tokens'
  BY <1>U, <1>P DEF Tokens
<1>LostNames. LostNames'
  BY <1>U, <1>P DEF LostNames, Behind, Register
<1> QED BY <1>ATyped, <1>Handles, <1>Asks, <1>Outcomes, <1>Section, <1>Tickets, <1>Told,
           <1>Registered, <1>Uuids, <1>Logins, <1>Tokens, <1>LostNames

\* No request of a is under way after the step, and nothing happens to the others.
Released(a) ==
  /\ \A b \in Callers : b # a => at'[b] = at[b] /\ request'[b] = request[b] /\ Phase(b)
  /\ at'[a] = "idle" /\ Pre(a)' /\ ~InFlight(a)' /\ \A v : ~Answered(a, v)'
\* The handler of a makes a step.
Moves(a) ==
  /\ ATyped'
  /\ db' = db /\ task'[a] = task[a] /\ left \subseteq left'
  /\ \A b \in Callers : b # a =>
       /\ task'[b] = task[b] /\ pc'[b] = pc[b] /\ uuid'[b] = uuid[b] /\ token'[b] = token[b]
       /\ outcome'[b] = outcome[b]
  /\ Released(a)

LEMMA Takes ==
  ASSUME CInv, CInv', NEW a \in Callers, at[a] = "done", Taken(a)
  PROVE  Released(a)
BY TakenPhases DEF Released

LEMMA Idles ==
  ASSUME CInv, CInv', AInv, NEW a \in Callers, UNCHANGED svars, pc[a] \notin Commands
  PROVE  Released(a) /\ Pre(a) /\ at[a] = "idle"
<1>1. at[a] = "idle"
  BY DEF AInv, Asks
<1>2. at' = at /\ request' = request /\ \A b \in Callers : Phase(b)
  BY StillPhases
<1>3. Pre(a) /\ Pre(a)'
  BY <1>1, <1>2 DEF Pre
<1>4. ~InFlight(a)' /\ \A v : ~Answered(a, v)'
  BY <1>3, PhaseFactsNext DEF Phases
<1> QED BY <1>1, <1>2, <1>3, <1>4 DEF Released

LEMMA Finish ==
  ASSUME AInv, NEW a \in Callers, Moves(a), Section', Tokens',
         pc[a] # "idle", pc'[a] = "end", outcome'[a] # None,
         outcome'[a] \in {"error", "gone"} => task[a].account \in left',
         outcome'[a] = "registered" =>
           db.account[task[a].account] = Info(a)' /\ uuid'[a] \in Nat,
         outcome'[a] = "logged_in" => pc[a] = "balance",
         Behind(a) /\ task[a].kind # "login" =>
           task[a].account \in left' \/ db.account[task[a].account] # None
  PROVE  AInv'
<1> USE DEF AInv
<1>U. /\ db' = db /\ task'[a] = task[a] /\ left \subseteq left'
      /\ \A b \in Callers : b # a =>
           /\ task'[b] = task[b] /\ pc'[b] = pc[b] /\ uuid'[b] = uuid[b] /\ token'[b] = token[b]
           /\ outcome'[b] = outcome[b] /\ at'[b] = at[b] /\ request'[b] = request[b]
      /\ at'[a] = "idle" /\ Pre(a)' /\ ~InFlight(a)' /\ \A v : ~Answered(a, v)'
      /\ pc[a] # "idle" /\ pc'[a] = "end"
  BY DEF Moves, Released
<1>P. \A b \in Callers : b # a => /\ Pre(b)' => Pre(b)
                                  /\ InFlight(b)' => InFlight(b) \/ Pre(b)
                                  /\ \A v : Answered(b, v)' => Answered(b, v)
  BY DEF Moves, Released, Phase
<1>ATyped. ATyped'
  BY DEF Moves
<1>Section. Section'
  OBVIOUS
<1>Tokens. Tokens'
  OBVIOUS
<1>T. task[a] \in Tasks
  BY <1>U DEF Handles
<1>Handles. Handles'
  BY <1>U, <1>P, <1>T DEF Handles, Register, Login
<1>Asks. Asks'
  BY <1>U, <1>P DEF Asks, Info, Commands, AgentCommands, GeneratorCommands
<1>Outcomes. Outcomes'
  BY <1>U, <1>P, <1>T DEF Outcomes
<1>Tickets. Tickets'
  BY <1>U, <1>P DEF Tickets, Ticket, Unstored, Register
<1>Told. Told'
  BY <1>U, <1>P DEF Told, Info
<1>Registered. Registered'
  BY <1>U, <1>P DEF Registered, Info
<1>Uuids. Uuids'
  BY <1>U, <1>P DEF Uuids, Numbered, Counted
<1>Logins. Logins'
  BY <1>U, <1>P DEF Logins, Login
<1>LostNames. LostNames'
  BY <1>U, <1>P DEF LostNames, Behind, Register
<1> QED BY <1>ATyped, <1>Handles, <1>Asks, <1>Outcomes, <1>Section, <1>Tickets, <1>Told,
           <1>Registered, <1>Uuids, <1>Logins, <1>Tokens, <1>LostNames

LEMMA Proceed ==
  ASSUME AInv, NEW a \in Callers, Moves(a), Section', Tokens',
         NEW next \in Register \cup Login, pc'[a] = next, pc[a] # "idle",
         outcome'[a] = outcome[a], pc[a] # "end",
         next \in Register => task[a].kind = "register" /\ Ticket(a) /\ pc[a] # "hset",
         next \in Login => task[a].kind = "login",
         next \in Login \ {"hget"} => /\ db.account[task[a].account] # None
                                      /\ db.account[task[a].account].password = task[a].password,
         next = "get" => Counted(a),
         next = "hset" =>
           /\ uuid'[a] \in Nat /\ uuid'[a] <= db.account_cnt * 4095
           /\ \A b \in Callers : b # a => ~Counted(b)
           /\ \A n \in Names : db.account[n] # None => db.account[n].uuid # uuid'[a]
           /\ \A b \in Callers : Numbered(b) => uuid[b] # uuid'[a]
  PROVE  AInv'
<1> USE DEF AInv
<1>U. /\ db' = db /\ task'[a] = task[a] /\ left \subseteq left'
      /\ \A b \in Callers : b # a =>
           /\ task'[b] = task[b] /\ pc'[b] = pc[b] /\ uuid'[b] = uuid[b] /\ token'[b] = token[b]
           /\ outcome'[b] = outcome[b] /\ at'[b] = at[b] /\ request'[b] = request[b]
      /\ at'[a] = "idle" /\ Pre(a)' /\ ~InFlight(a)' /\ \A v : ~Answered(a, v)'
      /\ pc[a] # "idle" /\ pc'[a] = next /\ pc[a] # "end" /\ outcome'[a] = outcome[a]
  BY DEF Moves, Released
<1>P. \A b \in Callers : b # a => /\ Pre(b)' => Pre(b)
                                  /\ InFlight(b)' => InFlight(b) \/ Pre(b)
                                  /\ \A v : Answered(b, v)' => Answered(b, v)
  BY DEF Moves, Released, Phase
<1>ATyped. ATyped'
  BY DEF Moves
<1>Section. Section'
  OBVIOUS
<1>Tokens. Tokens'
  OBVIOUS
<1>T. task[a] \in Tasks /\ next \notin {"idle", "end", "sadd"}
  BY <1>U DEF Handles, Register, Login
<1>Handles. Handles'
  BY <1>U, <1>P, <1>T DEF Handles, Register, Login
<1>Asks. Asks'
  BY <1>U, <1>P DEF Asks, Info, Commands, AgentCommands, GeneratorCommands
<1>Outcomes. Outcomes'
  BY <1>U, <1>P, <1>T, AccountsAssumption DEF Outcomes
<1>Tickets. Tickets'
  BY <1>U, <1>P, <1>T DEF Tickets, Ticket, Unstored, Register
<1>Told. Told'
  BY <1>U, <1>P DEF Told, Info
<1>Registered. Registered'
  BY <1>U, <1>P, <1>T, AccountsAssumption DEF Registered, Info, Outcomes
<1>Uuids. Uuids'
  <2>1. \A b \in Callers : b # a => (Numbered(b)' => Numbered(b)) /\ (Counted(b)' => Counted(b))
    BY <1>U, <1>P DEF Numbered, Counted
  <2>2. (Counted(a)' => next = "get" /\ Counted(a)) /\ (Numbered(a)' <=> next = "hset")
    BY <1>U DEF Numbered, Counted
  <2> QED BY <1>U, <2>1, <2>2 DEF Uuids
<1>Logins. Logins'
  BY <1>U, <1>P, <1>T DEF Logins, Login, Outcomes
<1>LostNames. LostNames'
  BY <1>U, <1>P, <1>T DEF LostNames, Behind, Register, Login
<1> QED BY <1>ATyped, <1>Handles, <1>Asks, <1>Outcomes, <1>Section, <1>Tickets, <1>Told,
           <1>Registered, <1>Uuids, <1>Logins, <1>Tokens, <1>LostNames

\* End, and Then.
LEMMA HandlerEnds ==
  ASSUME AInv, NEW a \in Callers, Released(a), Section', pc[a] \notin {"idle", "end"},
         NEW how \in {"registered", "logged_in", "refused", "error"}, End(a, how),
         UNCHANGED <<task, token, index, db>>,
         uuid' \in [Callers -> Nat \cup {None}], \A b \in Callers : b # a => uuid'[b] = uuid[b],
         section' \in Seq(Callers),
         how = "registered" => db.account[task[a].account] = Info(a)' /\ uuid'[a] \in Nat,
         how = "logged_in" => pc[a] = "balance",
         how # "error" /\ Behind(a) /\ task[a].kind # "login" =>
           db.account[task[a].account] # None
  PROVE  AInv'
<1> USE DEF AInv
<1>1. /\ pc' = [pc EXCEPT ![a] = "end"]
      /\ outcome' = [outcome EXCEPT ![a] = IF outcome[a] = "gone" THEN "gone" ELSE how]
      /\ left' = IF how = "error" THEN left \cup {task[a].account} ELSE left
  BY DEF End, Gone
<1>2. task[a] \in Tasks /\ task[a].account \in Names
  BY Facts DEF Handles
<1>3. ATyped'
  BY <1>1, <1>2 DEF ATyped
<1>4. /\ pc'[a] = "end" /\ outcome'[a] = (IF outcome[a] = "gone" THEN "gone" ELSE how)
      /\ \A b \in Callers : b # a => pc'[b] = pc[b] /\ outcome'[b] = outcome[b]
  BY <1>1 DEF ATyped
<1>5. left \subseteq left' /\ (outcome'[a] \in {"error", "gone"} => task[a].account \in left')
  BY <1>1, <1>4 DEF Outcomes
<1>6. Moves(a)
  BY <1>3, <1>4, <1>5 DEF Moves
<1>7. /\ outcome'[a] # None /\ (outcome'[a] = "registered" => how = "registered")
      /\ outcome'[a] = "logged_in" => how = "logged_in"
      /\ how = "error" => task[a].account \in left'
  <2>1. None \notin {"gone", "registered", "logged_in", "refused", "error"}
    BY <1>3, AccountsAssumption
  <2> QED BY <1>1, <1>4, <2>1
<1>8. Tokens'
  BY <1>4, <1>7 DEF Tokens
<1> QED BY <1>4, <1>5, <1>6, <1>7, <1>8, Finish

LEMMA HandlerGoes ==
  ASSUME AInv, NEW a \in Callers, Released(a), Section', pc[a] \notin {"idle", "end"},
         NEW next \in Register \cup Login, Then(a, next),
         UNCHANGED <<task, db>>,
         uuid' \in [Callers -> Nat \cup {None}], \A b \in Callers : b # a => uuid'[b] = uuid[b],
         token' \in [Callers -> Nat \cup {None}], \A b \in Callers : b # a => token'[b] = token[b],
         index' \in Nat, section' \in Seq(Callers),
         Tokens',
         next \in Register => task[a].kind = "register" /\ Ticket(a) /\ pc[a] # "hset",
         next \in Login => task[a].kind = "login",
         next \in Login \ {"hget"} => /\ db.account[task[a].account] # None
                                      /\ db.account[task[a].account].password = task[a].password,
         next = "get" => Counted(a),
         next = "hset" =>
           /\ uuid'[a] \in Nat /\ uuid'[a] <= db.account_cnt * 4095
           /\ \A b \in Callers : b # a => ~Counted(b)
           /\ \A n \in Names : db.account[n] # None => db.account[n].uuid # uuid'[a]
           /\ \A b \in Callers : Numbered(b) => uuid[b] # uuid'[a]
  PROVE  AInv'
<1> USE DEF AInv
<1>1. /\ pc' = [pc EXCEPT ![a] = IF outcome[a] = "gone" THEN "end" ELSE next]
      /\ outcome' = outcome /\ left' = left
  BY DEF Then, Gone
<1>3. ATyped'
  BY <1>1 DEF ATyped
<1>4. /\ pc'[a] = (IF outcome[a] = "gone" THEN "end" ELSE next)
      /\ \A b \in Callers : b # a => pc'[b] = pc[b] /\ outcome'[b] = outcome[b]
  BY <1>1 DEF ATyped
<1>6. Moves(a)
  BY <1>1, <1>3, <1>4 DEF Moves
<1>7. CASE outcome[a] # "gone"
  <2>1. pc'[a] = next /\ outcome'[a] = outcome[a]
    BY <1>1, <1>4, <1>7
  <2> QED BY <1>6, <1>7, <2>1, Proceed
<1>8. CASE outcome[a] = "gone"
  <2>1. /\ pc'[a] = "end" /\ outcome'[a] = "gone"
        /\ task[a].account \in left' /\ outcome'[a] # None
    BY <1>1, <1>4, <1>8, AccountsAssumption DEF Outcomes
  <2> QED BY <1>6, <2>1, Finish
<1> QED BY <1>7, <1>8

\* Nobody enters or leaves the generator.
LEMMA SectionSame ==
  ASSUME Section, NEW a \in Callers, Released(a), section' = section,
         \A b \in Callers : b # a => pc'[b] = pc[b],
         pc[a] \notin {"incr", "get", "token_in"}, pc'[a] \notin {"incr", "get", "token_in"}
  PROVE  Section'
BY DEF Section, Released

LEMMA TokensSame ==
  ASSUME Tokens, Outcomes, token' = token, index' = index, outcome' = outcome, NEW a \in Callers,
         \A b \in Callers : b # a => pc'[b] = pc[b],
         pc'[a] \in {"set", "expire", "balance"} => pc[a] \in {"set", "expire", "balance"}
  PROVE  Tokens'
BY DEF Tokens

LEMMA PcAfter ==
  ASSUME ATyped, NEW a \in Callers
  PROVE  /\ \A how : End(a, how) => pc'[a] = "end" /\ \A b \in Callers : b # a => pc'[b] = pc[b]
         /\ \A next : Then(a, next) =>
              /\ pc'[a] \in {"end", next} /\ \A b \in Callers : b # a => pc'[b] = pc[b]
              /\ outcome' = outcome
BY DEF ATyped, End, Then

LEMMA Numbers == \A n \in Nat : Number(n).number = n /\ Number(n).info = None
BY DEF Number

-----------------------------------------------------------------------------
(* The handlers, one lemma per operation.                                  *)

\* A response of redis, taken by the handler of a.
LEMMA DoReturn ==
  ASSUME CInv, CInv', AInv, NEW a \in Callers, Return(a)
  PROVE  AInv'
<1> USE DEF AInv
<1> DEFINE v == result[a].value
<1>1. /\ at[a] = "done" /\ result[a] # Error /\ Taken(a) /\ pc[a] \in AgentCommands
      /\ UNCHANGED <<task, token, section, index, db>>
      /\ uuid' = IF pc[a] = "hget" /\ v.info # None THEN [uuid EXCEPT ![a] = v.info.uuid] ELSE uuid
  BY DEF Return, generator, Found
<1>2. pc[a] \in {"sadd", "hset", "hget", "set", "expire"}
  BY <1>1, Facts DEF AgentCommands, Register, Login
<1>3. Released(a) /\ ~Pre(a) /\ ~InFlight(a) /\ Answered(a, v)
  BY <1>1, Takes, TakenPhases
<1>4. task[a] \in Tasks /\ task[a].account \in Names
  BY <1>2, Facts DEF Handles
<1> HIDE DEF v
<1>5. pc[a] = "hget" => v.info = None \/ v.info = db.account[task[a].account]
  BY <1>3 DEF Told
<1>6. uuid' \in [Callers -> Nat \cup {None}] /\ \A b \in Callers : b # a => uuid'[b] = uuid[b]
  <2>1. pc[a] = "hget" /\ v.info # None => v.info.uuid \in Nat
    BY <1>4, <1>5, Facts
  <2> QED BY <1>1, <2>1 DEF ATyped
<1>7. section' \in Seq(Callers) /\ token' \in [Callers -> Nat \cup {None}] /\ index' \in Nat
  BY <1>1 DEF ATyped
<1>8. pc[a] \notin {"idle", "end", "incr", "get", "token_in"}
  BY <1>2
<1>9. /\ \A how : End(a, how) => Section'
      /\ \A next \in {"uuid", "hget", "token", "expire", "balance"} : Then(a, next) => Section'
  <2>1. ASSUME NEW how, End(a, how) PROVE Section'
    <3>1. pc'[a] = "end" /\ \A b \in Callers : b # a => pc'[b] = pc[b]
      BY <2>1, PcAfter
    <3> QED BY <1>1, <1>3, <1>8, <3>1, SectionSame
  <2>2. ASSUME NEW next \in {"uuid", "hget", "token", "expire", "balance"}, Then(a, next)
        PROVE  Section'
    <3>1. pc'[a] \in {"end", next} /\ \A b \in Callers : b # a => pc'[b] = pc[b]
      BY <2>2, PcAfter
    <3> QED BY <1>1, <1>3, <1>8, <2>2, <3>1, SectionSame
  <2> QED BY <2>1, <2>2
<1>10. ASSUME NEW next \in {"uuid", "hget", "token", "expire", "balance"}, Then(a, next),
              next \in {"expire", "balance"} => pc[a] \in {"set", "expire"}
       PROVE  Tokens'
  <2>1. pc'[a] \in {"end", next} /\ (\A b \in Callers : b # a => pc'[b] = pc[b]) /\ outcome' = outcome
    BY <1>10, PcAfter
  <2> QED BY <1>1, <1>10, <2>1, TokensSame
<1>11. CASE pc[a] = "sadd"
  <2>1. AfterSadd(a)
    BY <1>11 DEF Return
  <2>2. v \in {Number(0), Number(1)} /\ Answer(a) = v.number
    BY <1>3, <1>11 DEF Told, Answer, v
  <2>3. (Answer(a) = 0 => v = Number(0)) /\ (Answer(a) # 0 => v = Number(1))
    BY <2>2, Numbers
  <2>4. CASE task[a].kind = "register" /\ Answer(a) = 0
    <3>1. End(a, "refused")
      BY <2>1, <2>4 DEF AfterSadd, RegisterGoes
    <3>2. ~Behind(a)
      BY <1>3, <1>11, <2>3, <2>4 DEF Behind, Register
    <3> QED BY <1>1, <1>3, <1>6, <1>7, <1>8, <1>9, <3>1, <3>2, HandlerEnds
  <2>5. CASE task[a].kind = "register" /\ Answer(a) # 0
    <3>1. Then(a, "uuid")
      BY <2>1, <2>5 DEF AfterSadd, RegisterGoes
    <3>2. Ticket(a)
      BY <1>3, <1>11, <2>3, <2>5 DEF Ticket
    <3>3. "uuid" \in Register /\ "uuid" \notin Login
      BY DEF Register, Login
    <3> QED BY <1>1, <1>3, <1>6, <1>7, <1>8, <1>9, <1>10, <1>11, <2>5, <3>1, <3>2, <3>3, HandlerGoes
  <2>6. CASE task[a].kind # "register" /\ Answer(a) = 1
    <3>1. End(a, "refused") /\ task[a].kind = "login"
      BY <1>4, <2>1, <2>6, Facts DEF AfterSadd
    <3> QED BY <1>1, <1>3, <1>6, <1>7, <1>8, <1>9, <3>1, HandlerEnds
  <2>7. CASE task[a].kind # "register" /\ Answer(a) # 1
    <3>1. Then(a, "hget") /\ task[a].kind = "login"
      BY <1>4, <2>1, <2>7, Facts DEF AfterSadd
    <3>2. "hget" \in Login /\ "hget" \notin Register
      BY DEF Register, Login
    <3> QED BY <1>1, <1>3, <1>6, <1>7, <1>8, <1>9, <1>10, <3>1, <3>2, HandlerGoes
  <2> QED BY <2>4, <2>5, <2>6, <2>7
<1>12. CASE pc[a] = "hset"
  <2>1. AfterHset(a) /\ uuid' = uuid
    BY <1>1, <1>12 DEF Return
  <2>2. v = Number(1) /\ db.account[task[a].account] = Info(a) /\ Answer(a) = v.number
    BY <1>3, <1>12 DEF Told, Answer, v
  <2>3. End(a, "registered")
    BY <2>1, <2>2, Numbers DEF AfterHset
  <2>4. Info(a)' = Info(a) /\ Info(a) # None /\ uuid'[a] \in Nat
    <3>1. task' = task /\ uuid[a] \in Nat /\ task[a].password \in Passwords
      BY <1>1, <1>4, <1>12, Facts DEF Handles
    <3> QED BY <2>1, <3>1, Facts DEF Info, Records
  <2> QED BY <1>1, <1>3, <1>6, <1>7, <1>8, <1>9, <2>2, <2>3, <2>4, HandlerEnds
<1>13. CASE pc[a] = "hget"
  <2>1. AfterHget(a) /\ Found(a) = v.info
    BY <1>13 DEF Return, Found, v
  <2>2. task[a].kind = "login"
    BY <1>13 DEF Handles, Login
  <2>3. CASE v.info = None \/ ~PasswordOk(a, v.info)
    <3>1. End(a, "refused")
      BY <2>1, <2>3 DEF AfterHget
    <3> QED BY <1>1, <1>3, <1>6, <1>7, <1>8, <1>9, <2>2, <3>1, HandlerEnds
  <2>4. CASE v.info # None /\ PasswordOk(a, v.info)
    <3>1. Then(a, "token")
      BY <2>1, <2>4 DEF AfterHget
    <3>2. /\ db.account[task[a].account] # None
          /\ db.account[task[a].account].password = task[a].password
      BY <1>5, <1>13, <2>4 DEF PasswordOk
    <3>3. "token" \in Login /\ "token" \notin Register
      BY DEF Register, Login
    <3> QED BY <1>1, <1>3, <1>6, <1>7, <1>8, <1>9, <1>10, <2>2, <3>1, <3>2, <3>3, HandlerGoes
  <2> QED BY <2>3, <2>4
<1>14. CASE pc[a] \in {"set", "expire"}
  <2>1. PICK next \in {"expire", "balance"} : Then(a, next)
    BY <1>14 DEF Return
  <2>2. /\ task[a].kind = "login" /\ db.account[task[a].account] # None
        /\ db.account[task[a].account].password = task[a].password
    BY <1>14 DEF Handles, Login, Logins
  <2>3. next \in Login /\ next \notin Register
    BY DEF Register, Login
  <2> QED BY <1>1, <1>3, <1>6, <1>7, <1>8, <1>9, <1>10, <1>14, <2>1, <2>2, <2>3, HandlerGoes
<1> QED BY <1>2, <1>11, <1>12, <1>13, <1>14

\* A response that is an error ends the handler.
LEMMA DoRaise ==
  ASSUME CInv, CInv', AInv, NEW a \in Callers, Raise(a)
  PROVE  AInv'
<1> USE DEF AInv
<1>1. /\ at[a] = "done" /\ Taken(a) /\ pc[a] \in AgentCommands /\ End(a, "error")
      /\ UNCHANGED <<task, uuid, token, section, index, db>>
  BY DEF Raise, generator
<1>2. Released(a)
  BY <1>1, Takes
<1>3. pc[a] \notin {"idle", "end", "incr", "get", "token_in"}
  BY <1>1 DEF AgentCommands
<1>4. pc'[a] = "end" /\ \A b \in Callers : b # a => pc'[b] = pc[b]
  BY <1>1, PcAfter
<1>5. Section'
  BY <1>1, <1>2, <1>3, <1>4, SectionSame
<1>6. section' \in Seq(Callers) /\ uuid' \in [Callers -> Nat \cup {None}]
  BY <1>1 DEF ATyped
<1> QED BY <1>1, <1>2, <1>3, <1>5, <1>6, HandlerEnds

\* a enters the generator.
LEMMA DoEnter ==
  ASSUME CInv, CInv', AInv, NEW a \in Callers, Enter(a)
  PROVE  AInv'
<1> USE DEF AInv
<1> DEFINE next == IF pc[a] = "uuid" THEN "incr" ELSE "token_in"
<1>1. /\ pc[a] \in {"uuid", "token"} /\ pc' = [pc EXCEPT ![a] = next] /\ section' = Append(section, a)
      /\ UNCHANGED <<svars, task, uuid, token, outcome, left, index, db>>
  BY DEF Enter
<1>2. Released(a) /\ at[a] = "idle"
  BY <1>1, Idles DEF Commands, AgentCommands, GeneratorCommands
<1>3. pc'[a] = next /\ \A b \in Callers : b # a => pc'[b] = pc[b]
  BY <1>1 DEF ATyped
<1>4. /\ section' \in Seq(Callers) /\ In(section') = In(section) \cup {a}
      /\ section # <<>> => section' # <<>> /\ Head(section') = Head(section)
      /\ Once(section) /\ a \notin In(section) => Once(section')
  BY <1>1, AppendIs DEF ATyped
<1>5. next \in {"incr", "token_in"} /\ (next = "incr" <=> pc[a] = "uuid")
  OBVIOUS
<1> HIDE DEF next
<1>6. next \in Register \cup Login /\ (next \in Register <=> pc[a] = "uuid") /\ "uuid" \in Register
  BY <1>5 DEF Register, Login
<1>7. ATyped'
  BY <1>1, <1>4, <1>6 DEF ATyped
<1>8. Moves(a)
  BY <1>1, <1>2, <1>3, <1>7 DEF Moves
<1>9. Section'
  BY <1>1, <1>2, <1>3, <1>4, <1>5 DEF Section, Released
<1>10. Tokens'
  BY <1>1, <1>3, <1>5, TokensSame
<1>11. next \in Register => task[a].kind = "register" /\ Ticket(a) /\ pc[a] # "hset"
  BY <1>6 DEF Handles, Ticket
<1>12. next \notin Register =>
         /\ task[a].kind = "login" /\ db.account[task[a].account] # None
         /\ db.account[task[a].account].password = task[a].password
  BY <1>1, <1>6 DEF Handles, Logins, Login
<1>13. next \in Login => next \notin Register
  BY DEF Login, Register
<1> QED BY <1>1, <1>3, <1>5, <1>6, <1>8, <1>9, <1>10, <1>11, <1>12, <1>13, Proceed

\* a leaves the generator.
LEMMA SectionLeaves ==
  ASSUME ATyped, Section, NEW a \in Callers, Released(a), section # <<>>, Head(section) = a,
         section' = Tail(section), \A b \in Callers : b # a => pc'[b] = pc[b],
         pc'[a] \notin {"incr", "get", "token_in"}
  PROVE  Section' /\ section' \in Seq(Callers)
<1>1. /\ section' \in Seq(Callers) /\ Once(section') /\ a \notin In(section')
      /\ In(section) = In(section') \cup {a}
  BY TailIs DEF ATyped, Section
<1> QED BY <1>1 DEF Section, Released

\* Nobody else is between INCR and GET.
LEMMA CountsAlone ==
  ASSUME CInv, Section, NEW a \in Callers, section # <<>>, Head(section) = a
  PROVE  \A b \in Callers : b # a => ~Counted(b)
<1>1. \A b \in Callers : (\E v : Answered(b, v)) => at[b] # "idle"
  BY PhaseFacts DEF Phases
<1> QED BY <1>1 DEF Section, Counted

\* CMD.uuid of the generator, for a.
LEMMA DoGenerate ==
  ASSUME CInv, CInv', AInv, NEW a \in Callers, Generate(a)
  PROVE  AInv'
<1> USE DEF AInv
<1> DEFINE v == result[a].value
<1>1. /\ at[a] = "done" /\ Taken(a) /\ pc[a] \in {"incr", "get"}
      /\ UNCHANGED <<task, token, index, db>>
  BY DEF Generate, GeneratorCommands
<1>2. Released(a) /\ ~Pre(a) /\ ~InFlight(a) /\ (result[a] # Error => Answered(a, v))
  BY <1>1, Takes, TakenPhases
<1>3. section # <<>> /\ Head(section) = a
  BY <1>1 DEF Section
<1>4. pc[a] \in Register /\ task[a].kind = "register" /\ Ticket(a)
  BY <1>1 DEF Register, Handles, Ticket
<1>5. /\ section \in Seq(Callers) /\ uuid \in [Callers -> Nat \cup {None}] /\ index' \in Nat
      /\ token' \in [Callers -> Nat \cup {None}]
  BY <1>1 DEF ATyped
<1>6. "get" \in Register \ Login /\ "hset" \in Register \ Login
  BY DEF Register, Login
<1>7. CASE result[a] # Error /\ pc[a] = "incr"
  <2>1. pc' = [pc EXCEPT ![a] = "get"] /\ UNCHANGED <<uuid, outcome, left, section>>
    BY <1>7 DEF Generate
  <2>2. pc'[a] = "get" /\ \A b \in Callers : b # a => pc'[b] = pc[b]
    BY <2>1 DEF ATyped
  <2>3. ATyped'
    BY <1>1, <1>6, <2>1 DEF ATyped
  <2>4. Moves(a)
    BY <1>1, <1>2, <2>1, <2>2, <2>3 DEF Moves
  <2>5. Section'
    BY <1>2, <1>3, <1>7, <2>1, <2>2 DEF Section, Released
  <2>6. Tokens'
    BY <1>1, <2>1, <2>2, TokensSame
  <2>7. Counted(a)
    BY <1>2, <1>7 DEF Counted
  <2> QED BY <1>4, <1>6, <1>7, <2>1, <2>2, <2>4, <2>5, <2>6, <2>7, Proceed
<1>8. CASE result[a] # Error /\ pc[a] = "get"
  <2>1. /\ uuid' = [uuid EXCEPT ![a] = Answer(a) * 4095] /\ section' = Tail(section)
        /\ Then(a, "hset")
    BY <1>8 DEF Generate
  <2>2. /\ pc'[a] \in {"end", "hset"} /\ \A b \in Callers : b # a => pc'[b] = pc[b]
        /\ outcome' = outcome
    BY <2>1, PcAfter
  <2>3. Section' /\ section' \in Seq(Callers)
    BY <1>2, <1>3, <2>1, <2>2, SectionLeaves
  <2>4. Tokens'
    BY <1>1, <2>2, TokensSame
  <2>5. Answer(a) = db.account_cnt /\ db.account_cnt \in Nat
    <3>1. v = Number(db.account_cnt)
      BY <1>2, <1>8 DEF Told
    <3> QED BY <3>1, Numbers, Facts DEF Answer
  <2>6. db.account_cnt * 4095 \in Nat
    BY <2>5
  <2>7. /\ uuid'[a] = db.account_cnt * 4095 /\ uuid' \in [Callers -> Nat \cup {None}]
        /\ \A b \in Callers : b # a => uuid'[b] = uuid[b]
    BY <1>5, <2>1, <2>5, <2>6
  <2>8. Counted(a)
    BY <1>8 DEF Counted
  <2>9. \A n \in Names : db.account[n] # None => db.account[n].uuid # uuid'[a]
    <3>1. ASSUME NEW n \in Names, db.account[n] # None
          PROVE  db.account[n].uuid \in Nat /\ db.account[n].uuid < db.account_cnt * 4095
      BY <2>8, <3>1, Facts DEF Uuids
    <3>2. \A x \in Nat : x < db.account_cnt * 4095 => x # db.account_cnt * 4095
      BY <2>6
    <3> QED BY <2>7, <3>1, <3>2
  <2>10. \A b \in Callers : Numbered(b) => uuid[b] # uuid'[a]
    <3>1. ASSUME NEW b \in Callers, Numbered(b)
          PROVE  uuid[b] \in Nat /\ uuid[b] < db.account_cnt * 4095
      BY <2>8, <3>1 DEF Uuids, Numbered, Handles
    <3>2. \A x \in Nat : x < db.account_cnt * 4095 => x # db.account_cnt * 4095
      BY <2>6
    <3> QED BY <2>7, <3>1, <3>2
  <2>11. uuid'[a] \in Nat /\ uuid'[a] <= db.account_cnt * 4095
    BY <2>6, <2>7
  <2>12. \A b \in Callers : b # a => ~Counted(b)
    BY <1>3, CountsAlone
  <2>13. /\ uuid' \in [Callers -> Nat \cup {None}] /\ \A b \in Callers : b # a => uuid'[b] = uuid[b]
         /\ pc[a] \notin {"idle", "end"} /\ pc[a] # "hset"
         /\ token' \in [Callers -> Nat \cup {None}] /\ \A b \in Callers : b # a => token'[b] = token[b]
    BY <1>1, <1>5, <1>8, <2>7
  <2>14. PICK next \in Register : next = "hset" /\ next \notin Login /\ next # "get" /\ Then(a, next)
    BY <1>6, <2>1
  <2> QED BY <1>1, <1>2, <1>4, <1>5, <2>3, <2>4, <2>9, <2>10, <2>11, <2>12, <2>13, <2>14, HandlerGoes
<1>9. CASE result[a] = Error
  <2>1. section' = Tail(section) /\ End(a, "error") /\ uuid' = uuid
    BY <1>9 DEF Generate
  <2>2. pc'[a] = "end" /\ \A b \in Callers : b # a => pc'[b] = pc[b]
    BY <2>1, PcAfter
  <2>3. Section' /\ section' \in Seq(Callers)
    BY <1>2, <1>3, <2>1, <2>2, SectionLeaves
  <2>4. uuid' \in [Callers -> Nat \cup {None}] /\ pc[a] \notin {"idle", "end"}
    BY <1>1, <1>5, <2>1
  <2> QED BY <1>1, <1>2, <2>1, <2>3, <2>4, HandlerEnds
<1> QED BY <1>1, <1>7, <1>8, <1>9 DEF Generate

\* CMD.token of the generator, for a.
LEMMA DoToken ==
  ASSUME CInv, CInv', AInv, NEW a \in Callers, Token(a)
  PROVE  AInv'
<1> USE DEF AInv
<1>1. /\ pc[a] = "token_in" /\ Head(section) = a
      /\ token' = [token EXCEPT ![a] = index] /\ index' = index + 1 /\ section' = Tail(section)
      /\ Then(a, "set") /\ UNCHANGED <<svars, task, uuid, db>>
  BY DEF Token, Inside
<1>2. Released(a)
  BY <1>1, Idles DEF Commands, AgentCommands, GeneratorCommands
<1>3. section # <<>>
  BY <1>1, Empty DEF Section
<1>4. /\ pc'[a] \in {"end", "set"} /\ \A b \in Callers : b # a => pc'[b] = pc[b]
      /\ outcome' = outcome
  BY <1>1, PcAfter
<1>5. Section' /\ section' \in Seq(Callers)
  BY <1>1, <1>2, <1>3, <1>4, SectionLeaves
<1>6. /\ token'[a] = index /\ (\A b \in Callers : b # a => token'[b] = token[b])
      /\ index \in Nat /\ index' \in Nat
      /\ token' \in [Callers -> Nat \cup {None}] /\ uuid' \in [Callers -> Nat \cup {None}]
  BY <1>1 DEF ATyped
<1>7. Tokens'
  <2>1. \A b \in Callers : b # a /\ token[b] # None => token[b] < index /\ token[b] \in Nat
    BY Facts DEF Tokens
  <2>2. \A b \in Callers : token'[b] # None => token'[b] < index'
    BY <1>1, <1>6, <2>1
  <2>3. \A b \in Callers : b # a /\ token[b] # None => token[b] # index
    BY <1>6, <2>1
  <2>4. index # None
    BY <1>6, Facts
  <2> QED BY <1>1, <1>4, <1>6, <2>2, <2>3, <2>4 DEF Tokens
<1>8. /\ task[a].kind = "login" /\ db.account[task[a].account] # None
      /\ db.account[task[a].account].password = task[a].password
  BY <1>1 DEF Handles, Logins, Login
<1>9. "set" \in Login \ Register
  BY DEF Register, Login
<1> QED BY <1>1, <1>2, <1>5, <1>6, <1>7, <1>8, <1>9, HandlerGoes

\* The control node answers.
LEMMA DoBalance ==
  ASSUME CInv, CInv', AInv, NEW a \in Callers, Balance(a)
  PROVE  AInv'
<1> USE DEF AInv
<1>1. /\ pc[a] = "balance" /\ UNCHANGED <<svars, task, uuid, token, section, index, db>>
  BY DEF Balance, generator
<1>2. PICK how \in {"logged_in", "refused"} : End(a, how)
  BY DEF Balance
<1>3. Released(a)
  BY <1>1, Idles DEF Commands, AgentCommands, GeneratorCommands
<1>4. pc'[a] = "end" /\ \A b \in Callers : b # a => pc'[b] = pc[b]
  BY <1>2, PcAfter
<1>5. Section'
  BY <1>1, <1>3, <1>4, SectionSame
<1>6. section' \in Seq(Callers) /\ uuid' \in [Callers -> Nat \cup {None}]
  BY <1>1 DEF ATyped
<1>7. task[a].kind = "login"
  BY <1>1 DEF Handles, Login
<1> QED BY <1>1, <1>2, <1>3, <1>5, <1>6, <1>7, HandlerEnds

\* The client of a disconnects.
LEMMA DoDisconnect ==
  ASSUME CInv, AInv, NEW a \in Callers, Disconnect(a)
  PROVE  AInv'
<1> USE DEF AInv
<1>1. /\ pc[a] \notin {"idle", "end"} /\ outcome' = [outcome EXCEPT ![a] = "gone"]
      /\ left' = left \cup {task[a].account}
      /\ UNCHANGED <<svars, task, pc, uuid, token, section, index, db>>
  BY DEF Disconnect, generator
<1>2. at' = at /\ request' = request /\ \A b \in Callers : Phase(b)
  BY <1>1, StillPhases
<1>P. \A b \in Callers : /\ Pre(b)' => Pre(b)
                         /\ InFlight(b)' => InFlight(b) \/ Pre(b)
                         /\ \A v : Answered(b, v)' => Answered(b, v)
  BY <1>2 DEF Phase
<1>T. task[a] \in Tasks /\ task[a].account \in Names
  BY <1>1, Facts DEF Handles
<1>U. /\ outcome'[a] = "gone" /\ (\A b \in Callers : b # a => outcome'[b] = outcome[b])
      /\ left \subseteq left' /\ task[a].account \in left' /\ pc[a] \notin {"idle", "end"}
      /\ UNCHANGED <<task, pc, uuid, token, section, index, db, at, request>>
  BY <1>1, <1>2 DEF ATyped
<1>ATyped. ATyped'
  BY <1>U, <1>P, <1>1, <1>T DEF ATyped
<1>Handles. Handles'
  BY <1>U, <1>P DEF Handles, Register, Login
<1>Asks. Asks'
  BY <1>U, <1>P DEF Asks, Info
<1>Outcomes. Outcomes'
  BY <1>U, <1>P, <1>T DEF Outcomes
<1>Section. Section'
  BY <1>U, <1>P DEF Section
<1>Tickets. Tickets'
  BY <1>U, <1>P DEF Tickets, Ticket, Unstored, Register
<1>Told. Told'
  BY <1>U, <1>P DEF Told, Info
<1>Registered. Registered'
  BY <1>U, <1>P DEF Registered, Info
<1>Uuids. Uuids'
  BY <1>U, <1>P DEF Uuids, Numbered, Counted
<1>Logins. Logins'
  BY <1>U, <1>P DEF Logins, Login
<1>Tokens. Tokens'
  BY <1>U, <1>P DEF Tokens
<1>LostNames. LostNames'
  BY <1>U, <1>P DEF LostNames, Behind, Register
<1> QED BY <1>ATyped, <1>Handles, <1>Asks, <1>Outcomes, <1>Section, <1>Tickets, <1>Told,
           <1>Registered, <1>Uuids, <1>Logins, <1>Tokens, <1>LostNames

\* A message of the client of a.
LEMMA DoReceive ==
  ASSUME CInv, CInv', AInv, NEW a \in Callers, NEW t \in Messages[a], Receive(a, t)
  PROVE  AInv'
<1> USE DEF AInv
<1>1. /\ pc[a] \in {"idle", "end"} /\ outcome[a] \in {None, "error"}
      /\ task' = [task EXCEPT ![a] = t] /\ pc' = [pc EXCEPT ![a] = "sadd"]
      /\ uuid' = [uuid EXCEPT ![a] = None] /\ token' = [token EXCEPT ![a] = None]
      /\ outcome' = [outcome EXCEPT ![a] = None]
      /\ UNCHANGED <<svars, left, section, index, db>>
  BY DEF Receive, generator
<1>2. Released(a)
  BY <1>1, Idles DEF Commands, AgentCommands, GeneratorCommands
<1>T. t \in Tasks
  BY AccountsAssumption
<1>P. \A b \in Callers : b # a => /\ Pre(b)' => Pre(b)
                                  /\ InFlight(b)' => InFlight(b) \/ Pre(b)
                                  /\ \A v : Answered(b, v)' => Answered(b, v)
  BY <1>2 DEF Released, Phase
<1>U. /\ pc[a] \in {"idle", "end"} /\ outcome[a] \in {None, "error"}
      /\ task'[a] = t /\ pc'[a] = "sadd" /\ uuid'[a] = None /\ token'[a] = None /\ outcome'[a] = None
      /\ at'[a] = "idle" /\ Pre(a)' /\ ~InFlight(a)' /\ \A v : ~Answered(a, v)'
      /\ \A b \in Callers : b # a =>
           /\ task'[b] = task[b] /\ pc'[b] = pc[b] /\ uuid'[b] = uuid[b] /\ token'[b] = token[b]
           /\ outcome'[b] = outcome[b] /\ at'[b] = at[b] /\ request'[b] = request[b]
      /\ UNCHANGED <<left, section, index, db>>
  BY <1>1, <1>2 DEF ATyped, Released
<1>N. None \notin {"registered", "logged_in", "refused", "error", "gone"}
  BY AccountsAssumption
<1>ATyped. ATyped'
  BY <1>1, <1>T DEF ATyped
<1>Handles. Handles'
  BY <1>U, <1>P, <1>T DEF Handles, Register, Login
<1>Asks. Asks'
  BY <1>U, <1>P DEF Asks, Info
<1>Outcomes. Outcomes'
  BY <1>U, <1>P, <1>N DEF Outcomes
<1>Section. Section'
  BY <1>U, <1>P DEF Section
<1>Tickets. Tickets'
  BY <1>U, <1>P DEF Tickets, Ticket, Unstored, Register
<1>Told. Told'
  BY <1>U, <1>P DEF Told, Info
<1>Registered. Registered'
  BY <1>U, <1>P, <1>N DEF Registered, Info
<1>Uuids. Uuids'
  BY <1>U, <1>P DEF Uuids, Numbered, Counted
<1>Logins. Logins'
  BY <1>U, <1>P, <1>N DEF Logins, Login
<1>Tokens. Tokens'
  BY <1>U, <1>P, <1>N DEF Tokens
<1>LostNames. LostNames'
  BY <1>U, <1>P, <1>N DEF LostNames, Behind, Register, Outcomes
<1> QED BY <1>ATyped, <1>Handles, <1>Asks, <1>Outcomes, <1>Section, <1>Tickets, <1>Told,
           <1>Registered, <1>Uuids, <1>Logins, <1>Tokens, <1>LostNames

\* The command of a arrives at redisd.
LEMMA DoCall ==
  ASSUME CInv, CInv', AInv, NEW a \in Callers, Call(a)
  PROVE  AInv'
<1> DEFINE c == [op |-> pc[a], account |-> task[a].account,
                 info |-> IF pc[a] = "hset" THEN Info(a) ELSE None]
<1>1. /\ pc[a] \in Commands /\ (pc[a] \in GeneratorCommands => Head(section) = a)
      /\ Request(a, c) /\ UNCHANGED <<handlers, generator, db>>
  BY DEF Call, Commands, Inside, AgentCommands, GeneratorCommands
<1>2. UNCHANGED <<task, pc, uuid, section>>
  BY <1>1 DEF handlers, generator
<1>3. Info(a)' = Info(a) /\ \A b \in Callers : Info(b)' = Info(b)
  BY <1>2 DEF Info
<1>4. /\ \A b \in Callers : Phase(b)
      /\ at'[a] = "check" /\ request'[a] = c
      /\ \A b \in Callers : b # a => at'[b] = at[b] /\ request'[b] = request[b]
  BY <1>1, RequestPhases
<1>5. Asks'
  BY <1>1, <1>2, <1>3, <1>4 DEF AInv, Asks
<1> HIDE DEF c
<1>6. Section'
  <2>1. pc[a] \in {"incr", "get"} => section # <<>> /\ Head(section) = a
    BY <1>1, Empty DEF GeneratorCommands, AInv, Section
  <2> QED BY <1>2, <1>4, <2>1 DEF AInv, Section
<1> QED BY <1>1, <1>4, <1>5, <1>6, SameHandlers

\* A step of the channel alone.
LEMMA DoQuiet ==
  ASSUME CInv, CInv', AInv, Calm, UNCHANGED <<handlers, generator, db>>
  PROVE  AInv'
<1>1. \A b \in Callers : Phase(b) /\ request' = request /\ (at'[b] = "idle" <=> at[b] = "idle")
  BY CalmPhases
<1>2. UNCHANGED <<task, pc, uuid, section>>
  BY DEF handlers, generator
<1>3. Asks' /\ Section'
  BY <1>1, <1>2 DEF AInv, Asks, Section, Info
<1> QED BY <1>1, <1>3, SameHandlers

LEMMA DoNothing ==
  ASSUME CInv, AInv, UNCHANGED vars
  PROVE  AInv'
<1>1. UNCHANGED <<svars, handlers, generator, db>>
  BY DEF vars
<1>2. UNCHANGED <<task, pc, uuid, section>>
  BY <1>1 DEF handlers, generator
<1>3. request' = request /\ at' = at /\ \A b \in Callers : Phase(b)
  BY <1>1, StillPhases DEF svars
<1>4. Asks' /\ Section'
  BY <1>2, <1>3 DEF AInv, Asks, Section, Info
<1> QED BY <1>1, <1>3, <1>4, SameHandlers

-----------------------------------------------------------------------------
(* The server executes the command of a.                                   *)

\* The step for everybody but a, whose command has been in flight.
Executes(a, v) ==
  /\ at' = at /\ request' = request
  /\ UNCHANGED <<task, pc, uuid, token, outcome, left, section, index>>
  /\ InFlight(a) /\ ~Pre(a) /\ ~Pre(a)' /\ ~InFlight(a)'
  /\ \A w : Answered(a, w)' => w = v
  /\ \A b \in Callers : b # a => /\ Pre(b)' => Pre(b)
                                 /\ InFlight(b)' => InFlight(b) \/ Pre(b)
                                 /\ \A w : Answered(b, w)' => Answered(b, w)

\* What no command changes.
LEMMA ExecuteFrame ==
  ASSUME AInv, NEW a \in Callers, NEW v, Executes(a, v),
         db' \in [account_list : SUBSET Names, account_cnt : Nat, account : [Names -> Records \cup {None}]]
  PROVE  ATyped' /\ Handles' /\ Asks' /\ Outcomes' /\ Section' /\ Tokens'
<1> USE DEF AInv
<1>U. UNCHANGED <<task, pc, uuid, token, outcome, left, section, index, at, request>>
  BY DEF Executes
<1>ATyped. ATyped'
  BY <1>U DEF ATyped
<1>Handles. Handles'
  BY <1>U DEF Handles, Register, Login
<1>Asks. Asks'
  BY <1>U DEF Asks, Info
<1>Outcomes. Outcomes'
  BY <1>U DEF Outcomes
<1>Section. Section'
  BY <1>U DEF Section
<1>Tokens. Tokens'
  BY <1>U DEF Tokens
<1> QED BY <1>ATyped, <1>Handles, <1>Asks, <1>Outcomes, <1>Section, <1>Tokens

LEMMA DoSadd ==
  ASSUME AInv, NEW a \in Callers, pc[a] = "sadd",
         Executes(a, Bit(task[a].account \notin db.account_list)),
         db' = [db EXCEPT !.account_list = @ \cup {task[a].account}]
  PROVE  AInv'
<1> USE DEF AInv
<1> DEFINE n == task[a].account
           v == Bit(n \notin db.account_list)
<1>1. n \in Names /\ task[a] \in Tasks
  BY Facts DEF Handles
<1>2. db' \in [account_list : SUBSET Names, account_cnt : Nat, account : [Names -> Records \cup {None}]]
  BY <1>1 DEF ATyped
<1>3. /\ db'.account_list = db.account_list \cup {n}
      /\ db'.account_cnt = db.account_cnt /\ db'.account = db.account
  BY DEF ATyped
<1>4. /\ v \in {Number(0), Number(1)} /\ (v = Number(1) <=> n \notin db.account_list)
      /\ (v = Number(0) <=> n \in db.account_list)
  BY Numbers DEF Bit
<1>F. ATyped' /\ Handles' /\ Asks' /\ Outcomes' /\ Section' /\ Tokens'
  BY <1>2, ExecuteFrame
<1> HIDE DEF v, n
<1>U. /\ UNCHANGED <<task, pc, uuid, token, outcome, left, section, index, at, request>>
      /\ InFlight(a) /\ ~Pre(a) /\ ~Pre(a)' /\ ~InFlight(a)' /\ pc[a] = "sadd"
      /\ \A w : Answered(a, w)' => w = v
      /\ n = task[a].account
  BY DEF Executes, v, n
<1>P. \A b \in Callers : b # a => /\ Pre(b)' => Pre(b)
                                  /\ InFlight(b)' => InFlight(b) \/ Pre(b)
                                  /\ \A w : Answered(b, w)' => Answered(b, w)
  BY DEF Executes
<1>T. /\ \A b \in Callers : Ticket(b) => task[b].account \in db.account_list
      /\ \A b \in Callers : b # a => (Ticket(b)' => Ticket(b))
      /\ Ticket(a)' => n \notin db.account_list /\ db.account[n] = None
  BY <1>U, <1>P, <1>1, <1>4 DEF Tickets, Ticket, Register
<1>Tickets. Tickets'
  BY <1>U, <1>P, <1>3, <1>T DEF Tickets, Unstored
<1>Told. Told'
  BY <1>U, <1>P, <1>1, <1>3, <1>4 DEF Told, Info
<1>Registered. Registered'
  BY <1>U, <1>P, <1>1, <1>3, <1>4 DEF Registered, Info
<1>Uuids. Uuids'
  BY <1>U, <1>P, <1>1, <1>3, <1>4 DEF Uuids, Numbered, Counted
<1>Logins. Logins'
  BY <1>U, <1>P, <1>1, <1>3, <1>4 DEF Logins, Login
<1>LostNames. LostNames'
  <2>1. ASSUME NEW m \in db'.account_list \ left', db'.account[m] = None, m # n \/ n \in db.account_list
        PROVE  \E b \in Callers : pc[b] # "idle" /\ task[b].account = m /\ Behind(b)
    BY <1>U, <1>3, <2>1 DEF LostNames
  <2>2. \A b \in Callers : b # a => (Behind(b) => Behind(b)')
    BY <1>U, <1>P DEF Behind
  <2>3. Behind(a) => Behind(a)'
    BY <1>U DEF Behind, Register
  <2>4. n \notin db.account_list => Behind(a)'
    BY <1>U, <1>1, <1>4, Facts DEF Behind
  <2> QED BY <1>U, <1>3, <2>1, <2>2, <2>3, <2>4 DEF LostNames
<1> QED BY <1>F, <1>Tickets, <1>Told, <1>Registered, <1>Uuids, <1>Logins, <1>LostNames

LEMMA DoHset ==
  ASSUME AInv, NEW a \in Callers, pc[a] = "hset",
         Executes(a, Bit(db.account[task[a].account] = None)),
         db' = [db EXCEPT !.account[task[a].account] = Info(a)]
  PROVE  AInv'
<1> USE DEF AInv
<1> DEFINE n == task[a].account
           v == Bit(db.account[n] = None)
           i == Info(a)
<1>1. n \in Names /\ task[a] \in Tasks /\ uuid[a] \in Nat /\ task[a].kind = "register"
  BY Facts DEF Handles, Register
<1>2. i \in Records /\ i # None /\ i.uuid = uuid[a]
  <2>1. task[a].password \in Passwords
    BY <1>1, Facts
  <2>2. i \in Records /\ i.uuid = uuid[a]
    BY <1>1, <2>1 DEF Info, Records
  <2> QED BY <2>2, Facts
<1>3. /\ db' \in [account_list : SUBSET Names, account_cnt : Nat,
                  account : [Names -> Records \cup {None}]]
      /\ db'.account_list = db.account_list
      /\ db'.account_cnt = db.account_cnt /\ db'.account[n] = i
      /\ \A m \in Names : m # n => db'.account[m] = db.account[m]
  <2> HIDE DEF i, n
  <2>1. db' = [db EXCEPT !.account[n] = i]
    BY DEF i, n
  <2>2. db' = [db EXCEPT !.account = [db.account EXCEPT ![n] = i]]
    BY <2>1
  <2>3. [db.account EXCEPT ![n] = i] \in [Names -> Records \cup {None}]
    BY <1>2 DEF ATyped
  <2> QED BY <1>1, <2>2, <2>3 DEF ATyped
<1>F. ATyped' /\ Handles' /\ Asks' /\ Outcomes' /\ Section' /\ Tokens'
  BY <1>3, ExecuteFrame
<1>4. Ticket(a) /\ Unstored(a) /\ n \in db.account_list /\ db.account[n] = None
  <2>1. Ticket(a) /\ Unstored(a)
    BY DEF Ticket, Register, Unstored, Executes
  <2> QED BY <2>1 DEF Tickets
<1>5. v = Number(1)
  BY <1>4 DEF Bit
<1>6. Numbered(a) /\ ~Numbered(a)'
  BY DEF Numbered, Executes
<1> HIDE DEF v, n, i
<1>U. /\ UNCHANGED <<task, pc, uuid, token, outcome, left, section, index, at, request>>
      /\ InFlight(a) /\ ~Pre(a) /\ ~Pre(a)' /\ ~InFlight(a)' /\ pc[a] = "hset"
      /\ \A w : Answered(a, w)' => w = v
      /\ n = task[a].account /\ i = Info(a)
  BY DEF Executes, v, n, i
<1>P. \A b \in Callers : b # a => /\ Pre(b)' => Pre(b)
                                  /\ InFlight(b)' => InFlight(b) \/ Pre(b)
                                  /\ \A w : Answered(b, w)' => Answered(b, w)
  BY DEF Executes
<1>N. \A b \in Callers : pc[b] # "idle" => task[b].account \in Names
  BY Facts DEF Handles
<1>7. \A b \in Callers : Info(b)' = Info(b)
  BY <1>U DEF Info
<1>Tickets. Tickets'
  <2>1. \A b \in Callers : /\ Ticket(b)' => Ticket(b) /\ pc[b] # "idle"
                           /\ b # a => (Unstored(b)' => Unstored(b))
                           /\ b # a => (Ticket(b) => task[b].account # n)
    BY <1>U, <1>P, <1>4 DEF Ticket, Unstored, Tickets, Register
  <2>2. ~Unstored(a)'
    BY <1>U DEF Unstored
  <2> QED BY <1>U, <1>N, <1>3, <1>4, <2>1, <2>2 DEF Tickets
<1>Told. Told'
  <2>1. ASSUME NEW b \in Callers, b # a, pc[b] = "hset", NEW w, Answered(b, w)
        PROVE  task[b].account # n
    <3>1. Ticket(b)
      BY <2>1 DEF Ticket, Register
    <3> QED BY <1>U, <1>4, <2>1, <3>1 DEF Tickets
  <2> QED BY <1>U, <1>P, <1>N, <1>3, <1>4, <1>5, <1>7, <2>1 DEF Told
<1>Registered. Registered'
  <2>1. ASSUME NEW b \in Callers, outcome[b] = "registered"
        PROVE  task[b].account \in Names /\ task[b].account # n /\ db.account[task[b].account] = Info(b)
    <3>1. pc[b] = "end"
      BY <2>1, Facts, AccountsAssumption DEF Outcomes
    <3>2. task[b].account \in Names
      BY <1>N, <3>1
    <3>3. db.account[task[b].account] = Info(b)
      BY <2>1 DEF Registered
    <3>4. Info(b) # None
      <4>1. task[b].password \in Passwords /\ uuid[b] \in Nat
        BY <2>1, <3>1, Facts DEF Handles, Outcomes
      <4> QED BY <4>1, Facts DEF Info, Records
    <3> QED BY <1>4, <3>2, <3>3, <3>4
  <2> QED BY <1>U, <1>3, <1>7, <2>1 DEF Registered
<1>Uuids. Uuids'
  <2>1. \A b \in Callers : (Numbered(b)' => Numbered(b) /\ b # a) /\ (Counted(b)' => Counted(b))
    BY <1>U, <1>P, <1>6 DEF Numbered, Counted
  <2> QED BY <1>U, <1>2, <1>3, <1>4, <1>6, <2>1 DEF Uuids
<1>Logins. Logins'
  <2>1. \A b \in Callers : outcome[b] = "logged_in" => pc[b] = "end"
    BY AccountsAssumption DEF Outcomes
  <2>2. \A b \in Callers : pc[b] \in Login \/ outcome[b] = "logged_in" => pc[b] # "idle"
    BY <2>1 DEF Login
  <2> QED BY <1>U, <1>N, <1>3, <1>4, <2>2 DEF Logins
<1>LostNames. LostNames'
  <2>1. \A b \in Callers : Behind(b) => Behind(b)'
    BY <1>U, <1>P DEF Behind, Register
  <2>2. \A m \in db.account_list : m \in Names
    BY Facts
  <2> QED BY <1>U, <1>2, <1>3, <2>1, <2>2 DEF LostNames
<1> QED BY <1>F, <1>Tickets, <1>Told, <1>Registered, <1>Uuids, <1>Logins, <1>LostNames

LEMMA DoIncr ==
  ASSUME CInv, AInv, NEW a \in Callers, pc[a] = "incr", NEW v, Executes(a, v),
         db' = [db EXCEPT !.account_cnt = @ + 1]
  PROVE  AInv'
<1> USE DEF AInv
<1>1. db.account_cnt \in Nat
  BY Facts
<1>2. db' \in [account_list : SUBSET Names, account_cnt : Nat, account : [Names -> Records \cup {None}]]
  <2>1. PICK m \in Nat : m = db.account_cnt + 1
    BY <1>1
  <2>2. db' = [db EXCEPT !.account_cnt = m]
    BY <2>1
  <2> QED BY <2>2 DEF ATyped
<1>3. /\ db'.account_list = db.account_list
      /\ db'.account_cnt = db.account_cnt + 1 /\ db'.account = db.account
  BY DEF ATyped
<1>F. ATyped' /\ Handles' /\ Asks' /\ Outcomes' /\ Section' /\ Tokens'
  BY <1>2, ExecuteFrame
<1>U. /\ UNCHANGED <<task, pc, uuid, token, outcome, left, section, index, at, request>>
      /\ InFlight(a) /\ ~Pre(a) /\ ~Pre(a)' /\ ~InFlight(a)' /\ pc[a] = "incr"
  BY DEF Executes
<1>P. \A b \in Callers : b # a => /\ Pre(b)' => Pre(b)
                                  /\ InFlight(b)' => InFlight(b) \/ Pre(b)
                                  /\ \A w : Answered(b, w)' => Answered(b, w)
  BY DEF Executes
<1>4. section # <<>> /\ Head(section) = a
  <2>1. at[a] # "idle"
    BY <1>U, PhaseFacts DEF Phases
  <2> QED BY <1>U, <2>1 DEF Section
<1>5. \A b \in Callers : b # a => pc[b] # "get"
  BY <1>4 DEF Section
<1>Tickets. Tickets'
  BY <1>U, <1>P, <1>3 DEF Tickets, Ticket, Unstored, Register
<1>Told. Told'
  BY <1>U, <1>P, <1>3, <1>5 DEF Told, Info
<1>Registered. Registered'
  BY <1>U, <1>P, <1>3 DEF Registered, Info
<1>Uuids. Uuids'
  <2>1. \A b \in Callers : Numbered(b)' => Numbered(b) /\ uuid[b] \in Nat
    BY <1>U, <1>P DEF Numbered, Handles
  <2>0. PICK bound : bound = db'.account_cnt * 4095
    OBVIOUS
  <2>2. \A x \in Nat : x <= db.account_cnt * 4095 => x <= bound /\ x < bound
    BY <1>1, <1>3, <2>0
  <2>3. \A b \in Callers : Numbered(b)' => uuid[b] <= bound /\ uuid[b] < bound
    BY <2>1, <2>2 DEF Uuids
  <2>4. \A n \in Names : db.account[n] # None => db.account[n].uuid <= bound /\ db.account[n].uuid < bound
    BY <2>2, Facts DEF Uuids
  <2>5. /\ \A m, n \in Names : m # n /\ db.account[m] # None /\ db.account[n] # None
                               => db.account[m].uuid # db.account[n].uuid
        /\ \A b, c \in Callers : Numbered(b) /\ Numbered(c) /\ uuid[b] = uuid[c] => b = c
        /\ \A b \in Callers, n \in Names : Numbered(b) /\ db.account[n] # None
                                           => db.account[n].uuid # uuid[b]
    BY DEF Uuids
  <2>6. uuid' = uuid /\ db'.account = db.account
    BY <1>U, <1>3
  <2>7. \A b \in Callers : Numbered(b)' => Numbered(b)
    BY <2>1
  <2> QED BY <2>0, <2>3, <2>4, <2>5, <2>6, <2>7 DEF Uuids
<1>Logins. Logins'
  BY <1>U, <1>P, <1>3 DEF Logins, Login
<1>LostNames. LostNames'
  BY <1>U, <1>P, <1>3 DEF LostNames, Behind, Register
<1> QED BY <1>F, <1>Tickets, <1>Told, <1>Registered, <1>Uuids, <1>Logins, <1>LostNames

\* A command that changes nothing.
LEMMA DoLook ==
  ASSUME AInv, NEW a \in Callers, pc[a] \in {"get", "hget", "set", "expire"}, NEW v, Executes(a, v),
         pc[a] = "get" => v = Number(db.account_cnt),
         pc[a] = "hget" => v.info = db.account[task[a].account],
         db' = db
  PROVE  AInv'
<1> USE DEF AInv
<1>2. db' \in [account_list : SUBSET Names, account_cnt : Nat, account : [Names -> Records \cup {None}]]
  BY DEF ATyped
<1>F. ATyped' /\ Handles' /\ Asks' /\ Outcomes' /\ Section' /\ Tokens'
  BY <1>2, ExecuteFrame
<1>U. /\ UNCHANGED <<task, pc, uuid, token, outcome, left, section, index, at, request, db>>
      /\ InFlight(a) /\ ~Pre(a) /\ ~Pre(a)' /\ ~InFlight(a)'
      /\ pc[a] \in {"get", "hget", "set", "expire"}
      /\ \A w : Answered(a, w)' => w = v
  BY DEF Executes
<1>P. \A b \in Callers : b # a => /\ Pre(b)' => Pre(b)
                                  /\ InFlight(b)' => InFlight(b) \/ Pre(b)
                                  /\ \A w : Answered(b, w)' => Answered(b, w)
  BY DEF Executes
<1>Tickets. Tickets'
  BY <1>U, <1>P DEF Tickets, Ticket, Unstored, Register
<1>Told. Told'
  BY <1>U, <1>P DEF Told, Info
<1>Registered. Registered'
  BY <1>U, <1>P DEF Registered, Info
<1>Uuids. Uuids'
  BY <1>U, <1>P DEF Uuids, Numbered, Counted
<1>Logins. Logins'
  BY <1>U, <1>P DEF Logins, Login
<1>LostNames. LostNames'
  BY <1>U, <1>P DEF LostNames, Behind, Register
<1> QED BY <1>F, <1>Tickets, <1>Told, <1>Registered, <1>Uuids, <1>Logins, <1>LostNames

LEMMA DoExecute ==
  ASSUME CInv, CInv', AInv, NEW k \in Conns, Execute(k)
  PROVE  AInv'
<1> DEFINE c == Head(written[k]).cmd
<1>1. Serve(k, Reply(c)) /\ db' = Stored(c) /\ UNCHANGED <<handlers, generator>>
  BY DEF Execute
<1>2. UNCHANGED <<task, pc, uuid, token, outcome, left, section, index>>
  BY <1>1 DEF handlers, generator
<1>3. /\ at' = at /\ request' = request
      /\ \/ c = Select /\ \A b \in Callers : Phase(b)
         \/ \E a \in Callers :
              /\ c = request[a]
              /\ InFlight(a) /\ ~Pre(a) /\ ~Pre(a)' /\ ~InFlight(a)'
              /\ \A w : Answered(a, w)' => w = Reply(c)
              /\ \A b \in Callers : b # a => Phase(b)
  BY <1>1, ServePhases
<1> HIDE DEF c
<1>4. CASE c = Select /\ \A b \in Callers : Phase(b)
  <2>1. db' = db
    BY <1>1, <1>4 DEF Stored, Select
  <2>2. Asks' /\ Section'
    BY <1>2, <1>3 DEF AInv, Asks, Section, Info
  <2> QED BY <1>1, <1>4, <2>1, <2>2, SameHandlers
<1>5. ASSUME NEW a \in Callers, c = request[a],
             InFlight(a), ~Pre(a), ~Pre(a)', ~InFlight(a)',
             \A w : Answered(a, w)' => w = Reply(c),
             \A b \in Callers : b # a => Phase(b)
      PROVE  AInv'
  <2>1. Executes(a, Reply(c))
    BY <1>2, <1>3, <1>5 DEF Executes, Phase
  <2>2. at[a] # "idle"
    BY <1>5, PhaseFacts DEF Phases
  <2>3. /\ pc[a] \in {"sadd", "hset", "hget", "incr", "get", "set", "expire"}
        /\ c = [op |-> pc[a], account |-> task[a].account,
                info |-> IF pc[a] = "hset" THEN Info(a) ELSE None]
    <3>1. /\ pc[a] \in Commands
          /\ c = [op |-> pc[a], account |-> task[a].account,
                  info |-> IF pc[a] = "hset" THEN Info(a) ELSE None]
      BY <1>5, <2>2 DEF AInv, Asks
    <3>2. pc[a] # "srem"
      BY Facts DEF AInv, Register, Login
    <3> QED BY <3>1, <3>2 DEF Commands, AgentCommands, GeneratorCommands
  <2>4. c.op = pc[a] /\ c.account = task[a].account /\ (pc[a] = "hset" => c.info = Info(a))
    BY <2>3
  <2>5. CASE pc[a] = "sadd"
    <3>1. /\ Reply(c) = Bit(task[a].account \notin db.account_list)
          /\ db' = [db EXCEPT !.account_list = @ \cup {task[a].account}]
      BY <1>1, <2>4, <2>5 DEF Reply, Stored
    <3> QED BY <2>1, <2>5, <3>1, DoSadd
  <2>6. CASE pc[a] = "hset"
    <3>1. /\ Reply(c) = Bit(db.account[task[a].account] = None)
          /\ db' = [db EXCEPT !.account[task[a].account] = Info(a)]
      BY <1>1, <2>4, <2>6 DEF Reply, Stored
    <3> QED BY <2>1, <2>6, <3>1, DoHset
  <2>7. CASE pc[a] = "incr"
    <3>1. db' = [db EXCEPT !.account_cnt = @ + 1]
      BY <1>1, <2>4, <2>7 DEF Stored
    <3> QED BY <2>1, <2>7, <3>1, DoIncr
  <2>8. CASE pc[a] \in {"get", "hget", "set", "expire"}
    <3>1. /\ db' = db /\ (pc[a] = "get" => Reply(c) = Number(db.account_cnt))
          /\ pc[a] = "hget" => Reply(c) = [number |-> 0, info |-> db.account[task[a].account]]
      BY <1>1, <2>4, <2>8 DEF Stored, Reply
    <3>2. pc[a] = "hget" => Reply(c).info = db.account[task[a].account]
      BY <3>1
    <3> QED BY <2>1, <2>8, <3>1, <3>2, DoLook
  <2> QED BY <2>3, <2>5, <2>6, <2>7, <2>8
<1> QED BY <1>3, <1>4, <1>5

-----------------------------------------------------------------------------

LEMMA AgentsInit ==
  ASSUME Init
  PROVE  AInv
<1>1. /\ \A a \in Callers : /\ task[a] = None /\ pc[a] = "idle" /\ uuid[a] = None
                            /\ token[a] = None /\ outcome[a] = None /\ at[a] = "idle"
      /\ left = {} /\ section = <<>> /\ index = 0
      /\ db.account_list = {} /\ db.account_cnt = 0 /\ \A n \in Names : db.account[n] = None
  BY DEF Init, ChannelInit
<1>2. ATyped
  <2>1. /\ section \in Seq(Callers) /\ index \in Nat /\ left \subseteq Names
    BY <1>1
  <2> QED BY <2>1 DEF Init, ATyped
<1>3. Section
  BY <1>1, Empty DEF Section
<1>4. None \notin {"registered", "logged_in", "refused", "error", "gone"}
  BY AccountsAssumption
<1>5. Handles /\ Asks /\ Outcomes /\ Tokens /\ Logins /\ Registered
  BY <1>1, <1>4 DEF Handles, Asks, Outcomes, Tokens, Logins, Registered, Register, Login
<1>6. Tickets /\ Told /\ Uuids /\ LostNames
  BY <1>1 DEF Tickets, Ticket, Told, Uuids, Numbered, Counted, LostNames, Register
<1> QED BY <1>2, <1>3, <1>5, <1>6 DEF AInv

LEMMA AgentsStep ==
  ASSUME Uncut, Uncut', ~cut', AInv, [Next]_vars
  PROVE  AInv'
<1>0. CInv /\ CInv' /\ \A a \in Callers : ~Awaited(a)
  BY DEF Uncut, Awaited
<1>1. ASSUME NEW a \in Callers, Agent(a) PROVE AInv'
  BY <1>0, <1>1, DoCall, DoReturn, DoRaise, DoEnter, DoGenerate, DoToken, DoBalance DEF Agent
<1>2. ASSUME NEW a \in Callers, Client(a) PROVE AInv'
  BY <1>0, <1>2, DoReceive, DoDisconnect DEF Client
<1>3. CASE Redisd
  <2>1. Calm /\ UNCHANGED <<handlers, generator, db>>
    BY <1>0, <1>3, DoCaller, DoOpening, DoDispatch DEF Redisd, Apart
  <2> QED BY <1>0, <2>1, DoQuiet
<1>4. ASSUME NEW k \in Conns, Execute(k) PROVE AInv'
  BY <1>0, <1>4, DoExecute
<1>5. ASSUME NEW k \in Conns, Report(k) \/ Fault(k) PROVE AInv'
  <2>1. Calm /\ UNCHANGED <<handlers, generator, db>>
    BY <1>0, <1>5, DoPart, DoData, DoCloseMessage, DoBreak, DoRefuse DEF Report, Fault, Apart
  <2> QED BY <1>0, <2>1, DoQuiet
<1>6. CASE UNCHANGED vars
  BY <1>0, <1>6, DoNothing
<1> QED BY <1>1, <1>2, <1>3, <1>4, <1>5, <1>6 DEF Next

\* The invariant of the agents, the generator and the data base.
THEOREM AccountsInvariance == Spec => [](cut \/ AInv)
<1>1. Init => AInv
  BY AgentsInit
<1>2. /\ (cut \/ Uncut) /\ (cut \/ Uncut)' /\ (cut \/ AInv) /\ [Next]_vars
      => (cut \/ AInv)'
  BY AgentsStep, CutStays
<1> QED BY <1>1, <1>2, ChannelInvariance, PTL DEF Spec

\* What clients are told about accounts is true, and numbers are unique.
THEOREM ClientsToldTrue == Spec => [](cut \/ AccountsSound)
<1> DEFINE Flags == begun \subseteq Conns /\ cut \in BOOLEAN
<1>1. Uncut /\ AInv /\ Flags => AccountsSound
  <2> SUFFICES ASSUME Uncut, AInv, Flags PROVE AccountsSound
    OBVIOUS
  <2> USE DEF AInv, Uncut
  <2>1. UuidUnique /\ Registered
    BY DEF Uuids, UuidUnique
  <2>2. LoginSound
    BY DEF Logins, Tokens, LoginSound
  <2>3. pc \in [Callers -> AgentCommands \cup GeneratorCommands
                          \cup {"idle", "uuid", "token", "token_in", "balance", "end"}]
    BY DEF ATyped, Register, Login, AgentCommands, GeneratorCommands
  <2>4. TypeOK
    BY <2>3 DEF TypeOK, ATyped, CInv, Typed
  <2> QED BY <2>1, <2>2, <2>4 DEF AccountsSound
<1>2. Init => Flags
  BY DEF Init, ChannelInit
<1>3. Flags /\ [Next]_vars => Flags'
  BY CutGrows DEF Grows
<1>4. Spec => []Flags
  BY <1>2, <1>3, PTL DEF Spec
<1> QED BY <1>1, <1>4, ChannelInvariance, AccountsInvariance, PTL

\* A name without a record is lost only by a failure, a disconnect or a login.
THEOREM NamesAccounted == Spec => [](cut \/ LostName)
<1>1. AInv => LostName
  <2> SUFFICES ASSUME AInv, NEW n \in db.account_list \ left, db.account[n] = None
               PROVE  \E a \in Callers : /\ task[a] # None /\ task[a].account = n
                                         /\ task[a].kind = "login" \/ pc[a] # "end"
    BY DEF LostName
  <2>1. PICK a \in Callers : pc[a] # "idle" /\ task[a].account = n /\ Behind(a)
    BY DEF AInv, LostNames
  <2>2. task[a] # None
    BY <2>1, Facts DEF AInv, Handles
  <2>3. task[a].kind = "login" \/ pc[a] # "end"
    BY <2>1 DEF Behind, Register
  <2> QED BY <2>1, <2>2, <2>3
<1> QED BY <1>1, AccountsInvariance, PTL
=============================================================================
