--------------------------- MODULE LuaQueueProofs ---------------------------
(***************************************************************************)
(* Proofs about LuaScheduler and LuaQueue, for every number of coroutines, *)
(* services, sessions and requests: the scheduler resumes only what is     *)
(* suspended and drains its queues, every caller is answered at most once, *)
(* and skynet.queue is a critical section that is never left unowned.      *)
(***************************************************************************)
EXTENDS LuaQueue, SequenceTheorems, FiniteSetTheorems, TLAPS

Blocked == {"call", "sleep", "wait"}

\* No element of S is in q twice.
OnceIn(q, S) == \A i, j \in 1 .. Len(q) : q[i] \in S /\ q[i] = q[j] => i = j

-----------------------------------------------------------------------------
(* The parts of the inductive invariant.                                   *)

\* The main thread is in a coroutine exactly when one is running.
OneRuns ==
  /\ mode = "run" => run \in Coroutines /\ co[run].at = "run"
  /\ \A c \in Coroutines : co[c].at = "run" => mode = "run" /\ run = c

\* A suspended coroutine is bound to its session and to no other.
Bound ==
  \A c \in Coroutines :
    /\ co[c].at \in Blocked =>
         /\ co[c].session \in Sessions /\ co[c].session <= session
         /\ session_id_coroutine[co[c].session] = c
    /\ sleep_session[c] = IF co[c].at \in {"sleep", "wait"} THEN co[c].session ELSE 0
    /\ co[c].at = "sleep" => coming[co[c].session] = "timer"
    /\ co[c].at = "wait" => coming[co[c].session] = None
    /\ co[c].at = "call" => coming[co[c].session] # "timer"

Calls(s) == /\ session_id_coroutine[s] \in Coroutines
            /\ co[session_id_coroutine[s]] = [at |-> "call", session |-> s]

\* A session holds a coroutine that is suspended on it, or that skynet.timeout
\* created for it; a message that is still to come finds one.
HeldFor(s) ==
  /\ s > session => /\ session_id_coroutine[s] = None
                    /\ watching_session[s] = None /\ coming[s] = None
  /\ session_id_coroutine[s] \in Coroutines =>
       \/ /\ co[session_id_coroutine[s]].at \in Blocked
          /\ co[session_id_coroutine[s]].session = s
       \/ co[session_id_coroutine[s]].at = "ready" /\ coming[s] = "timer"
  /\ session_id_coroutine[s] = "BREAK" => coming[s] = "timer"
  /\ coming[s] = "timer" => session_id_coroutine[s] # None
  /\ coming[s] \in Services \ down => Calls(s)
  /\ watching_session[s] # None => Calls(s) /\ coming[s] \in {watching_session[s], None}
Held == \A s \in Sessions : HeldFor(s)

\* No coroutine is bound to two sessions.
BoundOnce ==
  \A s, t \in Sessions :
    session_id_coroutine[s] \in Coroutines
      /\ session_id_coroutine[s] = session_id_coroutine[t] => s = t

\* A session in the error queue is a call that still waits and whose answer will
\* not come.
ErrorsWait ==
  /\ OnceIn(error_queue, Sessions)
  /\ \A s \in ToSet(error_queue) : Calls(s) /\ coming[s] \notin Services \ down

\* A coroutine in the fork queue is there once, new, and bound to no session.
ForksReady ==
  /\ OnceIn(fork_queue, Coroutines)
  /\ \A c \in ToSet(fork_queue) \ {"EMPTY"} :
       /\ co[c].at = "ready"
       /\ \A s \in Sessions : session_id_coroutine[s] # c

\* Unless a coroutine was woken twice, the wake-up queue holds sleepers, once.
WakeupsSleep ==
  ~doubled => /\ OnceIn(wakeup_queue, Coroutines)
              /\ \A c \in ToSet(wakeup_queue) : sleep_session[c] # 0

\* Where the main thread is, the queues behind it are empty, or it will come back.
Drained ==
  /\ mode \in {"error", "idle"} => wakeup_queue = <<>> \/ doubled
  /\ mode = "idle" => error_queue = <<>>
  /\ mode = "fork" => \/ "EMPTY" \in ToSet(fork_queue)
                      \/ error_queue = <<>> /\ (wakeup_queue = <<>> \/ doubled)

\* A request is with one coroutine, or with its response function, until it is
\* answered, forgotten, or its sender is down.
RequestsKept ==
  /\ \A c \in Coroutines : co[c].at \in {"free", "ready", "dead"} => session_coroutine_id[c] = 0
  /\ \A c, d \in Coroutines :
       session_coroutine_id[c] # 0 /\ session_coroutine_id[c] = session_coroutine_id[d] => c = d
  /\ \A c \in Coroutines :
       session_coroutine_id[c] # 0 => /\ answers[session_coroutine_id[c]] = 0
                                      /\ session_coroutine_id[c] \notin unresponse
                                      /\ source[session_coroutine_id[c]] # None
  /\ \A r \in unresponse : answers[r] = 0 /\ source[r] # None
  /\ \A r \in Requests :
       /\ answers[r] <= 1
       /\ source[r] = None => answers[r] = 0
       /\ source[r] # None =>
            \/ \E c \in Coroutines : session_coroutine_id[c] = r
            \/ r \in unresponse \/ r \in forgot \/ answers[r] = 1 \/ source[r] \in down

SchedulerInv ==
  /\ SchedulerTypeOK /\ failed = "no"
  /\ OneRuns /\ Bound /\ Held /\ BoundOnce
  /\ ErrorsWait /\ ForksReady /\ WakeupsSleep /\ Drained

\* The section is counted: ref is the number of calls of its holder.
Counted ==
  /\ ref > 0 => current_thread \in Coroutines /\ inside[current_thread] = ref
  /\ \A c \in Coroutines : inside[c] > 0 => current_thread = c /\ inside[c] = ref
  /\ \A c \in Coroutines : inside[c] > 0 => co[c].at \in {"run"} \cup Blocked
  /\ \A c \in Coroutines : waiting[c] => inside[c] = 0
  /\ thread_queue # <<>> => current_thread # None

\* Unless a coroutine was woken twice, a waiter is in the thread queue, or it has
\* been handed the section and its wake-up is on its way.
Queued ==
  ~doubled =>
    /\ broken = {}
    /\ OnceIn(thread_queue, Coroutines)
    /\ \A c \in ToSet(thread_queue) :
         /\ waiting[c] /\ co[c].at = "wait" /\ c # current_thread
         /\ c \notin ToSet(wakeup_queue)
    /\ \A c \in Coroutines :
         waiting[c] /\ c \notin ToSet(thread_queue) =>
           /\ current_thread = c /\ ref = 0
           /\ (co[c].at = "wait" /\ c \in ToSet(wakeup_queue)) \/ co[c].at = "run"
    /\ current_thread # None /\ ref = 0 => waiting[current_thread]

-----------------------------------------------------------------------------
(* Queues.                                                                 *)

LEMMA EmptyQueue == ToSet(<<>>) = {} /\ \A S : OnceIn(<<>>, S)
BY DEF ToSet, OnceIn

LEMMA Elements ==
  ASSUME NEW S, NEW q \in Seq(S)
  PROVE  /\ ToSet(q) = {q[i] : i \in 1 .. Len(q)} /\ Len(q) \in Nat
         /\ ToSet(q) \subseteq S
         /\ q = <<>> <=> ToSet(q) = {}
<1>1. DOMAIN q = 1 .. Len(q) /\ Len(q) \in Nat
  BY LenProperties
<1>2. ToSet(q) = {q[i] : i \in 1 .. Len(q)}
  BY <1>1 DEF ToSet
<1>3. ToSet(q) \subseteq S
  BY <1>2, ElementOfSeq
<1>4. q # <<>> => q[1] \in ToSet(q)
  BY <1>1, <1>2
<1>5. q = <<>> => ToSet(q) = {}
  BY <1>1, <1>2
<1> QED BY <1>1, <1>2, <1>3, <1>4, <1>5

LEMMA AppendQueue ==
  ASSUME NEW S, NEW q \in Seq(S), NEW x \in S
  PROVE  /\ Append(q, x) \in Seq(S)
         /\ ToSet(Append(q, x)) = ToSet(q) \cup {x}
         /\ \A T : OnceIn(q, T) /\ x \notin ToSet(q) \cap T => OnceIn(Append(q, x), T)
<1> DEFINE a == Append(q, x)
           n == Len(q)
<1>1. /\ a \in Seq(S) /\ Len(a) = n + 1 /\ n \in Nat
      /\ \A i \in 1 .. n : a[i] = q[i]
      /\ a[n + 1] = x
  BY AppendProperties, LenProperties
<1>2. ToSet(q) = {q[i] : i \in 1 .. n}
  BY Elements
<1> HIDE DEF a
<1>3. ToSet(a) = {a[i] : i \in 1 .. n + 1}
  BY <1>1, Elements
<1> HIDE DEF n
<1>4. ToSet(a) = ToSet(q) \cup {x}
  <2>1. ASSUME NEW y \in ToSet(a) PROVE y \in ToSet(q) \cup {x}
    <3>1. PICK i \in 1 .. n + 1 : y = a[i]
      BY <1>3
    <3>2. i \in 1 .. n \/ i = n + 1
      BY <1>1
    <3> QED BY <1>1, <1>2, <3>1, <3>2
  <2>2. ASSUME NEW y \in ToSet(q) PROVE y \in ToSet(a)
    <3>1. PICK i \in 1 .. n : y = q[i]
      BY <1>2
    <3>2. i \in 1 .. n + 1 /\ y = a[i]
      BY <1>1, <3>1
    <3> QED BY <1>3, <3>2
  <2>3. x \in ToSet(a)
    BY <1>1, <1>3
  <2> QED BY <2>1, <2>2, <2>3
<1>5. ASSUME NEW T, OnceIn(q, T), x \notin ToSet(q) \cap T PROVE OnceIn(a, T)
  <2> SUFFICES ASSUME NEW i \in 1 .. n + 1, NEW j \in 1 .. n + 1, a[i] \in T, a[i] = a[j]
               PROVE  i = j
    BY <1>1 DEF OnceIn
  <2>1. i \in 1 .. n \/ i = n + 1
    BY <1>1
  <2>2. j \in 1 .. n \/ j = n + 1
    BY <1>1
  <2>3. CASE i \in 1 .. n /\ j \in 1 .. n
    BY <1>1, <1>5, <2>3 DEF OnceIn, n
  <2>4. CASE i \in 1 .. n /\ j = n + 1
    BY <1>1, <1>2, <1>5, <2>4
  <2>5. CASE i = n + 1 /\ j \in 1 .. n
    BY <1>1, <1>2, <1>5, <2>5
  <2> QED BY <2>1, <2>2, <2>3, <2>4, <2>5
<1> QED BY <1>1, <1>4, <1>5 DEF a

LEMMA TailQueue ==
  ASSUME NEW S, NEW q \in Seq(S), q # <<>>
  PROVE  /\ Head(q) \in S /\ Tail(q) \in Seq(S)
         /\ ToSet(q) = {Head(q)} \cup ToSet(Tail(q))
         /\ \A T : OnceIn(q, T) => /\ OnceIn(Tail(q), T)
                                   /\ Head(q) \notin ToSet(Tail(q)) \cap T
<1> DEFINE a == Tail(q)
           n == Len(q)
<1>1. /\ a \in Seq(S) /\ Len(a) = n - 1 /\ n \in Nat \ {0} /\ Head(q) \in S
      /\ \A i \in 1 .. n - 1 : a[i] = q[i + 1]
  BY HeadTailProperties, LenProperties, EmptySeq
<1>2. Head(q) = q[1]
  OBVIOUS
<1>3. ToSet(q) = {q[i] : i \in 1 .. n}
  BY Elements
<1> HIDE DEF a
<1>4. ToSet(a) = {a[i] : i \in 1 .. n - 1}
  BY <1>1, Elements
<1> HIDE DEF n
<1>5. ToSet(q) = {Head(q)} \cup ToSet(a)
  <2>1. ASSUME NEW y \in ToSet(q) PROVE y \in {Head(q)} \cup ToSet(a)
    <3>1. PICK i \in 1 .. n : y = q[i]
      BY <1>3
    <3>2. CASE i = 1
      BY <1>2, <3>1, <3>2
    <3>3. CASE i # 1
      <4>1. i - 1 \in 1 .. n - 1 /\ (i - 1) + 1 = i
        BY <1>1, <3>3
      <4>2. a[i - 1] = y
        BY <1>1, <3>1, <4>1
      <4> QED BY <1>4, <4>1, <4>2
    <3> QED BY <3>2, <3>3
  <2>2. ASSUME NEW y \in ToSet(a) PROVE y \in ToSet(q)
    <3>1. PICK i \in 1 .. n - 1 : y = a[i]
      BY <1>4
    <3>2. i + 1 \in 1 .. n /\ q[i + 1] = y
      BY <1>1, <3>1
    <3> QED BY <1>3, <3>2
  <2>3. Head(q) \in ToSet(q)
    BY <1>1, <1>2, <1>3
  <2> QED BY <2>1, <2>2, <2>3
<1>6. ASSUME NEW T, OnceIn(q, T) PROVE OnceIn(a, T) /\ Head(q) \notin ToSet(a) \cap T
  <2>1. \A i, j \in 1 .. n : q[i] \in T /\ q[i] = q[j] => i = j
    BY <1>6 DEF OnceIn, n
  <2>2. ASSUME NEW i \in 1 .. n - 1, NEW j \in 1 .. n - 1, a[i] \in T, a[i] = a[j]
        PROVE  i = j
    <3>1. i + 1 \in 1 .. n /\ j + 1 \in 1 .. n /\ q[i + 1] = q[j + 1] /\ q[i + 1] \in T
      BY <1>1, <2>2
    <3>2. i + 1 = j + 1
      BY <2>1, <3>1
    <3> QED BY <3>2
  <2>3. ASSUME Head(q) \in ToSet(a) \cap T PROVE FALSE
    <3>1. PICK i \in 1 .. n - 1 : Head(q) = a[i]
      BY <1>4, <2>3
    <3>2. i + 1 \in 1 .. n /\ 1 \in 1 .. n /\ q[i + 1] = q[1] /\ q[1] \in T
      BY <1>1, <1>2, <2>3, <3>1
    <3>3. i + 1 = 1
      BY <2>1, <3>2
    <3> QED BY <3>3
  <2> QED BY <1>1, <2>2, <2>3 DEF OnceIn
<1> QED BY <1>1, <1>5, <1>6 DEF a

-----------------------------------------------------------------------------
(* The tables that bind sessions to coroutines.                            *)

LEMMA Atoms ==
  /\ None \notin Coroutines /\ None \notin Services
  /\ None # "BREAK" /\ None # "timer" /\ None # "EMPTY"
  /\ "BREAK" \notin Coroutines /\ "EMPTY" \notin Coroutines /\ "timer" \notin Services
  /\ MaxSession \in Nat /\ MaxRequest \in Nat
BY SchedulerAssumption

Tables == SchedulerTypeOK /\ Bound /\ Held /\ BoundOnce

\* A coroutine that is not suspended is bound to no session.
LEMMA Unbound ==
  ASSUME Tables, NEW c \in Coroutines, co[c].at \notin Blocked \cup {"ready"}
  PROVE  \A s \in Sessions : session_id_coroutine[s] # c
BY DEF Tables, Held, HeldFor

\* Coroutine c is resumed: whatever session held it no longer does, and no message
\* for that session finds nothing.
LEMMA ResumeUnbinds ==
  ASSUME Tables, NEW c \in Coroutines, Suspended(c),
         co' = [co EXCEPT ![c] = [at |-> "run", session |-> 0]],
         sleep_session' = [sleep_session EXCEPT ![c] = 0],
         watching_session' = Forget(c, watching_session),
         UNCHANGED <<session, down>>,
         \A s \in Sessions : session_id_coroutine[s] # c =>
           session_id_coroutine'[s] = session_id_coroutine[s] /\ coming'[s] = coming[s],
         \A s \in Sessions : session_id_coroutine[s] = c =>
           \/ session_id_coroutine'[s] = "BREAK" /\ coming'[s] = "timer"
           \/ /\ session_id_coroutine'[s] = None
              /\ coming'[s] # "timer" /\ coming'[s] \notin Services \ down
  PROVE  Bound' /\ Held' /\ BoundOnce'
<1> USE Atoms
<1>1. \A d \in Coroutines : co'[d] = IF d = c THEN [at |-> "run", session |-> 0] ELSE co[d]
  BY DEF Tables, SchedulerTypeOK
<1>2. \A d \in Coroutines : sleep_session'[d] = IF d = c THEN 0 ELSE sleep_session[d]
  BY DEF Tables, SchedulerTypeOK
<1>3. \A s \in Sessions : session_id_coroutine'[s] # c
  OBVIOUS
<1>4. \A s \in Sessions : session_id_coroutine'[s] \in Coroutines =>
        session_id_coroutine[s] # c /\ session_id_coroutine'[s] = session_id_coroutine[s]
  OBVIOUS
<1>5. Bound'
  <2> SUFFICES ASSUME NEW d \in Coroutines
               PROVE  /\ co'[d].at \in Blocked =>
                           /\ co'[d].session \in Sessions /\ co'[d].session <= session
                           /\ session_id_coroutine'[co'[d].session] = d
                      /\ sleep_session'[d] = IF co'[d].at \in {"sleep", "wait"}
                                            THEN co'[d].session ELSE 0
                      /\ co'[d].at = "sleep" => coming'[co'[d].session] = "timer"
                      /\ co'[d].at = "wait" => coming'[co'[d].session] = None
                      /\ co'[d].at = "call" => coming'[co'[d].session] # "timer"
    BY DEF Bound
  <2>1. CASE d = c
    BY <1>1, <1>2, <2>1 DEF Blocked
  <2>2. CASE d # c
    BY <1>1, <1>2, <2>2 DEF Tables, Bound, Blocked
  <2> QED BY <2>1, <2>2
<1>6. BoundOnce'
  BY <1>4 DEF Tables, BoundOnce
<1>7. \A s \in Sessions : watching_session'[s] # None =>
        watching_session'[s] = watching_session[s] /\ session_id_coroutine[s] # c
  <2> SUFFICES ASSUME NEW s \in Sessions, watching_session'[s] # None
               PROVE  watching_session'[s] = watching_session[s] /\ session_id_coroutine[s] # c
    OBVIOUS
  <2>1. ~(co[c].at = "call" /\ s = co[c].session) /\ watching_session'[s] = watching_session[s]
    BY DEF Forget
  <2>2. Calls(s)
    BY <2>1 DEF Tables, Held, HeldFor
  <2> QED BY <2>1, <2>2 DEF Calls
<1>8. Held'
  <2> SUFFICES ASSUME NEW s \in Sessions PROVE HeldFor(s)'
    BY DEF Held
  <2>1. CASE session_id_coroutine[s] = c
    <3>1. ~(s > session)
      BY <2>1 DEF Tables, Held, HeldFor, SchedulerTypeOK, Sessions
    <3>2. watching_session'[s] = None
      BY <1>7, <2>1
    <3>3. \/ session_id_coroutine'[s] = "BREAK" /\ coming'[s] = "timer"
          \/ /\ session_id_coroutine'[s] = None
             /\ coming'[s] # "timer" /\ coming'[s] \notin Services \ down
      BY <2>1
    <3>4. session' = session /\ down' = down
      OBVIOUS
    <3> QED BY <3>1, <3>2, <3>3, <3>4 DEF HeldFor
  <2>2. CASE session_id_coroutine[s] # c
    <3>1. session_id_coroutine'[s] = session_id_coroutine[s] /\ coming'[s] = coming[s]
      BY <2>2
    <3>2. watching_session'[s] # None => watching_session'[s] = watching_session[s]
      BY <1>7
    <3>3. Calls(s) => Calls(s)'
      BY <1>1, <2>2, <3>1 DEF Calls
    <3>4. session_id_coroutine[s] \in Coroutines =>
            co'[session_id_coroutine'[s]] = co[session_id_coroutine[s]]
      BY <1>1, <2>2, <3>1
    <3>5. HeldFor(s)
      BY DEF Tables, Held
    <3> QED BY <3>1, <3>2, <3>3, <3>4, <3>5 DEF HeldFor
  <2> QED BY <2>1, <2>2
<1> QED BY <1>5, <1>6, <1>8

\* A new session is bound to coroutine c, which yields on it or was created for it.
LEMMA SuspendBinds ==
  ASSUME Tables, NEW c \in Coroutines, co[c].at \in {"run", "free"},
         NEW n, n = session + 1, n \in Sessions, NEW v, NEW m,
         co' = [co EXCEPT ![c] = v],
         session_id_coroutine' = [session_id_coroutine EXCEPT ![n] = c],
         coming' = [coming EXCEPT ![n] = m],
         session' = n, down' = down,
         \/ /\ v = [at |-> "call", session |-> n] /\ m \in Services
            /\ watching_session' = [watching_session EXCEPT ![n] = m]
            /\ sleep_session' = sleep_session
         \/ /\ \/ v = [at |-> "sleep", session |-> n] /\ m = "timer"
               \/ v = [at |-> "wait", session |-> n] /\ m = None
            /\ watching_session' = watching_session
            /\ sleep_session' = [sleep_session EXCEPT ![c] = n]
         \/ /\ v = [at |-> "ready", session |-> 0] /\ m = "timer"
            /\ UNCHANGED <<watching_session, sleep_session>>
  PROVE  Bound' /\ Held' /\ BoundOnce'
<1> USE Atoms
<1>1. \A d \in Coroutines : co'[d] = IF d = c THEN v ELSE co[d]
  BY DEF Tables, SchedulerTypeOK
<1>2. \A s \in Sessions :
        /\ session_id_coroutine'[s] = IF s = n THEN c ELSE session_id_coroutine[s]
        /\ coming'[s] = IF s = n THEN m ELSE coming[s]
        /\ s # n => watching_session'[s] = watching_session[s]
  BY DEF Tables, SchedulerTypeOK
<1>3. \A d \in Coroutines \ {c} : sleep_session'[d] = sleep_session[d]
  BY DEF Tables, SchedulerTypeOK
<1>4. \A s \in Sessions : session_id_coroutine[s] # c
  BY Unbound DEF Blocked
<1>5. HeldFor(n) /\ n > session /\ n \in Nat /\ session \in Nat /\ Sessions \subseteq Nat
  BY DEF Tables, Held, SchedulerTypeOK, Sessions
<1>6. session_id_coroutine[n] = None /\ watching_session[n] = None /\ coming[n] = None
  BY <1>5 DEF HeldFor
<1>7. sleep_session[c] = 0
  BY DEF Tables, Bound
<1>8. Bound'
  <2> SUFFICES ASSUME NEW d \in Coroutines
               PROVE  /\ co'[d].at \in Blocked =>
                           /\ co'[d].session \in Sessions /\ co'[d].session <= n
                           /\ session_id_coroutine'[co'[d].session] = d
                      /\ sleep_session'[d] = IF co'[d].at \in {"sleep", "wait"}
                                            THEN co'[d].session ELSE 0
                      /\ co'[d].at = "sleep" => coming'[co'[d].session] = "timer"
                      /\ co'[d].at = "wait" => coming'[co'[d].session] = None
                      /\ co'[d].at = "call" => coming'[co'[d].session] # "timer"
    BY DEF Bound
  <2>1. CASE d = c
    <3>1. co'[d] = v
      BY <1>1, <2>1
    <3>2. v.at \in Blocked => v.session = n
      BY DEF Blocked
    <3>3. sleep_session'[c] = IF v.at \in {"sleep", "wait"} THEN n ELSE 0
      BY <1>7 DEF Tables, SchedulerTypeOK
    <3>4. /\ v.at = "sleep" => m = "timer"
          /\ v.at = "wait" => m = None
          /\ v.at = "call" => m # "timer"
      OBVIOUS
    <3>5. v.at \in {"sleep", "wait"} => v.session = n
      BY <3>2 DEF Blocked
    <3> QED BY <1>2, <1>5, <2>1, <3>1, <3>2, <3>3, <3>4, <3>5
  <2>2. CASE d # c
    <3>1. co'[d] = co[d] /\ sleep_session'[d] = sleep_session[d]
      BY <1>1, <1>3, <2>2
    <3>2. co[d].at \in Blocked => /\ co[d].session \in Sessions /\ co[d].session <= session
                                  /\ session_id_coroutine[co[d].session] = d
      BY DEF Tables, Bound
    <3>3. co[d].at \in Blocked => co[d].session # n /\ co[d].session <= n
      BY <1>5, <3>2
    <3>4. /\ sleep_session[d] = IF co[d].at \in {"sleep", "wait"} THEN co[d].session ELSE 0
          /\ co[d].at = "sleep" => coming[co[d].session] = "timer"
          /\ co[d].at = "wait" => coming[co[d].session] = None
          /\ co[d].at = "call" => coming[co[d].session] # "timer"
      BY DEF Tables, Bound
    <3> QED BY <1>2, <3>1, <3>2, <3>3, <3>4 DEF Blocked
  <2> QED BY <2>1, <2>2
<1>9. BoundOnce'
  BY <1>2, <1>4 DEF Tables, BoundOnce
<1>10. Held'
  <2> SUFFICES ASSUME NEW s \in Sessions PROVE HeldFor(s)'
    BY DEF Held
  <2>1. CASE s = n
    <3>1. session_id_coroutine'[s] = c /\ coming'[s] = m /\ co'[c] = v
      BY <1>1, <1>2, <2>1
    <3>2. ~(s > session')
      BY <1>5, <2>1
    <3>3. (v.at \in Blocked /\ v.session = n) \/ (v.at = "ready" /\ m = "timer")
      BY DEF Blocked
    <3>4. m \in Services => v = [at |-> "call", session |-> n]
      OBVIOUS
    <3>5. watching_session'[s] = IF v.at = "call" THEN m ELSE None
      BY <1>6, <2>1 DEF Tables, SchedulerTypeOK
    <3>6. v.at = "call" => m \in Services
      OBVIOUS
    <3> QED BY <2>1, <3>1, <3>2, <3>3, <3>4, <3>5, <3>6 DEF HeldFor, Calls
  <2>2. CASE s # n
    <3>1. /\ session_id_coroutine'[s] = session_id_coroutine[s] /\ coming'[s] = coming[s]
          /\ watching_session'[s] = watching_session[s]
      BY <1>2, <2>2
    <3>2. session_id_coroutine[s] \in Coroutines =>
            co'[session_id_coroutine'[s]] = co[session_id_coroutine[s]]
      BY <1>1, <1>4, <3>1
    <3>3. Calls(s) => Calls(s)'
      BY <3>1, <3>2 DEF Calls
    <3>4. s > session' => s > session
      BY <1>5
    <3>5. HeldFor(s)
      BY DEF Tables, Held
    <3> QED BY <3>1, <3>2, <3>3, <3>4, <3>5 DEF HeldFor
  <2> QED BY <2>1, <2>2
<1> QED BY <1>8, <1>9, <1>10

\* Coroutine c, which no session holds, starts, ends, dies or is created.
LEMMA UnboundMoves ==
  ASSUME Tables, NEW c \in Coroutines, co[c].at \in {"run", "free"}, NEW v,
         v.at \notin Blocked, co' = [co EXCEPT ![c] = v],
         UNCHANGED <<session, tables, coming, down>>
  PROVE  Bound' /\ Held' /\ BoundOnce'
<1>1. \A d \in Coroutines : co'[d] = IF d = c THEN v ELSE co[d]
  BY DEF Tables, SchedulerTypeOK
<1>2. /\ session_id_coroutine' = session_id_coroutine /\ sleep_session' = sleep_session
      /\ watching_session' = watching_session
  BY DEF tables
<1>3. \A s \in Sessions : session_id_coroutine[s] # c
  BY Unbound DEF Blocked
<1>4. Bound'
  BY <1>1, <1>2 DEF Tables, Bound, Blocked
<1>5. BoundOnce'
  BY <1>2 DEF Tables, BoundOnce
<1>6. Held'
  <2> SUFFICES ASSUME NEW s \in Sessions PROVE HeldFor(s)'
    BY DEF Held
  <2>1. session_id_coroutine[s] \in Coroutines =>
          co'[session_id_coroutine'[s]] = co[session_id_coroutine[s]]
    BY <1>1, <1>2, <1>3
  <2>2. Calls(s) => Calls(s)'
    BY <1>2, <2>1 DEF Calls
  <2>3. HeldFor(s)
    BY DEF Tables, Held
  <2> QED BY <1>2, <2>1, <2>2, <2>3 DEF HeldFor
<1> QED BY <1>4, <1>5, <1>6

\* Nothing moves, but a message arrived or a service went down.
LEMMA MessageArrives ==
  ASSUME Tables, UNCHANGED <<co, session, sleep_session, watching_session>>,
         down \subseteq down',
         \A s \in Sessions :
           \/ coming'[s] = coming[s] /\ session_id_coroutine'[s] = session_id_coroutine[s]
           \/ /\ coming'[s] = None
              /\ \/ /\ coming[s] # "timer"
                    /\ session_id_coroutine'[s] = session_id_coroutine[s]
                 \/ session_id_coroutine[s] = "BREAK" /\ session_id_coroutine'[s] = None
  PROVE  Bound' /\ Held' /\ BoundOnce'
<1> USE Atoms
<1>1. \A s \in Sessions :
        session_id_coroutine[s] \in Coroutines \/ session_id_coroutine'[s] \in Coroutines =>
          /\ session_id_coroutine'[s] = session_id_coroutine[s]
          /\ coming[s] = "timer" => coming'[s] = "timer"
  OBVIOUS
<1>2. Bound'
  BY <1>1 DEF Tables, Bound, Blocked
<1>3. BoundOnce'
  BY <1>1 DEF Tables, BoundOnce
<1>4. Held'
  <2> SUFFICES ASSUME NEW s \in Sessions PROVE HeldFor(s)'
    BY DEF Held
  <2>1. HeldFor(s)
    BY DEF Tables, Held
  <2>2. Calls(s) => Calls(s)'
    BY <1>1 DEF Calls
  <2>3. co' = co /\ session' = session /\ watching_session' = watching_session
    OBVIOUS
  <2>4. CASE coming'[s] = coming[s] /\ session_id_coroutine'[s] = session_id_coroutine[s]
    BY <2>1, <2>2, <2>3, <2>4 DEF HeldFor
  <2>5. CASE /\ coming'[s] = None /\ coming[s] # "timer"
             /\ session_id_coroutine'[s] = session_id_coroutine[s]
    BY <2>1, <2>2, <2>3, <2>5 DEF HeldFor
  <2>6. CASE /\ coming'[s] = None /\ session_id_coroutine[s] = "BREAK"
             /\ session_id_coroutine'[s] = None
    BY <2>1, <2>2, <2>3, <2>6 DEF HeldFor, Calls
  <2> QED BY <2>4, <2>5, <2>6
<1> QED BY <1>2, <1>3, <1>4

-----------------------------------------------------------------------------
(* Resuming, from the queues and for a message.                            *)

\* A queue from which c, or the session that holds it, was taken if it was there.
Without(q, old, S) == OnceIn(q, S) /\ ToSet(q) \subseteq ToSet(old)

LEMMA ResumeKeeps ==
  ASSUME SchedulerInv, mode # "run", NEW c \in Coroutines, Suspended(c), NEW sic, Resume(c, sic),
         UNCHANGED <<session, serving, down, doubled, failed>>,
         session_id_coroutine' \in [Sessions -> Coroutines \cup {None, "BREAK"}],
         coming' \in [Sessions -> Services \cup {None, "timer"}],
         \A s \in Sessions : session_id_coroutine[s] # c =>
           session_id_coroutine'[s] = session_id_coroutine[s] /\ coming'[s] = coming[s],
         \A s \in Sessions : session_id_coroutine[s] = c =>
           \/ session_id_coroutine'[s] = "BREAK" /\ coming'[s] = "timer"
           \/ /\ session_id_coroutine'[s] = None
              /\ coming'[s] # "timer" /\ coming'[s] \notin Services \ down,
         wakeup_queue' \in Seq(Coroutines), error_queue' \in Seq(Sessions),
         fork_queue' \in Seq(Coroutines \cup {"EMPTY"}),
         ~doubled => Without(wakeup_queue', wakeup_queue, Coroutines) /\ c \notin ToSet(wakeup_queue'),
         Without(fork_queue', fork_queue, Coroutines), c \notin ToSet(fork_queue'),
         Without(error_queue', error_queue, Sessions),
         \A s \in ToSet(error_queue') : session_id_coroutine[s] # c
  PROVE  SchedulerInv'
<1> USE Atoms
<1>1. Tables
  BY DEF SchedulerInv, Tables
<1>2. /\ mode' = "run" /\ run' = c
      /\ co' = [co EXCEPT ![c] = [at |-> "run", session |-> 0]]
      /\ sleep_session' = [sleep_session EXCEPT ![c] = 0]
      /\ watching_session' = Forget(c, watching_session)
  BY DEF Resume
<1>3. Bound' /\ Held' /\ BoundOnce'
  BY <1>1, <1>2, ResumeUnbinds
<1>4. \A d \in Coroutines : co'[d] = IF d = c THEN [at |-> "run", session |-> 0] ELSE co[d]
  BY <1>2 DEF SchedulerInv, SchedulerTypeOK
<1>5. OneRuns'
  BY <1>2, <1>4 DEF SchedulerInv, OneRuns
<1>6. ToSet(error_queue') \subseteq Sessions
  BY Elements
<1>7. ErrorsWait'
  <2> SUFFICES ASSUME NEW s \in ToSet(error_queue')
               PROVE  Calls(s)' /\ coming'[s] \notin Services \ down'
    BY DEF ErrorsWait, Without
  <2>1. Calls(s) /\ coming[s] \notin Services \ down
    BY DEF SchedulerInv, ErrorsWait, Without
  <2>2. s \in Sessions /\ session_id_coroutine[s] # c
    BY <1>6
  <2> QED BY <1>4, <2>1, <2>2 DEF Calls
<1>8. ForksReady'
  <2> SUFFICES ASSUME NEW d \in ToSet(fork_queue') \ {"EMPTY"}
               PROVE  co'[d].at = "ready" /\ \A s \in Sessions : session_id_coroutine'[s] # d
    BY DEF ForksReady, Without
  <2>1. co[d].at = "ready" /\ \A s \in Sessions : session_id_coroutine[s] # d
    BY DEF SchedulerInv, ForksReady, Without
  <2>2. d \in Coroutines /\ d # c
    BY Elements
  <2> QED BY <1>4, <2>1, <2>2
<1>9. WakeupsSleep'
  <2> SUFFICES ASSUME ~doubled
               PROVE  /\ OnceIn(wakeup_queue', Coroutines)
                      /\ \A d \in ToSet(wakeup_queue') : sleep_session'[d] # 0
    BY DEF WakeupsSleep
  <2>1. \A d \in ToSet(wakeup_queue') : sleep_session[d] # 0 /\ d \in Coroutines /\ d # c
    BY Elements DEF SchedulerInv, WakeupsSleep, Without
  <2> QED BY <1>2, <2>1 DEF Without, SchedulerInv, SchedulerTypeOK
<1>10. Drained'
  BY <1>2 DEF Drained
<1>11. SchedulerTypeOK'
  <2>1. co' \in [Coroutines -> [at : {"free", "ready", "run", "call", "sleep", "wait", "dead"},
                                session : 0 .. MaxSession]]
    BY <1>2 DEF SchedulerInv, SchedulerTypeOK
  <2>2. sleep_session' \in [Coroutines -> 0 .. MaxSession]
    BY <1>2 DEF SchedulerInv, SchedulerTypeOK
  <2>3. watching_session' \in [Sessions -> Services \cup {None}]
    BY <1>2 DEF SchedulerInv, SchedulerTypeOK, Forget
  <2> QED BY <1>2, <2>1, <2>2, <2>3 DEF SchedulerInv, SchedulerTypeOK, serving
<1> QED BY <1>3, <1>5, <1>7, <1>8, <1>9, <1>10, <1>11 DEF SchedulerInv

\* A queue that loses nothing, or its head.
LEMMA SameQueue ==
  SchedulerInv => /\ wakeup_queue \in Seq(Coroutines) /\ error_queue \in Seq(Sessions)
                  /\ fork_queue \in Seq(Coroutines \cup {"EMPTY"})
                  /\ ~doubled => Without(wakeup_queue, wakeup_queue, Coroutines)
                  /\ Without(fork_queue, fork_queue, Coroutines)
                  /\ Without(error_queue, error_queue, Sessions)
BY DEF SchedulerInv, SchedulerTypeOK, WakeupsSleep, ForksReady, ErrorsWait, Without

\* Only the mode changes, and the queues that the new mode leaves behind are empty.
LEMMA ModeMoves ==
  ASSUME SchedulerInv, mode # "run", mode' \in {"wakeup", "error", "fork", "idle"},
         run' \in Coroutines \cup {None},
         UNCHANGED <<co, session, tables, coming, serving, down, doubled, failed, error_queue>>,
         wakeup_queue' \in Seq(Coroutines), fork_queue' \in Seq(Coroutines \cup {"EMPTY"}),
         ~doubled => Without(wakeup_queue', wakeup_queue, Coroutines),
         Without(fork_queue', fork_queue, Coroutines),
         Drained'
  PROVE  SchedulerInv'
<1>1. /\ session_id_coroutine' = session_id_coroutine /\ sleep_session' = sleep_session
      /\ watching_session' = watching_session
  BY DEF tables
<1>2. SchedulerTypeOK'
  BY <1>1 DEF SchedulerInv, SchedulerTypeOK, serving
<1>3. OneRuns'
  BY DEF SchedulerInv, OneRuns
<1>4. Bound' /\ Held' /\ BoundOnce'
  BY <1>1 DEF SchedulerInv, Bound, Held, HeldFor, Calls, BoundOnce
<1>5. ErrorsWait'
  BY <1>1 DEF SchedulerInv, ErrorsWait, Calls
<1>6. ForksReady'
  BY <1>1 DEF SchedulerInv, ForksReady, Without
<1>7. WakeupsSleep'
  BY <1>1 DEF SchedulerInv, WakeupsSleep, Without
<1> QED BY <1>2, <1>3, <1>4, <1>5, <1>6, <1>7 DEF SchedulerInv

LEMMA DispatchWakeupKeeps == SchedulerInv /\ DispatchWakeup => SchedulerInv'
<1> SUFFICES ASSUME SchedulerInv, DispatchWakeup PROVE SchedulerInv'
  OBVIOUS
<1> USE Atoms
<1>1. /\ mode = "wakeup"
      /\ UNCHANGED <<session, error_queue, fork_queue, coming, serving, down, doubled>>
  BY DEF DispatchWakeup
<1>2. CASE wakeup_queue = <<>>
  <2>1. /\ mode' = "error" /\ wakeup_queue' = <<>>
        /\ UNCHANGED <<run, co, tables, failed>>
    BY <1>2 DEF DispatchWakeup
  <2>2. Drained'
    BY <2>1 DEF Drained
  <2> QED BY <1>1, <1>2, <2>1, <2>2, SameQueue, ModeMoves DEF SchedulerInv, SchedulerTypeOK
<1>3. CASE wakeup_queue # <<>> /\ sleep_session[Head(wakeup_queue)] = 0
  <2>1. /\ mode' = "error" /\ wakeup_queue' = Tail(wakeup_queue)
        /\ UNCHANGED <<run, co, tables, failed>>
    BY <1>3 DEF DispatchWakeup
  <2>2. /\ wakeup_queue' \in Seq(Coroutines) /\ Head(wakeup_queue) \in ToSet(wakeup_queue)
        /\ ~doubled => Without(wakeup_queue', wakeup_queue, Coroutines)
    BY <1>3, <2>1, SameQueue, TailQueue DEF Without
  <2>3. doubled
    BY <1>3, <2>2 DEF SchedulerInv, WakeupsSleep
  <2>4. Drained'
    BY <1>1, <2>1, <2>3 DEF Drained
  <2> QED BY <1>1, <2>1, <2>2, <2>4, SameQueue, ModeMoves DEF SchedulerInv, SchedulerTypeOK
<1>4. CASE wakeup_queue # <<>> /\ sleep_session[Head(wakeup_queue)] # 0
  <2> DEFINE c == Head(wakeup_queue)
             s0 == sleep_session[c]
             sic == [session_id_coroutine EXCEPT ![s0] = "BREAK"]
  <2>1. /\ c \in Coroutines /\ wakeup_queue' = Tail(wakeup_queue)
        /\ wakeup_queue' \in Seq(Coroutines)
        /\ ~doubled => Without(wakeup_queue', wakeup_queue, Coroutines)
                         /\ c \notin ToSet(wakeup_queue')
    BY <1>4, SameQueue, TailQueue DEF Without, DispatchWakeup
  <2> HIDE DEF c
  <2>2. /\ co[c].at \in {"sleep", "wait"} /\ co[c].session = s0 /\ s0 \in Sessions
        /\ session_id_coroutine[s0] = c
        /\ co[c].at = "sleep" => coming[s0] = "timer"
        /\ co[c].at = "wait" => coming[s0] = None
    BY <1>4, <2>1 DEF SchedulerInv, Bound, Blocked, c
  <2>3. Suspended(c)
    BY <2>1, <2>2 DEF Suspended
  <2>4. ResumeEntry(c, sic)
    BY <1>4, <2>2 DEF DispatchWakeup, c
  <2>5. Resume(c, sic) /\ failed' = failed
    BY <2>3, <2>4 DEF ResumeEntry
  <2>6. session_id_coroutine' = [s \in Sessions |-> IF co[c].at = "wait" /\ s = s0
                                                    THEN None ELSE sic[s]]
    BY <2>2, <2>5 DEF Resume
  <2>7. \A s \in Sessions : sic[s] = IF s = s0 THEN "BREAK" ELSE session_id_coroutine[s]
    BY DEF SchedulerInv, SchedulerTypeOK
  <2>8. \A s \in Sessions : session_id_coroutine[s] = c => s = s0
    BY <2>1, <2>2 DEF SchedulerInv, BoundOnce
  <2> HIDE DEF s0, sic
  <2>9. session_id_coroutine' \in [Sessions -> Coroutines \cup {None, "BREAK"}]
    BY <2>6, <2>7 DEF SchedulerInv, SchedulerTypeOK
  <2>10. \A s \in Sessions : session_id_coroutine[s] # c =>
           session_id_coroutine'[s] = session_id_coroutine[s] /\ coming'[s] = coming[s]
    BY <1>1, <2>2, <2>6, <2>7
  <2>11. co[c].at = "wait" => coming[s0] # "timer" /\ coming[s0] \notin Services \ down
    BY <2>2
  <2>12. \A s \in Sessions : session_id_coroutine[s] = c =>
           \/ session_id_coroutine'[s] = "BREAK" /\ coming'[s] = "timer"
           \/ /\ session_id_coroutine'[s] = None
              /\ coming'[s] # "timer" /\ coming'[s] \notin Services \ down
    BY <1>1, <2>2, <2>6, <2>7, <2>8, <2>11
  <2>13. c \notin ToSet(fork_queue)
    BY <2>1, <2>2 DEF SchedulerInv, ForksReady
  <2>14. ASSUME NEW s \in ToSet(error_queue), session_id_coroutine[s] = c PROVE FALSE
    <3>1. Calls(s)
      BY DEF SchedulerInv, ErrorsWait
    <3>2. co[c].at = "call"
      BY <2>14, <3>1 DEF Calls
    <3> QED BY <2>2, <3>2
  <2>15. coming' \in [Sessions -> Services \cup {None, "timer"}] /\ mode # "run"
    BY <1>1 DEF SchedulerInv, SchedulerTypeOK
  <2> QED BY <1>1, <2>1, <2>3, <2>5, <2>9, <2>10, <2>12, <2>13, <2>14, <2>15, SameQueue,
             ResumeKeeps
<1> QED BY <1>2, <1>3, <1>4

LEMMA DispatchErrorQueueKeeps == SchedulerInv /\ DispatchErrorQueue => SchedulerInv'
<1> SUFFICES ASSUME SchedulerInv, DispatchErrorQueue PROVE SchedulerInv'
  OBVIOUS
<1> USE Atoms
<1>1. /\ mode = "error"
      /\ UNCHANGED <<session, wakeup_queue, fork_queue, coming, serving, down, doubled>>
  BY DEF DispatchErrorQueue
<1>2. CASE error_queue = <<>>
  <2>1. /\ mode' = "fork" /\ UNCHANGED <<run, co, tables, failed, error_queue>>
    BY <1>2 DEF DispatchErrorQueue
  <2>2. Drained'
    BY <1>1, <1>2, <2>1 DEF Drained, SchedulerInv
  <2> QED BY <1>1, <2>1, <2>2, SameQueue, ModeMoves DEF SchedulerInv, SchedulerTypeOK
<1>3. CASE error_queue # <<>>
  <2> DEFINE s0 == Head(error_queue)
             c == session_id_coroutine[s0]
             sic == [session_id_coroutine EXCEPT ![s0] = None]
  <2>1. /\ error_queue' = Tail(error_queue) /\ error_queue' \in Seq(Sessions) /\ s0 \in Sessions
        /\ s0 \in ToSet(error_queue)
        /\ Without(error_queue', error_queue, Sessions) /\ s0 \notin ToSet(error_queue')
    <3>1. error_queue' = Tail(error_queue)
      BY <1>3 DEF DispatchErrorQueue
    <3>2. error_queue \in Seq(Sessions) /\ OnceIn(error_queue, Sessions)
      BY SameQueue DEF Without
    <3> QED BY <1>3, <3>1, <3>2, TailQueue DEF Without
  <2>2. ResumeEntry(c, sic)
    BY <1>3 DEF DispatchErrorQueue
  <2> HIDE DEF s0
  <2>3. Calls(s0) /\ coming[s0] \notin Services \ down
    BY <2>1 DEF SchedulerInv, ErrorsWait
  <2>4. c \in Coroutines /\ co[c].at = "call" /\ co[c].session = s0
    BY <2>3 DEF Calls
  <2>5. Suspended(c)
    BY <2>4 DEF Suspended
  <2>6. Resume(c, sic) /\ failed' = failed
    BY <2>2, <2>5 DEF ResumeEntry
  <2>7. \A s \in Sessions : sic[s] = IF s = s0 THEN None ELSE session_id_coroutine[s]
    BY DEF SchedulerInv, SchedulerTypeOK
  <2>8. session_id_coroutine' = [s \in Sessions |-> sic[s]]
    BY <2>4, <2>6 DEF Resume
  <2>9. \A s \in Sessions : session_id_coroutine[s] = c => s = s0
    BY <2>1, <2>4 DEF SchedulerInv, BoundOnce
  <2>10. coming[s0] # "timer"
    BY <2>4 DEF SchedulerInv, Bound
  <2>11. c \notin ToSet(fork_queue)
    BY <2>4 DEF SchedulerInv, ForksReady
  <2>12. ~doubled => c \notin ToSet(wakeup_queue)
    BY <2>4 DEF SchedulerInv, WakeupsSleep, Bound
  <2>13. ToSet(error_queue') \subseteq Sessions
    BY <2>1, Elements
  <2> HIDE DEF sic, c
  <2>14. session_id_coroutine' \in [Sessions -> Coroutines \cup {None, "BREAK"}]
    BY <2>7, <2>8 DEF SchedulerInv, SchedulerTypeOK
  <2>15. \A s \in Sessions : session_id_coroutine[s] # c =>
           session_id_coroutine'[s] = session_id_coroutine[s] /\ coming'[s] = coming[s]
    BY <1>1, <2>7, <2>8 DEF c
  <2>16. \A s \in Sessions : session_id_coroutine[s] = c =>
           /\ session_id_coroutine'[s] = None
           /\ coming'[s] # "timer" /\ coming'[s] \notin Services \ down
    BY <1>1, <2>3, <2>7, <2>8, <2>9, <2>10
  <2>17. \A s \in ToSet(error_queue') : session_id_coroutine[s] # c
    BY <2>1, <2>9, <2>13
  <2>18. coming' \in [Sessions -> Services \cup {None, "timer"}] /\ mode # "run"
    BY <1>1 DEF SchedulerInv, SchedulerTypeOK
  <2> QED BY <1>1, <2>1, <2>4, <2>5, <2>6, <2>11, <2>12, <2>14, <2>15, <2>16, <2>17, <2>18,
             SameQueue, ResumeKeeps
<1> QED BY <1>2, <1>3

LEMMA DispatchForkKeeps == SchedulerInv /\ DispatchFork => SchedulerInv'
<1> SUFFICES ASSUME SchedulerInv, DispatchFork PROVE SchedulerInv'
  OBVIOUS
<1> USE Atoms
<1>1. /\ mode = "fork"
      /\ UNCHANGED <<session, wakeup_queue, error_queue, coming, serving, down, doubled>>
  BY DEF DispatchFork
<1>2. CASE fork_queue = <<>>
  <2>1. mode' = "idle" /\ UNCHANGED <<run, co, tables, fork_queue, failed>>
    BY <1>2 DEF DispatchFork
  <2>2. Drained'
    BY <1>1, <1>2, <2>1, EmptyQueue DEF Drained, SchedulerInv
  <2>3. run' \in Coroutines \cup {None}
    BY <2>1 DEF SchedulerInv, SchedulerTypeOK
  <2> QED BY <1>1, <2>1, <2>2, <2>3, SameQueue, ModeMoves
<1>3. CASE fork_queue # <<>>
  <2> DEFINE c == Head(fork_queue)
  <2>1. /\ fork_queue' = Tail(fork_queue) /\ fork_queue' \in Seq(Coroutines \cup {"EMPTY"})
        /\ c \in Coroutines \cup {"EMPTY"} /\ c \in ToSet(fork_queue)
        /\ Without(fork_queue', fork_queue, Coroutines)
        /\ c \in Coroutines => c \notin ToSet(fork_queue')
    <3>1. fork_queue' = Tail(fork_queue)
      BY <1>3 DEF DispatchFork
    <3>2. fork_queue \in Seq(Coroutines \cup {"EMPTY"}) /\ OnceIn(fork_queue, Coroutines)
      BY SameQueue DEF Without
    <3> QED BY <1>3, <3>1, <3>2, TailQueue DEF Without
  <2>2. CASE c = "EMPTY"
    <3>1. mode' = "wakeup" /\ UNCHANGED <<run, co, tables, failed>>
      BY <1>3, <2>2 DEF DispatchFork
    <3>2. Drained'
      BY <3>1 DEF Drained
    <3> QED BY <1>1, <2>1, <3>1, <3>2, SameQueue, ModeMoves DEF SchedulerInv, SchedulerTypeOK
  <2>3. CASE c # "EMPTY"
    <3>1. ResumeEntry(c, session_id_coroutine)
      BY <1>3, <2>3 DEF DispatchFork
    <3> HIDE DEF c
    <3>2. /\ c \in Coroutines /\ co[c].at = "ready"
          /\ \A s \in Sessions : session_id_coroutine[s] # c
      BY <2>1, <2>3 DEF SchedulerInv, ForksReady
    <3>3. Suspended(c)
      BY <3>2 DEF Suspended
    <3>4. Resume(c, session_id_coroutine) /\ failed' = failed
      BY <3>1, <3>3 DEF ResumeEntry
    <3>5. session_id_coroutine' = [s \in Sessions |-> session_id_coroutine[s]]
      BY <3>2, <3>4 DEF Resume
    <3>6. session_id_coroutine' \in [Sessions -> Coroutines \cup {None, "BREAK"}]
      BY <3>5 DEF SchedulerInv, SchedulerTypeOK
    <3>7. \A s \in ToSet(error_queue) : session_id_coroutine[s] # c
      <4>1. ToSet(error_queue) \subseteq Sessions
        BY SameQueue, Elements
      <4> QED BY <3>2, <4>1
    <3>8. ~doubled => c \notin ToSet(wakeup_queue)
      BY <3>2 DEF SchedulerInv, WakeupsSleep, Bound
    <3>9. coming' \in [Sessions -> Services \cup {None, "timer"}] /\ mode # "run"
      BY <1>1 DEF SchedulerInv, SchedulerTypeOK
    <3>10. \A s \in Sessions :
             session_id_coroutine'[s] = session_id_coroutine[s] /\ coming'[s] = coming[s]
      BY <1>1, <3>5
    <3> QED BY <1>1, <2>1, <3>2, <3>3, <3>4, <3>6, <3>7, <3>8, <3>9, <3>10, SameQueue, ResumeKeeps
  <2> QED BY <2>2, <2>3
<1> QED BY <1>2, <1>3

-----------------------------------------------------------------------------
(* What a running coroutine does, and messages.                            *)

ServingTypes ==
  /\ session_coroutine_id \in [Coroutines -> 0 .. MaxRequest]
  /\ unresponse \subseteq Requests /\ forgot \subseteq Requests
  /\ source \in [Requests -> Services \cup {None}]
  /\ answers \in [Requests -> Nat]

\* A coroutine that no session holds starts, ends, dies or is forked.
LEMMA UnboundKeeps ==
  ASSUME SchedulerInv, NEW c \in Coroutines, co[c].at \in {"run", "free"}, NEW v,
         v \in [at : {"free", "run", "dead", "ready"}, session : 0 .. MaxSession],
         co' = [co EXCEPT ![c] = v],
         UNCHANGED <<session, tables, coming, down, wakeup_queue, error_queue, doubled, failed>>,
         fork_queue' \in Seq(Coroutines \cup {"EMPTY"}), OnceIn(fork_queue', Coroutines),
         \A d \in ToSet(fork_queue') \ {"EMPTY"} :
           (d # c /\ d \in ToSet(fork_queue)) \/ (d = c /\ v.at = "ready"),
         mode' \in {"run", "wakeup", "fork"}, run' \in Coroutines \cup {None}, ServingTypes',
         OneRuns', Drained'
  PROVE  SchedulerInv'
<1> USE Atoms
<1>1. Tables
  BY DEF SchedulerInv, Tables
<1>2. Bound' /\ Held' /\ BoundOnce'
  BY <1>1, UnboundMoves DEF Blocked
<1>3. /\ session_id_coroutine' = session_id_coroutine /\ sleep_session' = sleep_session
      /\ watching_session' = watching_session
  BY DEF tables
<1>4. \A s \in Sessions : session_id_coroutine[s] # c
  BY <1>1, Unbound DEF Blocked
<1>5. \A d \in Coroutines : co'[d] = IF d = c THEN v ELSE co[d]
  BY DEF SchedulerInv, SchedulerTypeOK
<1>6. ErrorsWait'
  <2> SUFFICES ASSUME NEW s \in ToSet(error_queue)
               PROVE  Calls(s)' /\ coming[s] \notin Services \ down
    BY DEF SchedulerInv, ErrorsWait
  <2>1. Calls(s) /\ coming[s] \notin Services \ down
    BY DEF SchedulerInv, ErrorsWait
  <2>2. s \in Sessions
    BY SameQueue, Elements
  <2> QED BY <1>3, <1>4, <1>5, <2>1, <2>2 DEF Calls
<1>7. ForksReady'
  <2> SUFFICES ASSUME NEW d \in ToSet(fork_queue') \ {"EMPTY"}
               PROVE  co'[d].at = "ready" /\ \A s \in Sessions : session_id_coroutine[s] # d
    BY <1>3 DEF ForksReady
  <2>1. d \in Coroutines
    BY Elements
  <2>2. CASE d # c /\ d \in ToSet(fork_queue)
    BY <1>5, <2>1, <2>2 DEF SchedulerInv, ForksReady
  <2>3. CASE d = c /\ v.at = "ready"
    BY <1>4, <1>5, <2>3
  <2> QED BY <2>2, <2>3
<1>8. WakeupsSleep'
  BY <1>3 DEF SchedulerInv, WakeupsSleep
<1>9. SchedulerTypeOK'
  <2>1. co' \in [Coroutines -> [at : {"free", "ready", "run", "call", "sleep", "wait", "dead"},
                                session : 0 .. MaxSession]]
    BY DEF SchedulerInv, SchedulerTypeOK
  <2> QED BY <1>3, <2>1 DEF SchedulerInv, SchedulerTypeOK, ServingTypes
<1> QED BY <1>2, <1>6, <1>7, <1>8, <1>9 DEF SchedulerInv

\* A running coroutine yields on a new session, or creates one for a timer.
LEMMA SuspendKeeps ==
  ASSUME SchedulerInv, NEW c \in Coroutines, co[c].at \in {"run", "free"},
         session < MaxSession, NEW n, n = session + 1, NEW v, NEW m,
         co' = [co EXCEPT ![c] = v],
         session_id_coroutine' = [session_id_coroutine EXCEPT ![n] = c],
         coming' = [coming EXCEPT ![n] = m],
         session' = n, UNCHANGED <<down, serving, queues, doubled, failed>>,
         \/ /\ v = [at |-> "call", session |-> n] /\ m \in Services
            /\ watching_session' = [watching_session EXCEPT ![n] = m]
            /\ sleep_session' = sleep_session
         \/ /\ \/ v = [at |-> "sleep", session |-> n] /\ m = "timer"
               \/ v = [at |-> "wait", session |-> n] /\ m = None
            /\ watching_session' = watching_session
            /\ sleep_session' = [sleep_session EXCEPT ![c] = n]
         \/ /\ v = [at |-> "ready", session |-> 0] /\ m = "timer"
            /\ UNCHANGED <<watching_session, sleep_session>>,
         mode' \in {"run", "wakeup"}, run' \in Coroutines \cup {None}, OneRuns'
  PROVE  SchedulerInv'
<1> USE Atoms
<1>1. Tables
  BY DEF SchedulerInv, Tables
<1>2. n \in Sessions /\ n \in Nat /\ n > session
  BY DEF SchedulerInv, SchedulerTypeOK, Sessions
<1>3. Bound' /\ Held' /\ BoundOnce'
  BY <1>1, <1>2, SuspendBinds
<1>4. \A s \in Sessions : session_id_coroutine[s] # c
  BY <1>1, Unbound DEF Blocked
<1>5. \A d \in Coroutines : co'[d] = IF d = c THEN v ELSE co[d]
  BY DEF SchedulerInv, SchedulerTypeOK
<1>6. session_id_coroutine[n] = None
  BY <1>2 DEF SchedulerInv, Held, HeldFor
<1>7. /\ wakeup_queue' = wakeup_queue /\ error_queue' = error_queue
      /\ fork_queue' = fork_queue
  BY DEF queues
<1>8. ErrorsWait'
  <2> SUFFICES ASSUME NEW s \in ToSet(error_queue)
               PROVE  Calls(s)' /\ coming'[s] \notin Services \ down
    BY <1>7 DEF SchedulerInv, ErrorsWait
  <2>1. Calls(s) /\ coming[s] \notin Services \ down
    BY DEF SchedulerInv, ErrorsWait
  <2>2. s \in Sessions /\ s # n
    <3>1. s \in Sessions
      BY SameQueue, Elements
    <3> QED BY <1>6, <2>1, <3>1 DEF Calls
  <2>3. session_id_coroutine'[s] = session_id_coroutine[s] /\ coming'[s] = coming[s]
    BY <1>2, <2>2 DEF SchedulerInv, SchedulerTypeOK
  <2> QED BY <1>4, <1>5, <2>1, <2>2, <2>3 DEF Calls
<1>9. ForksReady'
  <2> SUFFICES ASSUME NEW d \in ToSet(fork_queue) \ {"EMPTY"}
               PROVE  co'[d].at = "ready" /\ \A s \in Sessions : session_id_coroutine'[s] # d
    BY <1>7 DEF SchedulerInv, ForksReady
  <2>1. d \in Coroutines
    BY SameQueue, Elements
  <2>2. co[d].at = "ready" /\ \A s \in Sessions : session_id_coroutine[s] # d
    BY DEF SchedulerInv, ForksReady
  <2> QED BY <1>5, <2>1, <2>2 DEF SchedulerInv, SchedulerTypeOK
<1>10. WakeupsSleep'
  <2> SUFFICES ASSUME ~doubled, NEW d \in ToSet(wakeup_queue) PROVE sleep_session'[d] # 0
    BY <1>7 DEF SchedulerInv, WakeupsSleep
  <2>1. d \in Coroutines /\ sleep_session[d] # 0
    BY SameQueue, Elements DEF SchedulerInv, WakeupsSleep
  <2> QED BY <1>2, <2>1 DEF SchedulerInv, SchedulerTypeOK
<1>11. Drained'
  BY DEF Drained
<1>12. SchedulerTypeOK'
  <2>1. n \in 0 .. MaxSession
    BY <1>2 DEF SchedulerInv, SchedulerTypeOK, Sessions
  <2>2. co' \in [Coroutines -> [at : {"free", "ready", "run", "call", "sleep", "wait", "dead"},
                                session : 0 .. MaxSession]]
    <3>1. v \in [at : {"free", "ready", "run", "call", "sleep", "wait", "dead"},
                 session : 0 .. MaxSession]
      <4>1. v.at \in {"call", "sleep", "wait", "ready"} /\ v.session \in {n, 0}
        OBVIOUS
      <4>2. v = [at |-> v.at, session |-> v.session]
        OBVIOUS
      <4> QED BY <2>1, <4>1, <4>2
    <3>2. co \in [Coroutines -> [at : {"free", "ready", "run", "call", "sleep", "wait", "dead"},
                                session : 0 .. MaxSession]]
      BY DEF SchedulerInv, SchedulerTypeOK
    <3>3. co' = [co EXCEPT ![c] = v] /\ c \in Coroutines
      OBVIOUS
    <3> QED BY <3>1, <3>2, <3>3
  <2>3. /\ session_id_coroutine' \in [Sessions -> Coroutines \cup {None, "BREAK"}]
        /\ coming' \in [Sessions -> Services \cup {None, "timer"}]
    BY DEF SchedulerInv, SchedulerTypeOK
  <2>4. /\ sleep_session' \in [Coroutines -> 0 .. MaxSession]
        /\ watching_session' \in [Sessions -> Services \cup {None}]
    <3>1. /\ sleep_session \in [Coroutines -> 0 .. MaxSession]
          /\ watching_session \in [Sessions -> Services \cup {None}]
      BY DEF SchedulerInv, SchedulerTypeOK
    <3>2. sleep_session' = sleep_session \/ sleep_session' = [sleep_session EXCEPT ![c] = n]
      OBVIOUS
    <3>3. \/ watching_session' = watching_session
          \/ m \in Services /\ watching_session' = [watching_session EXCEPT ![n] = m]
      OBVIOUS
    <3>4. sleep_session' \in [Coroutines -> 0 .. MaxSession]
      BY <2>1, <3>1, <3>2
    <3>5. watching_session' \in [Sessions -> Services \cup {None}]
      BY <3>1, <3>3
    <3> QED BY <3>4, <3>5
  <2> QED BY <1>7, <2>1, <2>2, <2>3, <2>4 DEF SchedulerInv, SchedulerTypeOK, serving
<1> QED BY <1>3, <1>8, <1>9, <1>10, <1>11, <1>12 DEF SchedulerInv

\* skynet.wakeup, by the application or by skynet.queue.
LEMMA WakeupKeeps ==
  ASSUME SchedulerInv, mode = "run", NEW t \in Coroutines, WakeupEffect(t),
         UNCHANGED <<mode, run, co, session, tables, error_queue, fork_queue, coming,
                     serving, down, failed>>
  PROVE  SchedulerInv'
<1>1. /\ session_id_coroutine' = session_id_coroutine /\ sleep_session' = sleep_session
      /\ watching_session' = watching_session
  BY DEF tables
<1>2. wakeup_queue' \in Seq(Coroutines) /\ doubled' \in BOOLEAN /\ WakeupsSleep'
  <2>1. CASE sleep_session[t] # 0
    <3>1. /\ wakeup_queue' = Append(wakeup_queue, t)
          /\ doubled' = (doubled \/ t \in ToSet(wakeup_queue))
      BY <2>1 DEF WakeupEffect
    <3>2. wakeup_queue \in Seq(Coroutines)
      BY SameQueue
    <3>3. /\ wakeup_queue' \in Seq(Coroutines)
          /\ ToSet(wakeup_queue') = ToSet(wakeup_queue) \cup {t}
          /\ (OnceIn(wakeup_queue, Coroutines) /\ t \notin ToSet(wakeup_queue)) =>
               OnceIn(wakeup_queue', Coroutines)
      BY <3>1, <3>2, AppendQueue
    <3>4. doubled' \in BOOLEAN /\ (~doubled' => ~doubled /\ t \notin ToSet(wakeup_queue))
      BY <3>1
    <3>5. WakeupsSleep'
      BY <1>1, <2>1, <3>3, <3>4 DEF SchedulerInv, WakeupsSleep
    <3> QED BY <3>3, <3>4, <3>5
  <2>2. CASE sleep_session[t] = 0
    <3>1. UNCHANGED <<wakeup_queue, doubled>>
      BY <2>2 DEF WakeupEffect
    <3> QED BY <1>1, <3>1 DEF SchedulerInv, SchedulerTypeOK, WakeupsSleep
  <2> QED BY <2>1, <2>2
<1>3. SchedulerTypeOK'
  BY <1>1, <1>2 DEF SchedulerInv, SchedulerTypeOK, serving
<1>4. OneRuns' /\ Bound' /\ Held' /\ BoundOnce'
  BY <1>1 DEF SchedulerInv, OneRuns, Bound, Held, HeldFor, Calls, BoundOnce
<1>5. ErrorsWait' /\ ForksReady'
  BY <1>1 DEF SchedulerInv, ErrorsWait, ForksReady, Calls
<1>6. Drained'
  BY DEF Drained
<1> QED BY <1>2, <1>3, <1>4, <1>5, <1>6 DEF SchedulerInv

LEMMA RunningAt ==
  ASSUME SchedulerInv, NEW c \in Coroutines, Running(c)
  PROVE  co[c].at = "run" /\ \A d \in Coroutines : co[d].at = "run" => d = c
BY DEF SchedulerInv, OneRuns, Running

LEMMA CreateFree ==
  CanCreate => co_create \in Coroutines /\ co[co_create].at = "free"
BY DEF CanCreate, co_create

LEMMA TypesOfServing == SchedulerTypeOK => ServingTypes
BY DEF SchedulerTypeOK, ServingTypes

LEMMA CallKeeps ==
  ASSUME SchedulerInv, NEW c \in Coroutines, NEW d \in Services, Call(c, d)
  PROVE  SchedulerInv'
<1> DEFINE n == NewSession
           v == [at |-> "call", session |-> n]
<1>1. /\ Running(c) /\ session < MaxSession /\ session' = n
      /\ watching_session' = [watching_session EXCEPT ![n] = d]
      /\ session_id_coroutine' = [session_id_coroutine EXCEPT ![n] = c]
      /\ coming' = [coming EXCEPT ![n] = d] /\ co' = [co EXCEPT ![c] = v]
      /\ mode' = "wakeup" /\ run' = None /\ sleep_session' = sleep_session
      /\ UNCHANGED <<queues, serving, down, doubled, failed>>
  BY DEF Call, Running
<1>2. n = session + 1
  BY DEF NewSession
<1>3. co[c].at = "run" /\ \A e \in Coroutines : co[e].at = "run" => e = c
  BY <1>1, RunningAt
<1>4. OneRuns'
  BY <1>1, <1>3 DEF OneRuns, SchedulerInv, SchedulerTypeOK
<1> HIDE DEF n
<1> QED BY <1>1, <1>2, <1>3, <1>4, SuspendKeeps

LEMMA SuspendSleepKeeps ==
  ASSUME SchedulerInv, NEW c \in Coroutines, NEW at, NEW m, SuspendSleep(c, at, m),
         (at = "sleep" /\ m = "timer") \/ (at = "wait" /\ m = None)
  PROVE  SchedulerInv'
<1> DEFINE n == NewSession
           v == [at |-> at, session |-> n]
<1>1. /\ Running(c) /\ session < MaxSession /\ session' = n
      /\ sleep_session' = [sleep_session EXCEPT ![c] = n]
      /\ session_id_coroutine' = [session_id_coroutine EXCEPT ![n] = c]
      /\ coming' = [coming EXCEPT ![n] = m] /\ co' = [co EXCEPT ![c] = v]
      /\ mode' = "wakeup" /\ run' = None /\ watching_session' = watching_session
      /\ UNCHANGED <<queues, serving, down, doubled, failed>>
  BY DEF SuspendSleep, Running
<1>2. n = session + 1
  BY DEF NewSession
<1>3. co[c].at = "run" /\ \A e \in Coroutines : co[e].at = "run" => e = c
  BY <1>1, RunningAt
<1>4. OneRuns'
  <2>1. v.at # "run"
    OBVIOUS
  <2> QED BY <1>1, <1>3, <2>1 DEF OneRuns, SchedulerInv, SchedulerTypeOK
<1> HIDE DEF n
<1>5. \/ v = [at |-> "sleep", session |-> n] /\ m = "timer"
      \/ v = [at |-> "wait", session |-> n] /\ m = None
  OBVIOUS
<1> HIDE DEF v
<1> QED BY <1>1, <1>2, <1>3, <1>4, <1>5, SuspendKeeps

LEMMA TimeoutKeeps ==
  ASSUME SchedulerInv, NEW c \in Coroutines, Timeout(c)
  PROVE  SchedulerInv'
<1> DEFINE n == NewSession
           e == co_create
           v == [at |-> "ready", session |-> 0]
<1>1. /\ Running(c) /\ CanCreate /\ session < MaxSession /\ session' = n
      /\ session_id_coroutine' = [session_id_coroutine EXCEPT ![n] = e]
      /\ coming' = [coming EXCEPT ![n] = "timer"] /\ co' = [co EXCEPT ![e] = v]
      /\ mode' = "run" /\ run' = c /\ UNCHANGED <<watching_session, sleep_session>>
      /\ UNCHANGED <<queues, serving, down, doubled, failed>>
  BY DEF Timeout, Running, Created
<1>2. n = session + 1
  BY DEF NewSession
<1>3. co[c].at = "run" /\ \A d \in Coroutines : co[d].at = "run" => d = c
  BY <1>1, RunningAt
<1>4. e \in Coroutines /\ co[e].at = "free"
  BY <1>1, CreateFree
<1> HIDE DEF n, e
<1>5. OneRuns'
  BY <1>1, <1>3, <1>4 DEF OneRuns, SchedulerInv, SchedulerTypeOK
<1> QED BY <1>1, <1>2, <1>3, <1>4, <1>5, SuspendKeeps

LEMMA ForkKeeps ==
  ASSUME SchedulerInv, NEW c \in Coroutines, Fork(c)
  PROVE  SchedulerInv'
<1> USE Atoms
<1> DEFINE e == co_create
           v == [at |-> "ready", session |-> 0]
<1>1. /\ Running(c) /\ CanCreate /\ co' = [co EXCEPT ![e] = v]
      /\ fork_queue' = Append(fork_queue, e) /\ mode' = "run" /\ run' = c
      /\ UNCHANGED <<session, tables, coming, down, wakeup_queue, error_queue, doubled, failed>>
      /\ UNCHANGED serving
  BY DEF Fork, Running, Created
<1>2. co[c].at = "run" /\ \A d \in Coroutines : co[d].at = "run" => d = c
  BY <1>1, RunningAt
<1>3. e \in Coroutines /\ co[e].at = "free"
  BY <1>1, CreateFree
<1> HIDE DEF e
<1>4. OneRuns'
  BY <1>1, <1>2, <1>3 DEF OneRuns, SchedulerInv, SchedulerTypeOK
<1>5. Drained'
  BY <1>1 DEF Drained
<1>6. e \notin ToSet(fork_queue)
  BY <1>3 DEF SchedulerInv, ForksReady
<1>7. fork_queue \in Seq(Coroutines \cup {"EMPTY"}) /\ OnceIn(fork_queue, Coroutines)
  BY SameQueue DEF Without
<1>8. /\ fork_queue' \in Seq(Coroutines \cup {"EMPTY"}) /\ OnceIn(fork_queue', Coroutines)
      /\ ToSet(fork_queue') = ToSet(fork_queue) \cup {e}
  BY <1>1, <1>3, <1>6, <1>7, AppendQueue
<1>9. ServingTypes'
  BY <1>1, TypesOfServing DEF ServingTypes, SchedulerInv, serving
<1>10. v \in [at : {"free", "run", "dead", "ready"}, session : 0 .. MaxSession]
  OBVIOUS
<1>11. \A d \in ToSet(fork_queue') \ {"EMPTY"} :
         (d # e /\ d \in ToSet(fork_queue)) \/ (d = e /\ v.at = "ready")
  BY <1>8
<1> HIDE DEF v
<1> QED BY <1>1, <1>3, <1>4, <1>5, <1>8, <1>9, <1>10, <1>11, UnboundKeeps

LEMMA ReturnKeeps ==
  ASSUME SchedulerInv, NEW c \in Coroutines, Return(c), ServingTypes'
  PROVE  SchedulerInv'
<1> USE Atoms
<1>1. /\ Running(c) /\ co' = [co EXCEPT ![c] = Free] /\ mode' = "wakeup" /\ run' = None
      /\ UNCHANGED <<session, tables, coming, down, wakeup_queue, error_queue, doubled, failed>>
      /\ fork_queue' = fork_queue
  BY DEF Return, Running, queues
<1>2. co[c].at = "run" /\ \A d \in Coroutines : co[d].at = "run" => d = c
  BY <1>1, RunningAt
<1>3. OneRuns'
  BY <1>1, <1>2 DEF OneRuns, SchedulerInv, SchedulerTypeOK, Free
<1>4. Drained'
  BY <1>1 DEF Drained
<1>5. Free \in [at : {"free", "run", "dead", "ready"}, session : 0 .. MaxSession]
  BY DEF Free
<1>6. \A d \in ToSet(fork_queue') \ {"EMPTY"} : d # c /\ d \in ToSet(fork_queue)
  BY <1>1, <1>2 DEF SchedulerInv, ForksReady
<1>7. fork_queue' \in Seq(Coroutines \cup {"EMPTY"}) /\ OnceIn(fork_queue', Coroutines)
  BY <1>1, SameQueue DEF Without
<1>8. run' \in Coroutines \cup {None} /\ mode' \in {"run", "wakeup", "fork"} /\ co[c].at \in {"run", "free"}
  BY <1>1, <1>2
<1> QED BY <1>1, <1>2, <1>3, <1>4, <1>5, <1>6, <1>7, <1>8, UnboundKeeps

LEMMA RaiseKeeps ==
  ASSUME SchedulerInv, NEW c \in Coroutines, Raise(c), ServingTypes'
  PROVE  SchedulerInv'
<1> USE Atoms
<1> DEFINE v == [co[c] EXCEPT !.at = "dead"]
<1>1. /\ Running(c) /\ co' = [co EXCEPT ![c].at = "dead"] /\ mode' = "fork" /\ run' = None
      /\ UNCHANGED <<session, tables, coming, down, wakeup_queue, error_queue, doubled, failed>>
      /\ fork_queue' = fork_queue \o <<"EMPTY">>
  BY DEF Raise, RaiseWith, Running
<1>2. co[c].at = "run" /\ \A d \in Coroutines : co[d].at = "run" => d = c
  BY <1>1, RunningAt
<1>3. co' = [co EXCEPT ![c] = v]
  BY <1>1 DEF SchedulerInv, SchedulerTypeOK
<1>4. /\ v \in [at : {"free", "run", "dead", "ready"}, session : 0 .. MaxSession]
      /\ v.at = "dead"
  BY DEF SchedulerInv, SchedulerTypeOK
<1> HIDE DEF v
<1>5. OneRuns'
  BY <1>1, <1>2, <1>3, <1>4 DEF OneRuns, SchedulerInv, SchedulerTypeOK
<1>6. fork_queue \in Seq(Coroutines \cup {"EMPTY"}) /\ OnceIn(fork_queue, Coroutines)
  BY SameQueue DEF Without
<1>7. "EMPTY" \in Coroutines \cup {"EMPTY"}
  OBVIOUS
<1>8. fork_queue' = Append(fork_queue, "EMPTY")
  BY <1>1, <1>6, <1>7, AppendIsConcat
<1>9. /\ fork_queue' \in Seq(Coroutines \cup {"EMPTY"}) /\ OnceIn(fork_queue', Coroutines)
      /\ ToSet(fork_queue') = ToSet(fork_queue) \cup {"EMPTY"}
  BY <1>6, <1>7, <1>8, AppendQueue
<1>10. Drained'
  BY <1>1, <1>9 DEF Drained
<1>11. \A d \in ToSet(fork_queue') \ {"EMPTY"} : d # c /\ d \in ToSet(fork_queue)
  BY <1>2, <1>9 DEF SchedulerInv, ForksReady
<1> QED BY <1>1, <1>2, <1>3, <1>4, <1>5, <1>9, <1>10, <1>11, UnboundKeeps

\* Steps that only answer requests or move the section.
LEMMA StillKeeps ==
  ASSUME SchedulerInv, ServingTypes',
         UNCHANGED <<mode, run, co, session, tables, queues, coming, down, doubled, failed>>
  PROVE  SchedulerInv'
<1>1. /\ session_id_coroutine' = session_id_coroutine /\ sleep_session' = sleep_session
      /\ watching_session' = watching_session
  BY DEF tables
<1>2. /\ wakeup_queue' = wakeup_queue /\ error_queue' = error_queue
      /\ fork_queue' = fork_queue
  BY DEF queues
<1>3. SchedulerTypeOK'
  BY <1>1, <1>2 DEF SchedulerInv, SchedulerTypeOK, ServingTypes
<1>4. OneRuns' /\ Bound' /\ Held' /\ BoundOnce'
  BY <1>1 DEF SchedulerInv, OneRuns, Bound, Held, HeldFor, Calls, BoundOnce
<1>5. ErrorsWait' /\ ForksReady' /\ WakeupsSleep' /\ Drained'
  BY <1>1, <1>2 DEF SchedulerInv, ErrorsWait, ForksReady, Calls, WakeupsSleep, Drained
<1> QED BY <1>3, <1>4, <1>5 DEF SchedulerInv

LEMMA RequestKeeps ==
  ASSUME SchedulerInv, NEW r \in Requests, NEW d \in Services, Request(r, d), ServingTypes'
  PROVE  SchedulerInv'
<1> USE Atoms
<1> DEFINE e == co_create
           v == [at |-> "run", session |-> 0]
<1>1. /\ mode = "idle" /\ CanCreate /\ co' = [co EXCEPT ![e] = v]
      /\ fork_queue' = fork_queue /\ mode' = "run" /\ run' = e
      /\ UNCHANGED <<session, tables, coming, down, wakeup_queue, error_queue, doubled, failed>>
  BY DEF Request, queues
<1>2. e \in Coroutines /\ co[e].at = "free"
  BY <1>1, CreateFree
<1>3. \A c \in Coroutines : co[c].at # "run"
  BY <1>1 DEF SchedulerInv, OneRuns
<1> HIDE DEF e
<1>4. OneRuns'
  BY <1>1, <1>2, <1>3 DEF OneRuns, SchedulerInv, SchedulerTypeOK
<1>5. Drained'
  BY <1>1 DEF Drained
<1>6. \A c \in ToSet(fork_queue') \ {"EMPTY"} : c # e /\ c \in ToSet(fork_queue)
  BY <1>1, <1>2 DEF SchedulerInv, ForksReady
<1>7. fork_queue' \in Seq(Coroutines \cup {"EMPTY"}) /\ OnceIn(fork_queue', Coroutines)
  BY <1>1, SameQueue DEF Without
<1>8. v \in [at : {"free", "run", "dead", "ready"}, session : 0 .. MaxSession]
  OBVIOUS
<1>9. run' \in Coroutines /\ mode' \in {"run", "wakeup", "fork"} /\ co[e].at \in {"run", "free"}
  BY <1>1, <1>2
<1> HIDE DEF v
<1> QED BY <1>1, <1>2, <1>4, <1>5, <1>6, <1>7, <1>8, <1>9, UnboundKeeps

\* A message that resumes nobody: the tables keep, and so does the rest.
LEMMA MessageKeeps ==
  ASSUME SchedulerInv, mode = "idle", mode' \in {"idle", "wakeup"},
         SchedulerTypeOK', failed' = failed, run' = run, doubled' = doubled,
         wakeup_queue' = wakeup_queue, fork_queue' = fork_queue,
         UNCHANGED <<co, session, sleep_session, watching_session>>,
         down \subseteq down',
         \A s \in Sessions :
           \/ coming'[s] = coming[s] /\ session_id_coroutine'[s] = session_id_coroutine[s]
           \/ /\ coming'[s] = None
              /\ \/ /\ coming[s] # "timer"
                    /\ session_id_coroutine'[s] = session_id_coroutine[s]
                 \/ session_id_coroutine[s] = "BREAK" /\ session_id_coroutine'[s] = None,
         ErrorsWait', mode' = "idle" => error_queue' = error_queue
  PROVE  SchedulerInv'
<1> USE Atoms
<1>1. Bound' /\ Held' /\ BoundOnce'
  BY MessageArrives DEF SchedulerInv, Tables
<1>2. OneRuns' /\ WakeupsSleep' /\ Drained'
  BY DEF SchedulerInv, OneRuns, WakeupsSleep, Drained
<1>3. ForksReady'
  <2> SUFFICES ASSUME NEW c \in ToSet(fork_queue) \ {"EMPTY"}, NEW s \in Sessions
               PROVE  co[c].at = "ready" /\ session_id_coroutine'[s] # c
    BY DEF SchedulerInv, ForksReady
  <2>1. c \in Coroutines
    BY SameQueue, Elements
  <2>2. co[c].at = "ready" /\ session_id_coroutine[s] # c
    BY DEF SchedulerInv, ForksReady
  <2> QED BY <2>1, <2>2
<1> QED BY <1>1, <1>2, <1>3 DEF SchedulerInv

LEMMA ErrorSessionKeeps ==
  ASSUME SchedulerInv, NEW s \in Sessions, ErrorSession(s)
  PROVE  SchedulerInv'
<1> USE Atoms
<1>1. /\ mode = "idle" /\ mode' = "wakeup" /\ coming[s] \in Services
      /\ coming' = [coming EXCEPT ![s] = None] /\ error_queue' = Capture(s)
      /\ failed' = failed /\ run' = run /\ doubled' = doubled /\ down' = down
      /\ wakeup_queue' = wakeup_queue /\ fork_queue' = fork_queue
      /\ UNCHANGED <<co, session, sleep_session, watching_session>>
      /\ session_id_coroutine' = session_id_coroutine /\ UNCHANGED serving
  BY DEF ErrorSession, tables
<1>2. \A t \in Sessions : coming'[t] = IF t = s THEN None ELSE coming[t]
  BY <1>1 DEF SchedulerInv, SchedulerTypeOK
<1>3. error_queue = <<>>
  BY <1>1 DEF SchedulerInv, Drained
<1>4. /\ error_queue' \in Seq(Sessions) /\ OnceIn(error_queue', Sessions)
      /\ \A t \in ToSet(error_queue') : t = s /\ watching_session[s] # None
  <2>1. CASE watching_session[s] # None
    <3>1. error_queue' = Append(error_queue, s)
      BY <1>1, <2>1 DEF Capture
    <3>2. error_queue \in Seq(Sessions) /\ OnceIn(error_queue, Sessions)
      BY SameQueue DEF Without
    <3>3. ToSet(error_queue) = {}
      BY <1>3, EmptyQueue
    <3>4. /\ error_queue' \in Seq(Sessions) /\ OnceIn(error_queue', Sessions)
          /\ ToSet(error_queue') = ToSet(error_queue) \cup {s}
      BY <3>1, <3>2, <3>3, AppendQueue
    <3> QED BY <2>1, <3>3, <3>4
  <2>2. CASE watching_session[s] = None
    <3>1. error_queue' = <<>>
      BY <1>1, <1>3, <2>2 DEF Capture
    <3> QED BY <3>1, EmptyQueue
  <2> QED BY <2>1, <2>2
<1>5. ErrorsWait'
  <2> SUFFICES ASSUME NEW t \in ToSet(error_queue')
               PROVE  Calls(t)' /\ coming'[t] \notin Services \ down'
    BY <1>4 DEF ErrorsWait
  <2>1. t = s /\ watching_session[s] # None
    BY <1>4
  <2>2. Calls(s)
    BY <2>1 DEF SchedulerInv, Held, HeldFor
  <2>3. Calls(s)'
    BY <1>1, <2>2 DEF Calls
  <2>4. coming'[s] = None
    BY <1>2
  <2> QED BY <2>1, <2>3, <2>4
<1>6. SchedulerTypeOK'
  <2>1. coming' \in [Sessions -> Services \cup {None, "timer"}]
    BY <1>1 DEF SchedulerInv, SchedulerTypeOK
  <2> QED BY <1>1, <1>4, <2>1 DEF SchedulerInv, SchedulerTypeOK, serving
<1>7. \A t \in Sessions :
        \/ coming'[t] = coming[t] /\ session_id_coroutine'[t] = session_id_coroutine[t]
        \/ /\ coming'[t] = None /\ coming[t] # "timer"
           /\ session_id_coroutine'[t] = session_id_coroutine[t]
  BY <1>1, <1>2
<1>8. mode' \in {"idle", "wakeup"} /\ mode' # "idle" /\ down \subseteq down'
  BY <1>1
<1> QED BY <1>1, <1>5, <1>6, <1>7, <1>8, MessageKeeps

\* The orders in which a finite set can be put in a queue.
LEMMA Orders ==
  ASSUME NEW S, IsFiniteSet(S), NEW q \in SetToSeqs(S), NEW T, S \subseteq T
  PROVE  q \in Seq(T) /\ OnceIn(q, T) /\ ToSet(q) \subseteq S
<1> DEFINE n == Cardinality(S)
<1>1. n \in Nat
  BY FS_CardinalityType
<1>2. q \in [1 .. n -> S] /\ \A i, j \in 1 .. n : i # j => q[i] # q[j]
  BY DEF SetToSeqs
<1> HIDE DEF n
<1>3. q \in Seq(S) /\ Len(q) = n
  BY <1>1, <1>2
<1>4. q \in Seq(T)
  BY <1>1, <1>2
<1>5. ToSet(q) \subseteq S
  BY <1>3, Elements
<1>6. OnceIn(q, T)
  BY <1>2, <1>3 DEF OnceIn
<1> QED BY <1>4, <1>5, <1>6

LEMMA ErrorSourceKeeps ==
  ASSUME SchedulerInv, NEW d \in Services, ErrorSource(d)
  PROVE  SchedulerInv'
<1> USE Atoms
<1> DEFINE S == {s \in Sessions : watching_session[s] = d}
<1>1. /\ mode = "idle" /\ mode' = "wakeup" /\ down' = down \cup {d}
      /\ unresponse' = {r \in unresponse : source[r] # d}
      /\ coming' = coming /\ failed' = failed /\ run' = run /\ doubled' = doubled
      /\ wakeup_queue' = wakeup_queue /\ fork_queue' = fork_queue
      /\ UNCHANGED <<co, session, sleep_session, watching_session>>
      /\ session_id_coroutine' = session_id_coroutine
      /\ UNCHANGED <<session_coroutine_id, source, answers, forgot>>
  BY DEF ErrorSource, tables
<1>2. PICK calls \in SetToSeqs(S) : error_queue' = error_queue \o calls
  BY DEF ErrorSource
<1>3. error_queue = <<>>
  BY <1>1 DEF SchedulerInv, Drained
<1>4. IsFiniteSet(S)
  <2>1. IsFiniteSet(Sessions)
    BY FS_Interval DEF Sessions
  <2> QED BY <2>1, FS_Subset
<1>5. calls \in Seq(Sessions) /\ OnceIn(calls, Sessions) /\ ToSet(calls) \subseteq S
  <2>1. S \subseteq Sessions
    OBVIOUS
  <2> HIDE DEF S
  <2> QED BY <1>4, <2>1, Orders
<1>6. error_queue' = calls
  BY <1>2, <1>3, <1>5
<1>7. ErrorsWait'
  <2> SUFFICES ASSUME NEW s \in ToSet(error_queue')
               PROVE  Calls(s)' /\ coming'[s] \notin Services \ down'
    BY <1>5, <1>6 DEF ErrorsWait
  <2>1. s \in Sessions /\ watching_session[s] = d
    BY <1>5, <1>6
  <2>2. Calls(s) /\ coming[s] \in {d, None}
    BY <2>1 DEF SchedulerInv, Held, HeldFor
  <2> QED BY <1>1, <2>2 DEF Calls
<1>8. SchedulerTypeOK'
  BY <1>1, <1>5, <1>6 DEF SchedulerInv, SchedulerTypeOK
<1>9. /\ \A t \in Sessions : /\ coming'[t] = coming[t]
                             /\ session_id_coroutine'[t] = session_id_coroutine[t]
      /\ mode' \in {"idle", "wakeup"} /\ mode' # "idle" /\ down \subseteq down'
  BY <1>1
<1> QED BY <1>1, <1>7, <1>8, <1>9, MessageKeeps

LEMMA ResponseKeeps ==
  ASSUME SchedulerInv, NEW s0 \in Sessions, Response(s0)
  PROVE  SchedulerInv'
<1> USE Atoms
<1> DEFINE c == session_id_coroutine[s0]
           sic == [session_id_coroutine EXCEPT ![s0] = None]
<1>1. /\ mode = "idle" /\ coming[s0] \notin down \cup {None}
      /\ coming' = [coming EXCEPT ![s0] = None]
      /\ session' = session /\ UNCHANGED <<serving, down, doubled>>
      /\ wakeup_queue' = wakeup_queue /\ fork_queue' = fork_queue /\ error_queue' = error_queue
  BY DEF Response, queues
<1>2. \A t \in Sessions : coming'[t] = IF t = s0 THEN None ELSE coming[t]
  BY <1>1 DEF SchedulerInv, SchedulerTypeOK
<1>3. coming' \in [Sessions -> Services \cup {None, "timer"}]
  BY <1>1 DEF SchedulerInv, SchedulerTypeOK
<1>4. \A t \in Sessions : sic[t] = IF t = s0 THEN None ELSE session_id_coroutine[t]
  BY DEF SchedulerInv, SchedulerTypeOK
<1>5. sic \in [Sessions -> Coroutines \cup {None, "BREAK"}]
  BY DEF SchedulerInv, SchedulerTypeOK
<1>6. HeldFor(s0) /\ coming[s0] \in (Services \ down) \cup {"timer"}
  BY <1>1 DEF SchedulerInv, Held, SchedulerTypeOK
<1>7. error_queue = <<>> /\ (wakeup_queue = <<>> \/ doubled)
  BY <1>1 DEF SchedulerInv, Drained
<1>8. CASE c = "BREAK"
  <2>1. session_id_coroutine' = sic /\ UNCHANGED <<mode, run, co, sleep_session, watching_session, failed>>
    BY <1>8 DEF Response
  <2> HIDE DEF sic
  <2>2. SchedulerTypeOK'
    BY <1>1, <1>3, <1>5, <2>1 DEF SchedulerInv, SchedulerTypeOK, serving
  <2>3. ErrorsWait'
    BY <1>1, <1>7, EmptyQueue DEF ErrorsWait
  <2>4. \A t \in Sessions :
        \/ coming'[t] = coming[t] /\ session_id_coroutine'[t] = session_id_coroutine[t]
        \/ /\ coming'[t] = None
           /\ session_id_coroutine[t] = "BREAK" /\ session_id_coroutine'[t] = None
    BY <1>2, <1>4, <1>8, <2>1
  <2>5. mode' \in {"idle", "wakeup"} /\ down \subseteq down' /\ UNCHANGED <<co, session, sleep_session, watching_session>>
    BY <1>1, <2>1
  <2> QED BY <1>1, <2>1, <2>2, <2>3, <2>4, <2>5, MessageKeeps
<1>9. CASE c # "BREAK"
  <2>1. ResumeEntry(c, sic)
    BY <1>9 DEF Response
  <2>2. c \in Coroutines
    BY <1>6, <1>9 DEF HeldFor, Calls, SchedulerInv, SchedulerTypeOK
  <2>3. co[c].at \in {"ready", "call", "sleep"}
    <3>1. ASSUME co[c].at = "wait" PROVE FALSE
      <4>1. co[c].session = s0
        BY <1>6, <2>2, <3>1 DEF HeldFor
      <4>2. coming[s0] = None
        BY <2>2, <3>1, <4>1 DEF SchedulerInv, Bound
      <4> QED BY <1>1, <4>2
    <3> QED BY <1>6, <2>2, <3>1 DEF HeldFor, Blocked
  <2>4. Suspended(c)
    BY <2>2, <2>3 DEF Suspended
  <2>5. Resume(c, sic) /\ failed' = failed
    BY <2>1, <2>4 DEF ResumeEntry
  <2>6. session_id_coroutine' = [t \in Sessions |-> sic[t]]
    BY <2>3, <2>5 DEF Resume
  <2>7. \A t \in Sessions : session_id_coroutine[t] = c => t = s0
    BY <2>2 DEF SchedulerInv, BoundOnce
  <2>8. c \notin ToSet(fork_queue)
    BY <2>2 DEF SchedulerInv, ForksReady
  <2> HIDE DEF sic, c
  <2>9. session_id_coroutine' \in [Sessions -> Coroutines \cup {None, "BREAK"}]
    BY <1>5, <2>6
  <2>10. \A t \in Sessions : session_id_coroutine[t] # c =>
           session_id_coroutine'[t] = session_id_coroutine[t] /\ coming'[t] = coming[t]
    BY <1>2, <1>4, <2>6 DEF c
  <2>11. \A t \in Sessions : session_id_coroutine[t] = c =>
           /\ session_id_coroutine'[t] = None
           /\ coming'[t] # "timer" /\ coming'[t] \notin Services \ down
    BY <1>2, <1>4, <2>6, <2>7
  <2>12. /\ \A t \in ToSet(error_queue') : session_id_coroutine[t] # c
         /\ ~doubled => c \notin ToSet(wakeup_queue')
    BY <1>1, <1>7, EmptyQueue
  <2> QED BY <1>1, <1>3, <2>2, <2>4, <2>5, <2>8, <2>9, <2>10, <2>11, <2>12, SameQueue, ResumeKeeps
<1> QED BY <1>8, <1>9

-----------------------------------------------------------------------------
(* Requests and their answers.                                             *)

Idle == {"free", "ready", "dead"}
Kept == ServingTypes /\ RequestsKept

\* Coroutines move, but none of them goes back to the pool or dies.
NoneEnds == \A c \in Coroutines : co'[c].at \in Idle => co[c].at \in Idle

LEMMA ServingSame ==
  ASSUME Kept, NoneEnds, UNCHANGED serving, down \subseteq down'
  PROVE  Kept'
<1>1. UNCHANGED <<session_coroutine_id, unresponse, source, answers, forgot>>
  BY DEF serving
<1>2. ServingTypes'
  BY <1>1 DEF Kept, ServingTypes
<1>3. \A c \in Coroutines : co'[c].at \in {"free", "ready", "dead"} => session_coroutine_id[c] = 0
  BY DEF Kept, RequestsKept, NoneEnds, Idle
<1>4. RequestsKept'
  BY <1>1, <1>3 DEF Kept, RequestsKept
<1> QED BY <1>2, <1>4 DEF Kept

\* A request that coroutine c served is answered, forgotten or left to its response
\* function, and the coroutine is free of it.
LEMMA RequestLeaves ==
  ASSUME Kept, NEW c \in Coroutines, NEW r, r = session_coroutine_id[c],
         session_coroutine_id' = [session_coroutine_id EXCEPT ![c] = 0],
         source' = source, down' = down,
         \A d \in Coroutines : d # c /\ co'[d].at \in Idle => co[d].at \in Idle,
         \/ answers' = Answered({r} \ {0}) /\ UNCHANGED <<unresponse, forgot>>
         \/ unresponse' = unresponse \cup ({r} \ {0}) /\ UNCHANGED <<answers, forgot>>
         \/ forgot' = forgot \cup ({r} \ {0}) /\ UNCHANGED <<answers, unresponse>>
  PROVE  Kept'
<1> USE Atoms
<1>1. \A d \in Coroutines : session_coroutine_id'[d] = IF d = c THEN 0 ELSE session_coroutine_id[d]
  BY DEF Kept, ServingTypes
<1>2. r \in 0 .. MaxRequest /\ (r # 0 => r \in Requests) /\ 0 \notin Requests
  BY DEF Kept, ServingTypes, Requests
<1>3. ServingTypes'
  <2>1. session_coroutine_id' \in [Coroutines -> 0 .. MaxRequest]
    BY DEF Kept, ServingTypes
  <2>2. answers' \in [Requests -> Nat]
    BY DEF Kept, ServingTypes, Answered
  <2>3. unresponse' \subseteq Requests /\ forgot' \subseteq Requests
    BY <1>2 DEF Kept, ServingTypes
  <2> QED BY <2>1, <2>2, <2>3 DEF Kept, ServingTypes
<1>4. \A q \in Requests \ {r} : answers'[q] = answers[q]
  BY DEF Answered, Kept, ServingTypes
<1>5. \A q : q # r => (q \in unresponse' <=> q \in unresponse) /\ (q \in forgot' <=> q \in forgot)
  OBVIOUS
<1>6. r # 0 => /\ answers[r] = 0 /\ r \notin unresponse /\ source[r] # None
               /\ \A d \in Coroutines : d # c => session_coroutine_id[d] # r
  BY DEF Kept, RequestsKept
<1>7. r # 0 => \/ answers'[r] = 1 /\ r \notin unresponse'
               \/ answers'[r] = 0 /\ (r \in unresponse' \/ r \in forgot')
  BY <1>2, <1>6 DEF Answered
<1>8. RequestsKept'
  <2>1. \A d \in Coroutines : co'[d].at \in Idle => session_coroutine_id'[d] = 0
    BY <1>1 DEF Kept, RequestsKept, Idle
  <2>2. \A d, e \in Coroutines :
          session_coroutine_id'[d] # 0 /\ session_coroutine_id'[d] = session_coroutine_id'[e] => d = e
    BY <1>1 DEF Kept, RequestsKept
  <2>3. ASSUME NEW d \in Coroutines, session_coroutine_id'[d] # 0
        PROVE  /\ answers'[session_coroutine_id'[d]] = 0
               /\ session_coroutine_id'[d] \notin unresponse'
               /\ source[session_coroutine_id'[d]] # None
    <3> DEFINE q == session_coroutine_id[d]
    <3>1. d # c /\ session_coroutine_id'[d] = q /\ q # 0
      BY <1>1, <2>3
    <3>2. q # r /\ q \in Requests /\ answers[q] = 0 /\ q \notin unresponse /\ source[q] # None
      BY <3>1 DEF Kept, RequestsKept, ServingTypes, Requests
    <3> HIDE DEF q
    <3> QED BY <1>4, <1>5, <3>1, <3>2
  <2>4. ASSUME NEW q \in unresponse' PROVE answers'[q] = 0 /\ source[q] # None
    <3>1. q \in Requests
      BY <1>3 DEF ServingTypes
    <3>2. CASE q = r
      BY <1>2, <1>6, <1>7, <3>1, <3>2
    <3>3. CASE q # r
      BY <1>4, <1>5, <3>1, <3>3 DEF Kept, RequestsKept
    <3> QED BY <3>2, <3>3
  <2>5. ASSUME NEW q \in Requests
        PROVE  /\ answers'[q] <= 1
               /\ source[q] = None => answers'[q] = 0
               /\ source[q] # None =>
                    \/ \E d \in Coroutines : session_coroutine_id'[d] = q
                    \/ q \in unresponse' \/ q \in forgot' \/ answers'[q] = 1 \/ source[q] \in down
    <3>1. CASE q = r
      BY <1>2, <1>6, <1>7, <3>1
    <3>2. CASE q # r
      <4>1. answers'[q] = answers[q] /\ (q \in unresponse' <=> q \in unresponse)
            /\ (q \in forgot' <=> q \in forgot)
        BY <1>4, <1>5, <3>2
      <4>2. \A d \in Coroutines : session_coroutine_id[d] = q => session_coroutine_id'[d] = q
        BY <1>1, <3>2
      <4> QED BY <4>1, <4>2 DEF Kept, RequestsKept
    <3> QED BY <3>1, <3>2
  <2> QED BY <2>1, <2>2, <2>3, <2>4, <2>5 DEF RequestsKept, Idle
<1> QED BY <1>3, <1>8 DEF Kept

LEMMA CallResponseAnswers ==
  ASSUME Kept, NEW c \in Coroutines, NEW r \in Requests, CallResponse(c, r)
  PROVE  Kept'
<1> USE Atoms
<1>1. /\ r \in unresponse /\ answers' = Answered({r}) /\ unresponse' = unresponse \ {r}
      /\ mode = "run" /\ mode' = mode
      /\ UNCHANGED <<co, session_coroutine_id, source, forgot, down>>
  BY DEF CallResponse, Running
<1>2. \A q \in Requests : answers'[q] = IF q = r THEN answers[q] + 1 ELSE answers[q]
  BY <1>1 DEF Answered
<1>3. ServingTypes'
  <2>1. answers' \in [Requests -> Nat]
    BY <1>1 DEF Kept, ServingTypes, Answered
  <2> QED BY <1>1, <2>1 DEF Kept, ServingTypes
<1>4. answers[r] = 0 /\ source[r] # None /\ \A d \in Coroutines : session_coroutine_id[d] # r
  <2>1. r # 0
    BY DEF Requests
  <2> QED BY <1>1, <2>1 DEF Kept, RequestsKept
<1>5. RequestsKept'
  <2>1. \A d \in Coroutines : session_coroutine_id[d] # 0 =>
          session_coroutine_id[d] \in Requests \ {r}
    BY <1>4 DEF Kept, ServingTypes, Requests
  <2>2. \A d \in Coroutines :
       session_coroutine_id[d] # 0 => /\ answers'[session_coroutine_id[d]] = 0
                                      /\ session_coroutine_id[d] \notin unresponse'
                                      /\ source[session_coroutine_id[d]] # None
    BY <1>1, <1>2, <2>1 DEF Kept, RequestsKept
  <2>3. \A q \in unresponse' : answers'[q] = 0 /\ source[q] # None
    BY <1>1, <1>2 DEF Kept, RequestsKept, ServingTypes
  <2>4. \A q \in Requests :
          /\ answers'[q] <= 1
          /\ source[q] = None => answers'[q] = 0
          /\ source[q] # None =>
               \/ \E d \in Coroutines : session_coroutine_id[d] = q
               \/ q \in unresponse' \/ q \in forgot \/ answers'[q] = 1 \/ source[q] \in down
    BY <1>1, <1>2, <1>4 DEF Kept, RequestsKept
  <2> QED BY <1>1, <2>2, <2>3, <2>4 DEF Kept, RequestsKept
<1> QED BY <1>3, <1>5 DEF Kept

LEMMA RequestArrives ==
  ASSUME SchedulerTypeOK, Kept, NEW r \in Requests, NEW s \in Services, Request(r, s)
  PROVE  Kept'
<1> USE Atoms
<1> DEFINE e == co_create
<1>1. /\ CanCreate /\ source[r] = None /\ source' = [source EXCEPT ![r] = s]
      /\ session_coroutine_id' = [session_coroutine_id EXCEPT ![e] = r]
      /\ mode' = "run" /\ co' = [co EXCEPT ![e] = [at |-> "run", session |-> 0]]
      /\ UNCHANGED <<unresponse, answers, forgot, down>>
  BY DEF Request
<1>2. e \in Coroutines /\ co[e].at = "free"
  BY <1>1, CreateFree
<1> HIDE DEF e
<1>3. session_coroutine_id[e] = 0
  BY <1>2 DEF Kept, RequestsKept
<1>4. \A q \in Requests : source'[q] = IF q = r THEN s ELSE source[q]
  BY <1>1 DEF Kept, ServingTypes
<1>5. \A d \in Coroutines : session_coroutine_id'[d] = IF d = e THEN r ELSE session_coroutine_id[d]
  BY <1>1 DEF Kept, ServingTypes
<1>6. \A d \in Coroutines : co'[d].at = IF d = e THEN "run" ELSE co[d].at
  BY <1>1, <1>2 DEF SchedulerTypeOK
<1>7. ServingTypes'
  <2>1. r \in 0 .. MaxRequest
    BY DEF Requests
  <2> QED BY <1>1, <2>1 DEF Kept, ServingTypes
<1>8. answers[r] = 0 /\ r \notin unresponse /\ \A d \in Coroutines : session_coroutine_id[d] # r
  <2>1. r # 0
    BY DEF Requests
  <2> QED BY <1>1, <2>1 DEF Kept, RequestsKept
<1>9. RequestsKept'
  <2>1. \A d \in Coroutines : co'[d].at \in {"free", "ready", "dead"} => session_coroutine_id'[d] = 0
    BY <1>5, <1>6 DEF Kept, RequestsKept
  <2>2. \A d, f \in Coroutines :
          session_coroutine_id'[d] # 0 /\ session_coroutine_id'[d] = session_coroutine_id'[f] => d = f
    BY <1>5, <1>8 DEF Kept, RequestsKept
  <2>3. ASSUME NEW d \in Coroutines, session_coroutine_id'[d] # 0
        PROVE  /\ answers[session_coroutine_id'[d]] = 0
               /\ session_coroutine_id'[d] \notin unresponse
               /\ source'[session_coroutine_id'[d]] # None
    <3>1. CASE d = e
      BY <1>4, <1>5, <1>8, <3>1
    <3>2. CASE d # e
      <4>1. session_coroutine_id'[d] = session_coroutine_id[d] /\ session_coroutine_id[d] # 0
        BY <1>5, <2>3, <3>2
      <4>2. session_coroutine_id[d] \in Requests \ {r}
        BY <1>8, <4>1 DEF Kept, ServingTypes, Requests
      <4> QED BY <1>4, <4>1, <4>2 DEF Kept, RequestsKept
    <3> QED BY <3>1, <3>2
  <2>4. \A q \in unresponse : answers[q] = 0 /\ source'[q] # None
    BY <1>4, <1>8 DEF Kept, RequestsKept, ServingTypes
  <2>5. ASSUME NEW q \in Requests
        PROVE  /\ answers[q] <= 1
               /\ source'[q] = None => answers[q] = 0
               /\ source'[q] # None =>
                    \/ \E d \in Coroutines : session_coroutine_id'[d] = q
                    \/ q \in unresponse \/ q \in forgot \/ answers[q] = 1 \/ source'[q] \in down
    <3>1. CASE q = r
      BY <1>2, <1>4, <1>5, <1>8, <3>1
    <3>2. CASE q # r
      <4>1. source'[q] = source[q]
        BY <1>4, <3>2
      <4>2. \A d \in Coroutines : session_coroutine_id[d] = q => session_coroutine_id'[d] = q
        <5>1. q # 0
          BY DEF Requests
        <5> QED BY <1>3, <1>5, <5>1
      <4> QED BY <4>1, <4>2 DEF Kept, RequestsKept
    <3> QED BY <3>1, <3>2
  <2> QED BY <1>1, <2>1, <2>2, <2>3, <2>4, <2>5 DEF RequestsKept
<1> QED BY <1>7, <1>9 DEF Kept

\* skynet.exit answers every request that is still with a coroutine or with its
\* response function.
LEMMA ExitAnswers ==
  ASSUME Kept, NEW c \in Coroutines, Exit(c), NEW q \in Requests,
         source[q] \notin down \cup {None}
  PROVE  answers'[q] = 1 \/ q \in forgot
<1> DEFINE R == {session_coroutine_id[d] : d \in Coroutines} \cup unresponse
<1>1. answers'[q] = IF q \in R THEN answers[q] + 1 ELSE answers[q]
  BY DEF Exit, ExitWith, Answered
<1>2. q # 0
  BY DEF Requests
<1>3. q \in R => answers[q] = 0
  BY <1>2 DEF Kept, RequestsKept
<1>4. q \in R \/ q \in forgot \/ answers[q] = 1
  BY DEF Kept, RequestsKept
<1> HIDE DEF R
<1> QED BY <1>1, <1>3, <1>4

LEMMA SourceLeaves ==
  ASSUME Kept, NEW d \in Services, ErrorSource(d)
  PROVE  Kept'
<1>1. /\ mode' = "wakeup" /\ down' = down \cup {d}
      /\ unresponse' = {r \in unresponse : source[r] # d}
      /\ UNCHANGED <<co, session_coroutine_id, source, answers, forgot>>
  BY DEF ErrorSource
<1>2. ServingTypes'
  BY <1>1 DEF Kept, ServingTypes
<1>3. RequestsKept'
  BY <1>1 DEF Kept, RequestsKept
<1> QED BY <1>2, <1>3 DEF Kept

-----------------------------------------------------------------------------
(* Which coroutines a step of the main thread moves.                       *)

\* At most one coroutine is resumed; one in skynet.wait only by its wake-up.
Resumes ==
  /\ \A d \in Coroutines :
       co'[d].at = co[d].at \/ (co[d].at \in {"ready"} \cup Blocked /\ co'[d].at = "run")
  /\ ~doubled => \A d \in Coroutines : co[d].at \in {"wait", "run"} =>
       \/ co'[d].at = co[d].at /\ (d \in ToSet(wakeup_queue') <=> d \in ToSet(wakeup_queue))
       \/ co[d].at = "wait" /\ d \in ToSet(wakeup_queue) /\ co'[d].at = "run"

LEMMA EntryResumed ==
  ASSUME SchedulerTypeOK, failed' = "no", NEW c, NEW sic, ResumeEntry(c, sic)
  PROVE  /\ c \in Coroutines /\ co[c].at \in {"ready"} \cup Blocked /\ mode' = "run"
         /\ \A d \in Coroutines : co'[d].at = IF d = c THEN "run" ELSE co[d].at
<1>1. Suspended(c) /\ Resume(c, sic)
  BY DEF ResumeEntry
<1>2. c \in Coroutines /\ co[c].at \in {"ready"} \cup Blocked
  BY <1>1 DEF Suspended, Blocked
<1>3. mode' = "run" /\ co' = [co EXCEPT ![c] = [at |-> "run", session |-> 0]]
  BY <1>1 DEF Resume
<1>4. \A d \in Coroutines : co'[d].at = IF d = c THEN "run" ELSE co[d].at
  BY <1>2, <1>3 DEF SchedulerTypeOK
<1> QED BY <1>2, <1>3, <1>4

LEMMA WakeupResumes ==
  ASSUME SchedulerInv, failed' = "no", DispatchWakeup
  PROVE  Resumes
<1>1. CASE wakeup_queue = <<>>
  BY <1>1 DEF DispatchWakeup, Resumes
<1>2. CASE wakeup_queue # <<>>
  <2> DEFINE c == Head(wakeup_queue)
  <2>1. wakeup_queue' = Tail(wakeup_queue)
    BY <1>2 DEF DispatchWakeup
  <2>2. /\ c \in Coroutines /\ c \in ToSet(wakeup_queue)
        /\ \A d : d # c => (d \in ToSet(wakeup_queue') <=> d \in ToSet(wakeup_queue))
    <3>1. wakeup_queue \in Seq(Coroutines)
      BY SameQueue
    <3> QED BY <1>2, <2>1, <3>1, TailQueue
  <2>3. CASE sleep_session[c] = 0
    <3>1. mode' = "error" /\ co' = co
      BY <1>2, <2>3 DEF DispatchWakeup
    <3>2. doubled
      BY <2>2, <2>3 DEF SchedulerInv, WakeupsSleep
    <3> QED BY <3>1, <3>2 DEF Resumes
  <2>4. CASE sleep_session[c] # 0
    <3> DEFINE s0 == sleep_session[c]
               sic == [session_id_coroutine EXCEPT ![s0] = "BREAK"]
    <3>1. ResumeEntry(session_id_coroutine[s0], sic)
      BY <1>2, <2>4 DEF DispatchWakeup
    <3> HIDE DEF sic, c
    <3>2. session_id_coroutine[s0] = c /\ co[c].at \in {"sleep", "wait"}
      BY <2>2, <2>4 DEF SchedulerInv, Bound, Blocked
    <3>3. /\ co[c].at \in {"ready"} \cup Blocked /\ mode' = "run"
          /\ \A d \in Coroutines : co'[d].at = IF d = c THEN "run" ELSE co[d].at
      BY <3>1, <3>2, EntryResumed DEF SchedulerInv
    <3> QED BY <2>2, <3>2, <3>3 DEF Resumes
  <2> QED BY <2>3, <2>4
<1> QED BY <1>1, <1>2

LEMMA ErrorQueueResumes ==
  ASSUME SchedulerInv, failed' = "no", DispatchErrorQueue
  PROVE  Resumes
<1>1. wakeup_queue' = wakeup_queue
  BY DEF DispatchErrorQueue
<1>2. CASE error_queue = <<>>
  BY <1>1, <1>2 DEF DispatchErrorQueue, Resumes
<1>3. CASE error_queue # <<>>
  <2> DEFINE s0 == Head(error_queue)
             c == session_id_coroutine[s0]
             sic == [session_id_coroutine EXCEPT ![s0] = None]
  <2>1. ResumeEntry(c, sic)
    BY <1>3 DEF DispatchErrorQueue
  <2>2. s0 \in ToSet(error_queue)
    BY <1>3, SameQueue, TailQueue
  <2> HIDE DEF s0
  <2>3. co[c].at = "call"
    <3>1. Calls(s0)
      BY <2>2 DEF SchedulerInv, ErrorsWait
    <3> QED BY <3>1 DEF Calls
  <2> HIDE DEF c, sic
  <2>4. /\ co[c].at \in {"ready"} \cup Blocked /\ mode' = "run"
        /\ \A d \in Coroutines : co'[d].at = IF d = c THEN "run" ELSE co[d].at
    BY <2>1, EntryResumed DEF SchedulerInv
  <2> QED BY <1>1, <2>3, <2>4 DEF Resumes
<1> QED BY <1>2, <1>3

LEMMA ForkResumes ==
  ASSUME SchedulerInv, failed' = "no", DispatchFork
  PROVE  Resumes
<1> USE Atoms
<1>1. wakeup_queue' = wakeup_queue
  BY DEF DispatchFork
<1>2. CASE fork_queue = <<>> \/ Head(fork_queue) = "EMPTY"
  <2>1. co' = co
    BY <1>2 DEF DispatchFork
  <2> QED BY <1>1, <2>1 DEF Resumes
<1>3. CASE fork_queue # <<>> /\ Head(fork_queue) # "EMPTY"
  <2> DEFINE c == Head(fork_queue)
  <2>1. ResumeEntry(c, session_id_coroutine)
    BY <1>3 DEF DispatchFork
  <2>2. c \in ToSet(fork_queue)
    BY <1>3, SameQueue, TailQueue
  <2>3. co[c].at = "ready"
    BY <1>3, <2>2 DEF SchedulerInv, ForksReady
  <2> HIDE DEF c
  <2>4. /\ co[c].at \in {"ready"} \cup Blocked /\ mode' = "run"
        /\ \A d \in Coroutines : co'[d].at = IF d = c THEN "run" ELSE co[d].at
    BY <2>1, EntryResumed DEF SchedulerInv
  <2> QED BY <1>1, <2>3, <2>4 DEF Resumes
<1> QED BY <1>2, <1>3

LEMMA ResponseResumes ==
  ASSUME SchedulerInv, failed' = "no", NEW s \in Sessions, Response(s)
  PROVE  Resumes
<1> DEFINE c == session_id_coroutine[s]
           sic == [session_id_coroutine EXCEPT ![s] = None]
<1>1. mode = "idle" /\ wakeup_queue' = wakeup_queue /\ coming[s] # None
  BY DEF Response, queues
<1>2. CASE c = "BREAK"
  <2>1. co' = co /\ mode' = mode
    BY <1>2 DEF Response
  <2> QED BY <1>1, <2>1 DEF Resumes
<1>3. CASE c # "BREAK"
  <2>1. ResumeEntry(c, sic)
    BY <1>3 DEF Response
  <2> HIDE DEF sic
  <2>2. /\ c \in Coroutines /\ co[c].at \in {"ready"} \cup Blocked /\ mode' = "run"
        /\ \A d \in Coroutines : co'[d].at = IF d = c THEN "run" ELSE co[d].at
    BY <2>1, EntryResumed DEF SchedulerInv
  <2>3. co[c].at # "wait"
    <3>1. SUFFICES ASSUME co[c].at = "wait" PROVE FALSE
      OBVIOUS
    <3>2. co[c].session = s
      BY <2>2, <3>1 DEF SchedulerInv, Held, HeldFor
    <3>3. coming[s] = None
      BY <2>2, <3>1, <3>2 DEF SchedulerInv, Bound
    <3> QED BY <1>1, <3>3
  <2> HIDE DEF c
  <2> QED BY <1>1, <2>2, <2>3 DEF Resumes, Blocked
<1> QED BY <1>2, <1>3

\* The main thread leaves the requests and the section as they are.
LEMMA MachineStep ==
  ASSUME SchedulerInv, Machine
  PROVE  /\ SchedulerInv' /\ Resumes
         /\ UNCHANGED <<serving, down, doubled>>
<1>1. CASE DispatchWakeup
  <2>1. SchedulerInv'
    BY <1>1, DispatchWakeupKeeps
  <2> QED BY <1>1, <2>1, WakeupResumes DEF SchedulerInv, DispatchWakeup
<1>2. CASE DispatchErrorQueue
  <2>1. SchedulerInv'
    BY <1>2, DispatchErrorQueueKeeps
  <2> QED BY <1>2, <2>1, ErrorQueueResumes DEF SchedulerInv, DispatchErrorQueue
<1>3. CASE DispatchFork
  <2>1. SchedulerInv'
    BY <1>3, DispatchForkKeeps
  <2> QED BY <1>3, <2>1, ForkResumes DEF SchedulerInv, DispatchFork
<1> QED BY <1>1, <1>2, <1>3 DEF Machine

LEMMA ResumesKept ==
  ASSUME Kept, Resumes, UNCHANGED <<serving, down>>
  PROVE  Kept'
<1>1. NoneEnds
  BY DEF Resumes, NoneEnds, Idle
<1> QED BY <1>1, ServingSame

-----------------------------------------------------------------------------
(* The section.                                                            *)

SectionTypes ==
  /\ current_thread \in Coroutines \cup {None} /\ ref \in 0 .. MaxRef
  /\ thread_queue \in Seq(Coroutines)
  /\ inside \in [Coroutines -> Nat]
  /\ waiting \in [Coroutines -> BOOLEAN] /\ broken \subseteq Coroutines

SectionInv == SectionTypes /\ Counted /\ Queued

\* Steps that leave the section alone keep it when its holder does not end and a
\* waiter moves only by its wake-up.
LEMMA SectionSame ==
  ASSUME SectionInv, UNCHANGED qvars, ~doubled' => ~doubled,
         \A d \in Coroutines : inside[d] > 0 /\ co[d].at \in {"run"} \cup Blocked =>
           co'[d].at \in {"run"} \cup Blocked,
         ~doubled' => \A d \in Coroutines : waiting[d] /\ co[d].at \in {"wait", "run"} =>
           \/ co'[d].at = co[d].at /\ (d \in ToSet(wakeup_queue') <=> d \in ToSet(wakeup_queue))
           \/ co[d].at = "wait" /\ d \in ToSet(wakeup_queue) /\ co'[d].at = "run"
  PROVE  SectionInv'
<1>1. UNCHANGED <<current_thread, ref, thread_queue, inside, waiting, broken>>
  BY DEF qvars
<1>2. SectionTypes'
  BY <1>1 DEF SectionInv, SectionTypes
<1>3. Counted'
  BY <1>1 DEF SectionInv, Counted
<1>4. ToSet(thread_queue) \subseteq Coroutines
  BY Elements DEF SectionInv, SectionTypes
<1>5. Queued'
  <2> SUFFICES ASSUME ~doubled' PROVE Queued'
    BY DEF Queued
  <2>1. ~doubled /\ Queued
    BY DEF SectionInv
  <2>2. \A c \in ToSet(thread_queue) :
          /\ waiting[c] /\ co'[c].at = "wait" /\ c # current_thread
          /\ c \notin ToSet(wakeup_queue')
    BY <1>4, <2>1 DEF Queued
  <2>3. \A c \in Coroutines :
          waiting[c] /\ c \notin ToSet(thread_queue) =>
            /\ current_thread = c /\ ref = 0
            /\ (co'[c].at = "wait" /\ c \in ToSet(wakeup_queue')) \/ co'[c].at = "run"
    BY <2>1 DEF Queued
  <2> QED BY <1>1, <2>1, <2>2, <2>3 DEF Queued
<1> QED BY <1>2, <1>3, <1>5 DEF SectionInv

LEMMA ResumesSection ==
  ASSUME SectionInv, Resumes, UNCHANGED <<qvars, doubled>>
  PROVE  SectionInv'
<1>1. \A d \in Coroutines : inside[d] > 0 /\ co[d].at \in {"run"} \cup Blocked =>
        co'[d].at \in {"run"} \cup Blocked
  BY DEF Resumes
<1>2. ~doubled' => \A d \in Coroutines : waiting[d] /\ co[d].at \in {"wait", "run"} =>
        \/ co'[d].at = co[d].at /\ (d \in ToSet(wakeup_queue') <=> d \in ToSet(wakeup_queue))
        \/ co[d].at = "wait" /\ d \in ToSet(wakeup_queue) /\ co'[d].at = "run"
  BY DEF Resumes
<1>3. UNCHANGED qvars /\ (~doubled' => ~doubled)
  OBVIOUS
<1> QED BY <1>1, <1>2, <1>3, SectionSame

\* The running coroutine does something outside of the section.
LEMMA RunningSection ==
  ASSUME SchedulerInv, SectionInv, NEW c \in Coroutines, Running(c), ~waiting[c],
         UNCHANGED qvars, ~doubled' => ~doubled,
         \A d \in Coroutines : d # c => co'[d].at = co[d].at \/ co[d].at = "free",
         co'[c].at \in {"run"} \cup Blocked \/ inside[c] = 0,
         \A d \in Coroutines : waiting[d] =>
           (d \in ToSet(wakeup_queue') <=> d \in ToSet(wakeup_queue))
  PROVE  SectionInv'
<1>1. co[c].at = "run"
  BY RunningAt
<1>2. ASSUME NEW d \in Coroutines, inside[d] > 0, co[d].at \in {"run"} \cup Blocked
      PROVE  co'[d].at \in {"run"} \cup Blocked
  <2>1. CASE d = c
    BY <1>2, <2>1 DEF SectionInv, SectionTypes
  <2>2. CASE d # c
    BY <1>2, <2>2 DEF Blocked
  <2> QED BY <2>1, <2>2
<1>3. \A d \in Coroutines : waiting[d] /\ co[d].at \in {"wait", "run"} =>
        co'[d].at = co[d].at /\ (d \in ToSet(wakeup_queue') <=> d \in ToSet(wakeup_queue))
  OBVIOUS
<1> QED BY <1>2, <1>3, SectionSame

-----------------------------------------------------------------------------
(* One step keeps the scheduler, the requests and the section.             *)

IInv == SchedulerInv /\ Kept /\ SectionInv

\* A running coroutine yields, or creates another one; no request is touched.
LEMMA YieldStep ==
  ASSUME IInv, SchedulerInv', NEW c \in Coroutines, Running(c), ~waiting[c], UNCHANGED qvars,
         UNCHANGED <<serving, down, doubled, wakeup_queue>>,
         NEW x \in Coroutines, NEW v,
         \/ x = c /\ v.at \in Blocked
         \/ co[x].at = "free" /\ v.at = "ready",
         co' = [co EXCEPT ![x] = v]
  PROVE  IInv'
<1>1. \A d \in Coroutines : co'[d] = IF d = x THEN v ELSE co[d]
  BY DEF IInv, SchedulerInv, SchedulerTypeOK
<1>2. co[c].at = "run"
  BY RunningAt DEF IInv
<1>3. NoneEnds
  BY <1>1, <1>2 DEF NoneEnds, Idle, Blocked
<1>4. Kept'
  BY <1>3, ServingSame DEF IInv
<1>5. SectionInv'
  <2>1. \A d \in Coroutines : d # c => co'[d].at = co[d].at \/ co[d].at = "free"
    BY <1>1
  <2>2. co'[c].at \in {"run"} \cup Blocked
    BY <1>1, <1>2
  <2>3. /\ ~doubled' => ~doubled
        /\ \A d \in Coroutines : d \in ToSet(wakeup_queue') <=> d \in ToSet(wakeup_queue)
    OBVIOUS
  <2> QED BY <2>1, <2>2, <2>3, RunningSection DEF IInv
<1> QED BY <1>4, <1>5 DEF IInv

\* A running coroutine answers, or ends outside of the section.
LEMMA AnswerStep ==
  ASSUME IInv, SchedulerInv', Kept', NEW c \in Coroutines, Running(c), ~waiting[c],
         UNCHANGED qvars, UNCHANGED <<doubled, wakeup_queue>>,
         \A d \in Coroutines : d # c => co'[d].at = co[d].at,
         co'[c].at = co[c].at \/ inside[c] = 0
  PROVE  IInv'
<1>1. co[c].at = "run"
  BY RunningAt DEF IInv
<1>2. co'[c].at \in {"run"} \cup Blocked \/ inside[c] = 0
  BY <1>1
<1>3. /\ ~doubled' => ~doubled
      /\ \A d \in Coroutines : d \in ToSet(wakeup_queue') <=> d \in ToSet(wakeup_queue)
      /\ \A d \in Coroutines : d # c => co'[d].at = co[d].at \/ co[d].at = "free"
  OBVIOUS
<1>4. SectionInv'
  BY <1>2, <1>3, RunningSection DEF IInv
<1> QED BY <1>4 DEF IInv

LEMMA YieldSteps ==
  ASSUME IInv, NEW c \in Coroutines, ~waiting[c], UNCHANGED qvars,
         (\E d \in Services : Call(c, d)) \/ Sleep(c) \/ Wait(c) \/ Fork(c) \/ Timeout(c)
  PROVE  IInv'
<1>1. CASE \E d \in Services : Call(c, d)
  <2>1. PICK d \in Services : Call(c, d)
    BY <1>1
  <2>2. SchedulerInv'
    BY <2>1, CallKeeps DEF IInv
  <2> DEFINE v == [at |-> "call", session |-> NewSession]
  <2>3. /\ Running(c) /\ co' = [co EXCEPT ![c] = v]
        /\ UNCHANGED <<serving, down, doubled, wakeup_queue>>
    BY <2>1 DEF Call, queues
  <2>4. v.at \in Blocked
    BY DEF Blocked
  <2> HIDE DEF v
  <2> QED BY <2>2, <2>3, <2>4, YieldStep
<1>2. CASE Sleep(c) \/ Wait(c)
  <2>1. PICK a, m : /\ SuspendSleep(c, a, m)
                    /\ (a = "sleep" /\ m = "timer") \/ (a = "wait" /\ m = None)
    BY <1>2 DEF Sleep, Wait
  <2>2. SchedulerInv'
    BY <2>1, SuspendSleepKeeps DEF IInv
  <2> DEFINE v == [at |-> a, session |-> NewSession]
  <2>3. /\ Running(c) /\ co' = [co EXCEPT ![c] = v]
        /\ UNCHANGED <<serving, down, doubled, wakeup_queue>>
    BY <2>1 DEF SuspendSleep, queues
  <2>4. v.at \in Blocked
    BY <2>1 DEF Blocked
  <2> HIDE DEF v
  <2> QED BY <2>2, <2>3, <2>4, YieldStep
<1>3. CASE Fork(c) \/ Timeout(c)
  <2>1. SchedulerInv'
    BY <1>3, ForkKeeps, TimeoutKeeps DEF IInv
  <2> DEFINE v == [at |-> "ready", session |-> 0]
             e == co_create
  <2>2. /\ Running(c) /\ CanCreate /\ co' = [co EXCEPT ![e] = v] /\ mode' = mode
        /\ UNCHANGED <<serving, down, doubled, wakeup_queue>>
    BY <1>3 DEF Fork, Timeout, Created, queues
  <2>3. e \in Coroutines /\ co[e].at = "free"
    BY <2>2, CreateFree
  <2>4. v.at = "ready"
    OBVIOUS
  <2> HIDE DEF v, e
  <2> QED BY <2>1, <2>2, <2>3, <2>4, YieldStep
<1> QED BY <1>1, <1>2, <1>3

LEMMA WakeupStep ==
  ASSUME IInv, NEW c \in Coroutines, ~waiting[c], UNCHANGED qvars,
         NEW t \in Coroutines, ~waiting[t], Wakeup(c, t)
  PROVE  IInv'
<1>1. /\ Running(c) /\ mode = "run" /\ WakeupEffect(t)
      /\ UNCHANGED <<mode, run, co, session, tables, error_queue, fork_queue, coming,
                     serving, down, failed>>
  BY DEF Wakeup, Running
<1>2. SchedulerInv'
  BY <1>1, WakeupKeeps DEF IInv
<1>3. Kept'
  <2>1. NoneEnds
    BY <1>1 DEF NoneEnds
  <2> QED BY <1>1, <2>1, ServingSame DEF IInv
<1>4. /\ ~doubled' => ~doubled
      /\ \A d \in Coroutines : waiting[d] =>
           (d \in ToSet(wakeup_queue') <=> d \in ToSet(wakeup_queue))
  <2>1. CASE sleep_session[t] # 0
    <3>1. /\ wakeup_queue' = Append(wakeup_queue, t)
          /\ doubled' = (doubled \/ t \in ToSet(wakeup_queue))
      BY <1>1, <2>1 DEF WakeupEffect
    <3>2. wakeup_queue \in Seq(Coroutines)
      BY SameQueue DEF IInv
    <3>3. ToSet(wakeup_queue') = ToSet(wakeup_queue) \cup {t}
      BY <3>1, <3>2, AppendQueue
    <3> QED BY <3>1, <3>3
  <2>2. CASE sleep_session[t] = 0
    BY <1>1, <2>2 DEF WakeupEffect
  <2> QED BY <2>1, <2>2
<1>5. SectionInv'
  <2>1. co[c].at = "run"
    BY <1>1, RunningAt DEF IInv
  <2>2. /\ \A d \in Coroutines : d # c => co'[d].at = co[d].at \/ co[d].at = "free"
        /\ co'[c].at \in {"run"} \cup Blocked \/ inside[c] = 0
    BY <1>1, <2>1
  <2> QED BY <1>1, <1>4, <2>2, RunningSection DEF IInv
<1> QED BY <1>2, <1>3, <1>5 DEF IInv

LEMMA AnswerSteps ==
  ASSUME IInv, NEW c \in Coroutines, ~waiting[c], UNCHANGED qvars,
         Ret(c) \/ TakeResponse(c) \/ \E r \in Requests : CallResponse(c, r)
  PROVE  IInv'
<1> DEFINE r == session_coroutine_id[c]
<1>1. /\ Running(c) /\ mode' = "run"
      /\ UNCHANGED <<mode, run, co, session, tables, queues, coming, down, doubled, failed>>
  BY DEF Ret, RetWith, TakeResponse, CallResponse, Running
<1>2. \A d \in Coroutines : d # c /\ co'[d].at \in Idle => co[d].at \in Idle
  BY <1>1
<1>3. Kept'
  <2>1. CASE Ret(c)
    <3>1. /\ session_coroutine_id' = [session_coroutine_id EXCEPT ![c] = 0]
          /\ r # 0 /\ answers' = Answered({r})
          /\ source' = source /\ down' = down /\ UNCHANGED <<unresponse, forgot>>
      BY <1>1, <2>1 DEF Ret, RetWith
    <3>2. {r} = {r} \ {0}
      BY <3>1
    <3> HIDE DEF r
    <3>3. answers' = Answered({r} \ {0}) /\ r = session_coroutine_id[c]
      BY <3>1, <3>2 DEF r
    <3> QED BY <1>2, <3>1, <3>3, RequestLeaves DEF IInv
  <2>2. CASE TakeResponse(c)
    <3>1. /\ session_coroutine_id' = [session_coroutine_id EXCEPT ![c] = 0]
          /\ r # 0 /\ unresponse' = unresponse \cup {r}
          /\ source' = source /\ down' = down /\ UNCHANGED <<answers, forgot>>
      BY <1>1, <2>2 DEF TakeResponse
    <3>2. unresponse' = unresponse \cup ({r} \ {0})
      BY <3>1
    <3> HIDE DEF r
    <3>3. r = session_coroutine_id[c]
      BY DEF r
    <3> QED BY <1>2, <3>1, <3>2, <3>3, RequestLeaves DEF IInv
  <2>3. CASE \E q \in Requests : CallResponse(c, q)
    BY <2>3, CallResponseAnswers DEF IInv
  <2> QED BY <2>1, <2>2, <2>3
<1>4. SchedulerInv'
  BY <1>1, <1>3, StillKeeps DEF IInv, Kept
<1>5. UNCHANGED <<doubled, wakeup_queue>> /\ \A d \in Coroutines : co'[d].at = co[d].at
  BY <1>1 DEF queues
<1> QED BY <1>1, <1>3, <1>4, <1>5, AnswerStep

LEMMA EndSteps ==
  ASSUME IInv, NEW c \in Coroutines, Return(c) \/ Raise(c)
  PROVE  /\ SchedulerInv' /\ Kept' /\ UNCHANGED <<doubled, wakeup_queue>>
         /\ \A d \in Coroutines : d # c => co'[d].at = co[d].at
<1> DEFINE r == session_coroutine_id[c]
<1>1. \A d \in Coroutines : d # c => co'[d].at = co[d].at
  BY DEF Return, Raise, RaiseWith, IInv, SchedulerInv, SchedulerTypeOK
<1>2. UNCHANGED <<doubled, wakeup_queue>>
  BY DEF Return, Raise, RaiseWith, queues
<1>3. \A d \in Coroutines : d # c /\ co'[d].at \in Idle => co[d].at \in Idle
  BY <1>1
<1>4. /\ session_coroutine_id' = [session_coroutine_id EXCEPT ![c] = 0]
      /\ source' = source /\ down' = down
      /\ \/ answers' = Answered({r} \ {0}) /\ UNCHANGED <<unresponse, forgot>>
         \/ forgot' = forgot \cup ({r} \ {0}) /\ UNCHANGED <<answers, unresponse>>
  BY DEF Return, Raise, RaiseWith
<1>5. Kept'
  <2>1. r = session_coroutine_id[c]
    OBVIOUS
  <2> HIDE DEF r
  <2> QED BY <1>2, <1>3, <1>4, <2>1, RequestLeaves DEF IInv
<1>6. SchedulerInv'
  BY <1>5, ReturnKeeps, RaiseKeeps DEF IInv, Kept
<1> QED BY <1>1, <1>2, <1>5, <1>6

LEMMA ApplicationStep ==
  ASSUME IInv, NEW c \in Coroutines, Application(c)
  PROVE  IInv'
<1>1. ~waiting[c] /\ UNCHANGED qvars
  BY DEF Application
<1>2. CASE (\E d \in Services : Call(c, d)) \/ Sleep(c) \/ Wait(c) \/ Fork(c) \/ Timeout(c)
  BY <1>1, <1>2, YieldSteps
<1>3. CASE \E t \in Coroutines : ~waiting[t] /\ Wakeup(c, t)
  BY <1>1, <1>3, WakeupStep
<1>4. CASE Ret(c) \/ TakeResponse(c) \/ \E r \in Requests : CallResponse(c, r)
  BY <1>1, <1>4, AnswerSteps
<1>5. CASE inside[c] = 0 /\ (Return(c) \/ Raise(c))
  <2>1. Running(c)
    BY <1>5 DEF Return, Raise, RaiseWith
  <2>2. /\ SchedulerInv' /\ Kept' /\ UNCHANGED <<doubled, wakeup_queue>>
        /\ \A d \in Coroutines : d # c => co'[d].at = co[d].at
    BY <1>5, EndSteps
  <2> QED BY <1>1, <1>5, <2>1, <2>2, AnswerStep
<1> QED BY <1>2, <1>3, <1>4, <1>5 DEF Application

LEMMA MessageStep ==
  ASSUME IInv, Message, UNCHANGED qvars
  PROVE  IInv'
<1>1. ASSUME NEW r \in Requests, NEW s \in Services, Request(r, s) PROVE IInv'
  <2>1. Kept'
    BY <1>1, RequestArrives DEF IInv, SchedulerInv
  <2>2. SchedulerInv'
    BY <1>1, <2>1, RequestKeeps DEF IInv, Kept
  <2> DEFINE e == co_create
  <2>3. /\ CanCreate /\ co' = [co EXCEPT ![e] = [at |-> "run", session |-> 0]]
        /\ UNCHANGED <<wakeup_queue, doubled>>
    BY <1>1 DEF Request, queues
  <2>4. e \in Coroutines /\ co[e].at = "free"
    BY <2>3, CreateFree
  <2> HIDE DEF e
  <2>5. \A d \in Coroutines : co[d].at # "free" => co'[d].at = co[d].at
    BY <2>3, <2>4 DEF IInv, SchedulerInv, SchedulerTypeOK
  <2>6. /\ \A d \in Coroutines : inside[d] > 0 /\ co[d].at \in {"run"} \cup Blocked =>
             co'[d].at \in {"run"} \cup Blocked
        /\ \A d \in Coroutines : waiting[d] /\ co[d].at \in {"wait", "run"} =>
             /\ co'[d].at = co[d].at
             /\ d \in ToSet(wakeup_queue') <=> d \in ToSet(wakeup_queue)
        /\ ~doubled' => ~doubled
    BY <2>3, <2>5 DEF Blocked
  <2>7. SectionInv'
    BY <2>6, SectionSame DEF IInv
  <2> QED BY <2>1, <2>2, <2>7 DEF IInv
<1>2. ASSUME NEW s \in Sessions, Response(s) PROVE IInv'
  <2>1. SchedulerInv'
    BY <1>2, ResponseKeeps DEF IInv
  <2>2. Resumes
    BY <1>2, <2>1, ResponseResumes DEF IInv, SchedulerInv
  <2>3. UNCHANGED <<serving, down, doubled>>
    BY <1>2 DEF Response
  <2> QED BY <2>1, <2>2, <2>3, ResumesKept, ResumesSection DEF IInv
<1>3. ASSUME NEW s \in Sessions, ErrorSession(s) PROVE IInv'
  <2>1. SchedulerInv'
    BY <1>3, ErrorSessionKeeps DEF IInv
  <2>2. UNCHANGED <<serving, down, doubled, co, wakeup_queue>>
    BY <1>3 DEF ErrorSession
  <2>3. Resumes
    BY <2>2 DEF Resumes
  <2> QED BY <2>1, <2>2, <2>3, ResumesKept, ResumesSection DEF IInv
<1>4. ASSUME NEW d \in Services, ErrorSource(d) PROVE IInv'
  <2>1. SchedulerInv'
    BY <1>4, ErrorSourceKeeps DEF IInv
  <2>2. Kept'
    BY <1>4, SourceLeaves DEF IInv
  <2>3. UNCHANGED <<doubled, co, wakeup_queue>>
    BY <1>4 DEF ErrorSource
  <2>4. Resumes
    BY <2>3 DEF Resumes
  <2> QED BY <2>1, <2>2, <2>3, <2>4, ResumesSection DEF IInv
<1> QED BY <1>1, <1>2, <1>3, <1>4 DEF Message

LEMMA MainThreadStep ==
  ASSUME IInv, Machine, UNCHANGED qvars
  PROVE  IInv'
<1>1. SchedulerInv' /\ Resumes /\ UNCHANGED <<serving, down, doubled>>
  BY MachineStep DEF IInv
<1> QED BY <1>1, ResumesKept, ResumesSection DEF IInv

LEMMA StillStep ==
  ASSUME IInv, UNCHANGED svars
  PROVE  SchedulerInv' /\ Kept'
<1>1. /\ UNCHANGED <<mode, run, co, session, tables, queues, coming, down, doubled, failed>>
      /\ UNCHANGED serving
  BY DEF svars
<1>2. NoneEnds
  BY <1>1 DEF NoneEnds
<1>3. Kept'
  BY <1>1, <1>2, ServingSame DEF IInv
<1> QED BY <1>1, <1>3, StillKeeps DEF IInv, Kept

LEMMA EnterStep ==
  ASSUME IInv, NEW c \in Coroutines, Enter(c)
  PROVE  IInv'
<1> USE Atoms
<1>1. /\ Running(c) /\ ~waiting[c] /\ current_thread \in {None, c} /\ ref < MaxRef
      /\ current_thread' = c /\ ref' = ref + 1
      /\ inside' = [inside EXCEPT ![c] = @ + 1]
      /\ UNCHANGED <<svars, thread_queue, waiting, broken>>
  BY DEF Enter
<1>2. UNCHANGED <<co, wakeup_queue, doubled>>
  BY <1>1 DEF svars, queues
<1>3. SchedulerInv' /\ Kept'
  BY <1>1, StillStep
<1>4. SectionTypes
  BY DEF IInv, SectionInv
<1>5. \A d \in Coroutines : inside'[d] = IF d = c THEN inside[c] + 1 ELSE inside[d]
  BY <1>1, <1>4 DEF SectionTypes
<1>6. SectionTypes'
  BY <1>1, <1>4, QueueAssumption DEF SectionTypes
<1>7. inside[c] = ref /\ \A d \in Coroutines : d # c => inside[d] = 0
  BY <1>1, <1>4 DEF IInv, SectionInv, Counted, SectionTypes
<1>8. co[c].at = "run"
  BY <1>1, RunningAt DEF IInv
<1>9. Counted'
  BY <1>1, <1>2, <1>4, <1>5, <1>7, <1>8 DEF IInv, SectionInv, Counted, SectionTypes
<1>10. Queued'
  <2> SUFFICES ASSUME ~doubled PROVE Queued'
    BY <1>2 DEF Queued
  <2>1. \A d \in Coroutines : waiting[d] => d \in ToSet(thread_queue)
    BY <1>1 DEF IInv, SectionInv, Queued
  <2>2. \A d \in ToSet(thread_queue) : d # c
    BY <1>1 DEF IInv, SectionInv, Queued
  <2>3. ref' # 0
    BY <1>1, <1>4 DEF SectionTypes
  <2> QED BY <1>1, <1>2, <2>1, <2>2, <2>3 DEF IInv, SectionInv, Queued
<1> QED BY <1>3, <1>6, <1>9, <1>10 DEF IInv, SectionInv

LEMMA EnterWaitStep ==
  ASSUME IInv, NEW c \in Coroutines, EnterWait(c)
  PROVE  IInv'
<1> USE Atoms
<1>1. /\ ~waiting[c] /\ current_thread \notin {None, c} /\ SuspendSleep(c, "wait", None)
      /\ thread_queue' = Append(thread_queue, c)
      /\ waiting' = [waiting EXCEPT ![c] = TRUE]
      /\ UNCHANGED <<current_thread, ref, inside, broken>>
  BY DEF EnterWait, Wait
<1>2. /\ Running(c) /\ mode' = "wakeup"
      /\ co' = [co EXCEPT ![c] = [at |-> "wait", session |-> NewSession]]
      /\ UNCHANGED <<serving, down, doubled, wakeup_queue>>
  BY <1>1 DEF SuspendSleep, queues
<1>3. SchedulerInv'
  BY <1>1, SuspendSleepKeeps DEF IInv
<1>4. co[c].at = "run"
  BY <1>2, RunningAt DEF IInv
<1>5. \A d \in Coroutines : co'[d].at = IF d = c THEN "wait" ELSE co[d].at
  BY <1>2 DEF IInv, SchedulerInv, SchedulerTypeOK
<1>6. Kept'
  <2>1. NoneEnds
    BY <1>5 DEF NoneEnds, Idle
  <2> QED BY <1>2, <2>1, ServingSame DEF IInv
<1>7. SectionTypes
  BY DEF IInv, SectionInv
<1>8. /\ thread_queue' \in Seq(Coroutines) /\ ToSet(thread_queue') = ToSet(thread_queue) \cup {c}
      /\ (OnceIn(thread_queue, Coroutines) /\ c \notin ToSet(thread_queue)) =>
           OnceIn(thread_queue', Coroutines)
  BY <1>1, <1>7, AppendQueue DEF SectionTypes
<1>9. SectionTypes'
  BY <1>1, <1>7, <1>8 DEF SectionTypes
<1>10. \A d \in Coroutines : waiting'[d] = IF d = c THEN TRUE ELSE waiting[d]
  BY <1>1, <1>7 DEF SectionTypes
<1>11. inside[c] = 0
  BY <1>1, <1>7 DEF IInv, SectionInv, Counted, SectionTypes
<1>12. Counted'
  BY <1>1, <1>5, <1>10, <1>11 DEF IInv, SectionInv, Counted, Blocked
<1>13. Queued'
  <2> SUFFICES ASSUME ~doubled PROVE Queued'
    BY <1>2 DEF Queued
  <2>1. Queued
    BY DEF IInv, SectionInv
  <2>2. ToSet(thread_queue) \subseteq Coroutines /\ c \notin ToSet(thread_queue)
    <3>1. c \notin ToSet(thread_queue)
      BY <1>1, <2>1 DEF Queued
    <3> QED BY <1>7, <3>1, Elements DEF SectionTypes
  <2>3. c \notin ToSet(wakeup_queue)
    <3>1. sleep_session[c] = 0
      BY <1>4 DEF IInv, SchedulerInv, Bound
    <3> QED BY <3>1 DEF IInv, SchedulerInv, WakeupsSleep
  <2>4. \A d \in ToSet(thread_queue') :
          /\ waiting'[d] /\ co'[d].at = "wait" /\ d # current_thread
          /\ d \notin ToSet(wakeup_queue)
    BY <1>1, <1>5, <1>8, <1>10, <2>1, <2>2, <2>3 DEF Queued
  <2>5. \A d \in Coroutines :
          waiting'[d] /\ d \notin ToSet(thread_queue') =>
            /\ current_thread = d /\ ref = 0
            /\ (co'[d].at = "wait" /\ d \in ToSet(wakeup_queue)) \/ co'[d].at = "run"
    BY <1>5, <1>8, <1>10, <2>1 DEF Queued
  <2>6. current_thread # None /\ ref = 0 => waiting'[current_thread]
    BY <1>7, <1>10, <2>1 DEF Queued, SectionTypes
  <2> QED BY <1>1, <1>2, <1>8, <2>1, <2>2, <2>4, <2>5, <2>6 DEF Queued
<1> QED BY <1>3, <1>6, <1>9, <1>12, <1>13 DEF IInv, SectionInv

LEMMA EnterWokenStep ==
  ASSUME IInv, NEW c \in Coroutines, EnterWoken(c)
  PROVE  IInv'
<1> USE Atoms
<1>1. /\ Running(c) /\ waiting[c] /\ waiting' = [waiting EXCEPT ![c] = FALSE]
      /\ thread_queue' = thread_queue
  BY DEF EnterWoken
<1>2. SectionTypes /\ Counted /\ Queued
  BY DEF IInv, SectionInv
<1>3. \A d \in Coroutines : waiting'[d] <=> d # c /\ waiting[d]
  BY <1>1, <1>2 DEF SectionTypes
<1>4. co[c].at = "run" /\ inside[c] = 0
  BY <1>1, <1>2, RunningAt DEF IInv, Counted
<1>5. ~doubled => /\ c \notin ToSet(thread_queue) /\ current_thread = c /\ ref = 0
                  /\ \A d \in Coroutines : waiting[d] /\ d # c => d \in ToSet(thread_queue)
  <2>1. ~doubled => c \notin ToSet(thread_queue)
    BY <1>2, <1>4 DEF Queued
  <2>2. ~doubled => current_thread = c /\ ref = 0
    BY <1>1, <1>2, <2>1 DEF Queued
  <2> QED BY <1>2, <2>1, <2>2 DEF Queued
<1>6. CASE ref = 0
  <2>1. /\ current_thread' = c /\ ref' = 1 /\ inside' = [inside EXCEPT ![c] = @ + 1]
        /\ UNCHANGED <<svars, broken>>
    BY <1>6 DEF EnterWoken
  <2>2. UNCHANGED <<co, wakeup_queue, doubled>>
    BY <2>1 DEF svars, queues
  <2>3. SchedulerInv' /\ Kept'
    BY <2>1, StillStep
  <2>4. \A d \in Coroutines : inside'[d] = IF d = c THEN 1 ELSE 0
    BY <1>2, <1>4, <1>6, <2>1 DEF SectionTypes, Counted
  <2>5. SectionTypes'
    BY <1>1, <1>2, <2>1, QueueAssumption DEF SectionTypes
  <2>6. Counted'
    <3>1. \A d \in Coroutines : waiting'[d] => inside'[d] = 0
      BY <1>3, <2>4
    <3> QED BY <1>4, <2>1, <2>2, <2>4, <3>1 DEF Counted
  <2>7. Queued'
    <3> SUFFICES ASSUME ~doubled PROVE Queued'
      BY <2>2 DEF Queued
    <3>1. ToSet(thread_queue) \subseteq Coroutines \ {c}
      BY <1>2, <1>5, Elements DEF SectionTypes
    <3>2. \A d \in ToSet(thread_queue) :
            /\ waiting'[d] /\ co[d].at = "wait" /\ d # c
            /\ d \notin ToSet(wakeup_queue)
      BY <1>2, <1>3, <3>1 DEF Queued
    <3>3. \A d \in Coroutines : waiting'[d] => d \in ToSet(thread_queue)
      BY <1>3, <1>5
    <3> QED BY <1>1, <1>2, <2>1, <2>2, <3>2, <3>3 DEF Queued
  <2> QED BY <2>3, <2>5, <2>6, <2>7 DEF IInv, SectionInv
<1>7. CASE ref # 0
  <2>1. broken' = broken \cup {c} /\ Raise(c) /\ UNCHANGED <<current_thread, ref, inside>>
    BY <1>7 DEF EnterWoken
  <2>2. /\ SchedulerInv' /\ Kept' /\ UNCHANGED <<doubled, wakeup_queue>>
        /\ \A d \in Coroutines : d # c => co'[d].at = co[d].at
    BY <2>1, EndSteps
  <2>3. SectionTypes'
    BY <1>1, <1>2, <2>1 DEF SectionTypes
  <2>4. Counted'
    BY <1>1, <1>2, <1>3, <1>4, <2>1, <2>2 DEF Counted
  <2>5. Queued'
    BY <1>5, <1>7, <2>2 DEF Queued
  <2> QED BY <2>2, <2>3, <2>4, <2>5 DEF IInv, SectionInv
<1> QED BY <1>6, <1>7

LEMMA LeaveStep ==
  ASSUME IInv, NEW c \in Coroutines, Leave(c)
  PROVE  IInv'
<1> USE Atoms
<1>1. /\ Running(c) /\ mode = "run" /\ ~waiting[c] /\ inside[c] > 0
      /\ inside' = [inside EXCEPT ![c] = @ - 1] /\ ref' = ref - 1
      /\ UNCHANGED <<mode, run, co, session, tables, error_queue, fork_queue, coming,
                     serving, down, failed>>
      /\ UNCHANGED <<co, serving, down, waiting, broken>>
  BY DEF Leave, Running
<1>2. SectionTypes /\ Counted /\ Queued
  BY DEF IInv, SectionInv
<1>3. current_thread = c /\ inside[c] = ref /\ ref \in Nat /\ ref > 0
  BY <1>1, <1>2 DEF Counted, SectionTypes
<1>4. \A d \in Coroutines : inside'[d] = IF d = c THEN ref - 1 ELSE 0
  BY <1>1, <1>2, <1>3 DEF SectionTypes, Counted
<1>5. inside' \in [Coroutines -> Nat] /\ ref' \in 0 .. MaxRef
  <2>1. ref - 1 \in Nat /\ ref' \in 0 .. MaxRef
    BY <1>1, <1>2, <1>3, QueueAssumption DEF SectionTypes
  <2>2. inside' = [inside EXCEPT ![c] = ref - 1]
    BY <1>1, <1>3
  <2> QED BY <1>2, <2>1, <2>2 DEF SectionTypes
<1>6. co[c].at = "run"
  BY <1>1, RunningAt DEF IInv
<1>7. ~doubled => \A d \in Coroutines : waiting[d] => d \in ToSet(thread_queue)
  BY <1>2, <1>3 DEF Queued
<1>8. Kept'
  <2>1. NoneEnds
    BY <1>1 DEF NoneEnds
  <2> QED BY <1>1, <2>1, ServingSame DEF IInv
<1>9. CASE ref # 1 \/ thread_queue = <<>>
  <2>1. /\ UNCHANGED <<wakeup_queue, doubled, thread_queue>>
        /\ (ref # 1 /\ current_thread' = current_thread) \/ (ref = 1 /\ current_thread' = None)
    BY <1>9 DEF Leave, HandOver
  <2>2. SchedulerInv'
    <3>1. /\ UNCHANGED <<mode, run, co, session, tables, queues, coming, down, doubled, failed>>
      BY <1>1, <2>1 DEF queues
    <3> QED BY <1>8, <3>1, StillKeeps DEF IInv, Kept
  <2>3. SectionTypes'
    BY <1>1, <1>2, <1>5, <2>1 DEF SectionTypes
  <2>4. Counted'
    BY <1>1, <1>2, <1>3, <1>4, <1>6, <1>9, <2>1 DEF Counted
  <2>5. Queued'
    <3> SUFFICES ASSUME ~doubled PROVE Queued'
      BY <2>1 DEF Queued
    <3>1. CASE ref # 1
      BY <1>1, <1>2, <1>3, <1>7, <2>1, <3>1 DEF Queued
    <3>2. CASE ref = 1
      <4>1. thread_queue = <<>> /\ ToSet(thread_queue) = {}
        BY <1>9, <3>2, EmptyQueue
      <4> QED BY <1>1, <1>2, <1>7, <2>1, <3>2, <4>1 DEF Queued
    <3> QED BY <3>1, <3>2
  <2> QED BY <1>8, <2>2, <2>3, <2>4, <2>5 DEF IInv, SectionInv
<1>10. CASE ref = 1 /\ thread_queue # <<>>
  <2> DEFINE h == Head(thread_queue)
  <2>1. current_thread' = h /\ WakeupEffect(h) /\ thread_queue' = Tail(thread_queue)
    BY <1>10 DEF Leave, HandOver
  <2>2. /\ h \in Coroutines /\ thread_queue' \in Seq(Coroutines)
        /\ ToSet(thread_queue) = {h} \cup ToSet(thread_queue')
        /\ OnceIn(thread_queue, Coroutines) =>
             OnceIn(thread_queue', Coroutines) /\ h \notin ToSet(thread_queue')
    BY <1>2, <1>10, <2>1, TailQueue DEF SectionTypes
  <2> HIDE DEF h
  <2>3. SchedulerInv'
    BY <1>1, <2>1, <2>2, WakeupKeeps DEF IInv
  <2>4. SectionTypes'
    BY <1>1, <1>2, <1>5, <2>1, <2>2 DEF SectionTypes
  <2>5. Counted'
    BY <1>1, <1>3, <1>4, <1>10, <2>1, <2>2 DEF Counted
  <2>6. Queued'
    <3> SUFFICES ASSUME ~doubled' PROVE Queued'
      BY DEF Queued
    <3>1. ~doubled
      BY <2>1 DEF WakeupEffect
    <3>2. waiting[h] /\ co[h].at = "wait"
      BY <1>2, <2>2, <3>1 DEF Queued
    <3>3. sleep_session[h] # 0
      BY <2>2, <3>2 DEF IInv, SchedulerInv, Bound, Blocked, Sessions
    <3>4. ToSet(wakeup_queue') = ToSet(wakeup_queue) \cup {h}
      <4>1. wakeup_queue' = Append(wakeup_queue, h)
        BY <2>1, <3>3 DEF WakeupEffect
      <4>2. wakeup_queue \in Seq(Coroutines)
        BY SameQueue DEF IInv
      <4> QED BY <2>2, <4>1, <4>2, AppendQueue
    <3>5. OnceIn(thread_queue', Coroutines) /\ h \notin ToSet(thread_queue')
      BY <1>2, <2>2, <3>1 DEF Queued
    <3>6. \A d \in ToSet(thread_queue') :
            /\ waiting[d] /\ co[d].at = "wait" /\ d # h
            /\ d \notin ToSet(wakeup_queue')
      BY <1>2, <2>2, <3>1, <3>4, <3>5 DEF Queued
    <3>7. \A d \in Coroutines : waiting[d] /\ d \notin ToSet(thread_queue') => d = h
      BY <1>7, <2>2, <3>1
    <3>8. ref' = 0
      BY <1>1, <1>10
    <3> QED BY <1>1, <1>2, <2>1, <3>1, <3>2, <3>4, <3>5, <3>6, <3>7, <3>8 DEF Queued
  <2> QED BY <1>8, <2>3, <2>4, <2>5, <2>6 DEF IInv, SectionInv
<1> QED BY <1>9, <1>10

-----------------------------------------------------------------------------
(* The theorems.                                                           *)

LEMMA InitIInv == Init => IInv
<1> SUFFICES ASSUME Init PROVE IInv
  OBVIOUS
<1> USE Atoms
<1>1. SchedulerInit /\ QueueAssumption
  BY QueueAssumption DEF Init
<1>2. SchedulerTypeOK
  <2>1. co \in [Coroutines -> [at : {"free", "ready", "run", "call", "sleep", "wait", "dead"},
                               session : 0 .. MaxSession]]
    BY <1>1 DEF SchedulerInit, Free
  <2>2. /\ session \in 0 .. MaxSession /\ sleep_session \in [Coroutines -> 0 .. MaxSession]
        /\ session_coroutine_id \in [Coroutines -> 0 .. MaxRequest]
        /\ answers \in [Requests -> Nat]
    BY <1>1 DEF SchedulerInit
  <2>3. /\ wakeup_queue \in Seq(Coroutines) /\ error_queue \in Seq(Sessions)
        /\ fork_queue \in Seq(Coroutines \cup {"EMPTY"})
    BY <1>1 DEF SchedulerInit
  <2> QED BY <1>1, <2>1, <2>2, <2>3 DEF SchedulerInit, SchedulerTypeOK
<1>3. OneRuns /\ Bound /\ BoundOnce
  BY <1>1 DEF SchedulerInit, OneRuns, Bound, BoundOnce, Free, Blocked
<1>4. Held
  BY <1>1 DEF SchedulerInit, Held, HeldFor
<1>5. ErrorsWait /\ ForksReady /\ WakeupsSleep /\ Drained
  BY <1>1, EmptyQueue DEF SchedulerInit, ErrorsWait, ForksReady, WakeupsSleep, Drained
<1>6. SchedulerInv
  BY <1>1, <1>2, <1>3, <1>4, <1>5 DEF SchedulerInv, SchedulerInit
<1>7. Kept
  BY <1>1 DEF SchedulerInit, Kept, ServingTypes, RequestsKept
<1>8. SectionTypes /\ Counted
  BY <1>1 DEF Init, SectionTypes, Counted, QueueAssumption
<1>9. Queued
  BY EmptyQueue DEF Init, Queued
<1> QED BY <1>6, <1>7, <1>8, <1>9 DEF IInv, SectionInv

\* Only skynet.exit ends the time to which the invariant belongs.
LEMMA KeepsServing ==
  ASSUME [Next]_vars
  PROVE  \/ exited' = exited
         \/ \E c \in Coroutines : ExitService(c)
<1>1. ASSUME Machine PROVE exited' = exited
  BY <1>1 DEF Machine, DispatchWakeup, DispatchErrorQueue, DispatchFork, stack
<1>2. ASSUME Message PROVE exited' = exited
  BY <1>2 DEF Message, Request, Response, ErrorSession, ErrorSource, stack
<1>3. ASSUME NEW c \in Coroutines, Application(c) PROVE exited' = exited
  BY <1>3 DEF Application, Call, Sleep, Wait, SuspendSleep, Wakeup, Fork, Timeout, Ret,
              RetWith, TakeResponse, CallResponse, Return, Raise, RaiseWith, stack
<1>4. ASSUME NEW c \in Coroutines, Section(c) PROVE exited' = exited
  BY <1>4 DEF Section, Enter, EnterWait, EnterWoken, Leave, Wait, SuspendSleep, Raise,
              RaiseWith, svars, stack
<1>5. CASE UNCHANGED vars
  BY <1>5 DEF vars, svars, stack
<1> QED BY <1>1, <1>2, <1>3, <1>4, <1>5 DEF Next

LEMMA NextIInv == IInv /\ [Next]_vars => IInv' \/ \E c \in Coroutines : ExitService(c)
<1> SUFFICES ASSUME IInv, [Next]_vars, ~ \E c \in Coroutines : ExitService(c) PROVE IInv'
  OBVIOUS
<1>1. CASE Machine /\ UNCHANGED qvars
  BY <1>1, MainThreadStep
<1>2. CASE Message /\ UNCHANGED qvars
  BY <1>2, MessageStep
<1>3. ASSUME NEW c \in Coroutines, Application(c) PROVE IInv'
  BY <1>3, ApplicationStep
<1>4. ASSUME NEW c \in Coroutines, Section(c) PROVE IInv'
  BY <1>4, EnterStep, EnterWaitStep, EnterWokenStep, LeaveStep DEF Section
<1>5. CASE UNCHANGED vars
  <2>1. UNCHANGED svars /\ UNCHANGED qvars
    BY <1>5 DEF vars
  <2>2. SchedulerInv' /\ Kept'
    BY <2>1, StillStep
  <2>3. UNCHANGED <<co, wakeup_queue, doubled>>
    BY <2>1 DEF svars, queues
  <2>4. Resumes
    BY <2>3 DEF Resumes
  <2>5. SectionInv'
    BY <2>1, <2>3, <2>4, ResumesSection DEF IInv
  <2> QED BY <2>2, <2>5 DEF IInv
<1> QED BY <1>1, <1>2, <1>3, <1>4, <1>5 DEF Next

\* skynet.exit leaves the state of an exited service.
LEMMA ExitLeaves ==
  ASSUME IInv, NEW c \in Coroutines, ExitService(c)
  PROVE  exited' # 0
<1>1. session \in 0 .. MaxSession
  BY DEF IInv, SchedulerInv, SchedulerTypeOK
<1>2. exited' = IF exited = 0 THEN session + 1 ELSE exited
  BY DEF ExitService, Exit, ExitWith
<1> QED BY <1>1, <1>2, SchedulerAssumption

\* The inductive invariant, until the service exits: the tables of skynet.lua, its
\* queues, the requests it serves and skynet.queue on top of it.
THEOREM Invariance == Spec => [](exited = 0 => IInv)
<1>1. Init => (exited = 0 => IInv)
  BY InitIInv
<1>2. (exited = 0 => IInv) /\ [Next]_vars => (exited = 0 => IInv)'
  <2> SUFFICES ASSUME exited = 0 => IInv, [Next]_vars, exited' = 0 PROVE IInv'
    OBVIOUS
  <2>1. CASE exited = 0
    BY <2>1, NextIInv, ExitLeaves
  <2>2. CASE exited # 0
    <3>1. PICK c \in Coroutines : ExitService(c)
      BY <2>2, KeepsServing
    <3> QED BY <2>2, <3>1 DEF ExitService, Exit, ExitWith
  <2> QED BY <2>1, <2>2
<1> QED BY <1>1, <1>2, PTL DEF Spec

\* The suspends that are left in the stack are counted.
LEMMA DepthCounted == Spec => [](depth \in Nat)
<1>1. Init => depth \in Nat
  BY DEF Init, SchedulerInit
<1>2. depth \in Nat /\ [Next]_vars => (depth \in Nat)'
  <2> SUFFICES ASSUME depth \in Nat, [Next]_vars PROVE depth' \in Nat
    OBVIOUS
  <2>1. ASSUME Machine PROVE depth' \in Nat
    <3>1. depth' \in {depth, depth + 1, 0}
      BY <2>1, Zenon DEF Machine, DispatchWakeup, DispatchErrorQueue, DispatchFork, stack
    <3> QED BY <3>1
  <2>2. ASSUME Message PROVE depth' \in Nat
    BY <2>2 DEF Message, Request, Response, ErrorSession, ErrorSource, stack
  <2>3. ASSUME NEW c \in Coroutines, Application(c) PROVE depth' \in Nat
    <3>1. depth' = depth \/ depth' = 0
      BY <2>3, Zenon DEF Application, Call, Sleep, Wait, SuspendSleep, Wakeup, Fork, Timeout,
         Ret, RetWith, TakeResponse, CallResponse, Return, Raise, RaiseWith, stack
    <3> QED BY <3>1
  <2>4. ASSUME NEW c \in Coroutines, Section(c) PROVE depth' \in Nat
    BY <2>4 DEF Section, Enter, EnterWait, EnterWoken, Leave, Wait, SuspendSleep, Raise,
                RaiseWith, svars, stack
  <2>5. ASSUME NEW c \in Coroutines, ExitService(c) PROVE depth' \in Nat
    BY <2>5 DEF ExitService, Exit, ExitWith
  <2>6. CASE UNCHANGED vars
    BY <2>6 DEF vars, svars, stack
  <2> QED BY <2>1, <2>2, <2>3, <2>4, <2>5, <2>6 DEF Next
<1> QED BY <1>1, <1>2, PTL DEF Spec

\* skynet.lua resumes only coroutines that are suspended, no answer meets a session
\* it has forgotten, and when dispatch_message returns no failed call and no wake-up
\* is left over: for any number of coroutines, services and sessions, until the
\* service exits.
THEOREM SchedulerIsSound == Spec => [](exited = 0 => SchedulerSound)
<1>1. depth \in Nat /\ (exited = 0 => IInv) => (exited = 0 => SchedulerSound)
  <2> SUFFICES ASSUME depth \in Nat, exited = 0, IInv PROVE SchedulerSound
    OBVIOUS
  <2> USE Atoms
  <2>1. TypeOK
    <3>1. StackTypeOK
      BY SchedulerAssumption DEF StackTypeOK
    <3> QED BY <3>1 DEF IInv, SchedulerInv, SectionInv, SectionTypes, TypeOK
  <2>2. ASSUME NEW c \in Coroutines
        PROVE  /\ co[c].at \in {"call", "sleep", "wait"} => session_id_coroutine[co[c].session] = c
               /\ sleep_session[c] = IF co[c].at \in {"sleep", "wait"} THEN co[c].session ELSE 0
    BY DEF IInv, SchedulerInv, Bound, Blocked
  <2>3. ASSUME NEW s \in Sessions
        PROVE  /\ watching_session[s] # None =>
                    \E c \in Coroutines : co[c] = [at |-> "call", session |-> s]
               /\ session_id_coroutine[s] \in Coroutines => Suspended(session_id_coroutine[s])
               /\ session_id_coroutine[s] = "BREAK" => coming[s] = "timer"
    <3>1. HeldFor(s)
      BY DEF IInv, SchedulerInv, Held
    <3> QED BY <3>1 DEF HeldFor, Calls, Suspended, Blocked
  <2>4. TablesAgree
    BY <2>2, <2>3 DEF TablesAgree
  <2>5. ResumeSound /\ QuietIsDrained
    BY DEF IInv, SchedulerInv, ResumeSound, QuietIsDrained, Drained
  <2> QED BY <2>1, <2>4, <2>5 DEF SchedulerSound
<1> QED BY <1>1, Invariance, DepthCounted, PTL

\* A caller gets at most one answer until the service exits, whichever of skynet.ret,
\* the response function and the error of a dead coroutine sends it; and after the
\* step of skynet.exit it has one, unless its handler returned without one.
THEOREM EveryoneAnsweredOnce == Spec => AnsweredOnce
<1>1. (exited = 0 => IInv) => (exited = 0 => \A r \in Requests : answers[r] <= 1)
  BY DEF IInv, Kept, RequestsKept
<1>2. (exited = 0 => IInv) /\ [Next]_vars =>
        [exited = 0 /\ exited' # 0 =>
           \A r \in Requests : source[r] \notin down \cup {None} =>
                                 answers'[r] = 1 \/ r \in forgot]_svars
  <2> SUFFICES ASSUME IInv, [Next]_vars, exited = 0, exited' # 0,
                      NEW r \in Requests, source[r] \notin down \cup {None}
               PROVE  answers'[r] = 1 \/ r \in forgot
    OBVIOUS
  <2>1. PICK c \in Coroutines : ExitService(c)
    BY KeepsServing
  <2>2. Exit(c)
    BY <2>1 DEF ExitService
  <2> QED BY <2>2, ExitAnswers DEF IInv
<1> QED BY <1>1, <1>2, Invariance, PTL DEF Spec, AnsweredOnce

\* skynet.queue is a critical section for any number of coroutines: one of them is
\* inside, across its yields, and assert(ref == 0) holds after every wait
\* (until the service exits).
THEOREM SectionExclusive == Spec => [](exited = 0 => OneInside)
<1>1. (exited = 0 => IInv) => (exited = 0 => OneInside)
  <2> SUFFICES ASSUME IInv PROVE OneInside
    OBVIOUS
  <2>1. \A c \in Coroutines : inside[c] > 0 => inside[c] = ref /\ current_thread = c
    BY DEF IInv, SectionInv, Counted
  <2>2. broken = {} \/ doubled
    BY DEF IInv, SectionInv, Queued
  <2> QED BY <2>1, <2>2 DEF OneInside
<1> QED BY <1>1, Invariance, PTL

\* No hand-over of skynet.queue is lost: whoever still waits when a message is
\* dispatched completely waits for a coroutine that is inside and suspended there.
THEOREM NoHandOverLost == Spec => []HandedOver
<1>1. (exited = 0 => IInv) => HandedOver
  <2> SUFFICES ASSUME IInv, mode = "idle", ~doubled, NEW c \in Coroutines, waiting[c]
               PROVE  \E d \in Coroutines : inside[d] > 0 /\ Suspended(d)
    BY DEF HandedOver
  <2>1. ToSet(wakeup_queue) = {}
    BY EmptyQueue DEF IInv, SchedulerInv, Drained
  <2>2. \A d \in Coroutines : co[d].at # "run"
    BY DEF IInv, SchedulerInv, OneRuns
  <2>3. SectionTypes /\ Counted /\ Queued
    BY DEF IInv, SectionInv
  <2>4. \A d \in Coroutines : waiting[d] => d \in ToSet(thread_queue)
    BY <2>1, <2>2, <2>3 DEF Queued
  <2>5. current_thread # None /\ current_thread \in Coroutines
    <3>1. thread_queue # <<>>
      BY <2>4, EmptyQueue
    <3> QED BY <2>3, <3>1 DEF Counted, SectionTypes
  <2>6. ref # 0
    <3>1. SUFFICES ASSUME ref = 0 PROVE FALSE
      OBVIOUS
    <3>2. waiting[current_thread]
      BY <2>3, <2>5, <3>1 DEF Queued
    <3>3. current_thread \in ToSet(thread_queue)
      BY <2>4, <2>5, <3>2
    <3> QED BY <2>3, <3>3 DEF Queued
  <2>7. inside[current_thread] > 0
    BY <2>3, <2>6 DEF Counted, SectionTypes
  <2>8. Suspended(current_thread)
    BY <2>2, <2>3, <2>5, <2>7 DEF Counted, Suspended, Blocked
  <2> QED BY <2>5, <2>7, <2>8
<1> QED BY <1>1, Invariance, PTL
=============================================================================
