------------------------------- MODULE RwLock -------------------------------
(***************************************************************************)
(* The reader-writer spinlock of rwlock.h that guards the handle table.    *)
(* Each __sync operation and each read of lock->write or lock->read is one *)
(* step; the __sync operations are full barriers, so the interleaving of   *)
(* the steps is the only concurrency.  A thread that holds nothing may ask *)
(* for either lock.                                                        *)
(***************************************************************************)
EXTENDS Integers, FiniteSets

CONSTANT Threads

ASSUME ThreadsAssumption == IsFiniteSet(Threads)

VARIABLES
  write,  \* lock->write
  read,   \* lock->read
  pc

lockvars == <<write, read, pc>>

PC == {"idle",
       "rspin",    \* while (lock->write)
       "rinc",     \* write was 0, read is about to be incremented
       "rtest",    \* read is incremented, write is about to be tested again
       "rback",    \* write was set: the increment is about to be undone
       "reading",
       "wspin",    \* test_and_set of write
       "wwait",    \* write is ours: while (lock->read)
       "writing"}

\* The threads that lock->read counts.
Counted == {"rtest", "rback", "reading"}
Readers == {t \in Threads : pc[t] \in Counted}

LockTypeOK == write \in {0, 1} /\ read \in Nat /\ pc \in [Threads -> PC]

LockInit == write = 0 /\ read = 0 /\ pc = [t \in Threads |-> "idle"]

Move(t, from, to) == pc[t] = from /\ pc' = [pc EXCEPT ![t] = to]

-----------------------------------------------------------------------------
RLock(t) == Move(t, "idle", "rspin") /\ UNCHANGED <<write, read>>

RSpinEager(t) == Move(t, "rspin", "rinc") /\ UNCHANGED <<write, read>>

\* while(lock->write) {}
RSpin(t) == write = 0 /\ Move(t, "rspin", "rinc") /\ UNCHANGED <<write, read>>

\* __sync_add_and_fetch(&lock->read, 1)
RInc(t) == Move(t, "rinc", "rtest") /\ read' = read + 1 /\ UNCHANGED write

RTestUnchecked(t) == Move(t, "rtest", "reading") /\ UNCHANGED <<write, read>>

\* The second test of lock->write, after the increment is visible.
RTest(t) ==
  /\ \/ write = 0 /\ Move(t, "rtest", "reading")
     \/ write # 0 /\ Move(t, "rtest", "rback")
  /\ UNCHANGED <<write, read>>

RBackForgotten(t) == Move(t, "rback", "rspin") /\ UNCHANGED <<write, read>>

RBack(t) == Move(t, "rback", "rspin") /\ read' = read - 1 /\ UNCHANGED write

RUnlock(t) == Move(t, "reading", "idle") /\ read' = read - 1 /\ UNCHANGED write

-----------------------------------------------------------------------------
WLock(t) == Move(t, "idle", "wspin") /\ UNCHANGED <<write, read>>

\* __sync_lock_test_and_set(&lock->write, 1) that returned 0.
WSet(t) ==
  /\ write = 0
  /\ Move(t, "wspin", "wwait")
  /\ write' = 1
  /\ UNCHANGED read

WWait(t) == read = 0 /\ Move(t, "wwait", "writing") /\ UNCHANGED <<write, read>>

WUnlock(t) == Move(t, "writing", "idle") /\ write' = 0 /\ UNCHANGED read

-----------------------------------------------------------------------------
ReadStep(t) == RSpin(t) \/ RInc(t) \/ RTest(t) \/ RBack(t) \/ RUnlock(t)

WriteStep(t) == WSet(t) \/ WWait(t) \/ WUnlock(t)

LockNext == \E t \in Threads : RLock(t) \/ WLock(t) \/ ReadStep(t) \/ WriteStep(t)

LockSpec == LockInit /\ [][LockNext]_lockvars

\* A thread inside the lock or spinning on it is scheduled; whether it asks
\* for the lock at all is up to it.
FairLockSpec == LockSpec /\ \A t \in Threads : WF_lockvars(ReadStep(t)) /\ WF_lockvars(WriteStep(t))

-----------------------------------------------------------------------------
\* A writer excludes readers and writers: the handle table is never read or
\* changed while skynet_handle_register or _retire changes it.
Exclusion ==
  \A t, u \in Threads :
    t # u /\ pc[t] = "writing" => pc[u] \notin {"reading", "writing"}

\* lock->read is exact even while readers back off, so it returns to 0.
ReadCount == read = Cardinality(Readers)

\* A writer that won the flag gets in: readers that arrive later back off and
\* cannot keep lock->read above 0 for ever.
WriterGetsIn == \A t \in Threads : pc[t] = "wwait" ~> pc[t] = "writing"

\* The lock does not block everyone: while threads want it, some get it again
\* and again (a reader or a writer alone may starve).
SomeoneGetsIn ==
  (\E t \in Threads : pc[t] # "idle")
    ~> (\E t \in Threads : pc[t] \in {"reading", "writing"})
=============================================================================
