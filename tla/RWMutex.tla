------------------------------- MODULE RWMutex -------------------------------
(***************************************************************************)
(* libcocao's RWMutex and its scope guards (mutex.h): ReadLock and         *)
(* WriteLock take the pthread_rwlock_t in their constructor and are meant  *)
(* to give it back in unlock(), called by hand or by the destructor.  Both *)
(* unlock() methods call wrlock().                                         *)
(*                                                                         *)
(* The pthread lock itself is external: glibc's, which answers EDEADLK to  *)
(* the writer that asks again (the result is ignored here) and makes a     *)
(* reader that asks for the write lock wait for itself.  A thread has one  *)
(* guard of a lock at a time, as everywhere in the code.                   *)
(***************************************************************************)
EXTENDS FiniteSets

CONSTANTS
  Threads,    \* who uses the lock
  NoThread    \* no writer

ASSUME ThreadsAssumption == NoThread \notin Threads

VARIABLES
  writer,     \* the thread pthread counts as writer
  readers,    \* the threads it counts as readers
  pc,         \* where a thread is: out, in a constructor, inside, in unlock()
  escaped     \* history: the threads that have come out of a guard

vars == <<writer, readers, pc, escaped>>

Place == {"out", "rdlock", "wrlock", "reading", "writing", "unlock"}
Inside(t) == pc[t] \in {"reading", "writing"}

\* pthread_rwlock_t is held by one writer or by readers, never by both.
TypeOK ==
  /\ writer \in Threads \cup {NoThread}
  /\ readers \subseteq Threads
  /\ pc \in [Threads -> Place]
  /\ escaped \subseteq Threads
  /\ readers # {} => writer = NoThread

Init ==
  /\ writer = NoThread
  /\ readers = {}
  /\ pc = [t \in Threads |-> "out"]
  /\ escaped = {}

-----------------------------------------------------------------------------
\* Broken on purpose: the lock lets readers in beside a writer.
RdAdmitsAlways(t) == TRUE

\* pthread_rwlock_rdlock(): waits for another thread's write lock only.
RdAdmits(t) == writer \in {t, NoThread}

\* pthread_rwlock_wrlock(): waits for everybody, its own read lock included,
\* and fails (EDEADLK) for the thread that is the writer already.
WrAdmits(t) == writer = t \/ (writer = NoThread /\ readers = {})

Goes(t, from, to) == pc[t] \in from /\ pc' = [pc EXCEPT ![t] = to]

\* A guard's constructor, or lock() on a guard that was unlocked.
ReadLock(t) == Goes(t, {"out"}, "rdlock") /\ UNCHANGED <<writer, readers, escaped>>
WriteLock(t) == Goes(t, {"out"}, "wrlock") /\ UNCHANGED <<writer, readers, escaped>>

\* m_locked = true whatever the lock answered.
ReadLocked(t) ==
  /\ Goes(t, {"rdlock"}, "reading")
  /\ RdAdmits(t)
  /\ readers' = IF writer = t THEN readers ELSE readers \cup {t}
  /\ UNCHANGED <<writer, escaped>>

\* Broken on purpose: the writers' guard calls rdlock().
WriteLockedAsReader(t) ==
  /\ Goes(t, {"wrlock"}, "writing")
  /\ RdAdmits(t)
  /\ readers' = IF writer = t THEN readers ELSE readers \cup {t}
  /\ UNCHANGED <<writer, escaped>>

WriteLocked(t) ==
  /\ Goes(t, {"wrlock"}, "writing")
  /\ WrAdmits(t)
  /\ writer' = t
  /\ UNCHANGED <<readers, escaped>>

\* unlock() of either guard is entered ...
Unlock(t) == Goes(t, {"reading", "writing"}, "unlock") /\ UNCHANGED <<writer, readers, escaped>>

\* Broken on purpose: unlock() neither takes nor gives back.
UnlockedForFree(t) ==
  /\ Goes(t, {"unlock"}, "out")
  /\ escaped' = escaped \cup {t}
  /\ UNCHANGED <<writer, readers>>

\* ... and left when its wrlock() returns.
Unlocked(t) ==
  /\ Goes(t, {"unlock"}, "out")
  /\ WrAdmits(t)
  /\ writer' = t
  /\ escaped' = escaped \cup {t}
  /\ UNCHANGED readers

\* A thread with a guard goes on; nothing makes it take one.
Proceed(t) == ReadLocked(t) \/ WriteLocked(t) \/ Unlock(t) \/ Unlocked(t)

\* Threads may all hang: a step that waits forever is no step.
Next == \E t \in Threads : ReadLock(t) \/ WriteLock(t) \/ Proceed(t)

Spec == Init /\ [][Next]_vars

FairSpec == Spec /\ \A t \in Threads : WF_vars(Proceed(t))

-----------------------------------------------------------------------------
\* What the users of the lock rely on: nobody is inside beside a writer, and the
\* guards' wrong unlock() does not break it, whatever mix of readers and writers.
Exclusive ==
  \A t, u \in Threads : t # u /\ pc[u] = "writing" => ~Inside(t)

\* The first thread whose write lock is granted, be it by unlock(), keeps it for ever.
OwnerStays == [][writer # NoThread => writer' = writer]_vars

\* So at most one thread in the life of a lock ever comes out of its guards: every
\* other one that takes a guard, to read or to write, stays in it.
OneEscapes ==
  /\ \A t \in escaped : t = writer
  /\ \A t \in readers : pc[t] \in {"reading", "unlock"}

\* A thread that is inside leaves: tests/test_hook.cc:32 logs "test_sleep end" after the
\* constructor of IOManager, whose hooked fcntl() takes and leaves a ReadLock of FdManager.
GuardsEnd == \A t \in Threads : Inside(t) ~> pc[t] = "out"
=============================================================================
