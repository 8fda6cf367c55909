---------------------------- MODULE RWMutexProofs ----------------------------
(***************************************************************************)
(* What holds of RWMutex for any number of threads.  The invariant adds to *)
(* the types where the holders of the pthread lock are: whoever writes is  *)
(* the writer, whoever reads is counted or is the writer, and nobody who   *)
(* was admitted as a reader, or is still waiting, has come out.            *)
(***************************************************************************)
EXTENDS RWMutex, TLAPS

\* A thread inside a section has the lock, one way or the other.
Holders ==
  /\ \A t \in Threads : pc[t] = "writing" => writer = t
  /\ \A t \in Threads : pc[t] = "reading" => t \in readers \/ writer = t

Inv == TypeOK /\ Holders /\ OneEscapes

LEMMA InvInit == Init => Inv
  BY DEF Init, Inv, TypeOK, Holders, OneEscapes, Place

LEMMA InvNext == Inv /\ [Next]_vars => Inv'
  <1> SUFFICES ASSUME Inv, [Next]_vars PROVE Inv'
    OBVIOUS
  <1> USE ThreadsAssumption DEF Inv, TypeOK, Holders, OneEscapes, Place
  <1>1. ASSUME NEW t \in Threads, ReadLock(t) PROVE Inv'
    BY <1>1 DEF ReadLock, Goes
  <1>2. ASSUME NEW t \in Threads, WriteLock(t) PROVE Inv'
    BY <1>2 DEF WriteLock, Goes
  <1>3. ASSUME NEW t \in Threads, ReadLocked(t) PROVE Inv'
    BY <1>3 DEF ReadLocked, Goes, RdAdmits
  <1>4. ASSUME NEW t \in Threads, WriteLocked(t) PROVE Inv'
    BY <1>4 DEF WriteLocked, Goes, WrAdmits
  <1>5. ASSUME NEW t \in Threads, Unlock(t) PROVE Inv'
    BY <1>5 DEF Unlock, Goes
  <1>6. ASSUME NEW t \in Threads, Unlocked(t) PROVE Inv'
    BY <1>6 DEF Unlocked, Goes, WrAdmits
  <1>7. CASE UNCHANGED vars
    BY <1>7 DEF vars
  <1> QED
    BY <1>1, <1>2, <1>3, <1>4, <1>5, <1>6, <1>7 DEF Next, Proceed

\* The pthread lock is used consistently: one writer or readers, known threads only.
THEOREM LockTyped == Spec => []TypeOK
  <1>1. Inv => TypeOK
    BY DEF Inv
  <1> QED BY <1>1, InvInit, InvNext, PTL DEF Spec

\* Write sections exclude everybody else although unlock() is wrong: every module
\* that treats such a section as one step rests on this.
THEOREM SectionsExclude == Spec => []Exclusive
  <1>1. Inv => Exclusive
    BY ThreadsAssumption DEF Inv, TypeOK, Holders, Exclusive, Inside
  <1> QED BY <1>1, InvInit, InvNext, PTL DEF Spec

\* At most one thread in the life of a lock comes out of its guards.
THEOREM OnlyOwnerEscapes == Spec => []OneEscapes
  <1>1. Inv => OneEscapes
    BY DEF Inv
  <1> QED BY <1>1, InvInit, InvNext, PTL DEF Spec

\* The first writer is the last one.
THEOREM WriterForEver == Spec => OwnerStays
  <1>1. Inv /\ [Next]_vars => [writer # NoThread => writer' = writer]_vars
    <2> SUFFICES ASSUME Inv, [Next]_vars, writer # NoThread PROVE writer' = writer
      OBVIOUS
    <2>1. ASSUME NEW t \in Threads, ReadLock(t) \/ WriteLock(t) \/ Proceed(t) PROVE writer' = writer
      BY <2>1 DEF ReadLock, WriteLock, Proceed, ReadLocked, WriteLocked, Unlock, Unlocked, Goes,
                  WrAdmits, Inv, TypeOK
    <2> QED BY <2>1 DEF Next, vars
  <1> QED BY <1>1, InvInit, InvNext, PTL DEF Spec, OwnerStays
=============================================================================
