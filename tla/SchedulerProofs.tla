--------------------------- MODULE SchedulerProofs ---------------------------
(***************************************************************************)
(* Theorems about Scheduler, for any number of workers, jobs, yields and   *)
(* wakers; the last says that it implements TaskPool.                      *)
(***************************************************************************)
EXTENDS SchedulerRefinement, TLAPS, FiniteSetTheorems, SequenceTheorems

-----------------------------------------------------------------------------
(***************************************************************************)
(* Lemmas about the operators of the model                                 *)
(***************************************************************************)

\* The workers are finitely many: the pool, and the caller with use_caller.
LEMMA WorkersFinite == IsFiniteSet(Workers)
  BY ConstantsAssumption, FS_AddElement, FS_EmptySet, FS_Union DEF Workers

\* schedule() appends one task and leaves the others where they are.
LEMMA PushTask ==
  ASSUME NEW q \in Seq(Task), NEW j \in Jobs, NEW p \in Pins
  PROVE  /\ Push(q, j, p) \in Seq(Task)
         /\ Push(q, j, p) # <<>>
         /\ Len(Push(q, j, p)) = Len(q) + 1
         /\ \A i \in 1..Len(q) : Push(q, j, p)[i] = q[i]
         /\ Push(q, j, p)[Len(q) + 1] = [job |-> j, pin |-> p]
  BY AppendProperties DEF Push, Task

\* Taking the i-th task leaves exactly the others, in their order.
LEMMA RemoveTask ==
  ASSUME NEW q \in Seq(Task), NEW i \in 1..Len(q)
  PROVE  /\ RemoveAt(q, i) \in Seq(Task)
         /\ Len(RemoveAt(q, i)) = Len(q) - 1
         /\ \A m \in 1..(Len(q) - 1) :
              RemoveAt(q, i)[m] = q[IF m < i THEN m ELSE m + 1]
  <1> DEFINE front == SubSeq(q, 1, i - 1)
             back  == SubSeq(q, i + 1, Len(q))
  <1>1. Len(q) \in Nat /\ \A k \in 1..Len(q) : q[k] \in Task
    BY LenProperties, ElementOfSeq
  <1>2. /\ front \in Seq(Task)
        /\ Len(front) = i - 1
        /\ \A k \in 1..(i - 1) : front[k] = q[k]
    <2>1. \A k \in 1..(i - 1) : q[k] \in Task
      BY <1>1
    <2>2. /\ front \in Seq(Task)
          /\ Len(front) = IF 1 <= i - 1 THEN (i - 1) - 1 + 1 ELSE 0
          /\ \A k \in 1..((i - 1) - 1 + 1) : front[k] = q[1 + k - 1]
      BY <2>1, SubSeqProperties, i - 1 \in Int
    <2> QED BY <2>2, <1>1
  <1>3. /\ back \in Seq(Task)
        /\ Len(back) = Len(q) - i
        /\ \A k \in 1..(Len(q) - i) : back[k] = q[i + k]
    <2>1. \A k \in (i + 1)..Len(q) : q[k] \in Task
      BY <1>1
    <2>2. /\ back \in Seq(Task)
          /\ Len(back) = IF i + 1 <= Len(q) THEN Len(q) - (i + 1) + 1 ELSE 0
          /\ \A k \in 1..(Len(q) - (i + 1) + 1) : back[k] = q[(i + 1) + k - 1]
      BY <2>1, <1>1, SubSeqProperties, i + 1 \in Int, Len(q) \in Int
    <2> QED BY <2>2, <1>1
  <1>4. /\ front \o back \in Seq(Task)
        /\ Len(front \o back) = Len(front) + Len(back)
        /\ \A k \in 1..(Len(front) + Len(back)) :
             (front \o back)[k] = IF k <= Len(front) THEN front[k] ELSE back[k - Len(front)]
    BY <1>2, <1>3, ConcatProperties
  <1>5. RemoveAt(q, i) = front \o back
    BY DEF RemoveAt
  <1> HIDE DEF front, back
  <1>6. ASSUME NEW m \in 1..(Len(q) - 1)
        PROVE  RemoveAt(q, i)[m] = q[IF m < i THEN m ELSE m + 1]
    <2>1. CASE m < i
      BY <2>1, <1>1, <1>2, <1>3, <1>4, <1>5
    <2>2. CASE ~(m < i)
      <3>1. m - (i - 1) \in 1..(Len(q) - i) /\ ~(m <= i - 1)
        BY <2>2, <1>1
      <3>2. RemoveAt(q, i)[m] = back[m - (i - 1)]
        BY <3>1, <1>1, <1>2, <1>3, <1>4, <1>5
      <3> QED BY <3>1, <3>2, <2>2, <1>1, <1>3
    <2> QED BY <2>1, <2>2
  <1> QED BY <1>1, <1>2, <1>3, <1>4, <1>5, <1>6

\* Counting a finite set when one element comes or goes.
LEMMA CountMove ==
  ASSUME NEW S, IsFiniteSet(S), NEW x
  PROVE  /\ Cardinality(S) \in Nat
         /\ x \in S => Cardinality(S) > 0
         /\ Cardinality(S \cup {x}) = Cardinality(S) + (IF x \in S THEN 0 ELSE 1)
         /\ Cardinality(S \ {x}) = Cardinality(S) - (IF x \in S THEN 1 ELSE 0)
  <1>1. Cardinality(S) \in Nat
    BY FS_CardinalityType
  <1>2. x \in S => Cardinality(S) # 0
    BY FS_EmptySet
  <1>3. Cardinality(S \cup {x}) = IF x \in S THEN Cardinality(S) ELSE Cardinality(S) + 1
    BY FS_AddElement
  <1>4. Cardinality(S \ {x}) = IF x \in S THEN Cardinality(S) - 1 ELSE Cardinality(S)
    BY FS_RemoveElement
  <1> QED BY <1>1, <1>2, <1>3, <1>4

-----------------------------------------------------------------------------
(***************************************************************************)
(* Type correctness and the counters                                       *)
(*                                                                         *)
(* -- m_activateThreadCount keeps the counter a natural number only because *)
(* the counter is the number of busy workers, so both are one invariant.   *)
(***************************************************************************)

\* A worker has a job exactly from taking its task until it is off its stack.
Holding ==
  \A t \in Workers : cur[t] \in Jobs <=> pc[t] \in {"resume", "body", "yield", "swap"}

\* Before stop() the caller is no worker yet.
CallerAway == mpc = "main" => \A t \in Workers : t = Main => pc[t] = "unborn"

TypeInv == TypeOK /\ Counters /\ Holding /\ CallerAway

\* The counters after worker t moved to place v, in terms of those before.
LEMMA Move ==
  ASSUME TypeOK, Counters, NEW t \in Workers, NEW v \in Place,
         pc' = [pc EXCEPT ![t] = v]
  PROVE  /\ pc' \in [Workers -> Place]
         /\ pc[t] \in BusyPlace => active > 0
         /\ pc[t] \in IdlePlace => idle > 0
         /\ Cardinality(Busy') = active + (IF v \in BusyPlace THEN 1 ELSE 0)
                                       - (IF pc[t] \in BusyPlace THEN 1 ELSE 0)
         /\ Cardinality(Idling') = idle + (IF v \in IdlePlace THEN 1 ELSE 0)
                                        - (IF pc[t] \in IdlePlace THEN 1 ELSE 0)
  <1>1. pc \in [Workers -> Place] /\ pc' \in [Workers -> Place]
    BY DEF TypeOK
  <1>2. IsFiniteSet(Busy) /\ IsFiniteSet(Idling)
    BY WorkersFinite, FS_Subset DEF Busy, Idling
  <1>3. Busy' = IF v \in BusyPlace THEN Busy \cup {t} ELSE Busy \ {t}
    BY <1>1 DEF Busy, BusyPlace
  <1>4. Idling' = IF v \in IdlePlace THEN Idling \cup {t} ELSE Idling \ {t}
    BY <1>1 DEF Idling, IdlePlace
  <1>5. (t \in Busy <=> pc[t] \in BusyPlace) /\ (t \in Idling <=> pc[t] \in IdlePlace)
    BY DEF Busy, Idling
  <1>6. active = Cardinality(Busy) /\ idle = Cardinality(Idling)
    BY DEF Counters
  <1> QED
    <2>1. /\ Cardinality(Busy) \in Nat
          /\ t \in Busy => Cardinality(Busy) > 0
          /\ Cardinality(Busy \cup {t}) = Cardinality(Busy) + (IF t \in Busy THEN 0 ELSE 1)
          /\ Cardinality(Busy \ {t}) = Cardinality(Busy) - (IF t \in Busy THEN 1 ELSE 0)
      BY <1>2, CountMove
    <2>2. /\ Cardinality(Idling) \in Nat
          /\ t \in Idling => Cardinality(Idling) > 0
          /\ Cardinality(Idling \cup {t}) = Cardinality(Idling) + (IF t \in Idling THEN 0 ELSE 1)
          /\ Cardinality(Idling \ {t}) = Cardinality(Idling) - (IF t \in Idling THEN 1 ELSE 0)
      BY <1>2, CountMove
    <2> QED BY <2>1, <2>2, <1>1, <1>3, <1>4, <1>5, <1>6

\* A step that moves t and adjusts the counters accordingly keeps them right.
Accounted(t, v) ==
  /\ pc' = [pc EXCEPT ![t] = v]
  /\ active' = active + (IF v \in BusyPlace THEN 1 ELSE 0)
                      - (IF pc[t] \in BusyPlace THEN 1 ELSE 0)
  /\ idle' = idle + (IF v \in IdlePlace THEN 1 ELSE 0)
                  - (IF pc[t] \in IdlePlace THEN 1 ELSE 0)

LEMMA AccountedStep ==
  ASSUME TypeOK, Counters, NEW t \in Workers, NEW v \in Place, Accounted(t, v)
  PROVE  Counters' /\ active' \in Nat /\ idle' \in Nat /\ pc' \in [Workers -> Place]
  <1>1. /\ pc' \in [Workers -> Place]
        /\ pc[t] \in BusyPlace => active > 0
        /\ pc[t] \in IdlePlace => idle > 0
        /\ Cardinality(Busy') = active' /\ Cardinality(Idling') = idle'
    BY Move DEF Accounted
  <1>2. active \in Nat /\ idle \in Nat
    BY DEF TypeOK
  <1>3. active' \in Nat /\ idle' \in Nat
    BY <1>1, <1>2 DEF Accounted
  <1> QED BY <1>1, <1>3 DEF Counters

LEMMA TypeInvInit == Init => TypeInv
  <1> SUFFICES ASSUME Init PROVE TypeInv
    OBVIOUS
  <1>1. TypeOK
    <2>1. tasks \in Seq(Task)
      BY EmptySeq DEF Init
    <2>2. 0 \in 0..MaxWakers /\ MaxYields \in 0..MaxYields
      BY ConstantsAssumption
    <2> QED BY <2>1, <2>2 DEF Init, TypeOK, FiberState, Place
  <1>2. Busy = {} /\ Idling = {}
    BY DEF Init, Busy, Idling, BusyPlace, IdlePlace
  <1>3. Counters
    BY <1>2, FS_EmptySet DEF Init, Counters
  <1>4. Holding /\ CallerAway
    BY ConstantsAssumption DEF Init, Holding, CallerAway
  <1> QED BY <1>1, <1>3, <1>4 DEF TypeInv

LEMMA TypeInvNext == TypeInv /\ [Next]_vars => TypeInv'
  <1> SUFFICES ASSUME TypeInv, [Next]_vars PROVE TypeInv'
    OBVIOUS
  <1> USE DEF TypeInv, Alive
  <1>c. NoJob \notin Jobs /\ MaxYields \in Nat /\ MaxWakers \in Nat /\ Main \notin Pool
    BY ConstantsAssumption
  <1>s. ASSUME NEW j \in Jobs, NEW p \in Pins, Submit(j, p)
        PROVE  TypeInv'
    <2>1. tasks' \in Seq(Task)
      BY <1>s, PushTask DEF Submit, TypeOK
    <2>2. TypeOK'
      BY <1>s, <2>1 DEF Submit, TypeOK, workerVars, mainVars, AsSubmitted, FiberState
    <2>3. Counters' /\ Holding' /\ CallerAway'
      BY <1>s DEF Submit, workerVars, mainVars, Counters, Holding, CallerAway, Busy, Idling
    <2> QED BY <2>2, <2>3
  <1>1. ASSUME NEW j \in Jobs, NEW p \in Pins, MainSubmit(j, p)
        PROVE  TypeInv'
    BY <1>1, <1>s DEF MainSubmit
  <1>2. ASSUME NEW j \in Jobs, NEW k \in Jobs, MainSubmitBatch(j, k)
        PROVE  TypeInv'
    <2>1. AnyThread \in Pins
      BY DEF Pins
    <2>2. Push(tasks, j, AnyThread) \in Seq(Task)
      BY <2>1, PushTask DEF TypeOK
    <2>3. tasks' \in Seq(Task)
      BY <1>2, <2>1, <2>2, PushTask DEF MainSubmitBatch
    <2>4. TypeOK'
      BY <1>2, <2>3 DEF MainSubmitBatch, TypeOK, workerVars, mainVars, AsSubmitted, FiberState
    <2>5. Counters' /\ Holding' /\ CallerAway'
      BY <1>2 DEF MainSubmitBatch, workerVars, mainVars, Counters, Holding, CallerAway, Busy, Idling
    <2> QED BY <2>4, <2>5
  <1>3. CASE Start
    <2>1. /\ pc' \in [Workers -> Place]
          /\ \A t \in Workers : \/ pc'[t] = pc[t]
                                \/ t \in Pool /\ pc[t] = "unborn" /\ pc'[t] = "scan"
      BY <1>3 DEF Start, TypeOK, Place
    <2>2. TypeOK'
      BY <1>3, <2>1 DEF Start, TypeOK, jobVars, mainVars
    <2>3. Busy' = Busy /\ Idling' = Idling /\ Holding' /\ CallerAway'
      BY <1>3, <1>c, <2>1 DEF Start, Holding, CallerAway, mainVars, Busy, Idling, BusyPlace, IdlePlace
    <2> QED BY <1>3, <2>2, <2>3 DEF Start, Counters
  <1>4. CASE Stop
    <2>1. CASE UseCaller
      <3>1. Main \in Workers /\ "scan" \in Place /\ pc' = [pc EXCEPT ![Main] = "scan"]
        BY <1>4, <2>1 DEF Stop, Workers, Place
      <3>2. pc[Main] = "unborn"
        BY <1>4, <3>1 DEF Stop, CallerAway
      <3>3. pc' \in [Workers -> Place] /\ Busy' = Busy /\ Idling' = Idling
        BY <3>1, <3>2 DEF Busy, Idling, BusyPlace, IdlePlace, TypeOK
      <3>4. TypeOK'
        BY <1>4, <2>1, <3>3 DEF Stop, TypeOK, jobVars
      <3>6. Counters'
        BY <1>4, <3>3 DEF Stop, Counters
      <3>5. Holding' /\ CallerAway'
        BY <1>4, <2>1, <3>1, <3>2 DEF Stop, Holding, CallerAway, TypeOK
      <3> QED BY <3>4, <3>5, <3>6
    <2>2. CASE ~UseCaller
      BY <1>4, <2>2 DEF Stop, TypeOK, jobVars, Counters, Holding, CallerAway, Busy, Idling
    <2> QED BY <2>1, <2>2
  <1>5. CASE Join
    BY <1>5 DEF Join, TypeOK, jobVars, workerVars, Counters, Holding, CallerAway, Busy, Idling
  <1>6. ASSUME NEW j \in Jobs, Wake(j)
        PROVE  TypeInv'
    <2>1. tasks' \in Seq(Task)
      BY <1>6, PushTask DEF Wake, TypeOK, Pins
    <2>2. TypeOK'
      BY <1>6, <1>c, <2>1 DEF Wake, TypeOK, workerVars, mainVars
    <2>3. Counters' /\ Holding' /\ CallerAway'
      BY <1>6 DEF Wake, workerVars, mainVars, Counters, Holding, CallerAway, Busy, Idling
    <2> QED BY <2>2, <2>3
  <1>7. ASSUME NEW t \in Workers, WorkerStep(t)
        PROVE  TypeInv'
    <2>v. Place = {"unborn", "scan", "resume", "body", "yield", "swap", "after",
                   "empty", "idle", "idleback", "exit"}
      BY DEF Place
    <2>1. CASE Take(t)
      <3>1. PICK i \in DOMAIN tasks : /\ tasks' = RemoveAt(tasks, i)
                                     /\ cur' = [cur EXCEPT ![t] = tasks[i].job]
        BY <2>1 DEF Take
      <3>2. tasks \in Seq(Task) /\ i \in 1..Len(tasks) /\ tasks[i] \in Task
        BY <3>1, LenProperties, ElementOfSeq DEF TypeOK
      <3>3. tasks' \in Seq(Task) /\ tasks[i].job \in Jobs
        BY <3>1, <3>2, RemoveTask DEF Task
      <3>4. Accounted(t, "resume")
        BY <2>1 DEF Take, Accounted, BusyPlace, IdlePlace, TypeOK
      <3>5. Counters' /\ active' \in Nat /\ idle' \in Nat /\ pc' \in [Workers -> Place]
        BY <3>4, <2>v, AccountedStep
      <3>6. TypeOK'
        BY <2>1, <3>1, <3>3, <3>5 DEF Take, TypeOK, jobVars, mainVars
      <3>7. Holding' /\ CallerAway'
        BY <2>1, <3>1, <3>3 DEF Take, Holding, CallerAway, TypeOK, mainVars
      <3> QED BY <3>5, <3>6, <3>7
    <2>2. CASE TakeNothing(t)
      <3>1. Accounted(t, "empty")
        BY <2>2 DEF TakeNothing, Accounted, BusyPlace, IdlePlace, TypeOK
      <3>2. Counters' /\ active' \in Nat /\ idle' \in Nat /\ pc' \in [Workers -> Place]
        BY <3>1, <2>v, AccountedStep
      <3>3. TypeOK'
        BY <2>2, <3>2, <1>c DEF TakeNothing, TypeOK, jobVars, workerVars, mainVars, Swapped, FiberState, Holding, Stopping
      <3>4. Holding' /\ CallerAway'
        BY <2>2, <1>c DEF TakeNothing, Holding, CallerAway, TypeOK, mainVars
      <3> QED BY <3>2, <3>3, <3>4
    <2>3. CASE Resume(t)
      <3>1. Accounted(t, "body")
        BY <2>3 DEF Resume, Accounted, BusyPlace, IdlePlace, TypeOK
      <3>2. Counters' /\ active' \in Nat /\ idle' \in Nat /\ pc' \in [Workers -> Place]
        BY <3>1, <2>v, AccountedStep
      <3>3. TypeOK'
        BY <2>3, <3>2, <1>c DEF Resume, TypeOK, jobVars, workerVars, mainVars, Swapped, FiberState, Holding, Stopping
      <3>4. Holding' /\ CallerAway'
        BY <2>3, <1>c DEF Resume, Holding, CallerAway, TypeOK, mainVars
      <3> QED BY <3>2, <3>3, <3>4
    <2>4. CASE YieldMark(t)
      <3>1. Accounted(t, "swap")
        BY <2>4 DEF YieldMark, Accounted, BusyPlace, IdlePlace, TypeOK
      <3>2. Counters' /\ active' \in Nat /\ idle' \in Nat /\ pc' \in [Workers -> Place]
        BY <3>1, <2>v, AccountedStep
      <3>3. TypeOK'
        BY <2>4, <3>2, <1>c DEF YieldMark, TypeOK, jobVars, workerVars, mainVars, Swapped, FiberState, Holding, Stopping
      <3>4. Holding' /\ CallerAway'
        BY <2>4, <1>c DEF YieldMark, Holding, CallerAway, TypeOK, mainVars
      <3> QED BY <3>2, <3>3, <3>4
    <2>5. CASE YieldSwap(t)
      <3>1. Accounted(t, "after")
        BY <2>5 DEF YieldSwap, Accounted, BusyPlace, IdlePlace, TypeOK
      <3>2. Counters' /\ active' \in Nat /\ idle' \in Nat /\ pc' \in [Workers -> Place]
        BY <3>1, <2>v, AccountedStep
      <3>3. TypeOK'
        BY <2>5, <3>2, <1>c DEF YieldSwap, TypeOK, jobVars, workerVars, mainVars, Swapped, FiberState, Holding, Stopping
      <3>4. Holding' /\ CallerAway'
        BY <2>5, <1>c DEF YieldSwap, Holding, CallerAway, TypeOK, mainVars
      <3> QED BY <3>2, <3>3, <3>4
    <2>6. CASE End(t)
      <3>1. Accounted(t, "after")
        BY <2>6 DEF End, Accounted, BusyPlace, IdlePlace, TypeOK
      <3>2. Counters' /\ active' \in Nat /\ idle' \in Nat /\ pc' \in [Workers -> Place]
        BY <3>1, <2>v, AccountedStep
      <3>3. TypeOK'
        BY <2>6, <3>2, <1>c DEF End, TypeOK, jobVars, workerVars, mainVars, Swapped, FiberState, Holding, Stopping
      <3>4. Holding' /\ CallerAway'
        BY <2>6, <1>c DEF End, Holding, CallerAway, TypeOK, mainVars
      <3> QED BY <3>2, <3>3, <3>4
    <2>7. CASE Release(t)
      <3>1. Accounted(t, "scan")
        BY <2>7 DEF Release, Accounted, BusyPlace, IdlePlace, TypeOK
      <3>2. Counters' /\ active' \in Nat /\ idle' \in Nat /\ pc' \in [Workers -> Place]
        BY <3>1, <2>v, AccountedStep
      <3>3. TypeOK'
        BY <2>7, <3>2, <1>c DEF Release, TypeOK, jobVars, workerVars, mainVars, Swapped, FiberState, Holding, Stopping
      <3>4. Holding' /\ CallerAway'
        BY <2>7, <1>c DEF Release, Holding, CallerAway, TypeOK, mainVars
      <3> QED BY <3>2, <3>3, <3>4
    <2>8. CASE IdleEnter(t)
      <3>1. Accounted(t, "idle")
        BY <2>8 DEF IdleEnter, Accounted, BusyPlace, IdlePlace, TypeOK
      <3>2. Counters' /\ active' \in Nat /\ idle' \in Nat /\ pc' \in [Workers -> Place]
        BY <3>1, <2>v, AccountedStep
      <3>3. TypeOK'
        BY <2>8, <3>2, <1>c DEF IdleEnter, TypeOK, jobVars, workerVars, mainVars, Swapped, FiberState, Holding, Stopping
      <3>4. Holding' /\ CallerAway'
        BY <2>8, <1>c DEF IdleEnter, Holding, CallerAway, TypeOK, mainVars
      <3> QED BY <3>2, <3>3, <3>4
    <2>9. CASE IdleCheck(t)
      <3>1. Accounted(t, "idleback")
        BY <2>9 DEF IdleCheck, Accounted, BusyPlace, IdlePlace, TypeOK
      <3>2. Counters' /\ active' \in Nat /\ idle' \in Nat /\ pc' \in [Workers -> Place]
        BY <3>1, <2>v, AccountedStep
      <3>3. TypeOK'
        BY <2>9, <3>2, <1>c DEF IdleCheck, TypeOK, jobVars, workerVars, mainVars, Swapped, FiberState, Holding, Stopping
      <3>4. Holding' /\ CallerAway'
        BY <2>9, <1>c DEF IdleCheck, Holding, CallerAway, TypeOK, mainVars
      <3> QED BY <3>2, <3>3, <3>4
    <2>10. CASE IdleLeave(t)
      <3>1. Accounted(t, "scan")
        BY <2>10 DEF IdleLeave, Accounted, BusyPlace, IdlePlace, TypeOK
      <3>2. Counters' /\ active' \in Nat /\ idle' \in Nat /\ pc' \in [Workers -> Place]
        BY <3>1, <2>v, AccountedStep
      <3>3. TypeOK'
        BY <2>10, <3>2, <1>c DEF IdleLeave, TypeOK, jobVars, workerVars, mainVars, Swapped, FiberState, Holding, Stopping
      <3>4. Holding' /\ CallerAway'
        BY <2>10, <1>c DEF IdleLeave, Holding, CallerAway, TypeOK, mainVars
      <3> QED BY <3>2, <3>3, <3>4
    <2>11. CASE Exit(t)
      <3>1. Accounted(t, "exit")
        BY <2>11 DEF Exit, Accounted, BusyPlace, IdlePlace, TypeOK
      <3>2. Counters' /\ active' \in Nat /\ idle' \in Nat /\ pc' \in [Workers -> Place]
        BY <3>1, <2>v, AccountedStep
      <3>3. TypeOK'
        BY <2>11, <3>2, <1>c DEF Exit, TypeOK, jobVars, workerVars, mainVars, Swapped, FiberState, Holding, Stopping
      <3>4. Holding' /\ CallerAway'
        BY <2>11, <1>c DEF Exit, Holding, CallerAway, TypeOK, mainVars
      <3> QED BY <3>2, <3>3, <3>4
    <2>12. CASE Requeue(t)
      <3>1. Accounted(t, "yield")
        BY <2>12 DEF Requeue, Accounted, BusyPlace, IdlePlace, TypeOK
      <3>2. Counters' /\ active' \in Nat /\ idle' \in Nat /\ pc' \in [Workers -> Place]
        BY <3>1, <2>v, AccountedStep
      <3>3. cur[t] \in Jobs /\ tasks \in Seq(Task) /\ t \in Pins
        BY <2>12 DEF Requeue, Holding, TypeOK, Pins
      <3>4. tasks' \in Seq(Task)
        BY <2>12, <3>3, PushTask DEF Requeue
      <3>5. TypeOK'
        BY <2>12, <3>2, <3>3, <3>4, <1>c DEF Requeue, TypeOK, mainVars
      <3>6. Holding' /\ CallerAway'
        BY <2>12 DEF Requeue, Holding, CallerAway, TypeOK, mainVars
      <3> QED BY <3>2, <3>5, <3>6
    <2>13. ASSUME NEW n \in 1..MaxWakers, Arm(t, n)
          PROVE  TypeInv'
      <3>1. Accounted(t, "yield")
        BY <2>13 DEF Arm, Accounted, BusyPlace, IdlePlace, TypeOK
      <3>2. Counters' /\ active' \in Nat /\ idle' \in Nat /\ pc' \in [Workers -> Place]
        BY <3>1, <2>v, AccountedStep
      <3>3. cur[t] \in Jobs /\ n \in 0..MaxWakers
        BY <2>13, <1>c DEF Arm, Holding
      <3>4. TypeOK'
        BY <2>13, <3>2, <3>3, <1>c DEF Arm, TypeOK, mainVars
      <3>5. Holding' /\ CallerAway'
        BY <2>13 DEF Arm, Holding, CallerAway, TypeOK, mainVars
      <3> QED BY <3>2, <3>4, <3>5
    <2>14. CASE t = Main /\ ExitRoot
      <3>1. Accounted(t, "exit")
        BY <2>14 DEF ExitRoot, Accounted, BusyPlace, IdlePlace, TypeOK
      <3>2. Counters' /\ active' \in Nat /\ idle' \in Nat /\ pc' \in [Workers -> Place]
        BY <3>1, <2>v, AccountedStep
      <3>3. TypeOK'
        BY <2>14, <3>2 DEF ExitRoot, TypeOK, jobVars
      <3>4. Holding' /\ CallerAway'
        BY <2>14 DEF ExitRoot, Holding, CallerAway, TypeOK
      <3> QED BY <3>2, <3>3, <3>4
    <2>15. CASE ResumeShared(t) \/ ResumeEnded(t)
      BY <2>15 DEF ResumeShared, ResumeEnded, TypeOK, Counters, Holding, CallerAway, Busy, Idling, jobVars, workerVars, mainVars
    <2>16. ASSUME NEW j \in Jobs, NEW p \in Pins, Spawn(t, j, p)
          PROVE  TypeInv'
      BY <2>16, <1>s DEF Spawn
    <2> QED
      BY <1>7, <2>1, <2>2, <2>3, <2>4, <2>5, <2>6, <2>7, <2>8, <2>9, <2>10, <2>11, <2>12, <2>13, <2>14, <2>15, <2>16 DEF WorkerStep, RunStep, BodyStep
  <1>8. CASE UNCHANGED vars
    BY <1>8 DEF vars, jobVars, workerVars, mainVars, TypeOK, Counters, Holding, CallerAway, Busy, Idling
  <1> QED
    BY <1>1, <1>2, <1>3, <1>4, <1>5, <1>6, <1>7, <1>8 DEF Next, MainStep, StartRefused, Faulted

\* The model's variables keep their types, for every value of the constants.
THEOREM TypeCorrect == Spec => []TypeOK
  <1>1. Spec => []TypeInv
    BY TypeInvInit, TypeInvNext, PTL DEF Spec
  <1>2. TypeInv => TypeOK
    BY DEF TypeInv
  <1> QED BY <1>1, <1>2, PTL

\* m_activateThreadCount and m_idleThreadCount count the busy and idle workers.
THEOREM CountersExact == Spec => []Counters
  <1>1. Spec => []TypeInv
    BY TypeInvInit, TypeInvNext, PTL DEF Spec
  <1>2. TypeInv => Counters
    BY DEF TypeInv
  <1> QED BY <1>1, <1>2, PTL

-----------------------------------------------------------------------------
(***************************************************************************)
(* No job is lost, RUNNING is true, and drained means drained              *)
(*                                                                         *)
(* None of NeverLost, RunningTruth and Drained is inductive alone.  The    *)
(* step that could lose a job is YieldSwap, where the worker lets go of    *)
(* the fiber: YieldCovered says that somebody else has it by then, and     *)
(* that this is still so because another worker that took it stays in      *)
(* resume() until the stack is free.  OneStack makes the marks READY and   *)
(* RUNNING belong to one worker.  Phase ties m_stopping to stop(), after   *)
(* which only running jobs and wakers submit.                              *)
(***************************************************************************)

OnStackPlace == {"body", "yield", "swap"}

\* Two workers are never on one fiber's stack (the step that would is the fault).
OneStack ==
  \A t, u \in Workers :
    /\ t # u
    /\ cur[t] \in Jobs
    /\ cur[t] = cur[u]
    => pc[t] \notin OnStackPlace \/ pc[u] \notin OnStackPlace

\* Whoever is about to leave a fiber's stack knows it is somewhere else, too.
YieldCovered ==
  \A t \in Workers :
    pc[t] \in {"yield", "swap"} =>
      \/ Queued(cur[t])
      \/ wakers[cur[t]] > 0
      \/ \E u \in Workers : u # t /\ cur[u] = cur[t] /\ pc[u] = "resume"

Phase ==
  /\ stopping <=> mpc # "main"
  /\ \A t \in Workers : pc[t] = "exit" => idleTerm[t]

WorkInv == NeverLost /\ RunningTruth /\ OneStack /\ YieldCovered /\ Phase /\ Drained

\* Job j has a task in list q.
InList(q, j) == \E i \in DOMAIN q : q[i].job = j

LEMMA ListPush ==
  ASSUME NEW q \in Seq(Task), NEW k \in Jobs, NEW p \in Pins
  PROVE  /\ Push(q, k, p) \in Seq(Task)
         /\ \A j \in Jobs : InList(q, j) => InList(Push(q, k, p), j)
         /\ InList(Push(q, k, p), k)
  <1> DEFINE r == Push(q, k, p)
  <1>1. /\ Len(r) = Len(q) + 1
        /\ \A i \in 1..Len(q) : r[i] = q[i]
        /\ r[Len(q) + 1] = [job |-> k, pin |-> p]
        /\ r \in Seq(Task)
    BY PushTask
  <1>2. DOMAIN q = 1..Len(q) /\ DOMAIN r = 1..Len(r) /\ Len(q) \in Nat
    BY <1>1, LenProperties
  <1> HIDE DEF r
  <1>3. /\ \A j \in Jobs : InList(q, j) => InList(r, j)
        /\ InList(r, k)
    BY <1>1, <1>2 DEF InList
  <1> QED BY <1>1, <1>3 DEF r

LEMMA QueuedPush ==
  ASSUME TypeOK, NEW k \in Jobs, NEW p \in Pins, tasks' = Push(tasks, k, p)
  PROVE  (\A j \in Jobs : Queued(j) => Queued(j)') /\ Queued(k)'
  <1>1. (\A j \in Jobs : InList(tasks, j) => InList(tasks', j)) /\ InList(tasks', k)
    BY ListPush DEF TypeOK
  <1> QED BY <1>1 DEF InList, Queued

LEMMA QueuedRemove ==
  ASSUME TypeOK, NEW i \in DOMAIN tasks, tasks' = RemoveAt(tasks, i)
  PROVE  \A j \in Jobs : Queued(j) => Queued(j)' \/ j = tasks[i].job
  <1>1. i \in 1..Len(tasks) /\ DOMAIN tasks = 1..Len(tasks) /\ Len(tasks) \in Nat
    BY LenProperties DEF TypeOK
  <1>2. /\ tasks' \in Seq(Task)
        /\ Len(tasks') = Len(tasks) - 1
        /\ \A m \in 1..(Len(tasks) - 1) : tasks'[m] = tasks[IF m < i THEN m ELSE m + 1]
    BY <1>1, RemoveTask DEF TypeOK
  <1>3. DOMAIN tasks' = 1..(Len(tasks) - 1)
    BY <1>2, LenProperties
  <1> SUFFICES ASSUME NEW k \in DOMAIN tasks, k # i
               PROVE  \E m \in DOMAIN tasks' : tasks'[m] = tasks[k]
    BY DEF Queued
  <1>4. CASE k < i
    BY <1>1, <1>2, <1>3, <1>4
  <1>5. CASE ~(k < i)
    <2>1. k - 1 \in 1..(Len(tasks) - 1) /\ ~(k - 1 < i)
      BY <1>1, <1>5
    <2>2. tasks'[k - 1] = tasks[k]
      BY <1>1, <1>2, <2>1
    <2> QED BY <1>3, <2>1, <2>2
  <1> QED BY <1>4, <1>5

LEMMA WorkInvInit == Init => WorkInv
  <1> SUFFICES ASSUME Init PROVE WorkInv
    OBVIOUS
  <1>1. \A t \in Workers : pc[t] = "unborn" /\ cur[t] \notin Jobs /\ ~idleTerm[t]
    BY ConstantsAssumption DEF Init
  <1>2. \A j \in Jobs : fstate[j] = "unsubmitted"
    BY DEF Init
  <1> QED BY <1>1, <1>2 DEF Init, WorkInv, NeverLost, RunningTruth, OneStack, YieldCovered,
                           Phase, Drained, OnStackPlace

\* As long as a worker is busy the scheduler is not drained.
LEMMA BusyNotStopping ==
  ASSUME TypeOK, Counters, NEW t \in Workers, pc[t] \in BusyPlace
  PROVE  active > 0 /\ ~Stopping
  <1>1. IsFiniteSet(Busy) /\ t \in Busy
    BY WorkersFinite, FS_Subset DEF Busy
  <1>2. Cardinality(Busy) > 0
    BY <1>1, CountMove
  <1> QED BY <1>2 DEF Counters, Stopping

LEMMA WorkInvNext == TypeInv /\ WorkInv /\ [Next]_vars => WorkInv'
  <1> SUFFICES ASSUME TypeInv, WorkInv, [Next]_vars PROVE WorkInv'
    OBVIOUS
  <1> USE DEF TypeInv, WorkInv
  <1>c. NoJob \notin Jobs /\ AnyThread \in Pins
    BY ConstantsAssumption DEF Pins
  <1>t. /\ fstate \in [Jobs -> FiberState] /\ wakers \in [Jobs -> 0..MaxWakers]
        /\ pc \in [Workers -> Place] /\ cur \in [Workers -> Jobs \cup {NoJob}]
        /\ idleTerm \in [Workers -> BOOLEAN]
    BY DEF TypeOK
  <1>n. \A j \in Jobs : fstate[j] = "unsubmitted" =>
          \A t \in Workers : cur[t] = j => pc[t] \in {"resume", "swap"}
    BY DEF RunningTruth, Holding
  \* What a submission leaves alone, whoever makes it.
  <1>s. ASSUME NEW j \in Jobs, NEW p \in Pins, Submit(j, p), ~Stopping, ~late => \A t \in Workers : ~idleTerm[t]
        PROVE  WorkInv'
    <2>1. \A k \in Jobs : (Queued(k) => Queued(k)') /\ Queued(j)'
      BY <1>s, QueuedPush DEF Submit
    <2>2. \A k \in Jobs : k # j => fstate'[k] = fstate[k]
      BY <1>s, <1>t DEF Submit
    <2>3. fstate'[j] # "RUNNING" /\ fstate[j] # "RUNNING"
      BY <1>s, <1>t DEF Submit, AsSubmitted
    <2>4. UNCHANGED <<wakers, pc, cur, idleTerm, stopping, mpc, late, active>>
      BY <1>s DEF Submit, workerVars, mainVars
    <2>5. NeverLost'
      BY <2>1, <2>2, <2>4 DEF NeverLost
    <2>6. RunningTruth'
      BY <2>2, <2>3, <2>4 DEF RunningTruth
    <2>7. YieldCovered'
      BY <2>1, <2>4 DEF YieldCovered, Holding
    <2>8. OneStack' /\ Phase' /\ Drained'
      BY <2>4, <1>s DEF OneStack, Phase, Drained
    <2> QED BY <2>5, <2>6, <2>7, <2>8
  <1>m. mpc = "main" => ~stopping /\ ~Stopping /\ (~late => \A t \in Workers : ~idleTerm[t])
    BY DEF Phase, Drained, Stopping
  <1>1. ASSUME NEW j \in Jobs, NEW p \in Pins, MainSubmit(j, p)
        PROVE  WorkInv'
    BY <1>1, <1>s, <1>m DEF MainSubmit
  <1>2. ASSUME NEW j \in Jobs, NEW k \in Jobs, MainSubmitBatch(j, k)
        PROVE  WorkInv'
    <2> DEFINE q == Push(tasks, j, AnyThread)
    <2>1. q \in Seq(Task) /\ (\A i \in Jobs : InList(tasks, i) => InList(q, i)) /\ InList(q, j)
      BY <1>c, ListPush DEF TypeOK
    <2>2. tasks' = Push(q, k, AnyThread)
      BY <1>2 DEF MainSubmitBatch
    <2> HIDE DEF q
    <2>3. (\A i \in Jobs : InList(tasks, i) => InList(tasks', i)) /\ InList(tasks', j) /\ InList(tasks', k)
      BY <1>c, <2>1, <2>2, ListPush
    <2>4. (\A i \in Jobs : Queued(i) => Queued(i)') /\ Queued(j)' /\ Queued(k)'
      BY <2>3 DEF InList, Queued
    <2>5. \A i \in Jobs : i # j /\ i # k => fstate'[i] = fstate[i]
      BY <1>2, <1>t DEF MainSubmitBatch
    <2>6. \A i \in {j, k} : fstate'[i] # "RUNNING" /\ fstate[i] # "RUNNING"
      BY <1>2, <1>t DEF MainSubmitBatch, AsSubmitted
    <2>7. UNCHANGED <<wakers, pc, cur, idleTerm, stopping, mpc, late, active>>
      BY <1>2 DEF MainSubmitBatch, workerVars, mainVars
    <2>8. NeverLost'
      BY <2>4, <2>5, <2>7 DEF NeverLost
    <2>9. RunningTruth'
      BY <2>5, <2>6, <2>7 DEF RunningTruth
    <2>10. YieldCovered'
      BY <2>4, <2>7 DEF YieldCovered, Holding
    <2>11. OneStack' /\ Phase' /\ Drained'
      BY <2>7, <1>2, <1>m DEF MainSubmitBatch, OneStack, Phase, Drained
    <2> QED BY <2>8, <2>9, <2>10, <2>11
  <1>3. CASE Start
    <2>0. UNCHANGED <<tasks, fstate, wakers, cur, idleTerm, stopping, mpc, late, active>>
      BY <1>3 DEF Start, jobVars, mainVars
    <2>1. \A t \in Workers : pc'[t] = pc[t] \/ (pc[t] = "unborn" /\ pc'[t] = "scan")
      BY <1>3, <1>t DEF Start
    <2> USE <2>0
    <2>2. NeverLost'
      BY <2>1 DEF NeverLost, Queued
    <2>3. RunningTruth' /\ OneStack' /\ Phase' /\ Drained'
      BY <2>1 DEF RunningTruth, OneStack, OnStackPlace, Phase, Drained, Stopping
    <2>4. YieldCovered'
      BY <2>1 DEF YieldCovered, Queued
    <2> QED BY <2>2, <2>3, <2>4
  <1>4. CASE Stop
    <2>0. UNCHANGED <<tasks, fstate, wakers, cur, idleTerm, late, active>> /\ stopping' /\ mpc' # "main"
      BY <1>4 DEF Stop, jobVars
    <2>1. \A t \in Workers : pc'[t] = pc[t] \/ (pc[t] = "unborn" /\ pc'[t] = "scan")
      <3>1. CASE UseCaller
        <4>1. pc' = [pc EXCEPT ![Main] = "scan"] /\ mpc = "main"
          BY <1>4, <3>1 DEF Stop
        <4> QED BY <4>1, <1>t DEF CallerAway
      <3>2. CASE ~UseCaller
        BY <1>4, <3>2 DEF Stop
      <3> QED BY <3>1, <3>2
    <2> USE <2>0
    <2>2. NeverLost'
      BY <2>1 DEF NeverLost, Queued
    <2>3. RunningTruth' /\ OneStack' /\ Phase'
      BY <2>1 DEF RunningTruth, OneStack, OnStackPlace, Phase
    <2>4. YieldCovered'
      BY <2>1 DEF YieldCovered, Queued
    <2>5. Drained'
      BY <1>4, <2>1, <1>m DEF Stop, Drained
    <2> QED BY <2>2, <2>3, <2>4, <2>5
  <1>5. CASE Join
    <2>1. UNCHANGED <<tasks, fstate, wakers, pc, cur, idleTerm, stopping, late, active>> /\ mpc # "main" /\ mpc' # "main"
      BY <1>5 DEF Join, jobVars, workerVars
    <2> QED BY <2>1 DEF NeverLost, RunningTruth, OneStack, YieldCovered, Phase, Drained, Queued, Stopping
  <1>6. ASSUME NEW j \in Jobs, Wake(j)
        PROVE  WorkInv'
    <2>1. (\A k \in Jobs : Queued(k) => Queued(k)') /\ Queued(j)'
      BY <1>6, <1>c, QueuedPush DEF Wake
    <2>2. /\ \A k \in Jobs : k # j => wakers'[k] = wakers[k]
          /\ UNCHANGED <<fstate, pc, cur, idleTerm, stopping, mpc, active>>
          /\ ~late' => ~late /\ \A t \in Workers : ~idleTerm[t]
      BY <1>6, <1>t DEF Wake, workerVars, mainVars
    <2>3. NeverLost' /\ YieldCovered'
      BY <2>1, <2>2, <1>t DEF NeverLost, YieldCovered, Holding
    <2>4. RunningTruth' /\ OneStack' /\ Phase' /\ Drained'
      BY <2>2 DEF RunningTruth, OneStack, Phase, Drained
    <2> QED BY <2>3, <2>4
  <1>7. ASSUME NEW t \in Workers, WorkerStep(t)
        PROVE  WorkInv'
    <2>b. pc[t] \in BusyPlace => ~Stopping /\ active > 0 /\ (~late => \A u \in Workers : ~idleTerm[u])
      BY BusyNotStopping DEF Drained
    \* A step that only moves t, between places where it is on no stack.
    <2>o. ASSUME UNCHANGED <<tasks, fstate, wakers, cur, stopping, late>>, mpc' # "main" <=> mpc # "main",
                 NEW v \in Place, pc' = [pc EXCEPT ![t] = v],
                 pc[t] \notin OnStackPlace \cup {"resume"}, v \notin OnStackPlace \cup {"resume"}
          PROVE  NeverLost' /\ RunningTruth' /\ OneStack' /\ YieldCovered'
      <3>1. \A u \in Workers : u # t => pc'[u] = pc[u]
        BY <2>o, <1>t
      <3>2. pc'[t] = v
        BY <2>o, <1>t
      <3>3. NeverLost'
        BY <2>o DEF NeverLost, Queued
      <3>4. RunningTruth' /\ OneStack'
        BY <2>o, <3>1, <3>2 DEF RunningTruth, OneStack, OnStackPlace
      <3>5. YieldCovered'
        BY <2>o, <3>1, <3>2 DEF YieldCovered, Queued, OnStackPlace
      <3> QED BY <3>3, <3>4, <3>5
    <2>1. CASE Take(t)
      <3>1. PICK i \in DOMAIN tasks : /\ tasks' = RemoveAt(tasks, i)
                                     /\ cur' = [cur EXCEPT ![t] = tasks[i].job]
        BY <2>1 DEF Take
      <3>2. tasks[i].job \in Jobs
        <4>1. tasks[i] \in Task
          BY LenProperties, ElementOfSeq DEF TypeOK
        <4> QED BY <4>1 DEF Task
      <3>3. \A k \in Jobs : Queued(k) => Queued(k)' \/ k = tasks[i].job
        BY <3>1, QueuedRemove
      <3>4. /\ \A u \in Workers : u # t => pc'[u] = pc[u] /\ cur'[u] = cur[u]
            /\ pc'[t] = "resume" /\ cur'[t] = tasks[i].job /\ cur[t] \notin Jobs /\ pc[t] = "scan"
            /\ UNCHANGED <<fstate, wakers, idleTerm, stopping, mpc, late>>
        BY <2>1, <3>1, <1>t DEF Take, jobVars, mainVars, Holding
      <3>5. NeverLost'
        BY <3>3, <3>4 DEF NeverLost
      <3>6. RunningTruth' /\ OneStack'
        BY <3>4 DEF RunningTruth, OneStack, OnStackPlace
      <3>7. YieldCovered'
        BY <3>2, <3>3, <3>4 DEF YieldCovered, Holding
      <3>8. Phase' /\ (~late => \A u \in Workers : ~idleTerm[u]) /\ Drained'
        <4>1. ~Stopping
          BY <3>1, EmptySeq DEF Stopping
        <4> QED BY <4>1, <3>4 DEF Phase, Drained
      <3> QED BY <3>5, <3>6, <3>7, <3>8
    <2>2. CASE TakeNothing(t)
      <3>1. NeverLost' /\ RunningTruth' /\ OneStack' /\ YieldCovered'
        BY <2>2, <2>o DEF TakeNothing, Place, OnStackPlace, jobVars, mainVars
      <3>2. Phase' /\ Drained'
        BY <2>2, <1>t DEF TakeNothing, Phase, Drained, Stopping, mainVars
      <3> QED BY <3>1, <3>2
    <2>3. CASE Resume(t)
      <3> DEFINE j == cur[t]
      <3>1. /\ j \in Jobs
            /\ \A u \in Workers : u # t => pc'[u] = pc[u]
            /\ pc'[t] = "body" /\ pc[t] = "resume"
            /\ \A k \in Jobs : k # j => fstate'[k] = fstate[k]
            /\ fstate'[j] = "RUNNING"
            /\ \A u \in Workers : u # t /\ cur[u] = j => pc[u] \notin OnStackPlace
            /\ UNCHANGED <<tasks, wakers, cur, idleTerm, stopping, mpc, late, active>>
        BY <2>3, <1>t DEF Resume, Holding, OnStack, OnStackPlace
      <3>2. NeverLost'
        BY <3>1 DEF NeverLost, Queued
      <3>3. RunningTruth'
        BY <3>1 DEF RunningTruth, OnStackPlace
      <3>4. OneStack'
        BY <3>1 DEF OneStack, OnStackPlace
      <3>5. YieldCovered'
        BY <3>1 DEF YieldCovered, Queued, OnStackPlace
      <3>6. Phase' /\ Drained'
        BY <3>1 DEF Phase, Drained, Stopping
      <3> QED BY <3>2, <3>3, <3>4, <3>5, <3>6
    <2>4. CASE Requeue(t)
      <3>1. cur[t] \in Jobs /\ t \in Pins
        BY <2>4 DEF Requeue, Holding, Pins
      <3>2. (\A k \in Jobs : Queued(k) => Queued(k)') /\ Queued(cur[t])'
        BY <2>4, <3>1, QueuedPush DEF Requeue
      <3>3. /\ \A u \in Workers : u # t => pc'[u] = pc[u]
            /\ pc'[t] = "yield" /\ pc[t] = "body"
            /\ UNCHANGED <<fstate, wakers, cur, idleTerm, stopping, mpc, late, active>>
        BY <2>4, <1>t DEF Requeue, mainVars
      <3>4. NeverLost'
        BY <3>2, <3>3 DEF NeverLost
      <3>5. RunningTruth' /\ OneStack'
        BY <3>3 DEF RunningTruth, OneStack, OnStackPlace
      <3>6. YieldCovered'
        BY <3>2, <3>3 DEF YieldCovered, Holding
      <3>7. Phase' /\ Drained'
        BY <2>b, <3>3 DEF Phase, Drained, BusyPlace
      <3> QED BY <3>4, <3>5, <3>6, <3>7
    <2>5. ASSUME NEW n \in 1..MaxWakers, Arm(t, n)
          PROVE  WorkInv'
      <3>1. /\ cur[t] \in Jobs
            /\ \A u \in Workers : u # t => pc'[u] = pc[u]
            /\ pc'[t] = "yield" /\ pc[t] = "body"
            /\ \A k \in Jobs : wakers[k] > 0 => wakers'[k] > 0
            /\ wakers'[cur[t]] > 0
            /\ UNCHANGED <<tasks, fstate, cur, idleTerm, stopping, mpc, late, active>>
        BY <2>5, <1>t DEF Arm, Holding, mainVars
      <3>2. NeverLost'
        BY <3>1 DEF NeverLost, Queued
      <3>3. RunningTruth' /\ OneStack'
        BY <3>1 DEF RunningTruth, OneStack, OnStackPlace
      <3>4. YieldCovered'
        BY <3>1 DEF YieldCovered, Queued, Holding
      <3>5. Phase' /\ Drained'
        BY <3>1 DEF Phase, Drained, Stopping
      <3> QED BY <3>2, <3>3, <3>4, <3>5
    <2>6. CASE YieldMark(t)
      <3>1. /\ cur[t] \in Jobs
            /\ \A u \in Workers : u # t => pc'[u] = pc[u]
            /\ pc'[t] = "swap" /\ pc[t] = "yield"
            /\ \A k \in Jobs : k # cur[t] => fstate'[k] = fstate[k]
            /\ fstate'[cur[t]] = "READY" /\ fstate[cur[t]] = "RUNNING"
            /\ UNCHANGED <<tasks, wakers, cur, idleTerm, stopping, mpc, late, active>>
        BY <2>6, <1>t DEF YieldMark, Holding, RunningTruth, mainVars
      <3>2. NeverLost'
        BY <3>1 DEF NeverLost, Queued
      <3>3. RunningTruth'
        BY <3>1 DEF RunningTruth, OneStack, OnStackPlace
      <3>4. OneStack' /\ Phase' /\ Drained'
        BY <3>1 DEF OneStack, OnStackPlace, Phase, Drained, Stopping
      <3>5. YieldCovered'
        BY <3>1 DEF YieldCovered, Queued
      <3> QED BY <3>2, <3>3, <3>4, <3>5
    <2>7. CASE YieldSwap(t)
      <3>1. /\ \A u \in Workers : u # t => pc'[u] = pc[u] /\ cur'[u] = cur[u]
            /\ pc'[t] = "after" /\ pc[t] = "swap" /\ cur'[t] = NoJob
            /\ UNCHANGED <<tasks, fstate, wakers, idleTerm, stopping, mpc, late, active>>
        BY <2>7, <1>t DEF YieldSwap, jobVars, mainVars
      <3>2. NeverLost'
        BY <3>1, <1>c DEF NeverLost, YieldCovered, Queued
      <3>3. RunningTruth' /\ OneStack' /\ Phase' /\ Drained'
        BY <3>1, <1>c DEF RunningTruth, OneStack, OnStackPlace, Phase, Drained, Stopping
      <3>4. YieldCovered'
        BY <3>1, <1>c DEF YieldCovered, Queued
      <3> QED BY <3>2, <3>3, <3>4
    <2>8. CASE End(t)
      <3>1. /\ cur[t] \in Jobs
            /\ \A u \in Workers : u # t => pc'[u] = pc[u] /\ cur'[u] = cur[u]
            /\ pc'[t] = "after" /\ pc[t] = "body" /\ cur'[t] = NoJob
            /\ \A k \in Jobs : k # cur[t] => fstate'[k] = fstate[k]
            /\ fstate'[cur[t]] = "TERM"
            /\ UNCHANGED <<tasks, wakers, idleTerm, stopping, mpc, late, active>>
        BY <2>8, <1>t DEF End, Holding, mainVars
      <3>2. NeverLost'
        BY <3>1, <1>c DEF NeverLost, Queued
      <3>3. RunningTruth'
        BY <3>1, <1>c DEF RunningTruth, OneStack, OnStackPlace
      <3>4. OneStack' /\ Phase' /\ Drained'
        BY <3>1, <1>c DEF OneStack, OnStackPlace, Phase, Drained, Stopping
      <3>5. YieldCovered'
        BY <3>1, <1>c DEF YieldCovered, Queued
      <3> QED BY <3>2, <3>3, <3>4, <3>5
    <2>9. CASE Release(t)
      <3>1. NeverLost' /\ RunningTruth' /\ OneStack' /\ YieldCovered'
        BY <2>9, <2>o DEF Release, Place, OnStackPlace, jobVars, mainVars
      <3>2. Phase' /\ Drained'
        BY <2>9, <2>b, <1>t DEF Release, Phase, Drained, mainVars, BusyPlace
      <3> QED BY <3>1, <3>2
    <2>10. CASE IdleEnter(t)
      <3>1. NeverLost' /\ RunningTruth' /\ OneStack' /\ YieldCovered'
        BY <2>10, <2>o DEF IdleEnter, Place, OnStackPlace, jobVars
      <3>2. Phase' /\ Drained'
        BY <2>10, <1>t DEF IdleEnter, Phase, Drained, Stopping
      <3> QED BY <3>1, <3>2
    <2>11. CASE IdleCheck(t)
      <3>1. NeverLost' /\ RunningTruth' /\ OneStack' /\ YieldCovered'
        BY <2>11, <2>o DEF IdleCheck, Place, OnStackPlace, jobVars, mainVars
      <3>2. Phase' /\ Drained'
        BY <2>11, <1>t DEF IdleCheck, Phase, Drained, Stopping, mainVars
      <3> QED BY <3>1, <3>2
    <2>12. CASE IdleLeave(t)
      <3>1. NeverLost' /\ RunningTruth' /\ OneStack' /\ YieldCovered'
        BY <2>12, <2>o DEF IdleLeave, Place, OnStackPlace, jobVars, mainVars
      <3>2. Phase' /\ Drained'
        BY <2>12, <1>t DEF IdleLeave, Phase, Drained, Stopping, mainVars
      <3> QED BY <3>1, <3>2
    <2>13. CASE Exit(t)
      <3>1. NeverLost' /\ RunningTruth' /\ OneStack' /\ YieldCovered'
        BY <2>13, <2>o DEF Exit, Place, OnStackPlace, jobVars, mainVars
      <3>2. Phase' /\ Drained'
        BY <2>13, <1>t DEF Exit, Phase, Drained, Stopping, mainVars
      <3> QED BY <3>1, <3>2
    <2>14. CASE t = Main /\ ExitRoot
      <3>1. NeverLost' /\ RunningTruth' /\ OneStack' /\ YieldCovered'
        BY <2>14, <2>o DEF ExitRoot, Place, OnStackPlace, jobVars
      <3>2. Phase' /\ Drained'
        BY <2>14, <1>t DEF ExitRoot, Phase, Drained, Stopping
      <3> QED BY <3>1, <3>2
    <2>15. CASE ResumeShared(t) \/ ResumeEnded(t)
      <3>1. UNCHANGED <<tasks, fstate, wakers, pc, cur, idleTerm, stopping, mpc, late, active>>
        BY <2>15 DEF ResumeShared, ResumeEnded, jobVars, workerVars, mainVars
      <3> QED BY <3>1 DEF NeverLost, RunningTruth, OneStack, YieldCovered, Phase, Drained, Queued, Stopping
    <2>16. ASSUME NEW j \in Jobs, NEW p \in Pins, Spawn(t, j, p)
          PROVE  WorkInv'
      BY <2>16, <2>b, <1>s DEF Spawn, BusyPlace
    <2> QED
      BY <1>7, <2>1, <2>2, <2>3, <2>4, <2>5, <2>6, <2>7, <2>8, <2>9, <2>10, <2>11, <2>12,
         <2>13, <2>14, <2>15, <2>16 DEF WorkerStep, RunStep, BodyStep
  <1>8. CASE UNCHANGED vars
    <2>1. UNCHANGED <<tasks, fstate, wakers, pc, cur, idleTerm, stopping, mpc, late, active>>
      BY <1>8 DEF vars, jobVars, workerVars, mainVars
    <2> QED BY <2>1 DEF NeverLost, RunningTruth, OneStack, YieldCovered, Phase, Drained, Queued, Stopping
  <1> QED
    BY <1>1, <1>2, <1>3, <1>4, <1>5, <1>6, <1>7, <1>8 DEF Next, MainStep, StartRefused, Faulted

-----------------------------------------------------------------------------
(***************************************************************************)
(* Fibers that reschedule themselves on their own thread are safe          *)
(***************************************************************************)

\* With MaxWakers = 0 a job is in one place; the only overlap is a fiber that has
\* queued itself for its own thread and is still on its stack.
Solo ==
  /\ \A i, k \in DOMAIN tasks : tasks[i].job = tasks[k].job => i = k
  /\ \A t, u \in Workers : cur[t] \in Jobs /\ cur[t] = cur[u] => t = u
  /\ \A i \in DOMAIN tasks, t \in Workers :
       tasks[i].job = cur[t] => pc[t] \in {"yield", "swap"} /\ tasks[i].pin = t
  /\ \A i \in DOMAIN tasks : fstate[tasks[i].job] \notin {"unsubmitted", "TERM"}
  /\ \A t \in Workers : cur[t] \in Jobs => fstate[cur[t]] \notin {"unsubmitted", "TERM"}
  /\ fault \notin {"shared_stack", "exit"}

\* The tasks after schedule(): the old ones at their indices, and the new one.
LEMMA PushIndices ==
  ASSUME NEW q \in Seq(Task), NEW k \in Jobs, NEW p \in Pins
  PROVE  /\ Len(q) \in Nat /\ DOMAIN q = 1..Len(q)
         /\ DOMAIN Push(q, k, p) = 1..(Len(q) + 1)
         /\ \A i \in 1..Len(q) : Push(q, k, p)[i] = q[i] /\ q[i].job \in Jobs
         /\ Push(q, k, p)[Len(q) + 1] = [job |-> k, pin |-> p]
  <1> DEFINE r == Push(q, k, p)
  <1>1. /\ r \in Seq(Task)
        /\ Len(r) = Len(q) + 1
        /\ \A i \in 1..Len(q) : r[i] = q[i]
        /\ r[Len(q) + 1] = [job |-> k, pin |-> p]
    BY PushTask
  <1> HIDE DEF r
  <1>2. DOMAIN q = 1..Len(q) /\ DOMAIN r = 1..Len(r) /\ Len(q) \in Nat
    BY <1>1, LenProperties
  <1>3. \A i \in 1..Len(q) : q[i] \in Task
    BY ElementOfSeq
  <1>4. \A i \in 1..Len(q) : q[i].job \in Jobs
    BY <1>3 DEF Task
  <1> QED BY <1>1, <1>2, <1>4 DEF r

LEMMA SoloInit == Init => Solo
  BY ConstantsAssumption DEF Init, Solo

\* schedule() of a job that is nowhere: not in the list and with no worker, or
\* with the one worker on whose stack it is and to which the task is pinned.
LEMMA SoloPush ==
  ASSUME TypeOK, Solo, NEW k \in Jobs, NEW p \in Pins, tasks' = Push(tasks, k, p),
         \A i \in DOMAIN tasks : tasks[i].job # k,
         \A t \in Workers : cur'[t] = k => pc'[t] \in {"yield", "swap"} /\ p = t,
         \A t \in Workers : cur'[t] = cur[t] /\ (pc'[t] = pc[t] \/ cur[t] = k),
         \A j \in Jobs : j # k => fstate'[j] = fstate[j],
         fstate'[k] \notin {"unsubmitted", "TERM"},
         fault' = fault
  PROVE  Solo'
  <1> DEFINE n == Len(tasks) + 1
  <1>0. tasks \in Seq(Task)
    BY DEF TypeOK
  <1>1. /\ \A i \in DOMAIN tasks' : i \in DOMAIN tasks \/ i = n
        /\ n \notin DOMAIN tasks
        /\ \A i \in DOMAIN tasks : tasks'[i] = tasks[i] /\ tasks[i].job \in Jobs
        /\ tasks'[n] = [job |-> k, pin |-> p]
    <2>1. /\ Len(tasks) \in Nat /\ DOMAIN tasks = 1..Len(tasks)
          /\ DOMAIN tasks' = 1..(Len(tasks) + 1)
          /\ \A i \in 1..Len(tasks) : tasks'[i] = tasks[i] /\ tasks[i].job \in Jobs
          /\ tasks'[Len(tasks) + 1] = [job |-> k, pin |-> p]
      BY <1>0, PushIndices
    <2> QED BY <2>1
  <1> HIDE DEF n
  <1>2. \A i, j \in DOMAIN tasks' : tasks'[i].job = tasks'[j].job => i = j
    BY <1>1 DEF Solo
  <1>3. \A t, u \in Workers : cur'[t] \in Jobs /\ cur'[t] = cur'[u] => t = u
    BY DEF Solo
  <1>4. \A i \in DOMAIN tasks', t \in Workers :
          tasks'[i].job = cur'[t] => pc'[t] \in {"yield", "swap"} /\ tasks'[i].pin = t
    BY <1>1 DEF Solo
  <1>5. \A i \in DOMAIN tasks' : fstate'[tasks'[i].job] \notin {"unsubmitted", "TERM"}
    BY <1>1 DEF Solo
  <1>6. \A t \in Workers : cur'[t] \in Jobs => fstate'[cur'[t]] \notin {"unsubmitted", "TERM"}
    BY DEF Solo
  <1> QED BY <1>2, <1>3, <1>4, <1>5, <1>6 DEF Solo

LEMMA SoloNext == MaxWakers = 0 /\ TypeInv /\ Solo /\ [Next]_vars => Solo'
  <1> SUFFICES ASSUME MaxWakers = 0, TypeInv, Solo, [Next]_vars PROVE Solo'
    OBVIOUS
  <1> USE DEF TypeInv, Alive
  <1>c. NoJob \notin Jobs /\ AnyThread \in Pins /\ AnyThread \notin Workers
    BY ConstantsAssumption DEF Pins, Workers
  <1>t. /\ fstate \in [Jobs -> FiberState] /\ wakers \in [Jobs -> 0..MaxWakers]
        /\ pc \in [Workers -> Place] /\ cur \in [Workers -> Jobs \cup {NoJob}]
    BY DEF TypeOK
  <1>n. ASSUME NEW j \in Jobs, fstate[j] = "unsubmitted"
        PROVE  (\A i \in DOMAIN tasks : tasks[i].job # j) /\ (\A t \in Workers : cur[t] # j)
    BY <1>n DEF Solo
  <1>s. ASSUME NEW j \in Jobs, NEW p \in Pins, Submit(j, p)
        PROVE  Solo'
    <2>1. /\ fstate[j] = "unsubmitted" /\ tasks' = Push(tasks, j, p)
          /\ \A k \in Jobs : k # j => fstate'[k] = fstate[k]
          /\ fstate'[j] \notin {"unsubmitted", "TERM"}
          /\ UNCHANGED <<pc, cur, fault>>
      BY <1>s, <1>t DEF Submit, AsSubmitted, workerVars
    <2> QED BY <2>1, <1>n, SoloPush
  <1>1. ASSUME NEW j \in Jobs, NEW p \in Pins, MainSubmit(j, p)
        PROVE  Solo'
    BY <1>1, <1>s DEF MainSubmit
  <1>2. ASSUME NEW j \in Jobs, NEW k \in Jobs, MainSubmitBatch(j, k)
        PROVE  Solo'
    <2> DEFINE q == Push(tasks, j, AnyThread)
               n == Len(tasks) + 1
               m == Len(q) + 1
    <2>0. tasks \in Seq(Task) /\ q \in Seq(Task)
      BY <1>c, PushTask DEF TypeOK
    <2>1. /\ \A i \in DOMAIN q : i \in DOMAIN tasks \/ i = n
          /\ n \notin DOMAIN tasks
          /\ \A i \in DOMAIN tasks : q[i] = tasks[i] /\ tasks[i].job \in Jobs
          /\ q[n] = [job |-> j, pin |-> AnyThread]
      <3>1. /\ Len(tasks) \in Nat /\ DOMAIN tasks = 1..Len(tasks)
            /\ DOMAIN q = 1..(Len(tasks) + 1)
            /\ \A i \in 1..Len(tasks) : q[i] = tasks[i] /\ tasks[i].job \in Jobs
            /\ q[Len(tasks) + 1] = [job |-> j, pin |-> AnyThread]
        BY <1>c, <2>0, PushIndices
      <3> QED BY <3>1
    <2>2. tasks' = Push(q, k, AnyThread)
      BY <1>2 DEF MainSubmitBatch
    <2> HIDE DEF q, n
    <2>3. /\ \A i \in DOMAIN tasks' : i \in DOMAIN q \/ i = m
          /\ \A i \in DOMAIN q : tasks'[i] = q[i]
          /\ tasks'[m] = [job |-> k, pin |-> AnyThread]
      <3>1. /\ Len(q) \in Nat /\ DOMAIN q = 1..Len(q)
            /\ DOMAIN tasks' = 1..(Len(q) + 1)
            /\ \A i \in 1..Len(q) : tasks'[i] = q[i] /\ q[i].job \in Jobs
            /\ tasks'[Len(q) + 1] = [job |-> k, pin |-> AnyThread]
        BY <1>c, <2>0, <2>2, PushIndices
      <3> QED BY <3>1
    <2> HIDE DEF m
    <2>4. \A i \in DOMAIN tasks' : \/ i \in DOMAIN tasks /\ tasks'[i] = tasks[i]
                                   \/ i = n /\ tasks'[i].job = j
                                   \/ i = m /\ tasks'[i].job = k
      BY <2>1, <2>3
    <2>a. fstate[j] = "unsubmitted" /\ fstate[k] = "unsubmitted" /\ j # k
      BY <1>2 DEF MainSubmitBatch
    <2>b. /\ \A i \in DOMAIN tasks : tasks[i].job # j /\ tasks[i].job # k
          /\ \A t \in Workers : cur[t] # j /\ cur[t] # k
      BY <1>n, <2>a
    <2>c. \A i \in DOMAIN tasks : tasks[i].job \in Jobs
      BY <2>1
    <2>5. /\ \A i \in Jobs \ {j, k} : fstate'[i] = fstate[i]
          /\ \A i \in {j, k} : fstate'[i] \notin {"unsubmitted", "TERM"}
          /\ UNCHANGED <<pc, cur, fault>>
      BY <1>2, <1>t DEF MainSubmitBatch, AsSubmitted, workerVars
    <2>6. \A i, l \in DOMAIN tasks' : tasks'[i].job = tasks'[l].job => i = l
      BY <2>4, <2>a, <2>b, <2>c DEF Solo
    <2>7. \A i \in DOMAIN tasks', t \in Workers :
            tasks'[i].job = cur'[t] => pc'[t] \in {"yield", "swap"} /\ tasks'[i].pin = t
      BY <2>4, <2>a, <2>b, <2>c, <2>5 DEF Solo
    <2>8. /\ \A i \in DOMAIN tasks' : fstate'[tasks'[i].job] \notin {"unsubmitted", "TERM"}
          /\ \A t \in Workers : cur'[t] \in Jobs => fstate'[cur'[t]] \notin {"unsubmitted", "TERM"}
      BY <2>4, <2>a, <2>b, <2>c, <2>5 DEF Solo
    <2> QED BY <2>5, <2>6, <2>7, <2>8 DEF Solo
  \* Steps that leave the jobs alone and move no worker that has one.
  <1>o. ASSUME UNCHANGED <<tasks, fstate, cur>>, fault' \notin {"shared_stack", "exit"},
               \A t \in Workers : pc'[t] = pc[t] \/ cur[t] \notin Jobs
        PROVE  Solo'
    <2>1. \A i \in DOMAIN tasks : tasks[i].job \in Jobs
      <3>1. \A i \in DOMAIN tasks : tasks[i] \in Task
        BY LenProperties, ElementOfSeq DEF TypeOK
      <3> QED BY <3>1 DEF Task
    <2> QED BY <1>o, <2>1 DEF Solo
  <1>3. CASE Start
    <2>1. \A t \in Workers : pc'[t] = pc[t] \/ pc[t] = "unborn"
      BY <1>3, <1>t DEF Start
    <2> QED BY <1>3, <1>o, <2>1 DEF Start, Holding, jobVars, Solo
  <1>4. CASE Stop
    <2>1. \A t \in Workers : pc'[t] = pc[t] \/ pc[t] = "unborn"
      <3>1. CASE UseCaller
        <4>1. pc' = [pc EXCEPT ![Main] = "scan"] /\ mpc = "main"
          BY <1>4, <3>1 DEF Stop
        <4> QED BY <4>1, <1>t DEF CallerAway
      <3>2. CASE ~UseCaller
        BY <1>4, <3>2 DEF Stop
      <3> QED BY <3>1, <3>2
    <2> QED BY <1>4, <1>o, <2>1 DEF Stop, Holding, jobVars, Solo
  <1>5. CASE Join
    BY <1>5, <1>o DEF Join, jobVars, workerVars, Solo
  <1>6. ASSUME NEW j \in Jobs, Wake(j)
        PROVE  FALSE
    BY <1>6, <1>t DEF Wake
  <1>7. ASSUME NEW t \in Workers, WorkerStep(t)
        PROVE  Solo'
    <2>1. CASE Take(t)
      <3>1. PICK i \in DOMAIN tasks : /\ tasks' = RemoveAt(tasks, i)
                                     /\ cur' = [cur EXCEPT ![t] = tasks[i].job]
                                     /\ Eligible(t, tasks[i])
        BY <2>1 DEF Take
      <3>2. i \in 1..Len(tasks) /\ DOMAIN tasks = 1..Len(tasks) /\ Len(tasks) \in Nat /\ tasks \in Seq(Task)
        BY LenProperties DEF TypeOK
      <3> DEFINE was(m) == IF m < i THEN m ELSE m + 1
      <3>3. /\ DOMAIN tasks' = 1..(Len(tasks) - 1)
            /\ \A m \in 1..(Len(tasks) - 1) : tasks'[m] = tasks[was(m)]
        <4>1. /\ tasks' \in Seq(Task)
              /\ Len(tasks') = Len(tasks) - 1
              /\ \A m \in 1..(Len(tasks) - 1) : tasks'[m] = tasks[was(m)]
          BY <3>1, <3>2, RemoveTask
        <4> QED BY <4>1, LenProperties
      <3>4. \A m \in 1..(Len(tasks) - 1) : was(m) \in DOMAIN tasks /\ was(m) # i
        BY <3>2
      <3>5. \A m, l \in 1..(Len(tasks) - 1) : was(m) = was(l) => m = l
        BY <3>2
      <3> HIDE DEF was
      <3>6. tasks[i].job \in Jobs
        <4>1. tasks[i] \in Task
          BY <3>2, ElementOfSeq
        <4> QED BY <4>1 DEF Task
      <3>7. /\ \A u \in Workers : u # t => pc'[u] = pc[u] /\ cur'[u] = cur[u]
            /\ pc[t] = "scan" /\ cur[t] \notin Jobs /\ cur'[t] = tasks[i].job
            /\ UNCHANGED <<fstate, fault>>
        BY <2>1, <3>1, <1>t DEF Take, Holding, jobVars
      \* Nobody has the task taken: its fiber's own worker is not scanning.
      <3>8. \A u \in Workers : cur[u] # tasks[i].job
        BY <3>1, <3>6, <3>7, <1>c DEF Solo, Eligible
      <3>9. \A m, l \in DOMAIN tasks' : tasks'[m].job = tasks'[l].job => m = l
        BY <3>3, <3>4, <3>5 DEF Solo
      <3>10. \A u, v \in Workers : cur'[u] \in Jobs /\ cur'[u] = cur'[v] => u = v
        BY <3>7, <3>8 DEF Solo
      <3>11. \A m \in DOMAIN tasks', u \in Workers :
              tasks'[m].job = cur'[u] => pc'[u] \in {"yield", "swap"} /\ tasks'[m].pin = u
        BY <3>3, <3>4, <3>7 DEF Solo
      <3>12. /\ \A m \in DOMAIN tasks' : fstate'[tasks'[m].job] \notin {"unsubmitted", "TERM"}
             /\ \A u \in Workers : cur'[u] \in Jobs => fstate'[cur'[u]] \notin {"unsubmitted", "TERM"}
        BY <3>3, <3>4, <3>7, SMTT(30) DEF Solo
      <3> QED BY <3>7, <3>9, <3>10, <3>11, <3>12 DEF Solo
    <2>2. CASE \/ TakeNothing(t) \/ Release(t) \/ IdleEnter(t) \/ IdleCheck(t)
             \/ IdleLeave(t) \/ Exit(t) \/ (t = Main /\ ExitRoot)
      <3>1. /\ cur[t] \notin Jobs
            /\ \A u \in Workers : u # t => pc'[u] = pc[u]
            /\ UNCHANGED <<tasks, fstate, cur>>
        BY <2>2, <1>t DEF TakeNothing, Release, IdleEnter, IdleCheck, IdleLeave, Exit, ExitRoot,
                          Holding, jobVars
      <3>2. fault' \in {fault, "dead_frame"}
        BY <2>2 DEF TakeNothing, Release, IdleEnter, IdleCheck, IdleLeave, Exit, ExitRoot
      <3> QED BY <3>1, <3>2, <1>o DEF Solo
    <2>3. CASE Resume(t) \/ YieldMark(t)
      <3>1. /\ cur[t] \in Jobs
            /\ \A u \in Workers : u # t => pc'[u] = pc[u]
            /\ \/ pc[t] = "resume" /\ pc'[t] = "body"
               \/ pc[t] = "yield" /\ pc'[t] = "swap"
            /\ \A k \in Jobs : k # cur[t] => fstate'[k] = fstate[k]
            /\ fstate'[cur[t]] \in {"RUNNING", "READY"}
            /\ UNCHANGED <<tasks, cur, fault>>
        BY <2>3, <1>t DEF Resume, YieldMark, Holding
      <3>2. \A i \in DOMAIN tasks : tasks[i].job \in Jobs
        <4>1. \A i \in DOMAIN tasks : tasks[i] \in Task
          BY LenProperties, ElementOfSeq DEF TypeOK
        <4> QED BY <4>1 DEF Task
      <3>3. \A i \in DOMAIN tasks, u \in Workers :
              tasks[i].job = cur[u] => pc'[u] \in {"yield", "swap"} /\ tasks[i].pin = u
        BY <3>1 DEF Solo
      <3> QED BY <3>1, <3>2, <3>3 DEF Solo
    <2>4. CASE Requeue(t)
      <3>1. cur[t] \in Jobs /\ t \in Pins /\ pc[t] = "body"
        BY <2>4 DEF Requeue, Holding, Pins
      <3>2. \A i \in DOMAIN tasks : tasks[i].job # cur[t]
        BY <3>1 DEF Solo
      <3>3. /\ \A u \in Workers : u # t => pc'[u] = pc[u]
            /\ pc'[t] = "yield"
            /\ tasks' = Push(tasks, cur[t], t)
            /\ UNCHANGED <<fstate, cur, fault>>
        BY <2>4, <1>t DEF Requeue
      <3>4. \A u \in Workers : cur'[u] = cur[t] => pc'[u] \in {"yield", "swap"} /\ t = u
        BY <3>1, <3>3 DEF Solo
      <3>5. /\ \A u \in Workers : cur'[u] = cur[u] /\ (pc'[u] = pc[u] \/ cur[u] = cur[t])
            /\ fstate'[cur[t]] \notin {"unsubmitted", "TERM"}
            /\ \A j \in Jobs : j # cur[t] => fstate'[j] = fstate[j]
        BY <3>1, <3>3 DEF Solo
      <3> QED BY <3>1, <3>2, <3>3, <3>4, <3>5, SoloPush
    <2>5. ASSUME NEW n \in 1..MaxWakers, Arm(t, n)
          PROVE  FALSE
      BY <2>5
    <2>6. CASE YieldSwap(t) \/ End(t)
      <3>1. /\ cur[t] \in Jobs
            /\ \A u \in Workers : u # t => pc'[u] = pc[u] /\ cur'[u] = cur[u]
            /\ cur'[t] = NoJob
            /\ \A k \in Jobs : k # cur[t] => fstate'[k] = fstate[k]
            /\ pc[t] = "swap" => fstate' = fstate
            /\ pc[t] \in {"swap", "body"}
            /\ UNCHANGED <<tasks, fault>>
        BY <2>6, <1>t DEF YieldSwap, End, Holding, jobVars
      <3>2. \A i \in DOMAIN tasks : tasks[i].job \in Jobs
        <4>1. \A i \in DOMAIN tasks : tasks[i] \in Task
          BY LenProperties, ElementOfSeq DEF TypeOK
        <4> QED BY <4>1 DEF Task
      <3>3. pc[t] = "body" => \A i \in DOMAIN tasks : tasks[i].job # cur[t]
        BY DEF Solo
      <3>4. \A u, v \in Workers : cur'[u] \in Jobs /\ cur'[u] = cur'[v] => u = v
        BY <3>1, <1>c DEF Solo
      <3>5. \A i \in DOMAIN tasks, u \in Workers :
              tasks[i].job = cur'[u] => pc'[u] \in {"yield", "swap"} /\ tasks[i].pin = u
        BY <3>1, <3>2, <1>c DEF Solo
      <3>6. \A i \in DOMAIN tasks : fstate'[tasks[i].job] \notin {"unsubmitted", "TERM"}
        BY <3>1, <3>2, <3>3 DEF Solo
      <3>7. \A u \in Workers : cur'[u] \in Jobs => fstate'[cur'[u]] \notin {"unsubmitted", "TERM"}
        BY <3>1, <1>c DEF Solo
      <3> QED BY <3>1, <3>4, <3>5, <3>6, <3>7 DEF Solo
    <2>7. CASE ResumeShared(t)
      <3>1. PICK u \in Workers : u # t /\ cur[u] = cur[t]
        BY <2>7 DEF ResumeShared, OnStack
      <3>2. cur[t] \in Jobs
        BY <2>7 DEF ResumeShared, Holding
      <3> QED BY <3>1, <3>2 DEF Solo
    <2>8. CASE ResumeEnded(t)
      <3>1. cur[t] \in Jobs /\ fstate[cur[t]] = "TERM"
        BY <2>8 DEF ResumeEnded, Holding
      <3> QED BY <3>1 DEF Solo
    <2>9. ASSUME NEW j \in Jobs, NEW p \in Pins, Spawn(t, j, p)
          PROVE  Solo'
      BY <2>9, <1>s DEF Spawn
    <2> QED
      BY <1>7, <2>1, <2>2, <2>3, <2>4, <2>5, <2>6, <2>7, <2>8, <2>9 DEF WorkerStep, RunStep, BodyStep
  <1>8. CASE UNCHANGED vars
    BY <1>8, <1>o DEF vars, jobVars, workerVars, Solo
  <1> QED
    BY <1>1, <1>2, <1>3, <1>4, <1>5, <1>6, <1>7, <1>8 DEF Next, MainStep, StartRefused, Faulted

-----------------------------------------------------------------------------
(***************************************************************************)
(* The theorems                                                            *)
(***************************************************************************)

\* A submitted job that has not ended is in the list, with a worker, or with
\* somebody who will schedule it, whatever the interleaving.
THEOREM NothingLost == Spec => []NeverLost
  <1>1. TypeInv /\ WorkInv => NeverLost
    BY DEF WorkInv
  <1> QED BY <1>1, TypeInvInit, TypeInvNext, WorkInvInit, WorkInvNext, PTL DEF Spec

\* RUNNING on a fiber means that a worker executes it, and the reverse.
THEOREM RunningIsTrue == Spec => []RunningTruth
  <1>1. TypeInv /\ WorkInv => RunningTruth
    BY DEF WorkInv
  <1> QED BY <1>1, TypeInvInit, TypeInvNext, WorkInvInit, WorkInvNext, PTL DEF Spec

\* Once a worker's idle fiber has ended the scheduler is drained, for good, unless
\* a sleeping fiber is scheduled late.
THEOREM DrainedForGood == Spec => []Drained
  <1>1. TypeInv /\ WorkInv => Drained
    BY DEF WorkInv
  <1> QED BY <1>1, TypeInvInit, TypeInvNext, WorkInvInit, WorkInvNext, PTL DEF Spec

\* stop() leaves no job that had anything left to run.
THEOREM StopCompletes == Spec => []StopComplete
  <1>1. TypeInv /\ WorkInv => StopComplete
    <2> SUFFICES ASSUME TypeInv, WorkInv, ~late, NEW t \in Workers, pc[t] = "exit", NEW j \in Jobs,
                        fstate[j] \notin {"unsubmitted", "TERM"}
                 PROVE  wakers[j] > 0
      BY DEF StopComplete
    <2>1. Stopping
      BY DEF WorkInv, Phase, Drained
    <2>2. ~Queued(j)
      BY <2>1 DEF Stopping, Queued
    <2>3. \A u \in Workers : cur[u] # j
      <3> SUFFICES ASSUME NEW u \in Workers, cur[u] = j PROVE FALSE
        OBVIOUS
      <3>1. pc[u] \in BusyPlace
        BY DEF TypeInv, Holding, BusyPlace
      <3> QED BY <3>1, <2>1, BusyNotStopping DEF TypeInv
    <2> QED BY <2>2, <2>3 DEF WorkInv, NeverLost
  <1> QED BY <1>1, TypeInvInit, TypeInvNext, WorkInvInit, WorkInvNext, PTL DEF Spec

\* Fibers that only reschedule themselves on their own thread never share a stack
\* and are never resumed after their end, with any number of workers.
THEOREM PinnedIsSafe ==
  ASSUME MaxWakers = 0
  PROVE  Spec => []NoSharedStack
  <1>1. Solo => NoSharedStack
    BY DEF Solo, NoSharedStack
  <1>2. TypeInv /\ Solo /\ [Next]_vars => Solo'
    BY SoloNext
  <1> QED BY <1>1, <1>2, TypeInvInit, TypeInvNext, SoloInit, PTL DEF Spec

\* Without use_caller nothing at all goes wrong with such fibers.
THEOREM PinnedWithoutCallerIsSafe ==
  ASSUME MaxWakers = 0, UseCaller = FALSE
  PROVE  Spec => []NoFault
  <1> DEFINE Inv == Solo /\ fault = "none"
  <1>1. Init => Inv
    BY SoloInit DEF Init
  <1>2. TypeInv /\ Inv /\ [Next]_vars => Inv'
    <2> SUFFICES ASSUME TypeInv, Inv, [Next]_vars PROVE Inv'
      OBVIOUS
    <2>1. Solo'
      BY SoloNext
    <2>2. fault' \in {"none", "shared_stack", "exit"}
      BY DEF Next, MainStep, WorkerStep, RunStep, BodyStep, MainSubmit, Submit, MainSubmitBatch,
             Start, StartRefused, Stop, Join, Spawn, Requeue, Arm, YieldMark, YieldSwap, End, Take,
             TakeNothing, Resume, ResumeShared, ResumeEnded, Release, IdleEnter, IdleCheck,
             IdleLeave, Exit, ExitRoot, Wake, Faulted, Alive, vars
    <2> QED BY <2>1, <2>2 DEF Solo
  <1>3. Inv => NoFault
    BY DEF NoFault
  <1> HIDE DEF Inv
  <1> QED BY <1>1, <1>2, <1>3, TypeInvInit, TypeInvNext, PTL DEF Spec

-----------------------------------------------------------------------------
(***************************************************************************)
(* The Scheduler implements TaskPool                                       *)
(*                                                                         *)
(* Each step of a worker or of Main is a step of the pool or leaves what   *)
(* the pool sees as it is.  Beside the invariants above that needs to know *)
(* who is still at work when stop() joins the threads and when it has      *)
(* returned.                                                               *)
(***************************************************************************)

Orderly ==
  /\ ~late
  /\ mpc = "join" => \A t \in Workers : t = Main => pc[t] = "exit"
  /\ mpc = "done" => \A t \in Workers : pc[t] \in {"unborn", "exit"}

LEMMA OrderlyInit == Init => Orderly
  BY DEF Init, Orderly

LEMMA OrderlyNext ==
  ASSUME MaxWakers = 0, TypeInv, Solo, Orderly, [Next]_vars
  PROVE  Orderly'
  <1> USE DEF Alive
  <1>t. /\ pc \in [Workers -> Place] /\ wakers \in [Jobs -> 0..0]
        /\ mpc \in {"main", "root", "join", "done"}
        /\ \A t \in Workers : t \in Pool \/ (t = Main /\ UseCaller)
    BY ConstantsAssumption DEF TypeInv, TypeOK, Workers
  <1>1. ASSUME NEW j \in Jobs, NEW p \in Pins, Submit(j, p)
        PROVE  Orderly'
    BY <1>1 DEF Submit, Orderly, workerVars, mainVars
  <1>2. ASSUME NEW j \in Jobs, NEW k \in Jobs, MainSubmitBatch(j, k)
        PROVE  Orderly'
    BY <1>2 DEF MainSubmitBatch, Orderly, workerVars, mainVars
  <1>3. CASE Start
    BY <1>3 DEF Start, Orderly, mainVars
  <1>4. CASE Stop
    <2>1. CASE UseCaller
      BY <1>4, <2>1 DEF Stop, Orderly
    <2>2. CASE ~UseCaller
      BY <1>4, <2>2, <1>t, ConstantsAssumption DEF Stop, Orderly
    <2> QED BY <2>1, <2>2
  <1>5. CASE Join
    BY <1>5, <1>t DEF Join, Orderly, workerVars
  <1>6. ASSUME NEW j \in Jobs, Wake(j)
        PROVE  FALSE
    BY <1>6, <1>t DEF Wake
  <1>7. ASSUME NEW t \in Workers, WorkerStep(t)
        PROVE  Orderly'
    \* A worker that takes a step is not one that stop() has joined.
    <2>1. ASSUME pc[t] \notin {"unborn", "exit"}, late' = late, mpc' = mpc,
                 \A u \in Workers : u # t => pc'[u] = pc[u]
          PROVE  Orderly'
      BY <2>1 DEF Orderly
    <2>2. CASE Take(t) \/ TakeNothing(t) \/ Resume(t) \/ Release(t)
      BY <2>1, <2>2, <1>t DEF Take, TakeNothing, Resume, Release, mainVars
    <2>3. CASE IdleEnter(t) \/ IdleCheck(t) \/ IdleLeave(t) \/ Exit(t)
      BY <2>1, <2>3, <1>t DEF IdleEnter, IdleCheck, IdleLeave, Exit, mainVars
    <2>4. CASE Requeue(t) \/ YieldMark(t) \/ YieldSwap(t) \/ End(t)
      BY <2>1, <2>4, <1>t DEF Requeue, YieldMark, YieldSwap, End, mainVars
    <2>5. ~ResumeShared(t) /\ ~ResumeEnded(t)
      <3>1. pc[t] = "resume" => cur[t] \in Jobs
        BY DEF TypeInv, Holding
      <3> QED BY <3>1 DEF ResumeShared, ResumeEnded, OnStack, Solo
    <2>6. CASE t = Main /\ ExitRoot
      BY <2>6, <1>t DEF ExitRoot, Orderly
    <2>7. ~\E n \in 1..MaxWakers : Arm(t, n)
      OBVIOUS
    <2> QED
      BY <1>1, <1>7, <2>2, <2>3, <2>4, <2>5, <2>6, <2>7 DEF WorkerStep, RunStep, BodyStep, Spawn
  <1>8. CASE UNCHANGED vars
    BY <1>8 DEF vars, Orderly, workerVars, mainVars
  <1> QED
    BY <1>1, <1>2, <1>3, <1>4, <1>5, <1>6, <1>7, <1>8 DEF Next, MainStep, MainSubmit, StartRefused, Faulted

\* What the scheduler knows at each step.
Settled == TypeInv /\ WorkInv /\ Solo /\ Orderly

-----------------------------------------------------------------------------
Open == \E t \in Workers : pc[t] # "unborn"
Returned == mpc = "done"

Taken == {"resume", "body"}
Leaving == {"yield", "swap"}

\* A job keeps its status when its fiber stays as fresh, alive or ended as it was
\* and its worker stays on the same side of the yield.
LEMMA StatusStays ==
  ASSUME NEW k \in Jobs,
         fstate'[k] = fstate[k] \/ {fstate[k], fstate'[k]} \cap {"unsubmitted", "TERM"} = {},
         \A t \in Workers : cur'[t] = k <=> cur[t] = k,
         \A t \in Workers : cur[t] = k => /\ pc'[t] \in Taken <=> pc[t] \in Taken
                                          /\ pc'[t] \in Leaving <=> pc[t] \in Leaving
  PROVE  StatusOf(k)' = StatusOf(k)
  <1>1. HasWorker(k, Taken)' <=> HasWorker(k, Taken)
    BY DEF HasWorker, Taken
  <1>2. HasWorker(k, Leaving)' <=> HasWorker(k, Leaving)
    BY DEF HasWorker, Leaving
  <1> QED BY <1>1, <1>2 DEF StatusOf, Taken, Leaving

\* The status of a job that no worker has.
LEMMA StatusWithout ==
  ASSUME NEW j \in Jobs, \A t \in Workers : cur[t] # j
  PROVE  StatusOf(j) = IF fstate[j] = "unsubmitted" THEN "new"
                       ELSE IF fstate[j] = "TERM" THEN "done" ELSE "pending"
  BY DEF StatusOf, HasWorker

\* A step that changes the status of one job changes the pool the same way.
LEMMA OneChange ==
  ASSUME NEW j \in Jobs, NEW from, NEW to,
         StatusOf(j) = from, StatusOf(j)' = to,
         \A k \in Jobs \ {j} : StatusOf(k)' = StatusOf(k),
         Open' = Open, Returned' = Returned
  PROVE  Abstract!Change(j, from, to)
  BY DEF Abstract!Change, Open, Returned

\* A step that changes no job's status, the threads' existence or what stop() has
\* done is none of the pool's.
LEMMA NoChange ==
  ASSUME \A k \in Jobs : StatusOf(k)' = StatusOf(k), Open' = Open, Returned' = Returned
  PROVE  UNCHANGED Abstract!vars
  BY DEF Abstract!vars, Open, Returned

LEMMA RefinesInit == Init => Abstract!Init
  BY DEF Init, Abstract!Init, StatusOf

\* Worker t, which has no job, can take one: fewer than all workers have one.
LEMMA RoomToBegin ==
  ASSUME Settled, NEW t \in Workers, cur[t] \notin Jobs
  PROVE  Cardinality(Abstract!InWork) < Cardinality(Workers)
  <1> DEFINE S == {u \in Workers : cur[u] \in Jobs}
             T == {cur[u] : u \in S}
             f == [u \in S |-> cur[u]]
  <1>1. S \in SUBSET (Workers \ {t})
    OBVIOUS
  <1>2. IsFiniteSet(Workers \ {t}) /\ Cardinality(Workers \ {t}) = Cardinality(Workers) - 1
    BY WorkersFinite, FS_RemoveElement
  <1>3. IsFiniteSet(S) /\ Cardinality(S) <= Cardinality(Workers) - 1
    BY <1>1, <1>2, FS_Subset
  <1>4. f \in Surjection(S, T)
    BY DEF Surjection
  <1> HIDE DEF S, T, f
  <1>5. IsFiniteSet(T) /\ Cardinality(T) <= Cardinality(S)
    BY <1>3, <1>4, FS_Surjection
  <1>6. Abstract!InWork \in SUBSET T
    BY DEF Abstract!InWork, StatusOf, HasWorker, S, T
  <1>7. Cardinality(Abstract!InWork) <= Cardinality(T)
    BY <1>5, <1>6, FS_Subset
  <1>8. /\ Cardinality(Workers) \in Nat /\ Cardinality(S) \in Nat /\ Cardinality(T) \in Nat
        /\ Cardinality(Abstract!InWork) \in Nat
    BY <1>3, <1>5, <1>6, WorkersFinite, FS_CardinalityType, FS_Subset
  <1> QED BY <1>3, <1>5, <1>7, <1>8

LEMMA StepRefines ==
  ASSUME MaxWakers = 0, Settled, [Next]_vars
  PROVE  [Abstract!Next]_(Abstract!vars)
  <1> USE DEF Alive, Settled, TypeInv
  <1>t. /\ pc \in [Workers -> Place] /\ wakers \in [Jobs -> 0..0]
        /\ cur \in [Workers -> Jobs \cup {NoJob}] /\ NoJob \notin Jobs
        /\ fstate \in [Jobs -> FiberState]
        /\ \A t \in Workers : t \in Pool \/ t = Main
        /\ Pool \subseteq Workers
    BY ConstantsAssumption DEF TypeOK, Workers
  \* A fresh job is with no worker.
  <1>f. ASSUME NEW j \in Jobs, fstate[j] = "unsubmitted"
        PROVE  StatusOf(j) = "new" /\ \A t \in Workers : cur[t] # j
    BY <1>f DEF StatusOf, Solo
  <1>1. ASSUME NEW j \in Jobs, NEW p \in Pins, Submit(j, p), mpc # "done"
        PROVE  Abstract!Submit(j)
    <2>1. /\ fstate[j] = "unsubmitted" /\ fstate' = [fstate EXCEPT ![j] = AsSubmitted(j)]
          /\ UNCHANGED <<pc, cur, mpc>>
      BY <1>1 DEF Submit, workerVars, mainVars
    <2>2. fstate'[j] \notin {"unsubmitted", "TERM"}
      BY <2>1, <1>t DEF AsSubmitted
    <2>3. StatusOf(j) = "new" /\ StatusOf(j)' = "pending"
      BY <1>f, <2>1, <2>2 DEF StatusOf, HasWorker
    <2>4. \A k \in Jobs \ {j} : StatusOf(k)' = StatusOf(k)
      BY <2>1, <1>t, StatusStays
    <2>5. Open' = Open /\ Returned' = Returned
      BY <2>1 DEF Open, Returned
    <2> QED BY <1>1, <2>3, <2>4, <2>5, OneChange DEF Abstract!Submit
  <1>2. ASSUME NEW j \in Jobs, NEW k \in Jobs, MainSubmitBatch(j, k)
        PROVE  Abstract!SubmitBatch(j, k)
    <2>1. /\ fstate[j] = "unsubmitted" /\ fstate[k] = "unsubmitted" /\ j # k /\ mpc = "main"
          /\ fstate' = [fstate EXCEPT ![j] = AsSubmitted(j), ![k] = AsSubmitted(k)]
          /\ UNCHANGED <<pc, cur, mpc>>
      BY <1>2 DEF MainSubmitBatch, workerVars, mainVars
    <2>2. /\ fstate'[j] \notin {"unsubmitted", "TERM"}
          /\ fstate'[k] \notin {"unsubmitted", "TERM"}
          /\ \A i \in Jobs \ {j, k} : fstate'[i] = fstate[i]
      BY <2>1, <1>t DEF AsSubmitted
    <2>3. /\ StatusOf(j) = "new" /\ StatusOf(j)' = "pending"
          /\ StatusOf(k) = "new" /\ StatusOf(k)' = "pending"
      BY <1>f, <2>1, <2>2 DEF StatusOf, HasWorker
    <2>4. \A i \in Jobs \ {j, k} : StatusOf(i)' = StatusOf(i)
      BY <2>1, <2>2, StatusStays
    <2>5. [i \in Jobs |-> StatusOf(i)]' =
            [[i \in Jobs |-> StatusOf(i)] EXCEPT ![j] = "pending", ![k] = "pending"]
      BY <2>3, <2>4
    <2> QED BY <2>1, <2>3, <2>5 DEF Abstract!SubmitBatch
  <1>3. CASE Start
    <2>1. /\ UNCHANGED <<fstate, cur, mpc>> /\ mpc = "main"
          /\ \A t \in Workers : pc[t] = "unborn" /\ pc'[t] \in {"unborn", "scan"}
          /\ \E t \in Workers : pc'[t] = "scan"
      BY <1>3, <1>t DEF Start, jobVars, mainVars, CallerAway
    <2>2. \A k \in Jobs : StatusOf(k)' = StatusOf(k)
      BY <2>1, StatusStays DEF Taken, Leaving
    <2>3. ~Open /\ Open' /\ ~Returned /\ ~Returned'
      BY <2>1, <1>3, <1>t DEF Start, Open, Returned
    <2>4. Abstract!Open
      BY <2>2, <2>3 DEF Abstract!Open, Open, Returned
    <2> QED BY <2>4 DEF Abstract!Next
  \* The caller is a worker inside stop(), perhaps the first one there is.
  <1>4. CASE Stop
    <2>1. UNCHANGED <<fstate, cur>> /\ mpc = "main" /\ mpc' # "done"
      BY <1>4 DEF Stop, jobVars
    <2>2. \A t \in Workers : pc'[t] = pc[t] \/ (pc[t] = "unborn" /\ pc'[t] = "scan")
      <3>1. CASE UseCaller
        BY <1>4, <3>1, <1>t DEF Stop, CallerAway
      <3>2. CASE ~UseCaller
        BY <1>4, <3>2 DEF Stop
      <3> QED BY <3>1, <3>2
    <2>3. \A k \in Jobs : StatusOf(k)' = StatusOf(k)
      BY <2>1, <2>2, StatusStays DEF Taken, Leaving
    <2>4. CASE Open' = Open
      BY <2>1, <2>3, <2>4, NoChange DEF Returned
    <2>5. CASE ~Open /\ Open'
      <3>1. Abstract!Open
        BY <2>1, <2>3, <2>5 DEF Abstract!Open, Open
      <3> QED BY <3>1 DEF Abstract!Next
    <2>6. Open => Open'
      BY <2>2 DEF Open
    <2> QED BY <2>4, <2>5, <2>6 DEF Open
  \* stop() has joined: no started worker has anything left to do.
  <1>5. CASE Join
    <2>1. /\ UNCHANGED <<fstate, cur, pc>> /\ mpc = "join" /\ mpc' = "done"
          /\ \A t \in Workers : pc[t] \in {"unborn", "exit"}
      BY <1>5, <1>t DEF Join, jobVars, workerVars, Orderly
    <2>2. \A k \in Jobs : StatusOf(k)' = StatusOf(k)
      BY <2>1, StatusStays
    <2>3. ASSUME Open, NEW j \in Jobs
          PROVE  StatusOf(j) \in {"new", "done"}
      <3>1. PICK t \in Workers : pc[t] = "exit"
        BY <2>1, <2>3 DEF Open
      <3>2. tasks = <<>>
        BY <3>1 DEF WorkInv, Phase, Drained, Stopping, Orderly
      <3>3. \A u \in Workers : cur[u] # j
        BY <2>1 DEF Holding
      <3>4. ~Queued(j) /\ ~(wakers[j] > 0)
        BY <3>2, <1>t DEF Queued
      <3>5. fstate[j] \in {"unsubmitted", "TERM"}
        BY <3>3, <3>4 DEF WorkInv, NeverLost
      <3> QED BY <3>5 DEF StatusOf
    <2>4. Abstract!Return
      BY <2>1, <2>2, <2>3 DEF Abstract!Return, Open
    <2> QED BY <2>4 DEF Abstract!Next
  <1>6. ASSUME NEW j \in Jobs, Wake(j)
        PROVE  FALSE
    BY <1>6, <1>t DEF Wake
  <1>7. ASSUME NEW t \in Workers, WorkerStep(t)
        PROVE  [Abstract!Next]_(Abstract!vars)
    \* Only t moves, and it stays a started worker.
    <2>w. ASSUME pc[t] # "unborn", pc'[t] # "unborn", mpc' = mpc
          PROVE  Open' = Open /\ Returned' = Returned
      BY <2>w DEF Open, Returned
    <2>1. CASE Take(t)
      <3>1. PICK i \in DOMAIN tasks : /\ cur' = [cur EXCEPT ![t] = tasks[i].job]
                                      /\ Eligible(t, tasks[i])
        BY <2>1 DEF Take
      <3>2. tasks[i].job \in Jobs
        <4>1. tasks[i] \in Task
          BY LenProperties, ElementOfSeq DEF TypeOK
        <4> QED BY <4>1 DEF Task
      <3>3. PICK j \in Jobs : j = tasks[i].job
        BY <3>2
      <3>4. /\ \A u \in Workers : u # t => pc'[u] = pc[u] /\ cur'[u] = cur[u]
            /\ pc[t] = "scan" /\ pc'[t] = "resume" /\ cur'[t] = j
            /\ UNCHANGED <<fstate, mpc>>
        BY <2>1, <3>1, <3>3, <1>t DEF Take, jobVars, mainVars
      <3>5. cur[t] \notin Jobs
        BY <3>4 DEF Holding
      <3>6. \A u \in Workers : cur[u] # j
        BY <3>1, <3>3, <3>4, <1>t, ConstantsAssumption DEF Solo, Eligible, Workers
      <3>7. fstate[j] \notin {"unsubmitted", "TERM"}
        BY <3>3 DEF Solo
      <3>8. StatusOf(j) = "pending" /\ StatusOf(j)' = "running"
        BY <3>4, <3>6, <3>7 DEF StatusOf, HasWorker
      <3>9. \A k \in Jobs \ {j} : StatusOf(k)' = StatusOf(k)
        BY <3>4, <3>5, StatusStays
      <3>10. Open /\ ~Returned /\ Open' = Open /\ Returned' = Returned
        BY <3>4 DEF Open, Returned, Orderly
      <3>11. Abstract!Begin(j)
        <4>1. Cardinality(Abstract!InWork) < Cardinality(Workers)
          BY <3>5, RoomToBegin
        <4>2. Abstract!Cardinality(Abstract!InWork) = Cardinality(Abstract!InWork)
          BY DEF Abstract!Cardinality, Cardinality
        <4>3. Abstract!Change(j, "pending", "running")
          BY <3>8, <3>9, <3>10, OneChange
        <4> QED BY <3>10, <4>1, <4>2, <4>3 DEF Abstract!Begin, Open, Returned
      <3> QED BY <3>11 DEF Abstract!Next
    \* Steps that leave the jobs alone and move a worker without one.
    <2>2. CASE \/ TakeNothing(t) \/ Release(t) \/ IdleEnter(t) \/ IdleCheck(t)
             \/ IdleLeave(t) \/ Exit(t)
      <3>1. /\ pc[t] \notin Taken \cup Leaving \cup {"unborn"}
            /\ pc'[t] \notin Taken \cup Leaving \cup {"unborn"}
            /\ \A u \in Workers : u # t => pc'[u] = pc[u]
            /\ UNCHANGED <<fstate, cur, mpc>>
        BY <2>2, <1>t DEF TakeNothing, Release, IdleEnter, IdleCheck, IdleLeave, Exit, jobVars, mainVars,
                          Taken, Leaving
      <3>2. \A k \in Jobs : StatusOf(k)' = StatusOf(k)
        BY <3>1, StatusStays
      <3> QED BY <3>1, <3>2, <2>w, NoChange
    \* Steps of the worker that has j within one side of the yield.
    <2>3. CASE Resume(t) \/ YieldMark(t)
      <3>1. cur[t] \in Jobs
        BY <2>3 DEF Resume, YieldMark, Holding
      <3>2. /\ \/ pc[t] = "resume" /\ pc'[t] = "body"
               \/ pc[t] = "yield" /\ pc'[t] = "swap"
            /\ \A u \in Workers : u # t => pc'[u] = pc[u]
            /\ UNCHANGED <<cur, mpc>>
            /\ \A k \in Jobs : k # cur[t] => fstate'[k] = fstate[k]
            /\ fstate'[cur[t]] \notin {"unsubmitted", "TERM"}
        BY <2>3, <3>1, <1>t DEF Resume, YieldMark, mainVars
      <3>3. fstate[cur[t]] \notin {"unsubmitted", "TERM"}
        BY <3>1 DEF Solo
      <3>4. \A k \in Jobs : StatusOf(k)' = StatusOf(k)
        BY <3>2, <3>3, StatusStays DEF Taken, Leaving
      <3> QED BY <3>2, <3>4, <2>w, NoChange
    <2>4. CASE Requeue(t) \/ YieldSwap(t) \/ End(t)
      <3>1. cur[t] \in Jobs
        BY <2>4 DEF Requeue, YieldSwap, End, Holding
      <3>2. PICK j \in Jobs : j = cur[t]
        BY <3>1
      <3>3. /\ fstate[j] \notin {"unsubmitted", "TERM"}
            /\ \A u \in Workers : cur[u] = j => u = t
        BY <3>2 DEF Solo
      <3>4. CASE Requeue(t)
        <4>1. /\ pc[t] = "body" /\ pc'[t] = "yield"
              /\ \A u \in Workers : u # t => pc'[u] = pc[u]
              /\ UNCHANGED <<fstate, cur, mpc>>
          BY <3>4, <1>t DEF Requeue, mainVars
        <4>2. StatusOf(j) = "running" /\ StatusOf(j)' = "pausing"
          BY <3>2, <3>3, <4>1 DEF StatusOf, HasWorker
        <4>3. \A k \in Jobs \ {j} : StatusOf(k)' = StatusOf(k)
          BY <3>2, <4>1, StatusStays
        <4>4. Abstract!Pause(j)
          BY <4>1, <4>2, <4>3, <2>w, OneChange DEF Abstract!Pause
        <4> QED BY <4>4 DEF Abstract!Next
      <3>5. CASE YieldSwap(t)
        <4>1. /\ pc[t] = "swap" /\ pc'[t] = "after" /\ cur'[t] = NoJob
              /\ \A u \in Workers : u # t => pc'[u] = pc[u] /\ cur'[u] = cur[u]
              /\ UNCHANGED <<fstate, mpc>>
          BY <3>5, <1>t DEF YieldSwap, jobVars, mainVars
        <4>2. StatusOf(j) = "pausing" /\ StatusOf(j)' = "pending"
          BY <3>2, <3>3, <4>1, <1>t DEF StatusOf, HasWorker
        <4>3. \A k \in Jobs \ {j} : StatusOf(k)' = StatusOf(k)
          BY <3>2, <4>1, <1>t, StatusStays
        <4>4. Abstract!Paused(j)
          BY <4>1, <4>2, <4>3, <2>w, OneChange DEF Abstract!Paused
        <4> QED BY <4>4 DEF Abstract!Next
      <3>6. CASE End(t)
        <4>1. /\ pc[t] = "body" /\ pc'[t] = "after" /\ cur'[t] = NoJob
              /\ \A u \in Workers : u # t => pc'[u] = pc[u] /\ cur'[u] = cur[u]
              /\ fstate'[j] = "TERM" /\ \A k \in Jobs : k # j => fstate'[k] = fstate[k]
              /\ mpc' = mpc
          BY <3>2, <3>6, <1>t DEF End, mainVars
        <4>2. StatusOf(j) = "running" /\ StatusOf(j)' = "done"
          BY <3>2, <3>3, <4>1, <1>t DEF StatusOf, HasWorker
        <4>3. \A k \in Jobs \ {j} : StatusOf(k)' = StatusOf(k)
          BY <3>2, <4>1, <1>t, StatusStays
        <4>4. Abstract!End(j)
          BY <4>1, <4>2, <4>3, <2>w, OneChange DEF Abstract!End
        <4> QED BY <4>4 DEF Abstract!Next
      <3> QED BY <2>4, <3>4, <3>5, <3>6
    <2>5. ~ResumeShared(t) /\ ~ResumeEnded(t)
      <3>1. pc[t] = "resume" => cur[t] \in Jobs
        BY DEF Holding
      <3> QED BY <3>1 DEF ResumeShared, ResumeEnded, OnStack, Solo
    <2>7. CASE t = Main /\ ExitRoot
      <3>1. /\ pc[t] = "empty" /\ pc'[t] = "exit" /\ mpc # "done" /\ mpc' # "done"
            /\ \A u \in Workers : u # t => pc'[u] = pc[u]
            /\ UNCHANGED <<fstate, cur>>
        BY <2>7, <1>t DEF ExitRoot, jobVars
      <3>2. \A k \in Jobs : StatusOf(k)' = StatusOf(k)
        BY <3>1, StatusStays DEF Taken, Leaving
      <3> QED BY <3>1, <3>2, NoChange DEF Open, Returned
    <2>8. ~\E n \in 1..MaxWakers : Arm(t, n)
      OBVIOUS
    <2>6. ASSUME NEW j \in Jobs, NEW p \in Pins, Spawn(t, j, p)
          PROVE  Abstract!Next
      <3>1. mpc # "done"
        BY <2>6 DEF Spawn, Orderly
      <3> QED BY <1>1, <2>6, <3>1 DEF Spawn, Abstract!Next
    <2> QED
      BY <1>7, <2>1, <2>2, <2>3, <2>4, <2>5, <2>6, <2>7, <2>8 DEF WorkerStep, RunStep, BodyStep
  <1>8. CASE UNCHANGED vars
    <2>1. UNCHANGED <<fstate, cur, pc, mpc>>
      BY <1>8 DEF vars, jobVars, workerVars, mainVars
    <2>2. \A k \in Jobs : StatusOf(k)' = StatusOf(k)
      BY <2>1, StatusStays
    <2> QED BY <2>1, <2>2, NoChange DEF Open, Returned
  <1>9. ASSUME NEW j \in Jobs, NEW p \in Pins, MainSubmit(j, p)
        PROVE  Abstract!Next
    BY <1>1, <1>9 DEF MainSubmit, Abstract!Next
  <1>10. ASSUME NEW j \in Jobs, NEW k \in Jobs, MainSubmitBatch(j, k)
        PROVE  Abstract!Next
    BY <1>2, <1>10 DEF Abstract!Next
  <1> QED
    BY <1>3, <1>4, <1>5, <1>6, <1>7, <1>8, <1>9, <1>10 DEF Next, MainStep, StartRefused, Faulted

\* The scheduler is a task pool: a submitted job begins, pauses and ends once, on
\* one of Width workers, and stop() returns only when none is left, for every
\* number of workers and jobs.
THEOREM SchedulerIsTaskPool ==
  ASSUME MaxWakers = 0
  PROVE  Spec => Implements
  <1>1. Init => Settled /\ Abstract!Init
    BY TypeInvInit, WorkInvInit, SoloInit, OrderlyInit, RefinesInit DEF Settled
  <1>2. Settled /\ [Next]_vars => Settled'
    BY TypeInvNext, WorkInvNext, SoloNext, OrderlyNext DEF Settled
  <1>3. Settled /\ [Next]_vars => [Abstract!Next]_(Abstract!vars)
    BY StepRefines
  <1> QED BY <1>1, <1>2, <1>3, PTL DEF Spec, Implements, Abstract!Spec

=============================================================================
