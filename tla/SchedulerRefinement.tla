------------------------- MODULE SchedulerRefinement -------------------------
(***************************************************************************)
(* The Scheduler implements TaskPool when no fiber sleeps with others      *)
(* (MaxWakers = 0): each of its steps is one of the pool's or changes      *)
(* nothing there, whether or not the caller is one of the workers.  That   *)
(* every job ends is claimed for a pool without the caller, who works only *)
(* once it stops the pool.                                                 *)
(***************************************************************************)
EXTENDS Scheduler

\* The worker that has job j, from taking its task until it is off its stack.
HasWorker(j, places) == \E t \in Workers : cur[t] = j /\ pc[t] \in places

\* A job counts as running from the moment its task left the list; once it has
\* scheduled itself again it is pausing until its context is saved.
StatusOf(j) ==
  IF fstate[j] = "unsubmitted" THEN "new"
  ELSE IF fstate[j] = "TERM" THEN "done"
  ELSE IF HasWorker(j, {"resume", "body"}) THEN "running"
  ELSE IF HasWorker(j, {"yield", "swap"}) THEN "pausing"
  ELSE "pending"

Abstract == INSTANCE TaskPool WITH
  Jobs <- Jobs,
  Width <- Cardinality(Workers),
  status <- [j \in Jobs |-> StatusOf(j)],
  open <- \E t \in Workers : pc[t] # "unborn",
  returned <- mpc = "done"

\* Every behaviour of the scheduler is one of the abstract pool: no job is lost,
\* begun twice or left behind by stop(), whatever the threads' interleaving.
Implements == Abstract!Spec

\* And no job waits forever: the abstract fairness follows from that of threads.
ImplementsFairly == Abstract!FairSpec
=============================================================================
