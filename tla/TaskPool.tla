------------------------------- MODULE TaskPool -------------------------------
(***************************************************************************)
(* What a Scheduler promises, without threads, lists, fibers or counters:  *)
(* a submitted job begins, may pause any number of times, and ends, once;  *)
(* at most Width jobs run at a time; stop() returns only when no job is    *)
(* left; and every job that could begin does.                              *)
(***************************************************************************)
EXTENDS Naturals, FiniteSets

CONSTANTS
  Jobs,     \* the work that may be submitted
  Width     \* how many workers there are

VARIABLES
  status,   \* a job's progress
  open,     \* the workers exist
  returned  \* stop() has returned

vars == <<status, open, returned>>

Status == {"new", "pending", "running", "pausing", "done"}
InWork == {j \in Jobs : status[j] \in {"running", "pausing"}}

Init ==
  /\ status = [j \in Jobs |-> "new"]
  /\ open = FALSE
  /\ returned = FALSE

Change(j, from, to) ==
  /\ status[j] = from
  /\ status' = [status EXCEPT ![j] = to]
  /\ UNCHANGED <<open, returned>>

Submit(j) == ~returned /\ Change(j, "new", "pending")

\* Two jobs submitted together become pending together.
SubmitBatch(j, k) ==
  /\ ~returned /\ j # k
  /\ status[j] = "new" /\ status[k] = "new"
  /\ status' = [status EXCEPT ![j] = "pending", ![k] = "pending"]
  /\ UNCHANGED <<open, returned>>

Begin(j) == open /\ ~returned /\ Cardinality(InWork) < Width /\ Change(j, "pending", "running")

\* The job has arranged to be scheduled again but still occupies its worker.
Pause(j) == Change(j, "running", "pausing")

Paused(j) == Change(j, "pausing", "pending")

End(j) == Change(j, "running", "done")

Open == ~open /\ ~returned /\ open' = TRUE /\ UNCHANGED <<status, returned>>

Return ==
  /\ ~returned
  /\ open => \A j \in Jobs : status[j] \in {"new", "done"}
  /\ returned' = TRUE
  /\ UNCHANGED <<status, open>>

Next ==
  \/ \E j \in Jobs : Submit(j) \/ Begin(j) \/ Pause(j) \/ Paused(j) \/ End(j)
  \/ \E j, k \in Jobs : SubmitBatch(j, k)
  \/ Open
  \/ Return

\* A job that may go on does.
Fairness == \A j \in Jobs : WF_vars(Begin(j) \/ Paused(j) \/ End(j))

Spec == Init /\ [][Next]_vars

FairSpec == Spec /\ Fairness
=============================================================================
