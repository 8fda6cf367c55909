----------------------------- MODULE MCScheduler -----------------------------
(***************************************************************************)
(* The Scheduler and its refinement on small instances; the values of the  *)
(* constants are in the MCScheduler*.cfg files.                            *)
(***************************************************************************)
EXTENDS SchedulerRefinement, TLC

\* Pool threads are interchangeable, and so are jobs of one kind.  For safety only.
Symmetry == Permutations(Pool) \cup Permutations(Callbacks) \cup Permutations(Jobs \ Callbacks)
=============================================================================
