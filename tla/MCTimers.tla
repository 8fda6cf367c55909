------------------------------- MODULE MCTimers -------------------------------
(***************************************************************************)
(* Timers on small instances; see MCTimers*.cfg.                           *)
(***************************************************************************)
EXTENDS Timers, TLC

Symmetry == Permutations(Threads)
=============================================================================
