------------------------------ MODULE MCIOManager ------------------------------
(***************************************************************************)
(* The IOManager on small instances; see MCIOManager.cfg.                  *)
(***************************************************************************)
EXTENDS IOManager, TLC
CONSTANTS j1, cb
InitialJobs == <<j1>>
=============================================================================
