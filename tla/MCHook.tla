--------------------------------- MODULE MCHook ---------------------------------
(***************************************************************************)
(* The hooked calls on a small instance; see MCHook.cfg.                   *)
(***************************************************************************)
EXTENDS Hook, TLC
=============================================================================
