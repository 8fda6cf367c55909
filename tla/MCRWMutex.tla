------------------------------ MODULE MCRWMutex ------------------------------
(***************************************************************************)
(* RWMutex on small instances; see MCRWMutex*.cfg.                         *)
(***************************************************************************)
EXTENDS RWMutex
=============================================================================
