------------------------------- MODULE MCBackend -------------------------------
(***************************************************************************)
(* Instances of Backend.                                                   *)
(***************************************************************************)
EXTENDS Backend
=============================================================================
