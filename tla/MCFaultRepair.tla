----------------------------- MODULE MCFaultRepair -----------------------------
(***************************************************************************)
(* Instances of FaultRepair.                                               *)
(***************************************************************************)
EXTENDS FaultRepair
=============================================================================
