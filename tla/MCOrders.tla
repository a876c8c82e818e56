------------------------------- MODULE MCOrders -------------------------------
(***************************************************************************)
(* Instances of Orders: every version, and faults on the first step, on    *)
(* the last one, on one that all versions have and on one that only the    *)
(* version it names has.                                                   *)
(***************************************************************************)
EXTENDS Orders

AllVersions == Versions

SomeFaults ==
  {[version |-> "v4", step |-> "MobileDispatch"],
   [version |-> "v5", step |-> "DriveThru"],
   [version |-> "v2", step |-> "Received"],
   [version |-> "v3", step |-> "Payment"]}
=============================================================================
