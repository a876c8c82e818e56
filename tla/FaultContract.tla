---------------------------- MODULE FaultContract ----------------------------
(***************************************************************************)
(* What an order makes of a fault.  It carries one from its start, or from *)
(* a restart, or not at all; it parks on a fault it carries.  Only a       *)
(* clearFault Signal, or a restart, makes a customer's order let go of its *)
(* fault, and once it has let go it is not seen with it again until it is  *)
(* restarted.  A restart is announced while the order is alive, may come   *)
(* when it is over, and loses no Signal.  An order completes only without  *)
(* the fault, so a parked order that is over ran out of a time it was      *)
(* given.                                                                  *)
(***************************************************************************)
VARIABLES
  customer,    (* Is it a customer's order, or a canary probe?             *)
  limited,     (* Was it started with a time to run?                       *)
  fault,       (* none before it starts; carried, parked, gone; over       *)
  recalled,    (* Has a restart of it been announced?                      *)
  signal       (* Is a clearFault Signal waiting to be read?               *)

faultVars == <<customer, limited, fault, recalled, signal>>

Init ==
  /\ customer \in BOOLEAN /\ limited \in BOOLEAN
  /\ fault \in {"none", "carried", "gone"}
  /\ recalled = FALSE /\ signal = FALSE

Alive == fault \in {"carried", "parked", "gone"}

Start ==
  /\ fault = "none"
  /\ fault' \in {"carried", "gone"}
  /\ UNCHANGED <<customer, limited, recalled, signal>>

Park ==
  /\ fault = "carried"
  /\ fault' = "parked"
  /\ UNCHANGED <<customer, limited, recalled, signal>>

Receive ==
  /\ Alive /\ customer
  /\ signal' = TRUE
  /\ UNCHANGED <<customer, limited, fault, recalled>>

(* There may be more Signals to read.                                      *)
Read ==
  /\ Alive /\ signal
  /\ fault' = "gone"
  /\ signal' \in BOOLEAN
  /\ UNCHANGED <<customer, limited, recalled>>

Recall ==
  /\ Alive /\ customer
  /\ ~recalled /\ recalled' = TRUE
  /\ UNCHANGED <<customer, limited, fault, signal>>

Restart ==
  /\ recalled /\ recalled' = FALSE
  /\ fault' \in {"carried", "gone"}
  /\ signal' \in {signal, TRUE}
  /\ UNCHANGED <<customer, limited>>

(* What is not to be restarted has no more use for its Signals.            *)
End ==
  /\ \/ fault = "gone"
     \/ Alive /\ (limited \/ ~customer)
  /\ fault' = "over"
  /\ signal' = (signal /\ recalled)
  /\ UNCHANGED <<customer, limited, recalled>>

Next == Start \/ Park \/ Receive \/ Read \/ Recall \/ Restart \/ End

Spec == Init /\ [][Next]_faultVars
=============================================================================
