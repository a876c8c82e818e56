---------------------------- MODULE OrderContract ----------------------------
(***************************************************************************)
(* What an order is owed: the steps of the pipeline of the version it is   *)
(* pinned to, each once and in order.  Recovery may call in a customer's   *)
(* order that runs; whenever it gets to it, be the order over by then, it  *)
(* pins it to another version and serves it again from the top.  A step    *)
(* may fail only a canary probe; an order may run out of time only if it   *)
(* was given a limit.                                                      *)
(***************************************************************************)
EXTENDS Integers, Sequences

CONSTANT Pipeline   (* The steps each version owes.                        *)

VARIABLES
  customer,    (* Is it a customer's order, or a canary probe?             *)
  limited,     (* Was it started with a time to run?                       *)
  version,     (* The version it is pinned to.                             *)
  served,      (* The steps served so far.                                 *)
  recalled,    (* Recovery has found it and not got to it yet.             *)
  status       (* running, completed, failed or timedOut                   *)

orderVars == <<customer, limited, version, served, recalled, status>>

Init ==
  /\ customer \in BOOLEAN /\ limited \in BOOLEAN
  /\ version \in DOMAIN Pipeline
  /\ served = <<>> /\ recalled = FALSE
  /\ status = "running"

Serve ==
  /\ status = "running"
  /\ served' = Append(served, Pipeline[version][Len(served) + 1])
  /\ status' = IF Len(served) + 1 = Len(Pipeline[version]) THEN "completed" ELSE "running"
  /\ UNCHANGED <<customer, limited, version, recalled>>

Recall ==
  /\ status = "running" /\ customer
  /\ ~recalled /\ recalled' = TRUE
  /\ UNCHANGED <<customer, limited, version, served, status>>

Restart ==
  /\ recalled /\ recalled' = FALSE
  /\ version' \in DOMAIN Pipeline \ {version}
  /\ served' = <<>> /\ status' = "running"
  /\ UNCHANGED <<customer, limited>>

Fail ==
  /\ status = "running" /\ ~customer
  /\ status' = "failed"
  /\ UNCHANGED <<customer, limited, version, served, recalled>>

TimeOut ==
  /\ status = "running" /\ limited
  /\ status' = "timedOut"
  /\ UNCHANGED <<customer, limited, version, served, recalled>>

Next == Serve \/ Recall \/ Restart \/ Fail \/ TimeOut

Spec == Init /\ [][Next]_orderVars
=============================================================================
