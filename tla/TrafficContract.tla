--------------------------- MODULE TrafficContract ---------------------------
(***************************************************************************)
(* What the traffic generator promises whoever steers it.  Its settings    *)
(* are the operator's: nothing else moves them, except that the rate falls *)
(* to zero when the deadline has passed.  Every accepted change moves the  *)
(* deadline, and nothing else does.  Order numbers are given out only      *)
(* while there is a rate and before the deadline, and neither they nor the *)
(* count of started orders ever go back.  Continue-as-new is not part of   *)
(* the contract: it cannot be told from doing nothing.                     *)
(***************************************************************************)
EXTENDS Integers

CONSTANTS MaxRun, Rates, Faults, NoFault, Splits, NoSplit

VARIABLES on, rate, fault, split, stopAt, nextSeq, started, now

settings == <<rate, fault, split>>
progress == <<nextSeq, started>>
vars == <<on, settings, stopAt, progress, now>>

Init ==
  /\ ~on /\ rate = 0 /\ fault = NoFault /\ split = NoSplit
  /\ stopAt = 0 /\ nextSeq = 0 /\ started = 0 /\ now = 0

Begin ==
  /\ ~on /\ on'
  /\ rate' = 0 /\ fault' = NoFault /\ split' = NoSplit
  /\ stopAt' = now + MaxRun /\ nextSeq' = 0 /\ started' = 0
  /\ UNCHANGED now

Change ==
  /\ on
  /\ rate' \in Rates /\ fault' \in Faults \cup {NoFault} /\ split' \in Splits \cup {NoSplit}
  /\ stopAt' = now + MaxRun
  /\ UNCHANGED <<on, progress, now>>

Stop == on /\ rate' = 0 /\ UNCHANGED <<on, fault, split, stopAt, progress, now>>

Number ==
  /\ on /\ rate > 0 /\ now < stopAt
  /\ nextSeq' > nextSeq
  /\ UNCHANGED <<on, settings, stopAt, started, now>>

Count ==
  /\ on /\ started' >= started
  /\ UNCHANGED <<on, settings, stopAt, nextSeq, now>>

Expire ==
  /\ on /\ now >= stopAt
  /\ rate' = 0
  /\ UNCHANGED <<on, fault, split, stopAt, progress, now>>

End == on /\ ~on' /\ UNCHANGED <<settings, stopAt, progress, now>>

Tick == now' = now + 1 /\ UNCHANGED <<on, settings, stopAt, progress>>

Next == Begin \/ Change \/ Stop \/ Number \/ Count \/ Expire \/ End \/ Tick

Spec == Init /\ [][Next]_vars
=============================================================================
