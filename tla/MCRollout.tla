------------------------------ MODULE MCRollout ------------------------------
(* The rollout coordinator with small plans, one or two probes and three   *)
(* versions, for TLC.                                                      *)
EXTENDS Rollout

CONSTANTS v1, v2, v3

(* Two stages that rise to 100, and one that stops below it with a hold of *)
(* zero, which is indefinite.                                              *)
Rise == <<[pct |-> 10, hold |-> 2], [pct |-> 100, hold |-> 1]>>
Stay == <<[pct |-> 50, hold |-> 0]>>

MCInputs ==
  { [stages |-> Rise, gated |-> TRUE, autoPromote |-> TRUE, rollbackOnFailure |-> TRUE],
    [stages |-> Rise, gated |-> FALSE, autoPromote |-> FALSE, rollbackOnFailure |-> FALSE],
    [stages |-> Stay, gated |-> FALSE, autoPromote |-> TRUE, rollbackOnFailure |-> TRUE] }

(* A ramp of a third version already in flight, the target itself already  *)
(* ramping, and the target already Current.                                *)
MCStartRoutings ==
  { [current |-> v1, ramping |-> v3, pct |-> 10],
    [current |-> v1, ramping |-> v2, pct |-> 10],
    [current |-> v2, ramping |-> NoVersion, pct |-> 0] }

(* Somebody promotes the target by hand: the server then refuses its ramp. *)
MCOtherCalls == { SetCurrent(v2) }
=============================================================================
