--------------------------- MODULE RolloutContract ---------------------------
(***************************************************************************)
(* What a rollout promises about a deployment's traffic, without saying    *)
(* how it decides: first the candidate is shown fit, then it is exposed to *)
(* new orders at one percentage or another, and then it is promoted, or    *)
(* the routing saved at the start is restored, or everything is left as it *)
(* is.  Each step is one way: nothing is exposed before it is fit, nothing *)
(* is exposed again once promotion or the restore has begun, and a rollout *)
(* that is over asks for nothing more: only what one attempt of a routing  *)
(* call still had in flight when the rollout ended may reach the server    *)
(* late, once and in its order.  Other people may change the routing at    *)
(* any time.                                                               *)
(***************************************************************************)
EXTENDS Routing

CONSTANT Candidate

VARIABLES
  life,      (* How far the rollout has got.                               *)
  fit,       (* The candidate has been shown fit for new orders.           *)
  saved,     (* The routing to go back to.                                 *)
  routing,   (* The deployment's traffic split.                            *)
  loose,     (* Requests in flight when the rollout ended.                 *)
  meddled    (* Somebody else has changed it (once is enough to say so).   *)

contractVars == <<life, fit, saved, routing, loose, meddled>>

Lives == {"proving", "exposing", "promoting", "restoring", "over"}

Init ==
  /\ life = "proving"
  /\ fit \in BOOLEAN
  /\ saved = NoRouting
  /\ routing \in RoutingState
  /\ loose = <<>>
  /\ meddled = FALSE

(* What one attempt of a routing call may request in each life, in order.  *)
Scripts ==
  CASE life = "exposing"  -> {<<SetRamp(Candidate, p)>> : p \in Pct}
    [] life = "promoting" -> {<<SetCurrent(Candidate)>>, <<ClearRamp>>}
    [] life = "restoring" -> {RestoreCalls(saved)}
    [] OTHER -> {}

Lands(call) == Accepts(routing, call) /\ routing' = Apply(routing, call)

Route ==
  /\ \E script \in Scripts : \E i \in DOMAIN script : Lands(script[i])
  /\ UNCHANGED <<life, fit, saved, loose, meddled>>

(* Evidence comes in, and the routing to go back to is saved.              *)
Prove ==
  /\ life = "proving"
  /\ fit' \in BOOLEAN
  /\ saved' \in {saved, routing}
  /\ UNCHANGED <<life, routing, loose, meddled>>

Expose ==
  /\ life = "proving" /\ life' = "exposing"
  /\ fit
  /\ saved' \in {saved, routing}
  /\ UNCHANGED <<fit, routing, loose, meddled>>

MoveOn ==
  /\ <<life, life'>> \in
       {<<"exposing", "promoting">>, <<"exposing", "restoring">>, <<"promoting", "restoring">>}
  /\ UNCHANGED <<fit, saved, routing, loose, meddled>>

End ==
  /\ life # "over" /\ life' = "over"
  /\ loose' = <<>> \/ \E script \in Scripts : \E n \in 0 .. Len(script) :
                         loose' = SubSeq(script, n + 1, Len(script))
  /\ UNCHANGED <<fit, saved, routing, meddled>>

Late ==
  /\ life = "over" /\ loose # <<>>
  /\ Lands(Head(loose))
  /\ loose' = Tail(loose)
  /\ UNCHANGED <<life, fit, saved, meddled>>

Others ==
  /\ ~meddled /\ meddled' = TRUE
  /\ \E call \in Calls : Lands(call)
  /\ UNCHANGED <<life, fit, saved, loose>>

Next == Route \/ Prove \/ Expose \/ MoveOn \/ End \/ Late \/ Others

Spec == Init /\ [][Next]_contractVars
=============================================================================
