----------------------------- MODULE ShareProofs -----------------------------
(***************************************************************************)
(* What the rollout shows and what the server does: the percentage of the  *)
(* dashboard, the promotion and the rollback, for every routing the        *)
(* rollout starts from and every way its requests fail.                    *)
(***************************************************************************)
EXTENDS LadderProofs

-----------------------------------------------------------------------------
(* The routing calls, seen from the candidate.                             *)

(* The candidate ramps, at percentage p.                                   *)
Exposed(p) == routing.current # Target /\ routing.ramping = Target /\ routing.pct = p

(* The candidate is Current and nothing ramps.                             *)
Promo == routing = [current |-> Target, ramping |-> NoVersion, pct |-> 0]

(* A ramp of the candidate that the server accepts exposes it.             *)
LEMMA RampExposes ==
  ASSUME NEW p \in Pct, Accepts(routing, SetRamp(Target, p)),
         routing' = Apply(routing, SetRamp(Target, p))
  PROVE  Exposed(p)'
  BY TargetAssumption, NoVersionAssumption DEF Exposed, Accepts, Apply, SetRamp

(* Promoting the ramping candidate ends its ramp, and so does promoting it *)
(* once more.                                                              *)
LEMMA PromoteEndsRamp ==
  ASSUME routing.ramping = Target \/ Promo, routing' = Apply(routing, SetCurrent(Target))
  PROVE  Promo'
  BY TargetAssumption, NoVersionAssumption DEF Promo, Apply, SetCurrent

(* Clearing the ramp of a promoted candidate changes nothing.              *)
LEMMA ClearKeepsPromo ==
  ASSUME Promo, routing' = Apply(routing, ClearRamp)
  PROVE  Promo'
  BY DEF Promo, Apply, ClearRamp

(* The candidate's share, while it ramps and once it is promoted.          *)
LEMMA TargetShare ==
  /\ \A p : Exposed(p) => Share(routing, Target) = p
  /\ Promo => Share(routing, Target) = 100
  BY DEF Exposed, Promo, Share

(* RestoreRouting makes the previous version Current first ...             *)
LEMMA RestoreFirst ==
  ASSUME NEW r \in RoutingState, NEW s \in RoutingState, r.current # NoVersion
  PROVE  /\ Len(RestoreCalls(r)) = 2
         /\ RestoreCalls(r)[1] = SetCurrent(r.current)
         /\ Apply(s, RestoreCalls(r)[1]).current = r.current
<1>1. RestoreCalls(r)[1] = SetCurrent(r.current) /\ Len(RestoreCalls(r)) = 2
  BY DEF RestoreCalls
<1> QED
  BY <1>1 DEF Apply, SetCurrent, RoutingState

(* ... and second restores the ramp, which gives every version the share   *)
(* it had.                                                                 *)
LEMMA RestoreSecond ==
  ASSUME NEW r \in RoutingState, NEW s \in RoutingState,
         r.current # NoVersion, s.current = r.current, NEW v \in Versions
  PROVE  Share(Apply(s, RestoreCalls(r)[2]), v) = Share(r, v)
<1>1. RestoreCalls(r)[2] =
        IF r.ramping = NoVersion \/ r.pct = 0 THEN ClearRamp ELSE SetRamp(r.ramping, r.pct)
  BY DEF RestoreCalls
<1>2. CASE r.ramping = NoVersion \/ r.pct = 0
  <2>1. Apply(s, RestoreCalls(r)[2]) = [current |-> r.current, ramping |-> NoVersion, pct |-> 0]
    BY <1>1, <1>2 DEF Apply, ClearRamp
  <2>2. r.pct = 0
    BY <1>2 DEF RoutingState
  <2> QED
    BY <2>1, <2>2, NoVersionAssumption DEF Share
<1>3. CASE ~(r.ramping = NoVersion \/ r.pct = 0)
  <2>1. Apply(s, RestoreCalls(r)[2]) = [current |-> r.current, ramping |-> r.ramping, pct |-> r.pct]
    BY <1>1, <1>3 DEF Apply, SetRamp
  <2> QED
    BY <2>1 DEF Share
<1> QED
  BY <1>2, <1>3

-----------------------------------------------------------------------------
(* The share.                                                              *)

(* Unless somebody else moved the traffic: the percentage shown is the     *)
(* candidate's ramp from the moment SetRamp has been executed until the    *)
(* promotion, and a promotion, once executed, is not undone by its retries *)
(* or by the explicit ClearRamp.  The loop leaves its stages only by       *)
(* having held one, so the plan's end finds the candidate ramping.         *)
ShareInv ==
  /\ pc \in Proving => stageIndex = 0
  /\ pc \in {"promoting", "clearingRamp"} => in.autoPromote
  /\ ~meddled =>
       /\ pc = "settingRamp" /\ landed = 1 => Exposed(target)
       /\ pc \in Holding => Exposed(currentPct)
       /\ pc = "stageTop" /\ stageIndex > 0 => Exposed(currentPct)
       /\ pc = "promoting" => IF landed = 1 THEN Promo ELSE Exposed(currentPct) \/ Promo
       /\ pc = "clearingRamp" => Promo
       /\ phase = "completed" =>
            IF in.autoPromote THEN Promo /\ currentPct = 100 ELSE Exposed(currentPct)

LEMMA ShareInit == Init => ShareInv
  BY DEF Init, ShareInv, Holding

(* SetRamp, SetCurrent and ClearRamp are one request each.                 *)
LEMMA OneRequest ==
  /\ pc = "settingRamp" => Requests[1] = SetRamp(Target, target) /\ Len(Requests) = 1
  /\ pc = "promoting" => Requests[1] = SetCurrent(Target) /\ Len(Requests) = 1
  /\ pc = "clearingRamp" => Requests[1] = ClearRamp /\ Len(Requests) = 1
  BY DEF Requests

LEMMA ShareStep == TypeOK /\ PhaseInv /\ OrphanInv /\ ShareInv /\ [Next]_vars => ShareInv'
<1> SUFFICES ASSUME TypeOK, PhaseInv, OrphanInv, ShareInv, [Next]_vars PROVE ShareInv'
  OBVIOUS
<1> USE DEF ShareInv, PhaseInv, TerminalPhases, LivePhases, Finish, Execute, Rollback, EndStage,
            Holding, Proving, RoutingPCs, Blocked, progress, stageVars, activity, server
<1>1. CASE RequestLands
  <2>1. landed \in 0 .. 2 /\ landed < Len(Requests) /\ landed' = landed + 1
          /\ UNCHANGED <<in, pc, progress, stageVars, meddled>>
    BY <1>1 DEF RequestLands, TypeOK
  <2>2. CASE pc = "settingRamp"
    <3>1. landed = 0
      <4>1. Len(Requests) = 1
        BY <2>2, OneRequest, Zenon
      <4> QED
        BY <2>1, <4>1
    <3>2. Accepts(routing, Requests[1]) /\ routing' = Apply(routing, Requests[1])
      BY <1>1, <3>1 DEF RequestLands
    <3>3. Accepts(routing, SetRamp(Target, target)) /\ routing' = Apply(routing, SetRamp(Target, target))
      BY <2>2, <3>2, OneRequest, Zenon
    <3>4. Exposed(target)'
      BY <2>1, <3>3, RampExposes DEF TypeOK, Exposed
    <3> QED
      BY <2>1, <2>2, <3>4
  <2>3. CASE pc = "promoting"
    <3>1. landed = 0
      <4>1. Len(Requests) = 1
        BY <2>3, OneRequest, Zenon
      <4> QED
        BY <2>1, <4>1
    <3>2. routing' = Apply(routing, Requests[1])
      BY <1>1, <3>1 DEF RequestLands
    <3>3. routing' = Apply(routing, SetCurrent(Target))
      BY <2>3, <3>2, OneRequest, Zenon
    <3>4. ~meddled => Promo'
      BY <2>3, <3>1, <3>3, PromoteEndsRamp DEF Exposed
    <3> QED
      BY <2>1, <2>3, <3>1, <3>4
  <2>4. CASE pc = "clearingRamp"
    <3>1. landed = 0
      <4>1. Len(Requests) = 1
        BY <2>4, OneRequest, Zenon
      <4> QED
        BY <2>1, <4>1
    <3>2. routing' = Apply(routing, Requests[1])
      BY <1>1, <3>1 DEF RequestLands
    <3>3. routing' = Apply(routing, ClearRamp)
      BY <2>4, <3>2, OneRequest, Zenon
    <3>4. ~meddled => Promo'
      BY <2>4, <3>3, ClearKeepsPromo
    <3> QED
      BY <2>1, <2>4, <3>4
  <2>5. CASE pc = "restoring"
    BY <2>1, <2>5
  <2> QED
    BY <1>1, <2>2, <2>3, <2>4, <2>5 DEF RequestLands
<1>2. CASE AttemptFails
  BY <1>2 DEF AttemptFails, Exposed, Promo
<1>3. ASSUME NEW call \in OtherCalls, Meddle(call) PROVE ShareInv'
  BY <1>3 DEF Meddle
<1>4. CASE (\E p \in Probes, v \in {"passed", "failed"} : ProbeEnds(p, v)) \/ Tick \/ Operator
             \/ HoldPause \/ HoldSample \/ Unpause \/ Wake \/ UNCHANGED vars
  <2>1. UNCHANGED <<routing, meddled, landed>>
    BY <1>4, OperatorSteers
       DEF ProbeEnds, Tick, Steer, HoldPause, HoldSample, Unpause, Wake, vars
  <2> QED
    BY <1>4, <2>1, BystanderFrame DEF Bystander, Worker, Exposed, Promo
<1>5. CASE Resolve \/ Snapshot \/ GateVerdict
  BY <1>5 DEF Resolve, Snapshot, GateVerdict
<1>6. CASE PlannedStage \/ ManualStage
  BY <1>6 DEF PlannedStage, ManualStage
<1>7. CASE PlanDone
  <2>1. stageIndex > 0
    BY <1>7, PlanType DEF PlanDone, TypeOK
  <2> QED
    BY <1>7, <2>1 DEF PlanDone, Exposed, Promo
<1>8. CASE RampSet
  <2>1. landed = 1
    BY <1>8, OneRequest DEF RampSet, Succeeds
  <2> QED
    BY <1>8, <2>1 DEF RampSet, Succeeds, Exposed
<1>9. CASE Promoted
  <2>1. landed = 1
    BY <1>9, OneRequest DEF Promoted, Succeeds
  <2> QED
    BY <1>9, <2>1 DEF Promoted, Succeeds, Promo
<1>10. CASE RampCleared
  BY <1>10 DEF RampCleared, Succeeds, GivesUp, Promo
<1>11. CASE RoutingFails \/ Restored
  BY <1>11 DEF RoutingFails, Restored, Succeeds, GivesUp
<1>12. CASE HoldAbort \/ SampleBreaches
  BY <1>12 DEF HoldAbort, SampleBreaches
<1>13. CASE HoldJump \/ HoldAdvance \/ HoldExpires \/ SamplePasses
  BY <1>13 DEF HoldJump, HoldAdvance, HoldExpires, SamplePasses, Exposed
<1>14. CASE ExecutionTimeout
  BY <1>14 DEF ExecutionTimeout
<1>15. CASE OrphanLands
  <2>1. pc = "timedOut" /\ UNCHANGED <<in, pc, progress>>
    BY <1>15 DEF OrphanLands, OrphanInv
  <2> QED
    BY <2>1
<1> QED
  BY <1>1, <1>2, <1>3, <1>4, <1>5, <1>6, <1>7, <1>8, <1>9, <1>10, <1>11, <1>12, <1>13,
     <1>14, <1>15, Zenon DEF Next, Coordinator, Worker, Others

-----------------------------------------------------------------------------
(* The rollback.                                                           *)

(* Unless somebody else moved the traffic: RestoreRouting's first request  *)
(* makes the previous version Current, its second gives every version its  *)
(* share back, and a failed attempt starts over with the first.            *)
RestoreInv ==
  ~meddled /\ previous.current # NoVersion =>
    /\ pc = "restoring" /\ landed = 1 => routing.current = previous.current
    /\ (pc = "restoring" /\ landed = 2) \/ phase = "rolledBack"
         => \A v \in Versions : Share(routing, v) = Share(previous, v)

LEMMA RestoreStep == TypeOK /\ PhaseInv /\ OrphanInv /\ RestoreInv /\ [Next]_vars => RestoreInv'
<1> SUFFICES ASSUME TypeOK, PhaseInv, OrphanInv, RestoreInv, [Next]_vars PROVE RestoreInv'
  OBVIOUS
<1> USE DEF RestoreInv, PhaseInv, TerminalPhases, LivePhases, Finish, Execute, Rollback, EndStage,
            Holding, Proving, RoutingPCs, Blocked, progress, stageVars, activity, server
<1>1. CASE RequestLands
  <2>1. landed \in 0 .. 2 /\ landed' = landed + 1 /\ UNCHANGED <<pc, phase, previous, meddled>>
    BY <1>1 DEF RequestLands, TypeOK
  <2>2. CASE pc = "restoring" /\ previous.current # NoVersion
    <3>1. Requests = RestoreCalls(previous) /\ previous \in RoutingState /\ routing \in RoutingState
      BY <2>2 DEF Requests, TypeOK
    <3>2. landed < 2 /\ routing' = Apply(routing, RestoreCalls(previous)[landed + 1])
      BY <1>1, <2>2, <3>1, RestoreFirst DEF RequestLands
    <3>3. CASE landed = 0
      BY <2>1, <2>2, <3>1, <3>2, <3>3, RestoreFirst
    <3>4. CASE landed = 1
      <4>1. ~meddled => \A v \in Versions : Share(routing', v) = Share(previous, v)
        BY <2>2, <3>1, <3>2, <3>4, RestoreSecond
      <4>2. \A v \in Versions : Share(routing', v) = Share(routing, v)' /\ Share(previous, v)' = Share(previous, v)
        BY <2>1 DEF Share
      <4> QED
        BY <2>1, <2>2, <3>4, <4>1, <4>2
    <3> QED
      BY <2>1, <3>2, <3>3, <3>4
  <2> QED
    BY <1>1, <2>1, <2>2 DEF RequestLands
<1>2. ASSUME NEW call \in OtherCalls, Meddle(call) PROVE RestoreInv'
  BY <1>2 DEF Meddle
<1>3. CASE AttemptFails
  BY <1>3 DEF AttemptFails
<1>4. CASE (\E p \in Probes, v \in {"passed", "failed"} : ProbeEnds(p, v)) \/ Tick \/ Operator
             \/ UNCHANGED vars
  <2>1. UNCHANGED <<pc, phase, previous, landed, routing, meddled>>
    BY <1>4, OperatorSteers DEF ProbeEnds, Tick, Steer, vars
  <2> QED
    BY <2>1 DEF Share
<1>5. CASE Restored
  <2>1. UNCHANGED <<previous, routing, meddled>> /\ pc = "restoring" /\ pc' = "done"
    BY <1>5 DEF Restored, Succeeds, GivesUp
  <2>2. CASE phase' = "rolledBack"
    <3>1. landed = Len(RestoreCalls(previous))
      BY <1>5, <2>2 DEF Restored, Succeeds, Requests
    <3>2. previous.current # NoVersion => landed = 2
      BY <3>1, RestoreFirst DEF TypeOK
    <3> QED
      BY <2>1, <3>2 DEF Share
  <2> QED
    BY <2>1, <2>2
<1>6. CASE Resolve \/ Snapshot \/ GateVerdict \/ PlannedStage \/ ManualStage \/ PlanDone
  BY <1>6 DEF Resolve, Snapshot, GateVerdict, PlannedStage, ManualStage, PlanDone
<1>7. CASE RampSet \/ Promoted \/ RoutingFails \/ RampCleared
  BY <1>7 DEF RampSet, Promoted, RoutingFails, RampCleared, Succeeds, GivesUp
<1>8. CASE HoldAbort \/ HoldJump \/ HoldAdvance \/ HoldPause \/ HoldExpires \/ HoldSample \/ Unpause
             \/ SampleBreaches \/ SamplePasses \/ Wake
  BY <1>8
     DEF HoldAbort, HoldJump, HoldAdvance, HoldPause, HoldExpires, HoldSample, Unpause,
         SampleBreaches, SamplePasses, Wake
<1>9. CASE ExecutionTimeout
  BY <1>9 DEF ExecutionTimeout
<1>10. CASE OrphanLands
  <2>1. pc = "timedOut" /\ UNCHANGED <<pc, phase>>
    BY <1>10 DEF OrphanLands, OrphanInv
  <2> QED
    BY <2>1
<1> QED
  BY <1>1, <1>2, <1>3, <1>4, <1>5, <1>6, <1>7, <1>8, <1>9, <1>10, Zenon
     DEF Next, Coordinator, Worker, Others

-----------------------------------------------------------------------------
(* The percentage on the dashboard is the candidate's real share, all      *)
(* through a hold and once the rollout has completed.                      *)
THEOREM ShownIsReal == Spec => []ShownShareIsReal
<1>1. ShareInv => ShownShareIsReal
  BY TargetShare DEF ShareInv, ShownShareIsReal
<1>2. TypeInv => TypeOK
  BY DEF TypeInv
<1> QED
  BY <1>1, <1>2, OrphanInit, OrphanStep, TypeInit, TypeStep, HoldsInit, PhaseStep, ShareInit,
     ShareStep, PTL DEF Spec

(* A rollout promotes, or completes, only with every percentage of its     *)
(* plan reached, and completes with AutoPromote only with the candidate    *)
(* Current.                                                                *)
THEOREM CompletionIsEarned == Spec => []CompletedClimbedPlan
<1>1. TypeInv /\ LadderInv /\ ShareInv => CompletedClimbedPlan
  <2> SUFFICES ASSUME TypeInv, LadderInv, ShareInv PROVE CompletedClimbedPlan
    OBVIOUS
  <2>1. ASSUME Rising(in.stages), pc = "promoting"
        PROVE  \A i \in DOMAIN in.stages : Rung(i) <= currentPct
    <3>1. SplitAt(currentPct) /\ stageIndex = Len(in.stages)
      BY <2>1 DEF LadderInv, OnTheWay
    <3>2. \A i \in DOMAIN in.stages : i <= stageIndex
      BY <3>1, Percentages DEF TypeInv
    <3> QED
      BY <3>1, <3>2 DEF SplitAt
  <2>2. ASSUME Rising(in.stages), phase = "completed"
        PROVE  \A i \in DOMAIN in.stages : Rung(i) <= currentPct
    BY <2>2 DEF LadderInv
  <2>3. phase = "completed" /\ in.autoPromote /\ ~meddled => routing.current = Target
    BY DEF ShareInv, Promo
  <2> QED
    BY <2>1, <2>2, <2>3 DEF CompletedClimbedPlan, Rung
<1>2. TypeInv => TypeOK
  BY DEF TypeInv
<1> QED
  BY <1>1, <1>2, TypeInit, TypeStep, HoldsInit, PhaseStep, LadderInit, LadderStep, ShareInit,
     OrphanInit, OrphanStep, ShareStep, PTL DEF Spec

(* A rollout that reports rolledBack has given every version exactly the   *)
(* share it had before, whatever its failed and repeated requests left     *)
(* behind on the way.                                                      *)
THEOREM RollbackIsExact == Spec => []RollbackRestores
<1>1. RestoreInv => RollbackRestores
  BY DEF RestoreInv, RollbackRestores
<1>2. Init => RestoreInv
  BY DEF Init, RestoreInv
<1>3. TypeInv => TypeOK
  BY DEF TypeInv
<1> QED
  BY <1>1, <1>2, <1>3, TypeInit, TypeStep, HoldsInit, PhaseStep, OrphanInit, OrphanStep,
     RestoreStep, PTL DEF Spec
=============================================================================
