---------------------------- MODULE LadderProofs ----------------------------
(***************************************************************************)
(* The way up the plan: when a hold may end, and which percentage comes    *)
(* next, for every plan, hold, pause and manual ramp.                      *)
(***************************************************************************)
EXTENDS RolloutProofs

-----------------------------------------------------------------------------
(* Which actions leave what alone.                                         *)

(* Every Update is a Steer: it changes the operator's intent, of a rollout *)
(* that is blocked and not over.                                           *)
LEMMA OperatorSteers == ASSUME Operator PROVE \E newCtrl : Steer(newCtrl)
  BY DEF Operator, Pause, Resume, Advance, Abort, SetRampTo

(* Steps that leave the climb alone: what the environment does, and what a *)
(* hold does short of its end.                                             *)
Bystander ==
  \/ Worker \/ Tick \/ Operator \/ (\E call \in OtherCalls : Meddle(call)) \/ OrphanLands
  \/ HoldPause \/ HoldSample \/ Unpause \/ Wake
  \/ pc = "sampling" /\ pc' = "waiting" /\ SamplePasses
  \/ UNCHANGED vars

(* Such a step stays where it is, or within the hold, and changes neither  *)
(* the loop's variables nor the percentage shown.                          *)
LEMMA BystanderFrame ==
  ASSUME Bystander
  PROVE  /\ UNCHANGED <<in, stageIndex, currentPct, previous, target, manual>>
         /\ \/ UNCHANGED <<pc, phase>>
            \/ pc \in Holding /\ pc' \in Holding /\ phase' \in LivePhases \cup {phase}
<1> USE DEF Holding, LivePhases, progress, stageVars
<1>1. CASE Worker
  BY <1>1 DEF Worker, RequestLands, AttemptFails, ProbeEnds
<1>2. CASE Tick \/ (\E call \in OtherCalls : Meddle(call)) \/ OrphanLands
  BY <1>2 DEF Tick, Meddle, OrphanLands
<1>3. CASE Operator
  BY <1>3, OperatorSteers DEF Steer
<1>4. CASE HoldPause \/ HoldSample \/ Unpause \/ Wake
  BY <1>4 DEF HoldPause, HoldSample, Unpause, Wake
<1>5. CASE pc = "sampling" /\ pc' = "waiting" /\ SamplePasses
  BY <1>5 DEF SamplePasses, EndStage
<1>6. CASE UNCHANGED vars
  BY <1>6 DEF vars
<1> QED
  BY <1>1, <1>2, <1>3, <1>4, <1>5, <1>6, Zenon DEF Bystander

(* A health sample that is good ends an expired hold, or the wait goes on. *)
LEMMA SamplePassesSplits ==
  ASSUME SamplePasses
  PROVE  \/ pc = "sampling" /\ pc' = "waiting" /\ SamplePasses
         \/ /\ pc = "sampling" /\ Expired /\ EndStage
            /\ UNCHANGED <<in, phase, currentPct, previous, stageVars, left, pausedFor, dwell,
                           overrun, ctrl, server>>
  BY DEF SamplePasses

-----------------------------------------------------------------------------
(* Phases.                                                                 *)

(* The phase the dashboard shows is terminal exactly when the Workflow has *)
(* recorded it and returned.                                               *)
PhaseInv == phase \in TerminalPhases <=> pc = "done"

LEMMA PhaseStep == TypeOK /\ PhaseInv /\ [Next]_vars => PhaseInv'
<1> SUFFICES ASSUME TypeOK, PhaseInv, [Next]_vars PROVE PhaseInv'
  OBVIOUS
<1> USE DEF PhaseInv, TerminalPhases, Finish, Execute, Rollback, EndStage, Holding, RoutingPCs,
            Blocked, progress
<1>1. CASE Bystander
  BY <1>1, BystanderFrame DEF LivePhases
<1>2. CASE Resolve \/ Snapshot \/ GateVerdict
  BY <1>2 DEF Resolve, Snapshot, GateVerdict
<1>3. CASE PlannedStage \/ ManualStage \/ PlanDone
  BY <1>3 DEF PlannedStage, ManualStage, PlanDone
<1>4. CASE RampSet \/ Promoted \/ RoutingFails \/ RampCleared \/ Restored
  BY <1>4 DEF RampSet, Promoted, RoutingFails, RampCleared, Restored, Succeeds, GivesUp
<1>5. CASE HoldAbort \/ HoldJump \/ HoldAdvance \/ HoldExpires \/ SampleBreaches
  BY <1>5 DEF HoldAbort, HoldJump, HoldAdvance, HoldExpires, SampleBreaches
<1>6. CASE SamplePasses
  BY <1>1, <1>6, SamplePassesSplits DEF Bystander
<1>7. CASE ExecutionTimeout
  BY <1>7 DEF ExecutionTimeout
<1> QED
  BY <1>1, <1>2, <1>3, <1>4, <1>5, <1>6, <1>7, Zenon DEF Next, Coordinator, Others, Bystander

-----------------------------------------------------------------------------
(* Holds.                                                                  *)

(* In a hold that has a length, the time that is left of it, the time its  *)
(* deadline is still owed for the pause it is in, the time served and the  *)
(* time its samples ran on under a pause add up to no less than that       *)
(* length.                                                                 *)
DwellInv ==
  /\ pc \notin {"paused", "timedOut"} => pausedFor = 0
  /\ pc \in Holding /\ Timed => left + pausedFor + dwell + overrun >= Hold

(* The length of the hold in force depends only on the plan and the place  *)
(* in it.                                                                  *)
LEMMA HoldFrame == ASSUME UNCHANGED <<in, stageIndex, manual>> PROVE Hold' = Hold /\ Timed' = Timed
  BY DEF Hold, Timed

LEMMA DwellStep == TypeOK /\ DwellInv /\ [Next]_vars => DwellInv'
<1> SUFFICES ASSUME TypeOK, DwellInv, [Next]_vars PROVE DwellInv'
  OBVIOUS
<1> USE DEF DwellInv, Holding, Finish, Execute, Rollback, EndStage, RoutingPCs,
            Blocked, progress, stageVars, clock
<1>1. Hold \in Nat /\ left \in Int /\ pausedFor \in Nat /\ dwell \in Nat /\ overrun \in Nat
  BY HoldType DEF TypeOK
<1>2. CASE Resolve \/ Snapshot \/ GateVerdict
  BY <1>2 DEF Resolve, Snapshot, GateVerdict
<1>3. CASE PlannedStage \/ ManualStage \/ PlanDone
  BY <1>3 DEF PlannedStage, ManualStage, PlanDone
<1>4. CASE RampSet
  <2>1. Hold' = Hold /\ Timed' = Timed
    BY <1>4, HoldFrame DEF RampSet
  <2>2. pausedFor' = 0 /\ left' = Hold /\ dwell' = 0 /\ overrun' = 0
    BY <1>4 DEF RampSet, Succeeds
  <2> QED
    BY <1>1, <2>1, <2>2
<1>5. CASE Promoted \/ RoutingFails \/ RampCleared \/ Restored
  BY <1>5 DEF Promoted, RoutingFails, RampCleared, Restored, Succeeds, GivesUp
<1>6. CASE HoldAbort \/ HoldJump \/ HoldAdvance \/ HoldExpires \/ SampleBreaches
  BY <1>6 DEF HoldAbort, HoldJump, HoldAdvance, HoldExpires, SampleBreaches
<1>7. CASE HoldPause \/ HoldSample \/ Wake
  <2>1. Hold' = Hold /\ Timed' = Timed
    BY <1>7, HoldFrame DEF HoldPause, HoldSample, Wake
  <2>2. pausedFor' = 0 /\ pausedFor = 0 /\ left' = left /\ dwell' = dwell
          /\ overrun' = overrun /\ pc \in Holding
    BY <1>7 DEF HoldPause, HoldSample, Wake
  <2> QED
    BY <2>1, <2>2
<1>8. CASE Unpause
  <2>1. Hold' = Hold /\ Timed' = Timed
    BY <1>8, HoldFrame DEF Unpause
  <2>2. pc \in Holding /\ pausedFor' = 0 /\ left' = LeftAfterPause
          /\ dwell' = dwell /\ overrun' = overrun
    BY <1>8 DEF Unpause
  <2> QED
    BY <1>1, <2>1, <2>2 DEF LeftAfterPause
<1>9. CASE SamplePasses
  <2>1. CASE pc' = "stageTop"
    BY <1>9, <2>1 DEF SamplePasses
  <2>2. CASE pc' = "waiting"
    <3>1. UNCHANGED <<in, stageIndex, manual, left, pausedFor, dwell, overrun>> /\ pc = "sampling"
      BY <1>9, <2>2 DEF SamplePasses
    <3> QED
      BY <2>2, <3>1, HoldFrame
  <2> QED
    BY <1>9, <2>1, <2>2 DEF SamplePasses
<1>10. CASE Tick
  <2>1. Hold' = Hold /\ Timed' = Timed /\ pc' = pc
    BY <1>10, HoldFrame DEF Tick
  <2>2. CASE pc \in {"sampling", "waiting"}
    <3>1. pausedFor' = pausedFor /\ left' = AtLeast(left - 1, 0)
      BY <1>10, <2>2 DEF Tick
    <3>2. \/ dwell' = dwell /\ overrun' = AtMost(overrun + 1, Hold)
          \/ dwell' = AtMost(dwell + 1, Hold) /\ overrun' = overrun
      BY <1>10, <2>2 DEF Tick
    <3> QED
      BY <1>1, <2>1, <2>2, <3>1, <3>2 DEF AtLeast, AtMost
  <2>3. CASE pc = "paused"
    <3>1. pausedFor' = pausedFor + 1 /\ dwell' = dwell /\ overrun' = overrun /\ (Timed => left' = left - 1)
      BY <1>10, <2>3 DEF Tick
    <3> QED
      BY <1>1, <2>1, <2>3, <3>1
  <2> QED
    BY <1>10, <2>2, <2>3 DEF Tick
<1>11. CASE Worker \/ Operator \/ (\E call \in OtherCalls : Meddle(call)) \/ OrphanLands
              \/ UNCHANGED vars
  <2>1. UNCHANGED <<pc, in, stageIndex, manual, clock>>
    <3>1. CASE Worker
      BY <3>1 DEF Worker, RequestLands, AttemptFails, ProbeEnds
    <3>2. CASE Operator
      BY <3>2, OperatorSteers DEF Steer
    <3>3. CASE (\E call \in OtherCalls : Meddle(call)) \/ OrphanLands \/ UNCHANGED vars
      BY <3>3 DEF Meddle, OrphanLands, vars
    <3> QED
      BY <1>11, <3>1, <3>2, <3>3
  <2> QED
    BY <2>1, HoldFrame
<1>12. CASE ExecutionTimeout
  BY <1>12 DEF ExecutionTimeout
<1> QED
  BY <1>2, <1>3, <1>4, <1>5, <1>6, <1>7, <1>8, <1>9, <1>10, <1>11, <1>12, Zenon
     DEF Next, Coordinator, Others

LEMMA HoldsInit == Init => PhaseInv /\ DwellInv
  BY DEF Init, PhaseInv, DwellInv, TerminalPhases, Holding

(* A hold ends in the next stage only by an operator's advance, or once it *)
(* has been served in full, however often and however long it was paused,  *)
(* what its samples ran on for under an accepted pause being counted in;   *)
(* the clock never ends a manual ramp.                                     *)
THEOREM HoldsAreServed == Spec => AdvanceIsEarned
<1>1. TypeOK /\ DwellInv /\ [Next]_vars
        => [pc' = "stageTop" /\ (pc = "sampling" \/ (pc = "holdTop" /\ ctrl.jumpPct = NoJump))
              => \/ ctrl.advance /\ ~ctrl'.advance
                 \/ ~manual /\ Timed /\ dwell + overrun >= Hold]_vars
  <2> SUFFICES ASSUME TypeOK, DwellInv, Next, pc' = "stageTop",
                      pc = "sampling" \/ (pc = "holdTop" /\ ctrl.jumpPct = NoJump)
               PROVE  \/ ctrl.advance /\ ~ctrl'.advance
                      \/ ~manual /\ Timed /\ dwell + overrun >= Hold
    BY DEF vars
  <2>1. HoldAdvance \/ ((HoldExpires \/ SamplePasses) /\ Expired)
    <3> USE DEF Finish, Execute, Rollback, EndStage, RoutingPCs, Blocked
    <3>1. Coordinator
      <4>1. ~Worker
        BY DEF Worker, RequestLands, AttemptFails, ProbeEnds
      <4>2. ~Operator
        BY OperatorSteers DEF Steer
      <4> QED
        BY <4>1, <4>2 DEF Next, Tick, Others, Meddle, ExecutionTimeout, OrphanLands
    <3> QED
      BY <3>1
         DEF Coordinator, Resolve, Snapshot, GateVerdict, PlannedStage, ManualStage, PlanDone,
             RampSet, Promoted, RoutingFails, RampCleared, Restored, Succeeds, GivesUp,
             HoldAbort, HoldJump, HoldPause, HoldExpires, HoldSample, Unpause, SampleBreaches,
             SamplePasses, Wake
  <2>2. CASE HoldAdvance
    <3>1. ctrl.advance /\ ctrl' = [ctrl EXCEPT !.advance = FALSE]
      BY <2>2 DEF HoldAdvance
    <3> QED
      BY <3>1 DEF TypeOK, Control
  <2>3. CASE Expired
    <3>1. Hold \in Nat /\ left \in Int /\ pausedFor \in Nat /\ dwell \in Nat /\ overrun \in Nat
      BY HoldType DEF TypeOK
    <3>2. ~manual
      BY <2>3 DEF Expired, Timed, Hold
    <3> QED
      BY <2>3, <3>1, <3>2 DEF Expired, DwellInv, Holding
  <2> QED
    BY <2>1, <2>2, <2>3
<1>2. TypeInv => TypeOK
  BY DEF TypeInv
<1> QED
  BY <1>1, <1>2, TypeInit, TypeStep, HoldsInit, DwellStep, PTL DEF Spec, AdvanceIsEarned

-----------------------------------------------------------------------------
(* The ladder.                                                             *)

(* The percentage that stage i of the plan asks for.                       *)
Rung(i) == in.stages[i].pct

(* Percentage p separates the stages the rollout has behind it from those  *)
(* it has before it.                                                       *)
SplitAt(p) ==
  \A i \in DOMAIN in.stages :
    IF i <= stageIndex THEN Rung(i) <= p ELSE p <= Rung(i)

OnTheWay == Proving \cup Holding \cup {"stageTop", "settingRamp", "promoting", "clearingRamp"}

(* The percentage that is shown splits a rising plan at stageIndex, except *)
(* while a manual ramp is being set: then the one that is asked for does.  *)
(* A planned ramp asks for the stage after the split.                      *)
LadderInv ==
  Rising(in.stages) =>
    /\ pc \in OnTheWay => SplitAt(IF pc = "settingRamp" /\ manual THEN target ELSE currentPct)
    /\ pc \in Holding \cup {"settingRamp"} /\ ~manual => target = Rung(stageIndex + 1)
    /\ pc \in Holding => currentPct = target
    /\ pc \in {"promoting", "clearingRamp"} => stageIndex = Len(in.stages)
    /\ phase = "completed" => \A i \in DOMAIN in.stages : Rung(i) <= currentPct

(* The plan's percentages are integers from 0 to 100.                      *)
LEMMA Percentages ==
  ASSUME TypeOK
  PROVE  /\ DOMAIN in.stages = 1 .. Len(in.stages)
         /\ Len(in.stages) \in Nat /\ stageIndex \in 0 .. Len(in.stages)
         /\ \A i \in DOMAIN in.stages : Rung(i) \in 0 .. 100 /\ Rung(i) <= 100
         /\ currentPct \in 0 .. 100 /\ target \in 0 .. 100
<1>1. in.stages \in Seq(Stage) /\ \A i \in 1 .. Len(in.stages) : Rung(i) \in Pct
  BY PlanType DEF TypeOK, Rung
<1>2. DOMAIN in.stages = 1 .. Len(in.stages)
  BY <1>1
<1>3. \A x \in 0 .. 100 : x <= 100
  OBVIOUS
<1>4. \A i \in DOMAIN in.stages : Rung(i) \in 0 .. 100 /\ Rung(i) <= 100
  BY <1>1, <1>2, <1>3, Zenon DEF Pct
<1> QED
  BY <1>2, <1>4, PlanType DEF TypeOK, Pct

(* A rising plan does not fall from a stage to a later one.                *)
LEMMA RisingStages ==
  ASSUME TypeOK, Rising(in.stages), NEW i \in DOMAIN in.stages, NEW j \in DOMAIN in.stages, i <= j
  PROVE  Rung(i) <= Rung(j)
<1>1. Rung(i) \in 0 .. 100 /\ Rung(j) \in 0 .. 100
  BY Percentages, Zenon
<1>2. i \in Int /\ j \in Int
  BY Percentages
<1>3. i < j => Rung(i) < Rung(j)
  BY DEF Rising, Rung
<1> QED
  BY <1>1, <1>2, <1>3

LEMMA LadderInit == Init => LadderInv
<1> SUFFICES ASSUME Init PROVE LadderInv
  OBVIOUS
<1>1. TypeOK
  BY TypeInit DEF TypeInv
<1>2. stageIndex = 0 /\ currentPct = 0
  BY DEF Init
<1>3. ASSUME NEW i \in DOMAIN in.stages PROVE ~(i <= stageIndex) /\ currentPct <= Rung(i)
  <2>1. Rung(i) \in 0 .. 100
    BY <1>1, Percentages, Zenon
  <2>2. i \in Nat /\ i > 0
    BY <1>1, Percentages
  <2> QED
    BY <1>2, <2>1, <2>2
<1>4. SplitAt(currentPct)
  BY <1>3 DEF SplitAt, Rung
<1> QED
  BY <1>4 DEF Init, LadderInv, Holding

(* The end of a hold moves the split past the stage that was held, or      *)
(* leaves it where a manual ramp has put it.                               *)
LEMMA EndStageSplits ==
  ASSUME TypeInv, LadderInv, Rising(in.stages), pc \in Holding, EndStage,
         UNCHANGED <<in, phase, currentPct>>
  PROVE  SplitAt(currentPct)'
<1> USE DEF EndStage
<1>1. SplitAt(currentPct) /\ currentPct = target
  BY DEF LadderInv, OnTheWay, Holding
<1>2. CASE manual
  BY <1>1, <1>2 DEF SplitAt, Rung
<1>3. CASE ~manual
  <2>1. stageIndex' = stageIndex + 1 /\ stageIndex + 1 \in DOMAIN in.stages
    BY <1>3, Percentages DEF TypeInv, StageBound
  <2>2. currentPct = Rung(stageIndex + 1)
    BY <1>1, <1>3 DEF LadderInv
  <2> DEFINE k == stageIndex + 1
  <2>3. ASSUME NEW i \in DOMAIN in.stages
        PROVE  IF i <= k THEN Rung(i) <= Rung(k)
                         ELSE Rung(k) <= Rung(i)
    <3>1. i \in Int /\ k \in Int
      BY <2>1, Percentages DEF TypeInv
    <3> QED
      BY <2>1, <3>1, RisingStages DEF TypeInv
  <2> QED
    BY <2>1, <2>2, <2>3 DEF SplitAt, Rung
<1> QED
  BY <1>2, <1>3

(* A manual ramp takes the split with it.                                  *)
LEMMA ManualSplits ==
  ASSUME TypeOK, Rising(in.stages), NEW jump \in Pct
  PROVE  LET k == FirstStageAbove(in.stages, jump)
         IN  \A i \in DOMAIN in.stages : IF i <= k THEN Rung(i) <= jump ELSE jump <= Rung(i)
<1> DEFINE k == FirstStageAbove(in.stages, jump)
<1>1. k \in 0 .. Len(in.stages)
        /\ (\A i \in DOMAIN in.stages : i <= k => Rung(i) <= jump)
        /\ (k < Len(in.stages) => Rung(k + 1) > jump)
  <2>1. in.stages \in Seq(Stage)
    BY PlanType DEF TypeOK
  <2> QED
    BY <2>1, FirstStageAboveSplits DEF Rung
<1> HIDE DEF k
<1>2. ASSUME NEW i \in DOMAIN in.stages, ~(i <= k) PROVE jump <= Rung(i)
  <2>1. k < Len(in.stages) /\ k + 1 <= i /\ k + 1 \in DOMAIN in.stages
    BY <1>1, <1>2, Percentages
  <2>2. Rung(k + 1) <= Rung(i) /\ Rung(k + 1) > jump
    BY <1>1, <2>1, RisingStages
  <2>3. Rung(k + 1) \in 0 .. 100 /\ Rung(i) \in 0 .. 100
    BY <2>1, Percentages, Zenon
  <2> QED
    BY <2>2, <2>3 DEF Pct
<1>3. \A i \in DOMAIN in.stages : IF i <= k THEN Rung(i) <= jump ELSE jump <= Rung(i)
  BY <1>1, <1>2, Zenon
<1> QED
  BY <1>3 DEF k

LEMMA LadderStep == TypeInv /\ PhaseInv /\ LadderInv /\ [Next]_vars => LadderInv'
<1> SUFFICES ASSUME TypeInv, PhaseInv, LadderInv, [Next]_vars, Rising(in.stages)
             PROVE  LadderInv'
  BY Frame DEF LadderInv
<1>1. TypeOK
  BY DEF TypeInv
<1> USE DEF LadderInv, PhaseInv, TerminalPhases, LivePhases, Finish, Execute, Rollback,
            Holding, OnTheWay, Proving, RoutingPCs, Blocked, progress, stageVars
<1>2. CASE Bystander
  <2>1. UNCHANGED <<in, stageIndex, currentPct, target, manual>>
    BY <1>2, BystanderFrame
  <2>2. SplitAt(currentPct) => SplitAt(currentPct)'
    BY <2>1 DEF SplitAt, Rung
  <2>3. SplitAt(target) => SplitAt(target)'
    BY <2>1 DEF SplitAt, Rung
  <2> QED
    BY <1>2, <2>1, <2>2, <2>3, BystanderFrame DEF Rung
<1>3. CASE Resolve \/ Snapshot \/ GateVerdict
  <2>1. UNCHANGED <<in, stageIndex, currentPct>>
    BY <1>3 DEF Resolve, Snapshot, GateVerdict
  <2>2. SplitAt(currentPct)'
    BY <1>3, <2>1 DEF Resolve, Snapshot, GateVerdict, SplitAt, Rung
  <2> QED
    BY <1>3, <2>2 DEF Resolve, Snapshot, GateVerdict
<1>4. CASE PlannedStage
  <2>1. SplitAt(currentPct)'
    BY <1>4 DEF PlannedStage, SplitAt, Rung
  <2> QED
    BY <1>4, <2>1 DEF PlannedStage, Rung
<1>5. CASE ManualStage
  <2>1. ctrl.jumpPct \in Pct
    BY <1>1, <1>5 DEF TypeOK, Control, ManualStage
  <2>2. SplitAt(target)'
    BY <1>1, <1>5, <2>1, ManualSplits DEF ManualStage, SplitAt, Rung
  <2> QED
    BY <1>5, <2>2 DEF ManualStage
<1>6. CASE PlanDone
  <2>1. SplitAt(currentPct) /\ stageIndex = Len(in.stages)
    BY <1>1, <1>6, Percentages DEF PlanDone
  <2>2. \A i \in DOMAIN in.stages : Rung(i) <= currentPct
    BY <1>1, <2>1, Percentages DEF SplitAt, Rung
  <2>3. SplitAt(currentPct)'
    BY <1>6, <2>1 DEF PlanDone, SplitAt, Rung
  <2> QED
    BY <1>6, <2>1, <2>2, <2>3 DEF PlanDone, Rung
<1>7. CASE RampSet
  <2>1. CASE manual
    <3>1. SplitAt(currentPct)'
      BY <1>7, <2>1 DEF RampSet, Succeeds, SplitAt, Rung
    <3> QED
      BY <1>7, <2>1, <3>1 DEF RampSet, Succeeds
  <2>2. CASE ~manual
    <3> DEFINE k == stageIndex + 1
    <3>1. k \in DOMAIN in.stages /\ target = Rung(k)
      BY <1>1, <1>7, <2>2, Percentages DEF RampSet, Succeeds, TypeInv, StageBound
    <3>2. ASSUME NEW i \in DOMAIN in.stages
          PROVE  IF i <= stageIndex THEN Rung(i) <= target ELSE target <= Rung(i)
      <4>1. i \in Int /\ k \in Int /\ stageIndex \in Int
        BY <1>1, <3>1, Percentages
      <4>2. CASE i <= stageIndex
        BY <1>1, <3>1, <4>1, <4>2, RisingStages
      <4>3. CASE ~(i <= stageIndex)
        <5>1. k <= i
          BY <4>1, <4>3
        <5> QED
          BY <1>1, <3>1, <4>3, <5>1, RisingStages
      <4> QED
        BY <4>2, <4>3
    <3>3. SplitAt(currentPct)'
      BY <1>7, <3>2 DEF RampSet, Succeeds, SplitAt, Rung
    <3> QED
      BY <1>7, <2>2, <3>1, <3>3 DEF RampSet, Succeeds, Rung
  <2> QED
    BY <2>1, <2>2
<1>8. CASE Promoted \/ RoutingFails
  <2>1. SplitAt(currentPct) => SplitAt(currentPct)'
    BY <1>8 DEF Promoted, RoutingFails, SplitAt, Rung
  <2> QED
    BY <1>8, <2>1 DEF Promoted, RoutingFails, Succeeds, GivesUp
<1>9. CASE RampCleared
  <2>1. pc' = "done" /\ phase' = "completed" /\ in' = in /\ currentPct' = 100
    BY <1>9 DEF RampCleared
  <2>2. \A i \in DOMAIN in.stages : Rung(i) <= 100
    BY <1>1, Percentages, Zenon
  <2> QED
    BY <2>1, <2>2 DEF Rung
<1>10. CASE Restored
  BY <1>10 DEF Restored, Succeeds, GivesUp
<1>11. CASE HoldAbort \/ SampleBreaches
  BY <1>11 DEF HoldAbort, SampleBreaches
<1>12. CASE HoldJump
  <2>1. SplitAt(currentPct)'
    BY <1>12 DEF HoldJump, SplitAt, Rung
  <2> QED
    BY <1>12, <2>1 DEF HoldJump
<1>13. CASE HoldAdvance \/ HoldExpires
  <2>1. SplitAt(currentPct)'
    BY <1>13, EndStageSplits DEF HoldAdvance, HoldExpires
  <2> QED
    BY <1>13, <2>1 DEF HoldAdvance, HoldExpires, EndStage
<1>14. CASE SamplePasses
  <2>1. CASE pc' = "waiting"
    BY <1>2, <1>14, <2>1, SamplePassesSplits DEF Bystander, EndStage
  <2>2. CASE pc' = "stageTop"
    <3>1. pc = "sampling" /\ EndStage /\ UNCHANGED <<in, phase, currentPct>>
      BY <1>14, <2>2, SamplePassesSplits
    <3>2. SplitAt(currentPct)'
      BY <3>1, EndStageSplits
    <3> QED
      BY <3>1, <3>2 DEF EndStage
  <2> QED
    BY <1>14, <2>1, <2>2 DEF SamplePasses, EndStage
<1>15. CASE ExecutionTimeout
  BY <1>15 DEF ExecutionTimeout
<1> QED
  BY <1>2, <1>3, <1>4, <1>5, <1>6, <1>7, <1>8, <1>9, <1>10, <1>11, <1>12, <1>13, <1>14,
     <1>15, Zenon DEF Next, Coordinator, Others, Bystander

(* A planned ramp asks for the next percentage of a rising plan: none that *)
(* was reached is taken back, and none is passed over, wherever manual     *)
(* ramps have taken the traffic in between.                                *)
THEOREM RungsInOrder == Spec => []NextRung
<1>1. TypeInv /\ LadderInv => NextRung
  <2> SUFFICES ASSUME TypeInv, LadderInv, Rising(in.stages), pc = "settingRamp", ~manual
               PROVE  /\ target >= currentPct
                      /\ \A i \in DOMAIN in.stages :
                           Rung(i) < target => Rung(i) <= currentPct
    BY DEF NextRung, Rung
  <2> DEFINE k == stageIndex + 1
  <2>1. TypeOK /\ k \in DOMAIN in.stages /\ stageIndex \in Nat
    BY Percentages DEF TypeInv, StageBound
  <2>2. SplitAt(currentPct) /\ target = Rung(k)
    BY DEF LadderInv, OnTheWay
  <2>3. target >= currentPct
    BY <2>1, <2>2, Percentages DEF SplitAt, Rung
  <2>4. ASSUME NEW i \in DOMAIN in.stages, Rung(i) < target
        PROVE  Rung(i) <= currentPct
    <3>1. i <= stageIndex
      <4> SUFFICES ASSUME ~(i <= stageIndex) PROVE FALSE
        OBVIOUS
      <4>1. k <= i
        BY <2>1, Percentages
      <4>2. target <= Rung(i)
        BY <2>1, <2>2, <4>1, RisingStages
      <4>3. Rung(i) \in 0 .. 100 /\ target \in 0 .. 100
        BY <2>1, Percentages, Zenon
      <4> QED
        BY <2>4, <4>2, <4>3
    <3> QED
      BY <2>2, <3>1 DEF SplitAt, Rung
  <2> QED
    BY <2>3, <2>4
<1> QED
  BY <1>1, TypeInit, TypeStep, HoldsInit, PhaseStep, LadderInit, LadderStep, PTL
     DEF Spec, TypeInv
=============================================================================
