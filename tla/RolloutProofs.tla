---------------------------- MODULE RolloutProofs ----------------------------
(***************************************************************************)
(* What TLAPS proves of the rollout coordinator, for every plan, every     *)
(* number of probes, every starting routing and every bound.               *)
(***************************************************************************)
EXTENDS Rollout, FiniteSets, FiniteSetTheorems, TLAPS

-----------------------------------------------------------------------------
(* The routing calls.                                                      *)

(* A request the server accepts leads from one routing record to another.  *)
LEMMA ApplyType ==
  ASSUME NEW r \in RoutingState, NEW call \in Calls, Accepts(r, call)
  PROVE  Apply(r, call) \in RoutingState
<1> USE NoVersionAssumption DEF RoutingState, Accepts, Apply, Calls, SetCurrent, SetRamp, ClearRamp, Pct
<1>1. CASE call.op = "ramp"
  BY <1>1
<1>2. CASE call.op # "ramp"
  BY <1>2
<1> QED
  BY <1>1, <1>2

(* RestoreRouting makes one or two requests, both of them legal.           *)
LEMMA RestoreCallsType ==
  ASSUME NEW r \in RoutingState
  PROVE  /\ RestoreCalls(r) \in Seq(Calls)
         /\ Len(RestoreCalls(r)) \in 1 .. 2
<1> DEFINE first == IF r.current = NoVersion THEN <<>> ELSE <<SetCurrent(r.current)>>
           second == IF r.ramping = NoVersion \/ r.pct = 0 THEN ClearRamp ELSE SetRamp(r.ramping, r.pct)
<1>1. second \in Calls
  BY DEF RoutingState, Calls
<1>2. r.current # NoVersion => SetCurrent(r.current) \in Calls
  BY DEF RoutingState, Calls
<1>3. first = <<>> \/ \E call \in Calls : first = <<call>>
  BY <1>2
<1>4. RestoreCalls(r) = first \o <<second>>
  BY DEF RestoreCalls
<1> HIDE DEF first, second
<1>5. CASE first = <<>>
  BY <1>1, <1>4, <1>5
<1>6. CASE \E call \in Calls : first = <<call>>
  BY <1>1, <1>4, <1>6
<1> QED
  BY <1>3, <1>5, <1>6

(* Every blocking routing call sends one or two legal requests.            *)
LEMMA RequestsType ==
  ASSUME TypeOK, pc \in RoutingPCs
  PROVE  /\ Requests \in Seq(Calls)
         /\ Len(Requests) \in 1 .. 2
<1>1. CASE pc = "settingRamp"
  <2>1. Requests = <<SetRamp(Target, target)>>
    BY <1>1 DEF Requests
  <2>2. SetRamp(Target, target) \in Calls
    BY TargetAssumption DEF TypeOK, Calls
  <2> QED
    BY <2>1, <2>2
<1>2. CASE pc = "promoting"
  <2>1. Requests = <<SetCurrent(Target)>>
    BY <1>2 DEF Requests
  <2>2. SetCurrent(Target) \in Calls
    BY TargetAssumption DEF Calls
  <2> QED
    BY <2>1, <2>2
<1>3. CASE pc = "clearingRamp"
  <2>1. Requests = <<ClearRamp>>
    BY <1>3 DEF Requests
  <2>2. ClearRamp \in Calls
    BY DEF Calls
  <2> QED
    BY <2>1, <2>2
<1>4. CASE pc = "restoring"
  <2>1. Requests = RestoreCalls(previous)
    BY <1>4 DEF Requests
  <2> QED
    BY <2>1, RestoreCallsType DEF TypeOK
<1> QED
  BY <1>1, <1>2, <1>3, <1>4 DEF RoutingPCs

(* What is left of an attempt is nothing, or the end of what it requests.  *)
LEMMA OrphanRest ==
  ASSUME TypeOK, pc \in RoutingPCs
  PROVE  LET rest == SubSeq(Requests, landed + 1, Len(Requests))
         IN  rest \in Seq(Calls) /\ (rest = <<>> \/ landed \in 0 .. Len(Requests))
<1>1. Requests \in Seq(Calls) /\ landed \in Nat
  BY RequestsType DEF TypeOK
<1>2. ASSUME NEW s \in Seq(Calls), NEW m \in Nat
      PROVE  SubSeq(s, m + 1, Len(s)) \in Seq(Calls)
  BY <1>2
<1>3. ASSUME NEW s \in Seq(Calls), NEW m \in Nat, m > Len(s)
      PROVE  SubSeq(s, m + 1, Len(s)) = <<>>
  BY <1>3
<1> QED
  BY <1>1, <1>2, <1>3

-----------------------------------------------------------------------------
(* FirstStageAbove.                                                        *)

(* Every finite nonempty set of integers has a least element: rank each    *)
(* element by how many are below it.  The ranks differ, so by counting they *)
(* cannot all be positive.                                                 *)
LEMMA LeastElement ==
  ASSUME NEW S, IsFiniteSet(S), S \subseteq Int, S # {}
  PROVE  \E m \in S : \A j \in S : m <= j
<1> DEFINE below(m) == {j \in S : j < m}
           rank == [m \in S |-> Cardinality(below(m))]
           n == Cardinality(S)
<1>1. n \in Nat /\ n > 0
  BY FS_CardinalityType, FS_EmptySet
<1>2. ASSUME NEW m \in S
      PROVE  IsFiniteSet(below(m)) /\ Cardinality(below(m)) \in 0 .. n - 1
  <2>1. below(m) \subseteq S /\ m \in S /\ m \notin below(m)
    BY <1>2
  <2>2. IsFiniteSet(below(m)) /\ Cardinality(below(m)) <= n /\ Cardinality(below(m)) # n
    BY <2>1, FS_Subset
  <2>3. Cardinality(below(m)) \in Nat
    BY <2>2, FS_CardinalityType
  <2> QED
    BY <1>1, <2>2, <2>3
<1>3. ASSUME NEW x \in S, NEW y \in S, x < y
      PROVE  rank[x] # rank[y]
  <2>1. below(x) \subseteq below(y) /\ x \in below(y) /\ x \notin below(x)
    <3>1. x \in Int /\ y \in Int /\ \A j \in S : j \in Int
      OBVIOUS
    <3>2. ~(x < x) /\ \A j \in S : j < x => j < y
      BY <1>3, <3>1
    <3> QED
      BY <1>3, <3>2
  <2>2. Cardinality(below(x)) # Cardinality(below(y))
    BY <2>1, <1>2, FS_Subset
  <2> QED
    BY <2>2
<1>4. PICK m \in S : rank[m] = 0
  <2> SUFFICES ASSUME \A m \in S : rank[m] # 0
               PROVE  FALSE
    OBVIOUS
  <2>1. rank \in [S -> 1 .. n - 1]
    <3> SUFFICES ASSUME NEW m \in S PROVE Cardinality(below(m)) \in 1 .. n - 1
      OBVIOUS
    <3>1. Cardinality(below(m)) # 0
      OBVIOUS
    <3> HIDE DEF below, n
    <3> QED
      BY <1>2, <3>1, <1>1
  <2>2. IsFiniteSet(1 .. n - 1) /\ Cardinality(1 .. n - 1) = n - 1
    <3> HIDE DEF n
    <3> QED
      BY <1>1, FS_Interval
  <2>3. PICK x \in S, y \in S : x # y /\ rank[x] = rank[y]
    <3>1. Cardinality(1 .. n - 1) < n
      BY <1>1, <2>2
    <3> HIDE DEF rank
    <3> QED
      BY <2>1, <2>2, <3>1, FS_PigeonHole
  <2>4. x < y \/ y < x
    BY <2>3
  <2> QED
    BY <2>3, <2>4, <1>3
<1>5. below(m) = {}
  <2>1. Cardinality(below(m)) = 0
    BY <1>4
  <2> QED
    BY <1>2, <2>1, FS_EmptySet
<1>6. \A j \in S : m <= j
  BY <1>5
<1> QED
  BY <1>6

(* The index firstStageAbove returns splits the plan: every stage before   *)
(* it asks for at most pct, and the stage at it, if any, for more.         *)
LEMMA FirstStageAboveSplits ==
  ASSUME NEW stages \in Seq(Stage), NEW pct \in Pct
  PROVE  LET k == FirstStageAbove(stages, pct)
         IN  /\ k \in 0 .. Len(stages)
             /\ \A i \in DOMAIN stages : i <= k => stages[i].pct <= pct
             /\ k < Len(stages) => stages[k + 1].pct > pct
<1> DEFINE above == {i \in 0 .. Len(stages) - 1 : stages[i + 1].pct > pct}
           k == FirstStageAbove(stages, pct)
<1>1. \A i \in DOMAIN stages : stages[i] \in Stage /\ stages[i].pct \in Nat
  <2> TAKE i \in DOMAIN stages
  <2>1. stages \in [1 .. Len(stages) -> Stage]
    OBVIOUS
  <2>2. stages[i] \in Stage
    BY <2>1
  <2>3. stages[i].pct \in Pct
    BY <2>2, Zenon DEF Stage
  <2>4. \A x \in Pct : x \in Nat
    BY DEF Pct
  <2> QED
    BY <2>2, <2>3, <2>4, Zenon
<1>2. CASE above = {}
  <2>1. k = Len(stages)
    BY <1>2 DEF FirstStageAbove
  <2>2. ASSUME NEW i \in DOMAIN stages PROVE stages[i].pct <= pct
    <3>1. i - 1 \in 0 .. Len(stages) - 1 /\ i - 1 \notin above
      BY <1>2
    <3> QED
      BY <3>1, <1>1 DEF Pct
  <2> QED
    BY <2>1, <2>2
<1>3. CASE above # {}
  <2>1. PICK m \in above : \A j \in above : m <= j
    <3>1. IsFiniteSet(0 .. Len(stages) - 1) /\ above \subseteq 0 .. Len(stages) - 1
      BY FS_Interval
    <3>2. IsFiniteSet(above) /\ above \subseteq Int
      BY <3>1, FS_Subset
    <3> QED
      BY <1>3, <3>2, LeastElement
  <2>2. k \in above /\ \A j \in above : k <= j
    BY <1>3, <2>1 DEF FirstStageAbove
  <2>3. ASSUME NEW i \in DOMAIN stages, i <= k PROVE stages[i].pct <= pct
    <3>1. i - 1 \in 0 .. Len(stages) - 1 /\ ~(k <= i - 1)
      BY <2>2, <2>3
    <3>2. i - 1 \notin above
      BY <3>1, <2>2
    <3>3. ~(stages[(i - 1) + 1].pct > pct)
      BY <3>1, <3>2, Zenon
    <3>4. (i - 1) + 1 = i
      OBVIOUS
    <3>5. ~(stages[i].pct > pct)
      BY <3>3, <3>4, Zenon
    <3>6. stages[i].pct \in Nat /\ pct \in Nat
      BY <1>1 DEF Pct
    <3>7. \A x, y \in Nat : ~(x > y) => x <= y
      OBVIOUS
    <3> QED
      BY <3>5, <3>6, <3>7, Zenon
  <2> QED
    BY <2>2, <2>3
<1> QED
  BY <1>2, <1>3

-----------------------------------------------------------------------------
(* Type correctness.                                                       *)

(* A plan has a stage, and every stage of it a percentage and a hold.      *)
LEMMA PlanType ==
  ASSUME in \in Inputs
  PROVE  /\ in.stages \in Seq(Stage)
         /\ Len(in.stages) \in Nat /\ Len(in.stages) > 0
         /\ \A i \in 1 .. Len(in.stages) :
              in.stages[i].pct \in Pct /\ in.stages[i].hold \in Nat
<1>1. in.stages \in Seq(Stage) \ {<<>>}
  BY InputsAssumption, Zenon DEF Input
<1>2. Len(in.stages) \in Nat /\ Len(in.stages) > 0
  BY <1>1
<1>3. in.stages \in [1 .. Len(in.stages) -> Stage]
  BY <1>1
<1>4. \A s \in Stage : s.pct \in Pct /\ s.hold \in Nat
  BY Zenon DEF Stage
<1>5. \A i \in 1 .. Len(in.stages) : in.stages[i] \in Stage
  BY <1>3
<1> QED
  BY <1>1, <1>2, <1>4, <1>5, Zenon

(* The hold in force is a number of ticks.                                 *)
LEMMA HoldType == ASSUME TypeOK PROVE Hold \in Nat
<1>1. CASE manual \/ stageIndex >= Len(in.stages)
  BY <1>1 DEF Hold
<1>2. CASE ~(manual \/ stageIndex >= Len(in.stages))
  <2>1. stageIndex + 1 \in 1 .. Len(in.stages)
    BY <1>2, PlanType DEF TypeOK
  <2>2. Hold = in.stages[stageIndex + 1].hold
    BY <1>2 DEF Hold
  <2> QED
    BY <2>1, <2>2, PlanType DEF TypeOK
<1> QED
  BY <1>1, <1>2

(* A planned stage that is being applied or held is a stage of the plan.   *)
StageBound ==
  pc \in Holding \cup {"settingRamp"} /\ ~manual => stageIndex < Len(in.stages)

TypeInv == TypeOK /\ StageBound

LEMMA TypeInit == Init => TypeInv
<1> SUFFICES ASSUME Init PROVE TypeInv
  OBVIOUS
<1>1. routing \in RoutingState /\ previous \in RoutingState
  BY RoutingsAssumption DEF Init, RoutingState, NoRouting, Pct
<1>2. ctrl \in Control
  BY DEF Init, Control
<1>3. stageIndex \in 0 .. Len(in.stages) /\ currentPct \in Pct /\ target \in Pct
  BY PlanType DEF Init, Pct
<1>4. probes \in [Probes -> {"running", "passed", "failed"}]
  BY DEF Init
<1>5. StageBound
  BY DEF Init, StageBound, Holding
<1>6. left \in Int /\ timer \in Nat /\ pausedFor \in Nat /\ dwell \in Nat
        /\ overrun \in Nat /\ attempt \in Nat /\ landed \in 0 .. 2
  BY DEF Init
<1>7. pc \in Blocked /\ phase \in LivePhases /\ in \in Inputs
        /\ manualControl \in BOOLEAN /\ manual \in BOOLEAN /\ meddled \in BOOLEAN
  BY DEF Init, Blocked, LivePhases
<1>8. orphan \in Seq(Calls)
  BY DEF Init
<1> QED
  BY <1>1, <1>2, <1>3, <1>4, <1>5, <1>6, <1>7, <1>8, Zenon DEF TypeInv, TypeOK

(* The end of a hold leaves stageIndex within the plan, or at its end.     *)
LEMMA EndStageType ==
  ASSUME TypeInv, pc \in Holding, EndStage
  PROVE  stageIndex' \in 0 .. Len(in.stages)
<1>1. Len(in.stages) \in Nat /\ stageIndex \in 0 .. Len(in.stages)
  BY PlanType DEF TypeInv, TypeOK
<1>2. ~manual => stageIndex < Len(in.stages)
  BY DEF TypeInv, StageBound
<1> QED
  BY <1>1, <1>2 DEF EndStage

LEMMA TypeStep == TypeInv /\ [Next]_vars => TypeInv'
<1> SUFFICES ASSUME TypeInv, [Next]_vars PROVE TypeInv'
  OBVIOUS
<1> USE DEF TypeInv, TypeOK, StageBound, Blocked, Running, EndedPCs, RoutingPCs, Holding,
            LivePhases, TerminalPhases, Finish, Execute, Rollback, EndStage,
            progress, stageVars, clock, activity, server
<1>1. Len(in.stages) \in Nat /\ Hold \in Nat
  BY PlanType, HoldType
<1>2. \A i \in 1 .. Len(in.stages) : in.stages[i].pct \in Pct
  BY PlanType
<1>3. CASE Resolve
  BY <1>3 DEF Resolve
<1>4. CASE Snapshot
  BY <1>4 DEF Snapshot
<1>5. CASE GateVerdict
  BY <1>5 DEF GateVerdict
<1>6. CASE PlannedStage
  <2>1. stageIndex + 1 \in 1 .. Len(in.stages)
    BY <1>1, <1>6 DEF PlannedStage
  <2>2. target' \in Pct
    BY <1>2, <1>6, <2>1, Zenon DEF PlannedStage
  <2>3. StageBound'
    BY <1>6 DEF PlannedStage
  <2>4. pc' = "settingRamp" /\ attempt' = 1 /\ landed' = 0 /\ manual' \in BOOLEAN
          /\ UNCHANGED <<in, progress, previous, clock, ctrl, probes, server>>
    BY <1>6, Zenon DEF PlannedStage
  <2>5. TypeOK'
    BY <2>2, <2>4
  <2> QED
    BY <2>3, <2>5, Zenon
<1>7. CASE ManualStage
  <2>1. ctrl.jumpPct \in Pct /\ ctrl' \in Control
    BY <1>7 DEF ManualStage, Control
  <2>2. stageIndex' \in 0 .. Len(in.stages)
    BY <1>7, <2>1, PlanType, FirstStageAboveSplits DEF ManualStage
  <2> QED
    BY <1>7, <2>1, <2>2 DEF ManualStage
<1>8. CASE PlanDone
  BY <1>8 DEF PlanDone
<1>9. CASE RampSet
  BY <1>1, <1>9 DEF RampSet, Succeeds
<1>10. CASE Promoted
  BY <1>10 DEF Promoted, Succeeds
<1>11. CASE RoutingFails
  BY <1>11 DEF RoutingFails, GivesUp
<1>12. CASE RampCleared
  BY <1>12 DEF RampCleared, Succeeds, GivesUp, Pct
<1>13. CASE Restored
  <2>1. currentPct' \in Pct
    <3>1. 0 \in Pct
      BY DEF Pct
    <3> QED
      BY <1>13, <3>1, Zenon DEF Restored
  <2> QED
    BY <1>13, <2>1 DEF Restored
<1>14. CASE HoldAbort
  BY <1>14 DEF HoldAbort
<1>15. CASE HoldJump
  BY <1>15 DEF HoldJump
<1>16. CASE HoldAdvance
  <2>1. ctrl' \in Control
    BY <1>16 DEF HoldAdvance, Control
  <2>2. stageIndex' \in 0 .. Len(in.stages)
    BY <1>16, EndStageType DEF HoldAdvance
  <2> QED
    BY <1>16, <2>1, <2>2 DEF HoldAdvance
<1>17. CASE HoldPause
  BY <1>17 DEF HoldPause
<1>18. CASE HoldExpires
  <2>1. stageIndex' \in 0 .. Len(in.stages)
    BY <1>18, EndStageType DEF HoldExpires
  <2> QED
    BY <1>18, <2>1 DEF HoldExpires
<1>19. CASE HoldSample
  BY <1>19 DEF HoldSample
<1>20. CASE Unpause
  <2>1. left' \in Int
    BY <1>20 DEF Unpause, LeftAfterPause
  <2> QED
    BY <1>20, <2>1 DEF Unpause
<1>21. CASE SampleBreaches
  BY <1>21 DEF SampleBreaches
<1>22. CASE SamplePasses
  <2>1. timer' \in Nat
    BY <1>1, <1>22, TicksAssumption DEF SamplePasses, Expired, Timed, AtMost
  <2>2. stageIndex' \in 0 .. Len(in.stages)
    BY <1>22, EndStageType DEF SamplePasses
  <2> QED
    BY <1>22, <2>1, <2>2 DEF SamplePasses
<1>23. CASE Wake
  BY <1>23 DEF Wake
<1>24. CASE RequestLands
  <2>1. Requests \in Seq(Calls) /\ Len(Requests) \in 1 .. 2
    BY <1>24, RequestsType DEF RequestLands
  <2>2. landed' \in 0 .. 2 /\ Requests[landed + 1] \in Calls
    BY <1>24, <2>1 DEF RequestLands
  <2>3. routing' \in RoutingState
    BY <1>24, <2>2, ApplyType DEF RequestLands
  <2> QED
    BY <1>24, <2>2, <2>3 DEF RequestLands
<1>25. CASE AttemptFails
  BY <1>25 DEF AttemptFails
<1>26. ASSUME NEW p \in Probes, NEW v \in {"passed", "failed"}, ProbeEnds(p, v)
       PROVE  TypeInv'
  BY <1>26 DEF ProbeEnds
<1>27. CASE Tick
  <2>1. left' \in Int /\ timer' \in Nat /\ pausedFor' \in Nat
          /\ dwell' \in Nat /\ overrun' \in Nat
    BY <1>1, <1>27 DEF Tick, AtLeast, AtMost
  <2> QED
    BY <1>27, <2>1 DEF Tick
<1>28. CASE Operator
  <2>1. PICK newCtrl \in Control : Steer(newCtrl)
    <3>1. CASE Pause \/ Resume
      BY <3>1 DEF Pause, Resume, Control
    <3>2. CASE Advance
      BY <3>2 DEF Advance, Control
    <3>3. ASSUME NEW rollback \in BOOLEAN, Abort(rollback)
          PROVE  \E newCtrl \in Control : Steer(newCtrl)
      BY <3>3 DEF Abort, Control
    <3>4. ASSUME NEW pct \in ManualPcts, SetRampTo(pct)
          PROVE  \E newCtrl \in Control : Steer(newCtrl)
      BY <3>4, ManualAssumption DEF SetRampTo, Control
    <3> QED
      BY <1>28, <3>1, <3>2, <3>3, <3>4 DEF Operator
  <2> QED
    BY <2>1 DEF Steer
<1>29. ASSUME NEW call \in OtherCalls, Meddle(call)
       PROVE  TypeInv'
  <2>1. routing' \in RoutingState
    BY <1>29, CallsAssumption, ApplyType DEF Meddle
  <2> QED
    BY <1>29, <2>1 DEF Meddle
<1>30. CASE ExecutionTimeout
  <2>1. orphan' \in Seq(Calls)
    BY <1>30, OrphanRest DEF ExecutionTimeout
  <2> QED
    BY <1>30, <2>1 DEF ExecutionTimeout
<1>32. CASE OrphanLands
  <2>1. Head(orphan) \in Calls /\ orphan' \in Seq(Calls)
    BY <1>32 DEF OrphanLands
  <2>2. routing' \in RoutingState
    BY <1>32, <2>1, ApplyType DEF OrphanLands
  <2> QED
    BY <1>32, <2>1, <2>2 DEF OrphanLands
<1>31. CASE UNCHANGED vars
  BY <1>31 DEF vars
<1> QED
  BY <1>3, <1>4, <1>5, <1>6, <1>7, <1>8, <1>9, <1>10, <1>11, <1>12, <1>13, <1>14, <1>15,
     <1>16, <1>17, <1>18, <1>19, <1>20, <1>21, <1>22, <1>23, <1>24, <1>25, <1>26, <1>27,
     <1>28, <1>29, <1>30, <1>31, <1>32, Zenon DEF Next, Coordinator, Worker, Others

(* Every variable of the coordinator keeps its type, whatever the plan,    *)
(* the operators and the server do; in particular stageIndex, which manual *)
(* ramps move to and fro, never leaves the plan and its end.               *)
THEOREM TypeCorrect == Spec => []TypeOK
<1>1. TypeInv => TypeOK
  BY DEF TypeInv
<1> QED
  BY <1>1, TypeInit, TypeStep, PTL DEF Spec

-----------------------------------------------------------------------------
(* The gate.                                                               *)

(* Which actions can change the input, the saved routing, the probes and   *)
(* the server: everything else leaves them alone.                          *)
LEMMA Frame ==
  ASSUME [Next]_vars
  PROVE  /\ in' = in
         /\ Snapshot \/ previous' = previous
         /\ (\E p \in Probes, v \in {"passed", "failed"} : ProbeEnds(p, v)) \/ probes' = probes
         /\ RequestLands \/ OrphanLands \/ (\E call \in OtherCalls : Meddle(call))
              \/ routing' = routing
         /\ ExecutionTimeout \/ OrphanLands \/ orphan' = orphan
         /\ (\E call \in OtherCalls : Meddle(call)) \/ meddled' = meddled
<1> USE DEF server
<1>1. CASE Coordinator
  BY <1>1, Zenon
     DEF Coordinator, Resolve, Snapshot, GateVerdict, PlannedStage, ManualStage, PlanDone,
         RampSet, Promoted, RoutingFails, RampCleared, Restored, HoldAbort, HoldJump,
         HoldAdvance, HoldPause, HoldExpires, HoldSample, Unpause, SampleBreaches,
         SamplePasses, Wake
<1>2. CASE RequestLands
  BY <1>2 DEF RequestLands
<1>3. CASE AttemptFails \/ ExecutionTimeout \/ OrphanLands
  BY <1>3 DEF AttemptFails, ExecutionTimeout, OrphanLands
<1>4. CASE \E p \in Probes, v \in {"passed", "failed"} : ProbeEnds(p, v)
  BY <1>4 DEF ProbeEnds
<1>5. CASE Tick
  BY <1>5 DEF Tick
<1>6. CASE Operator
  BY <1>6 DEF Operator, Pause, Resume, Advance, Abort, SetRampTo, Steer
<1>7. CASE \E call \in OtherCalls : Meddle(call)
  BY <1>7 DEF Meddle
<1>8. CASE UNCHANGED vars
  BY <1>8 DEF vars
<1> QED
  BY <1>1, <1>2, <1>3, <1>4, <1>5, <1>6, <1>7, <1>8, Zenon DEF Next, Worker, Others

Proving == {"resolving", "snapshotting", "gating"}

(* Where the goroutine can be once it has left the gate, and how it gets   *)
(* there: the end of the rollout apart, only past a gate that passed, or   *)
(* past no gate at all.                                                    *)
LEMMA LeavingProving ==
  ASSUME [Next]_vars, pc' \notin Proving \cup EndedPCs, pc \in Proving \cup EndedPCs
  PROVE  \/ Snapshot /\ ~in.gated
         \/ GateVerdict /\ GatePassed
<1> USE DEF Proving, EndedPCs, Finish, Execute, Rollback, EndStage, Holding, RoutingPCs, Blocked
<1>1. CASE Coordinator
  BY <1>1
     DEF Coordinator, Resolve, Snapshot, GateVerdict, PlannedStage, ManualStage, PlanDone,
         RampSet, Promoted, RoutingFails, RampCleared, Restored, Succeeds, GivesUp, HoldAbort,
         HoldJump, HoldAdvance, HoldPause, HoldExpires, HoldSample, Unpause, SampleBreaches,
         SamplePasses, Wake
<1>2. CASE Worker
  BY <1>2 DEF Worker, RequestLands, AttemptFails, ProbeEnds
<1>3. CASE Tick \/ Operator
  BY <1>3 DEF Tick, Operator, Pause, Resume, Advance, Abort, SetRampTo, Steer
<1>4. CASE Others
  BY <1>4 DEF Others, Meddle, ExecutionTimeout, OrphanLands
<1>5. CASE UNCHANGED vars
  BY <1>5 DEF vars
<1> QED
  BY <1>1, <1>2, <1>3, <1>4, <1>5 DEF Next

(* Past the gate, the gate has passed; and an attempt that outlives the    *)
(* rollout was begun past the gate.                                        *)
GateInv == in.gated /\ (pc \notin Proving \cup EndedPCs \/ orphan # <<>>) => GatePassed

LEMMA GateStep == GateInv /\ [Next]_vars => GateInv'
<1> SUFFICES ASSUME GateInv, [Next]_vars, in'.gated,
                    pc' \notin Proving \cup EndedPCs \/ orphan' # <<>>
             PROVE  GatePassed'
  BY DEF GateInv
<1>1. in' = in /\ in.gated
  BY Frame
<1>2. CASE pc' \notin Proving \cup EndedPCs
  <2>1. probes' = probes
    BY <1>2, Frame DEF ProbeEnds, Proving
  <2>2. GatePassed
    BY <1>1, <1>2, LeavingProving DEF GateInv
  <2> QED
    BY <2>1, <2>2 DEF GatePassed
<1>3. CASE orphan' # <<>>
  <2>1. orphan # <<>> \/ pc \in RoutingPCs
    BY <1>3, Frame DEF ExecutionTimeout, OrphanLands
  <2>2. GatePassed
    BY <1>1, <2>1 DEF GateInv, Proving, EndedPCs, RoutingPCs
  <2>3. CASE \E p \in Probes, v \in {"passed", "failed"} : ProbeEnds(p, v)
    BY <2>2, <2>3 DEF ProbeEnds, GatePassed
  <2> QED
    BY <2>2, <2>3, Frame DEF GatePassed
<1> QED
  BY <1>2, <1>3

(* The coordinator moves no traffic before every canary order has passed,  *)
(* however many there are and in whatever order they end, nor does an      *)
(* attempt that outlives it.                                               *)
THEOREM GateFirst == Spec => GateBeforeTraffic
<1>1. Init => GateInv
  BY DEF Init, GateInv, Proving
<1>2. GateInv /\ [Next]_vars
        => [in.gated /\ (\E p \in Probes : probes[p] # "passed")
              => routing' = routing \/ meddled' # meddled]_vars
  <2> SUFFICES ASSUME GateInv, [Next]_vars, in.gated, \E p \in Probes : probes[p] # "passed"
               PROVE  routing' = routing \/ meddled' # meddled
    OBVIOUS
  <2>1. ~RequestLands /\ ~OrphanLands
    BY DEF GateInv, GatePassed, RequestLands, OrphanLands, RoutingPCs, Proving, EndedPCs
  <2>2. ASSUME NEW call \in OtherCalls, Meddle(call) PROVE meddled' # meddled
    BY <2>2 DEF Meddle
  <2> QED
    BY <2>1, <2>2, Frame
<1> QED
  BY <1>1, <1>2, GateStep, PTL DEF Spec, GateBeforeTraffic

-----------------------------------------------------------------------------
(* The contract.                                                           *)

(* The contract's instance of Routing is the coordinator's.                *)
LEMMA SameRouting ==
  /\ Contract!Calls = Calls /\ Contract!ClearRamp = ClearRamp
  /\ Contract!Pct = Pct /\ Contract!RoutingState = RoutingState
  /\ Contract!NoRouting = NoRouting
  /\ \A v : Contract!SetCurrent(v) = SetCurrent(v)
  /\ \A v, p : Contract!SetRamp(v, p) = SetRamp(v, p)
  /\ \A r : Contract!RestoreCalls(r) = RestoreCalls(r)
  /\ \A r, call : Contract!Accepts(r, call) = Accepts(r, call)
  /\ \A r, call : Contract!Apply(r, call) = Apply(r, call)
<1> USE Zenon DEF Contract!SetCurrent, SetCurrent, Contract!SetRamp, SetRamp,
          Contract!ClearRamp, ClearRamp, Contract!Pct, Pct
<1>1. Contract!Calls = Calls
  BY SMT DEF Contract!Calls, Calls
<1>2. Contract!RoutingState = RoutingState
  BY DEF Contract!RoutingState, RoutingState
<1>3. Contract!NoRouting = NoRouting
  BY DEF Contract!NoRouting, NoRouting
<1>4. \A r : Contract!RestoreCalls(r) = RestoreCalls(r)
  BY DEF Contract!RestoreCalls, RestoreCalls
<1>5. \A r, call : Contract!Accepts(r, call) = Accepts(r, call)
  BY DEF Contract!Accepts, Accepts
<1>6. \A r, call : Contract!Apply(r, call) = Apply(r, call)
  BY DEF Contract!Apply, Apply
<1> QED
  BY <1>1, <1>2, <1>3, <1>4, <1>5, <1>6

(* No handler runs and no step is taken once the rollout has ended.        *)
LEMMA TimedOutStays == [Next]_vars /\ pc = "timedOut" => pc' = "timedOut"
<1> SUFFICES ASSUME [Next]_vars, pc = "timedOut" PROVE pc' = "timedOut"
  OBVIOUS
<1> USE DEF Blocked, RoutingPCs
<1>1. ~Coordinator
  BY DEF Coordinator, Resolve, Snapshot, GateVerdict, PlannedStage, ManualStage, PlanDone,
         RampSet, Promoted, RoutingFails, RampCleared, Restored, Succeeds, GivesUp, HoldAbort,
         HoldJump, HoldAdvance, HoldPause, HoldExpires, HoldSample, Unpause, SampleBreaches,
         SamplePasses, Wake
<1>2. ~Worker /\ ~Tick /\ ~Operator
  BY DEF Worker, RequestLands, AttemptFails, ProbeEnds, Tick, Operator, Pause, Resume,
         Advance, Abort, SetRampTo, Steer
<1>3. CASE Others
  BY <1>3 DEF Others, Meddle, ExecutionTimeout, OrphanLands
<1> QED
  BY <1>1, <1>2, <1>3 DEF Next, vars

(* Only a rollout that its timeout closed leaves requests in flight.       *)
OrphanInv == orphan # <<>> => pc = "timedOut"

LEMMA OrphanInit == Init => OrphanInv
  BY DEF Init, OrphanInv

LEMMA OrphanStep == OrphanInv /\ [Next]_vars => OrphanInv'
<1> SUFFICES ASSUME OrphanInv, [Next]_vars, orphan' # <<>> PROVE pc' = "timedOut"
  BY DEF OrphanInv
<1>1. CASE ExecutionTimeout
  BY <1>1 DEF ExecutionTimeout
<1>2. CASE OrphanLands
  BY <1>2 DEF OrphanLands, OrphanInv
<1>3. CASE orphan' = orphan
  <2>1. pc = "timedOut"
    BY <1>3 DEF OrphanInv
  <2> QED
    BY <2>1, TimedOutStays
<1> QED
  BY <1>1, <1>2, <1>3, Frame

(* What a routing Activity requests is a script of the life it runs in.    *)
LEMMA ScriptsCover ==
  ASSUME TypeInv, pc \in RoutingPCs
  PROVE  Requests \in Contract!Scripts
<1> USE DEF Holding, EndedPCs
<1>1. CASE pc = "settingRamp"
  <2>1. Requests = <<SetRamp(Target, target)>> /\ Life = "exposing"
    BY <1>1 DEF Requests, Life
  <2>2. Contract!Scripts = {<<SetRamp(Target, p)>> : p \in Pct}
    BY <2>1, SameRouting DEF Contract!Scripts
  <2> QED
    BY <2>1, <2>2 DEF TypeInv, TypeOK
<1>2. CASE pc \in {"promoting", "clearingRamp"}
  <2>1. Requests \in {<<SetCurrent(Target)>>, <<ClearRamp>>} /\ Life = "promoting"
    BY <1>2 DEF Requests, Life
  <2> QED
    BY <2>1, SameRouting DEF Contract!Scripts
<1>3. CASE pc = "restoring"
  <2>1. Requests = RestoreCalls(previous) /\ Life = "restoring"
    BY <1>3 DEF Requests, Life
  <2> QED
    BY <2>1, SameRouting DEF Contract!Scripts
<1> QED
  BY <1>1, <1>2, <1>3 DEF RoutingPCs

(* Every step of the coordinator is a step the contract allows, or changes *)
(* nothing the contract speaks of.                                         *)
LEMMA ContractStep ==
  TypeInv /\ GateInv /\ OrphanInv /\ [Next]_vars => [Contract!Next]_(Contract!contractVars)
<1> SUFFICES ASSUME TypeInv, GateInv, OrphanInv, [Next]_vars
             PROVE  Contract!Next \/ UNCHANGED Contract!contractVars
  OBVIOUS
<1> USE DEF Contract!contractVars, Holding, EndedPCs, Finish, Execute, Rollback, EndStage, server
<1>1. in' = in
  BY Frame
<1>2. probes' = probes => UNCHANGED (~in.gated \/ GatePassed)
  BY <1>1 DEF GatePassed
<1>3. CASE Resolve
  <2>1. CASE pc' = "snapshotting"
    BY <1>2, <1>3, <2>1 DEF Resolve, Life
  <2>2. CASE pc' = "done"
    BY <1>2, <1>3, <2>2 DEF Resolve, Life, OrphanInv, Contract!Next, Contract!End
  <2> QED
    BY <1>3, <2>1, <2>2 DEF Resolve
<1>4. CASE Snapshot
  <2>1. CASE pc' = "done"
    BY <1>2, <1>4, <2>1 DEF Snapshot, Life, OrphanInv, Contract!Next, Contract!End
  <2>2. CASE pc' = "gating"
    BY <1>2, <1>4, <2>2 DEF Snapshot, Life, Contract!Next, Contract!Prove
  <2>3. CASE pc' = "stageTop"
    BY <1>2, <1>4, <2>3 DEF Snapshot, Life, Contract!Next, Contract!Expose
  <2> QED
    BY <1>4, <2>1, <2>2, <2>3 DEF Snapshot
<1>5. CASE GateVerdict
  <2>1. CASE pc' = "stageTop"
    BY <1>2, <1>5, <2>1 DEF GateVerdict, Life, Contract!Next, Contract!Expose
  <2>2. CASE pc' = "done"
    BY <1>2, <1>5, <2>2 DEF GateVerdict, Life, OrphanInv, Contract!Next, Contract!End
  <2> QED
    BY <1>5, <2>1, <2>2 DEF GateVerdict
<1>6. CASE PlannedStage \/ ManualStage \/ RampSet \/ Promoted \/ HoldJump \/ HoldAdvance
             \/ HoldPause \/ HoldExpires \/ HoldSample \/ Unpause \/ SamplePasses \/ Wake
             \/ AttemptFails \/ Tick \/ Operator
  <2>1. Life' = Life
    BY <1>6
       DEF PlannedStage, ManualStage, RampSet, Promoted, Succeeds, HoldJump, HoldAdvance,
           HoldPause, HoldExpires, HoldSample, Unpause, SamplePasses, Wake, AttemptFails,
           Tick, Operator, Pause, Resume, Advance, Abort, SetRampTo, Steer, Life
  <2>2. UNCHANGED <<probes, previous, routing, meddled, orphan>>
    BY <1>6
       DEF PlannedStage, ManualStage, RampSet, Promoted, HoldJump, HoldAdvance,
           HoldPause, HoldExpires, HoldSample, Unpause, SamplePasses, Wake, AttemptFails,
           Tick, Operator, Pause, Resume, Advance, Abort, SetRampTo, Steer
  <2> QED
    BY <1>2, <2>1, <2>2
<1>7. CASE PlanDone \/ RoutingFails \/ RampCleared \/ Restored \/ HoldAbort \/ SampleBreaches
  <2>1. UNCHANGED <<probes, previous, routing, meddled, orphan>>
    BY <1>7
       DEF PlanDone, RoutingFails, RampCleared, Restored, HoldAbort, SampleBreaches
  <2>2. \/ Life # "over" /\ Life' = "over" /\ orphan' = <<>>
        \/ <<Life, Life'>> \in {<<"exposing", "promoting">>, <<"exposing", "restoring">>,
                                <<"promoting", "restoring">>}
    BY <1>7, <2>1
       DEF PlanDone, RoutingFails, RampCleared, Restored, HoldAbort, SampleBreaches,
           Succeeds, GivesUp, Life, OrphanInv
  <2> QED
    BY <1>2, <2>1, <2>2 DEF Contract!Next, Contract!End, Contract!MoveOn
<1>8. CASE ExecutionTimeout
  <2>1. UNCHANGED <<~in.gated \/ GatePassed, previous, routing, meddled>>
    BY <1>2, <1>8 DEF ExecutionTimeout
  <2>2. Life # "over" /\ Life' = "over"
    BY <1>8 DEF ExecutionTimeout, Life, Blocked, RoutingPCs
  <2>3. orphan' = <<>> \/ \E script \in Contract!Scripts : \E n \in 0 .. Len(script) :
                             orphan' = SubSeq(script, n + 1, Len(script))
    <3>1. CASE pc \notin RoutingPCs
      BY <1>8, <3>1 DEF ExecutionTimeout
    <3>2. CASE pc \in RoutingPCs
      <4>1. Requests \in Contract!Scripts
        BY <3>2, ScriptsCover
      <4>2. orphan' = SubSeq(Requests, landed + 1, Len(Requests))
        BY <1>8, <3>2 DEF ExecutionTimeout
      <4>3. orphan' = <<>> \/ landed \in 0 .. Len(Requests)
        BY <3>2, <4>2, OrphanRest DEF TypeInv
      <4> QED
        BY <4>1, <4>2, <4>3, Zenon
    <3> QED
      BY <3>1, <3>2
  <2> QED
    BY <2>1, <2>2, <2>3 DEF Contract!Next, Contract!End
<1>9. CASE RequestLands
  <2>1. Requests \in Contract!Scripts
    BY <1>9, ScriptsCover DEF RequestLands
  <2>2. landed + 1 \in DOMAIN Requests
    BY <1>9, RequestsType DEF RequestLands, TypeInv, TypeOK
  <2>3. Contract!Lands(Requests[landed + 1])
    BY <1>9, SameRouting DEF RequestLands, Contract!Lands
  <2>4. UNCHANGED <<Life, ~in.gated \/ GatePassed, previous, orphan, meddled>>
    BY <1>2, <1>9 DEF RequestLands, Life
  <2> QED
    BY <2>1, <2>2, <2>3, <2>4, Zenon DEF Contract!Next, Contract!Route
<1>10. CASE OrphanLands
  <2>1. pc = "timedOut" /\ Life = "over"
    BY <1>10 DEF OrphanLands, OrphanInv, Life
  <2>2. UNCHANGED <<Life, ~in.gated \/ GatePassed, previous, meddled>>
    BY <1>2, <1>10 DEF OrphanLands, Life
  <2>3. Contract!Lands(Head(orphan))
    BY <1>10, SameRouting DEF OrphanLands, Contract!Lands
  <2> QED
    BY <1>10, <2>1, <2>2, <2>3 DEF OrphanLands, Contract!Next, Contract!Late
<1>11. ASSUME NEW p \in Probes, NEW v \in {"passed", "failed"}, ProbeEnds(p, v)
       PROVE  Contract!Next
  <2>1. Life = "proving" /\ Life' = "proving"
    BY <1>11 DEF ProbeEnds, Life
  <2> QED
    BY <1>11, <2>1 DEF ProbeEnds, Contract!Next, Contract!Prove
<1>12. ASSUME NEW call \in OtherCalls, Meddle(call)
       PROVE  Contract!Next
  <2>1. UNCHANGED <<Life, ~in.gated \/ GatePassed, previous, orphan>>
    BY <1>2, <1>12 DEF Meddle, Life
  <2> QED
    BY <1>12, <2>1, CallsAssumption, SameRouting
       DEF Meddle, Contract!Next, Contract!Others, Contract!Lands
<1>13. CASE UNCHANGED vars
  BY <1>2, <1>13 DEF vars, Life
<1> QED
  BY <1>3, <1>4, <1>5, <1>6, <1>7, <1>8, <1>9, <1>10, <1>11, <1>12, <1>13, Zenon
     DEF Next, Coordinator, Worker, Others

(* The coordinator implements the contract, also where the execution       *)
(* timeout closes it over an attempt of a routing call that is under way   *)
(* and whose requests land afterwards.                                     *)
THEOREM Implements == Spec => KeepsContract
<1>1. Init => Contract!Init
  <2> SUFFICES ASSUME Init PROVE Contract!Init
    OBVIOUS
  <2>1. Life = "proving"
    <3>1. pc = "resolving"
      BY DEF Init
    <3> QED
      BY <3>1 DEF Life, EndedPCs
  <2>2. routing \in RoutingState
    BY TypeInit DEF TypeInv, TypeOK
  <2> QED
    BY <2>1, <2>2, SameRouting DEF Init, Contract!Init
<1>2. Init => GateInv
  BY DEF Init, GateInv, Proving
<1> QED
  BY <1>1, <1>2, TypeInit, TypeStep, GateStep, OrphanInit, OrphanStep, ContractStep, PTL
     DEF Spec, KeepsContract, Contract!Spec
=============================================================================
