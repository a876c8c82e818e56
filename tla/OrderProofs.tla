------------------------------ MODULE OrderProofs ------------------------------
(* Theorems about Orders, for any fault, any number of attempts, of        *)
(* Signals and of recoveries.                                              *)
EXTENDS Orders, TLAPS

(* Every version has at least one step, and its pipeline is of steps.      *)
LEMMA PipelineType ==
  ASSUME NEW v \in Versions
  PROVE  StepsFor[v] \in Seq(Steps) /\ Len(StepsFor[v]) \in Nat \ {0}
<1>1. CASE v = "v1"
  BY <1>1 DEF StepsFor, Steps, Versions
<1>2. CASE v = "v2"
  BY <1>2 DEF StepsFor, Steps, Versions
<1>3. CASE v = "v3"
  BY <1>3 DEF StepsFor, Steps, Versions
<1>4. CASE v = "v4"
  BY <1>4 DEF StepsFor, Steps, Versions
<1>5. CASE v = "v5"
  BY <1>5 DEF StepsFor, Steps, Versions
<1> QED
  BY <1>1, <1>2, <1>3, <1>4, <1>5 DEF Versions

(* Each step of it is one.                                                 *)
LEMMA StepType ==
  ASSUME NEW v \in ServedVersions, NEW i \in 0 .. Len(StepsFor[v]) - 1
  PROVE  StepsFor[v][i + 1] \in Steps
<1>1. v \in Versions
  BY VersionsAssumption
<1>2. StepsFor[v] \in Seq(Steps) /\ Len(StepsFor[v]) \in Nat
  BY <1>1, PipelineType
<1>3. i + 1 \in 1 .. Len(StepsFor[v])
  BY <1>2
<1> QED
  BY <1>2, <1>3

(* What an Activity is told is yes or no.                                  *)
LEMMA FaultedType ==
  ASSUME NEW v, NEW i, NEW cleared \in BOOLEAN
  PROVE  Faulted(v, i, cleared) \in BOOLEAN
BY DEF Faulted, AppliesTo

-----------------------------------------------------------------------------
(* Types.                                                                  *)
LEMMA TypeInit == Init => TypeOK
<1> SUFFICES ASSUME Init PROVE TypeOK
  OBVIOUS
<1>1. version \in Versions
  BY VersionsAssumption DEF Init
<1>2. Len(Pipeline) \in Nat \ {0}
  BY <1>1, PipelineType DEF Pipeline
<1>3. faulted \in BOOLEAN
  BY FaultedType DEF Init
<1>4. faultCleared \in BOOLEAN /\ degraded \in BOOLEAN /\ retryForever \in BOOLEAN
  BY Zenon DEF Init
<1>5. current \in 0 .. Len(Pipeline) - 1 /\ attempt \in 1 .. ProbeAttempts
  BY <1>2, BoundsAssumption DEF Init
<1>6. sent \in 0 .. MaxSignals /\ pending \in 0 .. sent /\ resets \in 0 .. MaxResets
  BY BoundsAssumption DEF Init
<1>7. served \in Seq(Steps)
  BY DEF Init
<1>8. recovering \in (ServedVersions \cup {"none"}) \ {version}
  BY <1>1 DEF Init, Versions
<1> QED
  BY <1>3, <1>4, <1>5, <1>6, <1>7, <1>8 DEF Init, TypeOK

LEMMA TypeStep == TypeOK /\ [Next]_vars => TypeOK'
<1> SUFFICES ASSUME TypeOK, [Next]_vars PROVE TypeOK'
  OBVIOUS
<1>0. version \in Versions /\ Len(Pipeline) \in Nat \ {0}
  BY VersionsAssumption, PipelineType DEF TypeOK, Pipeline
<1>1. CASE StepDone
  <2>1. UNCHANGED <<fixed, version, faultCleared, pending, sent, recovering, resets>>
    BY <1>1 DEF StepDone, fixed
  <2>2. Pipeline' = Pipeline
    BY <2>1 DEF Pipeline
  <2>3. served' \in Seq(Steps)
    <3>1. Pipeline[current + 1] \in Steps
      BY StepType DEF TypeOK, Pipeline
    <3> QED
      BY <3>1, <1>1 DEF StepDone, TypeOK
  <2>4. degraded' \in BOOLEAN
    BY <1>1, Zenon DEF StepDone, Healthy
  <2>5. CASE current + 1 < Len(Pipeline)
    <3>1. status' = status /\ Probe(version, current + 1, faultCleared)
      BY <1>1, <2>5 DEF StepDone
    <3>2. faulted' \in BOOLEAN
      BY <3>1, FaultedType DEF Probe, TypeOK
    <3>3. current' \in 0 .. Len(Pipeline) - 1 /\ attempt' \in 1 .. ProbeAttempts
      BY <3>1, <2>5, <1>0, BoundsAssumption DEF Probe, TypeOK
    <3>4. mode' \in {"probing", "parked"}
      BY <3>1 DEF Probe
    <3> QED
      BY <2>1, <2>2, <2>3, <2>4, <3>1, <3>2, <3>3, <3>4 DEF TypeOK, fixed
  <2>6. CASE ~(current + 1 < Len(Pipeline))
    <3>1. status' = "completed" /\ UNCHANGED <<current, mode, attempt, faulted>>
      BY <1>1, <2>6 DEF StepDone
    <3> QED
      BY <2>1, <2>2, <2>3, <2>4, <3>1 DEF TypeOK, fixed
  <2> QED
    BY <2>5, <2>6
<1>2. CASE AttemptFails
  BY <1>2, BoundsAssumption DEF AttemptFails, TypeOK, fixed, Pipeline
<1>3. CASE ProbeExhausted
  <2>1. UNCHANGED <<fixed, version, current, attempt, faultCleared, pending,
                    sent, recovering, resets, served>>
    BY <1>3 DEF ProbeExhausted, fixed
  <2>2. status' \in {"running", "completed", "failed", "timedOut"} /\ mode' \in {"probing", "parked"}
    BY <1>3 DEF ProbeExhausted, TypeOK
  <2>3. degraded' \in BOOLEAN /\ faulted' \in BOOLEAN
    BY <1>3, FaultedType, Zenon DEF ProbeExhausted, TypeOK
  <2> QED
    BY <2>1, <2>2, <2>3 DEF TypeOK, Pipeline, fixed
<1>4. CASE RunTimesOut
  BY <1>4 DEF RunTimesOut, TypeOK, fixed, Pipeline
<1>5. CASE ClearFault
  BY <1>5, BoundsAssumption DEF ClearFault, TypeOK, fixed, Pipeline
<1>6. CASE Release
  <2>1. faulted' \in BOOLEAN /\ faultCleared' \in BOOLEAN
    BY <1>6, FaultedType, Zenon DEF Release
  <2>2. pending' \in 0 .. sent
    BY <1>6, BoundsAssumption DEF Release, TypeOK
  <2> QED
    BY <1>6, <2>1, <2>2 DEF Release, TypeOK, fixed, Pipeline
<1>7. CASE Recover
  <2>1. UNCHANGED <<retryForever, limited, chaos, sent, resets>> /\ version' = recovering
          /\ recovering \in ServedVersions
    BY <1>7 DEF Recover, fixed, TypeOK
  <2>2. Len(Pipeline') \in Nat \ {0}
    BY <2>1, VersionsAssumption, PipelineType DEF Pipeline
  <2>3. current' \in 0 .. Len(Pipeline') - 1 /\ attempt' \in 1 .. ProbeAttempts
    BY <1>7, <2>2, BoundsAssumption DEF Recover, Probe
  <2>4. faulted' \in BOOLEAN /\ faultCleared' \in BOOLEAN /\ degraded' \in BOOLEAN
    BY <1>7, FaultedType, Zenon DEF Recover, Probe
  <2>5. pending' \in 0 .. sent'
    BY <1>7, <2>1, BoundsAssumption DEF Recover, TypeOK
  <2>6. served' \in Seq(Steps) /\ mode' = "probing" /\ status' = "running"
    BY <1>7 DEF Recover, Probe
  <2>7. recovering' \in (ServedVersions \cup {"none"}) \ {version'}
    BY <1>7, <2>1 DEF Recover
  <2> QED
    BY <2>1, <2>3, <2>4, <2>5, <2>6, <2>7 DEF TypeOK
<1>9. ASSUME NEW good \in ServedVersions, RecoverMatches(good) PROVE TypeOK'
  <2>1. UNCHANGED <<retryForever, limited, chaos, version, status, current, mode, attempt, faulted,
                    faultCleared, degraded, pending, sent, served>>
    BY <1>9 DEF RecoverMatches, fixed
  <2>2. resets' \in 0 .. MaxResets /\ recovering' \in (ServedVersions \cup {"none"}) \ {version}
    BY <1>9, BoundsAssumption DEF RecoverMatches, TypeOK
  <2> QED
    BY <2>1, <2>2 DEF TypeOK, Pipeline
<1>8. CASE UNCHANGED vars
  BY <1>8 DEF TypeOK, vars, fixed, Pipeline
<1> QED
  BY <1>1, <1>2, <1>3, <1>4, <1>5, <1>6, <1>7, <1>8, <1>9 DEF Next

(* Every state an order reaches is well typed.                             *)
THEOREM TypeCorrect == Spec => []TypeOK
<1>1. Init => TypeOK
  BY TypeInit
<1>2. TypeOK /\ [Next]_vars => TypeOK'
  BY TypeStep
<1> QED
  BY <1>1, <1>2, PTL DEF Spec

-----------------------------------------------------------------------------
(* Only a customer's order parks, drops its fault, or is recovered.        *)
ProbeNeverParks == ~retryForever => mode = "probing" /\ ~faultCleared /\ recovering = "none"

(* What has been served is what comes before the step in force.            *)
ServedSoFar == status = "running" => Len(served) = current

(* A canary probe has passed no step its fault names, and its attempt in   *)
(* force was told whether the fault names this one.                        *)
NothingPoisonedPassed ==
  ~retryForever =>
    /\ faulted <=> AppliesTo(version, current)
    /\ \A i \in 0 .. current - 1 : ~AppliesTo(version, i)
    /\ status = "completed" => current = Len(Pipeline) - 1 /\ ~faulted

(* The inductive invariant.                                                *)
OrderInv ==
  TypeOK /\ ProbeNeverParks /\ ServedSoFar /\ NothingPoisonedPassed /\ DegradedIffParked

LEMMA InvInit == Init => OrderInv
<1> SUFFICES ASSUME Init PROVE OrderInv
  OBVIOUS
<1>1. TypeOK
  BY TypeInit
<1>2. ProbeNeverParks /\ DegradedIffParked
  BY DEF Init, ProbeNeverParks, DegradedIffParked
<1>3. ServedSoFar
  BY DEF Init, ServedSoFar
<1>4. NothingPoisonedPassed
  <2>1. faulted <=> AppliesTo(version, current)
    BY Zenon DEF Init, Faulted
  <2>2. \A i \in 0 .. current - 1 : ~AppliesTo(version, i)
    BY DEF Init
  <2> QED
    BY <2>1, <2>2 DEF Init, NothingPoisonedPassed
<1> QED
  BY <1>1, <1>2, <1>3, <1>4 DEF OrderInv

(* A canary probe parks in no step, so nothing sets its fault aside.       *)
LEMMA ParkStep == OrderInv /\ [Next]_vars => ProbeNeverParks' /\ DegradedIffParked'
<1> SUFFICES ASSUME OrderInv, [Next]_vars PROVE ProbeNeverParks' /\ DegradedIffParked'
  OBVIOUS
<1> USE DEF OrderInv, ProbeNeverParks, DegradedIffParked, fixed
<1>1. CASE StepDone
  BY <1>1 DEF StepDone, Healthy, Probe
<1>2. CASE AttemptFails
  BY <1>2 DEF AttemptFails
<1>3. CASE ProbeExhausted
  BY <1>3 DEF ProbeExhausted
<1>4. CASE RunTimesOut
  BY <1>4 DEF RunTimesOut
<1>5. CASE ClearFault
  BY <1>5 DEF ClearFault
<1>6. CASE Release
  BY <1>6 DEF Release
<1>7. CASE Recover
  BY <1>7 DEF Recover, Probe
<1>8. CASE UNCHANGED vars
  BY <1>8 DEF vars
<1>9. ASSUME NEW good \in ServedVersions, RecoverMatches(good)
      PROVE  ProbeNeverParks' /\ DegradedIffParked'
  BY <1>9 DEF RecoverMatches
<1> QED
  BY <1>1, <1>2, <1>3, <1>4, <1>5, <1>6, <1>7, <1>8, <1>9 DEF Next

(* The step in force advances as the steps before it are served.           *)
LEMMA ServedStep == OrderInv /\ [Next]_vars => ServedSoFar'
<1> SUFFICES ASSUME OrderInv, [Next]_vars PROVE ServedSoFar'
  OBVIOUS
<1>0. served \in Seq(Steps) /\ Len(served) \in Nat
  BY DEF OrderInv, TypeOK
<1>1. CASE StepDone
  <2>1. status = "running" /\ Len(served) = current
    BY <1>1 DEF StepDone, OrderInv, ServedSoFar
  <2>2. Len(served') = Len(served) + 1
    BY <1>0, <1>1 DEF StepDone
  <2>3. status' = "running" => current' = current + 1
    BY <1>1 DEF StepDone, Probe
  <2> QED
    BY <2>1, <2>2, <2>3 DEF ServedSoFar
<1>2. CASE AttemptFails \/ ProbeExhausted \/ RunTimesOut \/ ClearFault \/ Release
  <2>1. UNCHANGED <<current, served>> /\ (status' = "running" => status = "running")
    BY <1>2 DEF AttemptFails, ProbeExhausted, RunTimesOut, ClearFault, Release
  <2> QED
    BY <2>1 DEF OrderInv, ServedSoFar
<1>3. CASE Recover
  BY <1>3 DEF Recover, Probe, ServedSoFar
<1>5. ASSUME NEW good \in ServedVersions, RecoverMatches(good) PROVE ServedSoFar'
  BY <1>5 DEF RecoverMatches, OrderInv, ServedSoFar
<1>4. CASE UNCHANGED vars
  BY <1>4 DEF vars, OrderInv, ServedSoFar
<1> QED
  BY <1>1, <1>2, <1>3, <1>4, <1>5 DEF Next

(* A canary probe leaves a step only when its fault does not name it.      *)
LEMMA PoisonStep == OrderInv /\ [Next]_vars => NothingPoisonedPassed'
<1> SUFFICES ASSUME OrderInv, [Next]_vars, ~retryForever' PROVE NothingPoisonedPassed'
  BY DEF NothingPoisonedPassed
<1>0. ~retryForever /\ ~Recover /\ UNCHANGED <<chaos, version>>
  <2>1. UNCHANGED <<retryForever, chaos>>
    BY DEF Next, StepDone, AttemptFails, ProbeExhausted, RunTimesOut, ClearFault, Release,
           RecoverMatches, Recover, vars, fixed
  <2>2. ~retryForever /\ ~Recover
    BY <2>1 DEF OrderInv, ProbeNeverParks, Recover
  <2>3. UNCHANGED version
    BY <2>2 DEF Next, StepDone, AttemptFails, ProbeExhausted, RunTimesOut, ClearFault,
                Release, RecoverMatches, vars
  <2> QED
    BY <2>1, <2>2, <2>3
<1>1. Pipeline' = Pipeline /\ \A i : AppliesTo(version, i)' = AppliesTo(version, i)
  BY <1>0 DEF Pipeline, AppliesTo
<1>2. /\ current \in 0 .. Len(Pipeline) - 1 /\ Len(Pipeline) \in Nat
      /\ ~faultCleared /\ mode = "probing"
      /\ faulted <=> AppliesTo(version, current)
      /\ \A i \in 0 .. current - 1 : ~AppliesTo(version, i)
      /\ status = "completed" => current = Len(Pipeline) - 1 /\ ~faulted
  BY <1>0, PipelineType, VersionsAssumption
     DEF OrderInv, TypeOK, ProbeNeverParks, NothingPoisonedPassed, Pipeline
<1>3. CASE StepDone
  <2>1. ~AppliesTo(version, current) /\ ~faulted
    BY <1>2, <1>3 DEF StepDone
  <2>2. CASE current + 1 < Len(Pipeline)
    <3>1. current' = current + 1 /\ status' = "running"
      BY <1>3, <2>2 DEF StepDone, Probe
    <3>2. faulted' <=> AppliesTo(version, current + 1)
      <4>1. faulted' = Faulted(version, current + 1, faultCleared)
        BY <1>3, <2>2 DEF StepDone, Probe
      <4>2. Faulted(version, current + 1, faultCleared) <=> AppliesTo(version, current + 1)
        BY <1>2, Zenon DEF Faulted
      <4> QED
        BY <4>1, <4>2, Zenon
    <3>3. \A i \in 0 .. current : ~AppliesTo(version, i)
      BY <1>2, <2>1
    <3> QED
      BY <1>1, <1>2, <3>1, <3>2, <3>3 DEF NothingPoisonedPassed
  <2>3. CASE ~(current + 1 < Len(Pipeline))
    <3>1. UNCHANGED <<current, faulted>>
      BY <1>3, <2>3 DEF StepDone
    <3> QED
      BY <1>1, <1>2, <2>1, <2>3, <3>1 DEF NothingPoisonedPassed
  <2> QED
    BY <2>2, <2>3
<1>4. CASE AttemptFails \/ RunTimesOut \/ ProbeExhausted \/ UNCHANGED vars
  <2>1. UNCHANGED <<current, faulted>> /\ (status' = "completed" => status = "completed")
    BY <1>0, <1>4 DEF AttemptFails, RunTimesOut, ProbeExhausted, vars
  <2> QED
    BY <1>1, <1>2, <2>1 DEF NothingPoisonedPassed
<1>5. ~ClearFault /\ ~Release /\ \A good \in ServedVersions : ~RecoverMatches(good)
  BY <1>0, <1>2 DEF ClearFault, Release, RecoverMatches
<1> QED
  BY <1>0, <1>3, <1>4, <1>5 DEF Next

LEMMA InvStep == OrderInv /\ [Next]_vars => OrderInv'
BY TypeStep, ParkStep, ServedStep, PoisonStep DEF OrderInv

LEMMA InvCorrect == Spec => []OrderInv
<1>1. Init => OrderInv
  BY InvInit
<1>2. OrderInv /\ [Next]_vars => OrderInv'
  BY InvStep
<1> QED
  BY <1>1, <1>2, PTL DEF Spec

(* The degraded mark tells the truth about every order.                    *)
THEOREM MarkIsTrue == Spec => []DegradedIffParked
<1>1. OrderInv => DegradedIffParked
  BY DEF OrderInv
<1> QED
  BY <1>1, InvCorrect, PTL

(* No canary probe completes on a candidate its fault poisons.             *)
THEOREM PoisonIsCaught == Spec => []PoisonedProbeFails
<1>1. OrderInv => PoisonedProbeFails
  <2> SUFFICES ASSUME OrderInv, ~retryForever, status = "completed",
                      NEW i \in 0 .. Len(Pipeline) - 1
               PROVE  ~AppliesTo(version, i)
    BY DEF PoisonedProbeFails
  <2>1. /\ current = Len(Pipeline) - 1 /\ ~AppliesTo(version, current)
        /\ \A j \in 0 .. current - 1 : ~AppliesTo(version, j)
    BY DEF OrderInv, NothingPoisonedPassed
  <2>2. Len(Pipeline) \in Nat
    BY PipelineType, VersionsAssumption DEF OrderInv, TypeOK, Pipeline
  <2> QED
    BY <2>1, <2>2
<1> QED
  BY <1>1, InvCorrect, PTL

-----------------------------------------------------------------------------
(* One step of an order is a step of what it is owed, or none.             *)
LEMMA ContractStep == OrderInv /\ [Next]_vars => [Contract!Next]_(Contract!orderVars)
<1> DEFINE Served == [v \in ServedVersions |-> StepsFor[v]]
<1> SUFFICES ASSUME OrderInv, [Next]_vars PROVE [Contract!Next]_(Contract!orderVars)
  OBVIOUS
<1>1. CASE StepDone
  <2>1. status = "running" /\ Len(served) = current /\ version \in ServedVersions
    BY <1>1 DEF StepDone, OrderInv, ServedSoFar, TypeOK
  <2>2. Served[version] = Pipeline
    BY <2>1 DEF Pipeline
  <2>3. served' = Append(served, Served[version][Len(served) + 1])
    BY <1>1, <2>1, <2>2 DEF StepDone
  <2>4. Len(Pipeline) \in Nat /\ current \in 0 .. Len(Pipeline) - 1
    BY PipelineType, VersionsAssumption DEF OrderInv, TypeOK, Pipeline
  <2>5. status' = IF Len(served) + 1 = Len(Served[version]) THEN "completed" ELSE "running"
    BY <1>1, <2>1, <2>2, <2>4 DEF StepDone
  <2>6. UNCHANGED <<retryForever, limited, version, recovering>>
    BY <1>1 DEF StepDone, fixed
  <2>7. Contract!Serve
    BY <2>1, <2>3, <2>5, <2>6 DEF Contract!Serve
  <2> QED
    BY <2>7 DEF Contract!Next
<1>2. CASE AttemptFails \/ ClearFault \/ Release \/ UNCHANGED vars
  <2>1. UNCHANGED <<retryForever, limited, version, served, recovering, status>>
    BY <1>2 DEF AttemptFails, ClearFault, Release, vars, fixed
  <2> QED
    BY <2>1 DEF Contract!orderVars
<1>3. CASE ProbeExhausted
  <2>1. CASE retryForever
    <3>1. UNCHANGED <<retryForever, limited, version, served, recovering, status>>
      BY <1>3, <2>1 DEF ProbeExhausted, fixed
    <3> QED
      BY <3>1 DEF Contract!orderVars
  <2>2. CASE ~retryForever
    <3>1. Contract!Fail
      BY <1>3, <2>2 DEF ProbeExhausted, fixed, Contract!Fail
    <3> QED
      BY <3>1 DEF Contract!Next
  <2> QED
    BY <2>1, <2>2
<1>4. CASE RunTimesOut
  <2>1. Contract!TimeOut
    BY <1>4 DEF RunTimesOut, fixed, Contract!TimeOut
  <2> QED
    BY <2>1 DEF Contract!Next
<1>5. CASE Recover
  <2>1. recovering # "none" /\ recovering \in ServedVersions \ {version} /\ version' = recovering
    BY <1>5 DEF Recover, OrderInv, TypeOK
  <2>2. served' = <<>> /\ status' = "running" /\ recovering' = "none"
          /\ UNCHANGED <<retryForever, limited>>
    BY <1>5 DEF Recover, fixed
  <2>3. version' \in DOMAIN Served \ {version}
    BY <2>1
  <2>4. Contract!Restart
    BY <2>1, <2>2, <2>3 DEF Contract!Restart
  <2> QED
    BY <2>4 DEF Contract!Next
<1>6. ASSUME NEW good \in ServedVersions, RecoverMatches(good)
      PROVE  [Contract!Next]_(Contract!orderVars)
  <2>1. status = "running" /\ retryForever /\ recovering = "none" /\ recovering' # "none"
    BY <1>6, VersionsAssumption DEF RecoverMatches, Versions
  <2>2. UNCHANGED <<retryForever, limited, version, served, status>>
    BY <1>6 DEF RecoverMatches, fixed
  <2> QED
    BY <2>1, <2>2 DEF Contract!Recall, Contract!Next
<1> QED
  BY <1>1, <1>2, <1>3, <1>4, <1>5, <1>6 DEF Next

(* Every order is served what it is owed, whichever of its attempts fail,  *)
(* are cancelled or are retried, and however late a recovery batch gets to *)
(* it: it is served again only from the top, once for each batch.          *)
THEOREM Implements == Spec => KeepsPipeline
<1>1. Init => Contract!Init
  BY DEF Init, Contract!Init
<1>2. OrderInv /\ [Next]_vars => [Contract!Next]_(Contract!orderVars)
  BY ContractStep
<1> QED
  BY <1>1, <1>2, InvCorrect, PTL DEF Spec, KeepsPipeline, Contract!Spec

-----------------------------------------------------------------------------
(* The fault.                                                              *)

(* The attempt in force of an order that runs was told of the fault        *)
(* exactly if the fault names the step and has not been set aside.         *)
ToldTheTruth == status = "running" => faulted = Faulted(version, current, faultCleared)

LEMMA ToldInit == Init => ToldTheTruth
  BY DEF Init, ToldTheTruth

LEMMA ToldStep == TypeOK /\ ToldTheTruth /\ [Next]_vars => ToldTheTruth'
<1> SUFFICES ASSUME TypeOK, ToldTheTruth, [Next]_vars, status' = "running" PROVE ToldTheTruth'
  BY DEF ToldTheTruth
<1> USE DEF ToldTheTruth, Faulted, AppliesTo, fixed
<1>1. CASE StepDone
  BY <1>1 DEF StepDone, Probe
<1>2. CASE AttemptFails \/ ClearFault
  BY <1>2 DEF AttemptFails, ClearFault
<1>3. CASE ProbeExhausted
  BY <1>3 DEF ProbeExhausted
<1>4. CASE RunTimesOut
  BY <1>4 DEF RunTimesOut
<1>5. CASE Release
  BY <1>5 DEF Release
<1>6. CASE Recover
  BY <1>6 DEF Recover, Probe
<1>7. CASE UNCHANGED vars
  BY <1>7 DEF vars
<1>8. ASSUME NEW good \in ServedVersions, RecoverMatches(good) PROVE ToldTheTruth'
  BY <1>8 DEF RecoverMatches
<1> QED
  BY <1>1, <1>2, <1>3, <1>4, <1>5, <1>6, <1>7, <1>8 DEF Next

(* The values FaultStand takes.                                            *)
LEMMA Stands ==
  /\ status # "running" => FaultStand = "over"
  /\ status = "running" /\ ~Carries => FaultStand = "gone"
  /\ status = "running" /\ Carries /\ faulted /\ mode = "parked" => FaultStand = "parked"
  /\ status = "running" /\ Carries /\ ~(faulted /\ mode = "parked") => FaultStand = "carried"
  BY DEF FaultStand

LEMMA StandsNext ==
  /\ status' # "running" => FaultStand' = "over"
  /\ status' = "running" /\ ~Carries' => FaultStand' = "gone"
  /\ status' = "running" /\ Carries' /\ faulted' /\ mode' = "parked" => FaultStand' = "parked"
  /\ status' = "running" /\ Carries' /\ ~(faulted' /\ mode' = "parked") => FaultStand' = "carried"
  BY DEF FaultStand

(* One step of an order does with the fault what the contract allows.      *)
LEMMA FaultStep ==
  TypeOK /\ ToldTheTruth /\ [Next]_vars => [FaultLife!Next]_(FaultLife!faultVars)
<1> SUFFICES ASSUME TypeOK, ToldTheTruth, [Next]_vars
             PROVE  FaultLife!Next \/ UNCHANGED FaultLife!faultVars
  OBVIOUS
<1> USE DEF FaultLife!faultVars, FaultLife!Alive, fixed
<1>0. Len(Pipeline) \in Nat /\ current \in 0 .. Len(Pipeline) - 1 /\ pending \in Nat
        /\ pending <= sent /\ sent \in Nat
  BY PipelineType, VersionsAssumption, BoundsAssumption DEF TypeOK, Pipeline
<1>1. CASE StepDone
  <2>1. status = "running" /\ ~faulted /\ ~Faulted(version, current, faultCleared)
          /\ UNCHANGED <<retryForever, limited, chaos, version, faultCleared, pending, recovering>>
    BY <1>1 DEF StepDone, ToldTheTruth
  <2>2. Pipeline' = Pipeline /\ \A i : AppliesTo(version, i)' = AppliesTo(version, i)
    BY <2>1 DEF Pipeline, AppliesTo
  <2>3. Carries <=> ~faultCleared /\ \E i \in current .. Len(Pipeline) - 1 : AppliesTo(version, i)
    BY <2>1 DEF Carries
  <2>4. CASE current + 1 < Len(Pipeline)
    <3>1. status' = "running" /\ mode' = "probing" /\ current' = current + 1
            /\ faulted' = Faulted(version, current + 1, faultCleared)
      BY <1>1, <2>4 DEF StepDone, Probe
    <3>2. faulted' = (~faultCleared /\ AppliesTo(version, current + 1))
      BY <3>1 DEF Faulted
    <3>3. Carries' <=> ~faultCleared /\ \E i \in current + 1 .. Len(Pipeline) - 1 : AppliesTo(version, i)
      <4>1. current + 1 \in current + 1 .. Len(Pipeline) - 1
        BY <1>0, <2>4
      <4> QED
        BY <2>1, <2>2, <3>1, <3>2, <4>1 DEF Carries
    <3>4. ~faultCleared => ~AppliesTo(version, current)
      BY <2>1 DEF Faulted
    <3>5. Carries' <=> Carries
      <4>1. \A i \in Int : i \in current .. Len(Pipeline) - 1
                             <=> i = current \/ i \in current + 1 .. Len(Pipeline) - 1
        BY <1>0
      <4> QED
        BY <1>0, <2>3, <3>3, <3>4, <4>1
    <3>6. FaultStand' = FaultStand
      BY <2>1, <3>1, <3>5, Stands, StandsNext
    <3> QED
      BY <2>1, <3>1, <3>6
  <2>5. CASE ~(current + 1 < Len(Pipeline))
    <3>1. status' = "completed"
      BY <1>1, <2>5 DEF StepDone
    <3>2. ~Carries
      <4>1. \A i \in current .. Len(Pipeline) - 1 : i = current
        BY <1>0, <2>5
      <4> QED
        BY <2>1, <2>3, <4>1 DEF Faulted
    <3>3. FaultStand = "gone" /\ FaultStand' = "over"
      BY <2>1, <3>1, <3>2, Stands, StandsNext
    <3> QED
      BY <2>1, <3>1, <3>3 DEF FaultLife!Next, FaultLife!End
  <2> QED
    BY <2>4, <2>5
<1>2. CASE AttemptFails \/ UNCHANGED vars
  <2>1. UNCHANGED <<retryForever, limited, chaos, version, status, current, mode, faulted,
                    faultCleared, pending, recovering>>
    BY <1>2 DEF AttemptFails, vars
  <2>2. UNCHANGED FaultStand
    BY <2>1 DEF FaultStand, Carries, AppliesTo, Pipeline
  <2> QED
    BY <2>1, <2>2
<1>3. CASE ProbeExhausted
  <2>1. status = "running" /\ mode = "probing"
          /\ UNCHANGED <<retryForever, limited, chaos, version, current, faultCleared, pending,
                         recovering>>
    BY <1>3 DEF ProbeExhausted
  <2>2. FaultStand \in {"carried", "gone"}
    BY <2>1, Stands
  <2>3. CASE retryForever
    <3>1. status' = "running" /\ mode' = "parked" /\ faulted' = faulted
      BY <1>3, <2>1, <2>3 DEF ProbeExhausted, ToldTheTruth
    <3>2. Carries' <=> Carries
      BY <2>1, <3>1 DEF Carries, AppliesTo, Pipeline
    <3>3. CASE faulted
      <4>1. FaultStand = "carried" /\ FaultStand' = "parked"
        BY <2>1, <3>1, <3>2, <3>3, Stands, StandsNext DEF Carries
      <4> QED
        BY <2>1, <3>1, <4>1 DEF FaultLife!Next, FaultLife!Park
    <3>4. CASE ~faulted
      <4>1. FaultStand' = FaultStand
        BY <2>1, <3>1, <3>2, <3>4, Stands, StandsNext
      <4> QED
        BY <2>1, <3>1, <4>1
    <3> QED
      BY <3>3, <3>4
  <2>4. CASE ~retryForever
    <3>1. status' = "failed"
      BY <1>3, <2>4 DEF ProbeExhausted
    <3>2. FaultStand' = "over"
      BY <3>1, StandsNext
    <3> QED
      BY <2>1, <2>2, <2>4, <3>1, <3>2 DEF FaultLife!Next, FaultLife!End
  <2> QED
    BY <2>3, <2>4
<1>4. CASE RunTimesOut
  <2>1. status = "running" /\ limited /\ status' = "timedOut"
          /\ UNCHANGED <<retryForever, limited, pending, recovering>>
    BY <1>4 DEF RunTimesOut
  <2>2. FaultStand \in {"carried", "parked", "gone"} /\ FaultStand' = "over"
    BY <2>1, Stands, StandsNext
  <2> QED
    BY <2>1, <2>2 DEF FaultLife!Next, FaultLife!End
<1>5. CASE ClearFault
  <2>1. status = "running" /\ retryForever /\ pending' = pending + 1
          /\ UNCHANGED <<retryForever, limited, chaos, version, status, current, mode, faulted,
                         faultCleared, recovering>>
    BY <1>5 DEF ClearFault
  <2>2. UNCHANGED FaultStand
    BY <2>1 DEF FaultStand, Carries, AppliesTo, Pipeline
  <2>3. FaultStand \in {"carried", "parked", "gone"}
    BY <2>1, Stands
  <2>4. pending' > 0
    BY <1>0, <2>1
  <2> QED
    BY <2>1, <2>2, <2>3, <2>4 DEF FaultLife!Next, FaultLife!Receive
<1>6. CASE Release
  <2>1. status = "running" /\ pending > 0 /\ faultCleared' = TRUE /\ faulted' = FALSE
          /\ UNCHANGED <<retryForever, limited, status, recovering>>
    BY <1>6 DEF Release, Faulted
  <2>2. ~Carries'
    BY <2>1 DEF Carries
  <2>3. FaultStand \in {"carried", "parked", "gone"} /\ FaultStand' = "gone"
    BY <2>1, <2>2, Stands, StandsNext
  <2> QED
    BY <2>1, <2>3 DEF FaultLife!Next, FaultLife!Read
<1>7. CASE Recover
  <2>1. recovering # "none" /\ recovering' = "none" /\ status' = "running" /\ mode' = "probing"
          /\ pending' = sent /\ UNCHANGED <<retryForever, limited>>
    BY <1>7 DEF Recover, Probe
  <2>2. FaultStand' \in {"carried", "gone"}
    BY <2>1, StandsNext
  <2>3. pending > 0 => pending' > 0
    BY <1>0, <2>1
  <2> QED
    BY <2>1, <2>2, <2>3 DEF FaultLife!Next, FaultLife!Restart
<1>8. ASSUME NEW good \in ServedVersions, RecoverMatches(good)
      PROVE  FaultLife!Next
  <2>1. status = "running" /\ retryForever /\ recovering = "none" /\ recovering' # "none"
    BY <1>8, VersionsAssumption DEF RecoverMatches, Versions
  <2>2. UNCHANGED <<retryForever, limited, chaos, version, status, current, mode, faulted,
                    faultCleared, pending>>
    BY <1>8 DEF RecoverMatches
  <2>3. FaultStand \in {"carried", "parked", "gone"}
    BY <2>1, Stands
  <2>4. UNCHANGED FaultStand
    BY <2>2 DEF FaultStand, Carries, AppliesTo, Pipeline
  <2> QED
    BY <2>1, <2>2, <2>3, <2>4 DEF FaultLife!Next, FaultLife!Recall
<1> QED
  BY <1>1, <1>2, <1>3, <1>4, <1>5, <1>6, <1>7, <1>8 DEF Next

(* An order lets go of its fault, and takes it up again, only as           *)
(* FaultContract says, through whatever retries, Signals and resets, those *)
(* of an order that is over included.                                      *)
THEOREM FaultStaysLifted == Spec => KeepsFaultContract
<1>1. Init => FaultLife!Init
  <2> SUFFICES ASSUME Init PROVE FaultLife!Init
    OBVIOUS
  <2>1. status = "running" /\ mode = "probing" /\ pending = 0 /\ recovering = "none"
          /\ retryForever \in BOOLEAN /\ limited \in BOOLEAN
    BY DEF Init
  <2>2. FaultStand \in {"carried", "gone"}
    BY <2>1, Stands
  <2> QED
    BY <2>1, <2>2 DEF FaultLife!Init
<1> QED
  BY <1>1, TypeInit, TypeStep, ToldInit, ToldStep, FaultStep, PTL
     DEF Spec, KeepsFaultContract, FaultLife!Spec

-----------------------------------------------------------------------------
(* The Signals.                                                            *)

(* Since it began or was reset, an order that has not set its fault aside  *)
(* has read no Signal.                                                     *)
UnreadUntilCleared == status = "running" /\ ~faultCleared => pending = sent

LEMMA UnreadStep == UnreadUntilCleared /\ [Next]_vars => UnreadUntilCleared'
<1> SUFFICES ASSUME UnreadUntilCleared, [Next]_vars PROVE UnreadUntilCleared'
  OBVIOUS
<1> USE DEF UnreadUntilCleared
<1>1. CASE StepDone \/ AttemptFails \/ ProbeExhausted \/ RunTimesOut \/ UNCHANGED vars
  <2>1. UNCHANGED <<faultCleared, pending, sent>> /\ (status' = "running" => status = "running")
    BY <1>1 DEF StepDone, AttemptFails, ProbeExhausted, RunTimesOut, vars
  <2> QED
    BY <2>1
<1>2. CASE ClearFault
  BY <1>2 DEF ClearFault
<1>3. CASE Release
  BY <1>3 DEF Release
<1>4. CASE Recover
  BY <1>4 DEF Recover
<1>5. ASSUME NEW good \in ServedVersions, RecoverMatches(good) PROVE UnreadUntilCleared'
  BY <1>5 DEF RecoverMatches
<1> QED
  BY <1>1, <1>2, <1>3, <1>4, <1>5 DEF Next

(* An order that is stuck on its fault has all the Signals it was ever     *)
(* sent still to read, so that one of them, however early, releases it.    *)
THEOREM SignalsAreKept == Spec => []StuckOrderIsHeard
<1>1. Init => UnreadUntilCleared
  BY DEF Init, UnreadUntilCleared
<1>2. ToldTheTruth /\ UnreadUntilCleared => StuckOrderIsHeard
  BY DEF ToldTheTruth, Faulted, UnreadUntilCleared, StuckOrderIsHeard
<1> QED
  BY <1>1, <1>2, TypeInit, TypeStep, ToldInit, ToldStep, UnreadStep, PTL DEF Spec
=============================================================================
