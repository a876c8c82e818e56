-------------------------------- MODULE Orders --------------------------------
(***************************************************************************)
(* One order of internal/orders: the Workflow that walks the pipeline of   *)
(* the version it is pinned to, one Activity per step.  A step is first    *)
(* probed with a few attempts; when they are used up a canary probe fails, *)
(* and a customer's order parks: it retries the step for ever, until the   *)
(* fault is gone or a clearFault Signal makes it drop the fault it carries.*)
(* Recovery resets a customer's order onto another version, some time      *)
(* after it was found running; by then it may be over, and it is served    *)
(* again.                                                                  *)
(*                                                                         *)
(* Orders share nothing, so one of them is all there is to model.          *)
(***************************************************************************)
EXTENDS Integers, Sequences

CONSTANTS
  ServedVersions,   (* The versions with workers.                          *)
  ChaosSpecs,       (* Faults an order may carry, as [version, step].      *)
  NoChaos,          (* It carries none.                                    *)
  ProbeAttempts,    (* Attempts before a step is called stuck.             *)
  MaxSignals,       (* Bound: clearFault Signals sent to the order.        *)
  MaxResets         (* Bound: recovery batches that match it.              *)

Versions == {"v1", "v2", "v3", "v4", "v5"}

(* The pipeline of each version.                                           *)
StepsFor ==
  [v \in Versions |->
     CASE v = "v1" -> <<"Received", "Payment", "Prep", "Handoff">>
       [] v = "v2" -> <<"Received", "Payment", "Loyalty", "Prep", "Handoff">>
       [] v = "v3" -> <<"Received", "FraudCheck", "Payment", "Loyalty", "Prep", "Handoff">>
       [] v = "v4" -> <<"Received", "FraudCheck", "Payment", "Loyalty", "Prep",
                        "MobileDispatch", "Handoff">>
       [] v = "v5" -> <<"Received", "Payment", "Loyalty", "Prep", "DriveThru">>]

Steps == {"Received", "FraudCheck", "Payment", "Loyalty", "Prep", "MobileDispatch",
          "DriveThru", "Handoff"}

ASSUME VersionsAssumption == ServedVersions \subseteq Versions
ASSUME ChaosAssumption ==
         ChaosSpecs \subseteq [version : Versions, step : Steps] /\ NoChaos \notin ChaosSpecs
ASSUME BoundsAssumption ==
         ProbeAttempts \in Nat \ {0} /\ MaxSignals \in Nat /\ MaxResets \in Nat

VARIABLES
  retryForever,   (* A customer's order, as opposed to a canary probe.     *)
  limited,        (* It was started with a time to run.                    *)
  chaos,          (* The fault in its input, which a reset keeps.          *)
  version,        (* The version it is pinned to.                          *)
  status,         (* running, completed, failed or timedOut                *)
  current,        (* state.CurrentStep, counted from 0                     *)
  mode,           (* Is the step in force being probed, or parked?         *)
  attempt,        (* The attempt the probe is on.                          *)
  faulted,        (* The Activity in force was told to fail or to drag.    *)
  faultCleared,   (* state.FaultCleared                                    *)
  degraded,       (* state.Degraded, as the search attribute shows it.     *)
  pending,        (* clearFault Signals received and not read.             *)
  sent,           (* History: clearFault Signals sent to it.               *)
  recovering,     (* The version a batch that matched it will pin it to.   *)
  resets,         (* Batches that have matched it.                         *)
  served          (* History: the steps this run has served.               *)

fixed == <<retryForever, limited, chaos>>
vars == <<fixed, version, status, current, mode, attempt, faulted, faultCleared, degraded,
          pending, sent, recovering, resets, served>>

-----------------------------------------------------------------------------
Pipeline == StepsFor[version]

(* A slow step outlives its time to close, so it fails like a failing one. *)
AppliesTo(v, i) ==
  chaos # NoChaos /\ chaos.version = v /\ chaos.step = StepsFor[v][i + 1]

(* Mutant: the fault is applied once it has been cleared.                  *)
FaultedOnceCleared(v, i, cleared) == cleared /\ AppliesTo(v, i)
(* Mutant: the fault is looked up in the input alone.                      *)
FaultedAsStarted(v, i, cleared) == AppliesTo(v, i)
(* input: what the Activity of step i is told when it is scheduled.        *)
Faulted(v, i, cleared) == ~cleared /\ AppliesTo(v, i)

(* Schedule the probe of step i.                                           *)
Probe(v, i, cleared) ==
  /\ current' = i /\ mode' = "probing" /\ attempt' = 1
  /\ faulted' = Faulted(v, i, cleared)

Init ==
  /\ retryForever \in BOOLEAN
  /\ limited \in BOOLEAN /\ (~retryForever => limited)
  /\ chaos \in ChaosSpecs \cup {NoChaos}
  /\ version \in ServedVersions
  /\ status = "running"
  /\ current = 0 /\ mode = "probing" /\ attempt = 1
  /\ faulted = Faulted(version, 0, FALSE)
  /\ faultCleared = FALSE /\ degraded = FALSE
  /\ pending = 0 /\ sent = 0 /\ resets = 0
  /\ recovering = "none"
  /\ served = <<>>

(* Mutant: only a probe that succeeds calls healthy.                       *)
HealthyWhenProbed == IF mode = "probing" THEN FALSE ELSE degraded
(* healthy: whatever succeeded, the order is moving again.                 *)
Healthy == FALSE

(* The Activity in force succeeds; on to the next step, or the end.        *)
StepDone ==
  /\ status = "running"
  /\ ~faulted
  /\ served' = Append(served, Pipeline[current + 1])
  /\ degraded' = Healthy
  /\ IF current + 1 < Len(Pipeline)
       THEN Probe(version, current + 1, faultCleared) /\ UNCHANGED status
       ELSE status' = "completed" /\ UNCHANGED <<current, mode, attempt, faulted>>
  /\ UNCHANGED <<fixed, version, faultCleared, pending, sent, recovering, resets>>

(* Mutant: the bound on the attempts is one too high.                      *)
AttemptFailsOnceMore ==
  /\ status = "running" /\ mode = "probing"
  /\ attempt < ProbeAttempts + 1
  /\ attempt' = attempt + 1
  /\ UNCHANGED <<fixed, version, status, current, mode, faulted, faultCleared, degraded,
                 pending, sent, recovering, resets, served>>

(* An attempt of the probe fails, because it was told to or because its    *)
(* worker is lost; the server retries it with the input it had.            *)
AttemptFails ==
  /\ status = "running" /\ mode = "probing"
  /\ attempt < ProbeAttempts
  /\ attempt' = attempt + 1
  /\ UNCHANGED <<fixed, version, status, current, mode, faulted, faultCleared, degraded,
                 pending, sent, recovering, resets, served>>

(* Mutant: a canary probe parks as well.                                   *)
ProbeExhaustedParking ==
  /\ status = "running" /\ mode = "probing"
  /\ attempt = ProbeAttempts
  /\ mode' = "parked" /\ degraded' = TRUE
  /\ faulted' = Faulted(version, current, faultCleared)
  /\ UNCHANGED <<fixed, version, status, current, attempt, faultCleared, pending, sent,
                 recovering, resets, served>>

(* Its last attempt fails: stuck and parked, or the end of a canary probe. *)
ProbeExhausted ==
  /\ status = "running" /\ mode = "probing"
  /\ attempt = ProbeAttempts
  /\ IF retryForever
       THEN /\ mode' = "parked" /\ degraded' = TRUE
            /\ faulted' = Faulted(version, current, faultCleared)
            /\ UNCHANGED status
       ELSE status' = "failed" /\ UNCHANGED <<mode, degraded, faulted>>
  /\ UNCHANGED <<fixed, version, current, attempt, faultCleared, pending, sent,
                 recovering, resets, served>>

(* It runs out of the time to run it was started with: a canary probe      *)
(* always has one, a customer's order when it was started by a split.      *)
RunTimesOut ==
  /\ status = "running" /\ limited
  /\ status' = "timedOut"
  /\ UNCHANGED <<fixed, version, current, mode, attempt, faulted, faultCleared, degraded,
                 pending, sent, recovering, resets, served>>

(* The release batch signals every running order, parked or not.           *)
ClearFault ==
  /\ status = "running" /\ retryForever
  /\ sent < MaxSignals
  /\ sent' = sent + 1 /\ pending' = pending + 1
  /\ UNCHANGED <<fixed, version, status, current, mode, attempt, faulted, faultCleared,
                 degraded, recovering, resets, served>>

(* Mutant: the step whose attempt was cancelled is taken as done.          *)
ReleaseSkipping ==
  /\ status = "running" /\ mode = "parked"
  /\ pending > 0
  /\ pending' = pending - 1
  /\ faultCleared' = TRUE
  /\ IF current + 1 < Len(Pipeline)
       THEN Probe(version, current + 1, TRUE) /\ degraded' = FALSE
       ELSE UNCHANGED <<current, mode, attempt, faulted, degraded>>
  /\ UNCHANGED <<fixed, version, status, sent, recovering, resets, served>>

(* A parked order reads a clearFault Signal: it cancels the attempt, clean *)
(* or not, and runs the step again without the fault.  Nothing reads them  *)
(* while a step is being probed.                                           *)
Release ==
  /\ status = "running" /\ mode = "parked"
  /\ pending > 0
  /\ pending' = pending - 1
  /\ faultCleared' = TRUE
  /\ faulted' = Faulted(version, current, TRUE)
  /\ UNCHANGED <<fixed, version, status, current, mode, attempt, degraded, sent,
                 recovering, resets, served>>

(* A recovery batch finds the order: it runs, on a version other than the  *)
(* Current one.  One batch at a time has an order to reset.                *)
RecoverMatches(good) ==
  /\ status = "running" /\ retryForever
  /\ good # version
  /\ recovering = "none" /\ resets < MaxResets
  /\ recovering' = good
  /\ resets' = resets + 1
  /\ UNCHANGED <<fixed, version, status, current, mode, attempt, faulted, faultCleared,
                 degraded, pending, sent, served>>

(* Mutant: the reset leaves the Signals behind.                            *)
RecoverDroppingSignals ==
  /\ recovering # "none"
  /\ version' = recovering
  /\ status' = "running"
  /\ Probe(recovering, 0, FALSE)
  /\ faultCleared' = FALSE /\ degraded' = FALSE
  /\ pending' = 0
  /\ served' = <<>>
  /\ recovering' = "none"
  /\ UNCHANGED <<fixed, sent, resets>>

(* The batch, which is throttled, gets to the order: it is reset to its    *)
(* first Task, whatever has become of it since, pinned to the version that *)
(* was Current when the batch was started.  It starts from its input, and  *)
(* the Signals it had are applied again.                                   *)
Recover ==
  /\ recovering # "none"
  /\ version' = recovering
  /\ status' = "running"
  /\ Probe(recovering, 0, FALSE)
  /\ faultCleared' = FALSE /\ degraded' = FALSE
  /\ pending' = sent
  /\ served' = <<>>
  /\ recovering' = "none"
  /\ UNCHANGED <<fixed, sent, resets>>

-----------------------------------------------------------------------------
Next ==
  \/ StepDone \/ AttemptFails \/ ProbeExhausted \/ RunTimesOut
  \/ ClearFault \/ Release
  \/ (\E good \in ServedVersions : RecoverMatches(good)) \/ Recover

Spec == Init /\ [][Next]_vars

(* A worker takes every attempt in the end, and the order reads what it    *)
(* waits for.  Nobody has to signal it, or to recover it.                  *)
FairSpec ==
  /\ Spec
  /\ WF_vars(StepDone \/ AttemptFails \/ ProbeExhausted)
  /\ WF_vars(Release)

-----------------------------------------------------------------------------
(* Types, with the bounds of the counters.                                 *)
TypeOK ==
  /\ retryForever \in BOOLEAN /\ limited \in BOOLEAN /\ chaos \in ChaosSpecs \cup {NoChaos}
  /\ version \in ServedVersions
  /\ status \in {"running", "completed", "failed", "timedOut"}
  /\ current \in 0 .. Len(Pipeline) - 1
  /\ mode \in {"probing", "parked"} /\ attempt \in 1 .. ProbeAttempts
  /\ faulted \in BOOLEAN /\ faultCleared \in BOOLEAN /\ degraded \in BOOLEAN
  /\ sent \in 0 .. MaxSignals /\ pending \in 0 .. sent
  /\ recovering \in (ServedVersions \cup {"none"}) \ {version}
  /\ resets \in 0 .. MaxResets
  /\ served \in Seq(Steps)

(* The degraded mark, which the stuck-order count, the recovery query and  *)
(* the release read, is on an order exactly while a step of it is parked:  *)
(* it is gone once the step goes through, and after a reset.  One that ran *)
(* out of time keeps the mark it had; all three look at running orders.    *)
DegradedIffParked ==
  status # "timedOut" => (degraded <=> (status = "running" /\ mode = "parked"))

(* A canary probe never completes on a candidate with a step its fault     *)
(* names: this is what keeps a poisoned candidate from real traffic.       *)
PoisonedProbeFails ==
  ~retryForever /\ status = "completed" =>
    \A i \in 0 .. Len(Pipeline) - 1 : ~AppliesTo(version, i)

(* Signals are read only by parked orders, and one that comes before, or   *)
(* before a reset, is not lost: an order that is stuck on its fault has    *)
(* read none since it last began, and has all it was sent still to read.   *)
StuckOrderIsHeard ==
  status = "running" /\ mode = "parked" /\ faulted => pending = sent

(* A clearFault Signal is enough, whatever it meets: sent before the order *)
(* is stuck, in the middle of a probe or before a reset, it waits to be    *)
(* read and the order finishes.                                            *)
ReleasedOrderFinishes ==
  (retryForever /\ ~limited /\ sent > 0) ~> (status = "completed")

(* A canary probe ends, whatever its candidate does, so that the rollout   *)
(* waiting on it is not held for ever.                                     *)
ProbeEnds == ~retryForever ~> status # "running"

Contract == INSTANCE OrderContract WITH
  customer <- retryForever, recalled <- recovering # "none",
  Pipeline <- [v \in ServedVersions |-> StepsFor[v]]

(* Every order is served the pipeline of the version it is pinned to, each *)
(* step once and in order, whatever is retried, cancelled or released on   *)
(* the way; no step fails a customer's order.  It is served from the top   *)
(* again once for each recovery batch that found it running, also when it  *)
(* was over by the time it was reset.                                      *)
KeepsPipeline == Contract!Spec

(* It still has the fault of its input: it was told of it, or would be.    *)
Carries ==
  faulted \/ (~faultCleared /\ \E i \in current .. Len(Pipeline) - 1 : AppliesTo(version, i))

FaultStand ==
  CASE status # "running" -> "over"
    [] status = "running" /\ Carries ->
         IF faulted /\ mode = "parked" THEN "parked" ELSE "carried"
    [] OTHER -> "gone"

FaultLife == INSTANCE FaultContract WITH
  customer <- retryForever, fault <- FaultStand, recalled <- recovering # "none",
  signal <- pending > 0 /\ (status = "running" \/ recovering # "none")

(* A customer's order lets go of its fault by a Signal or a reset alone,   *)
(* and no retry, cancelled attempt or later step brings the fault back; a  *)
(* reset, also of an order that is over, loses no Signal; what is parked   *)
(* on a fault never completes.                                             *)
KeepsFaultContract == FaultLife!Spec

(* "A fault cleared mid-flight takes effect on the next attempt": no       *)
(* attempt begins with the fault once the order has the Signal.            *)
ClearReachesNextAttempt ==
  [][<<current, mode, attempt>>' # <<current, mode, attempt>> /\ sent > 0 => ~faulted']_vars
=============================================================================
