------------------------------- MODULE Rollout -------------------------------
(***************************************************************************)
(* The rollout coordinator of internal/rollout: the Workflow that gates a  *)
(* candidate version, walks it up the ramp plan and promotes it, or rolls  *)
(* it back, while operators steer it through Updates.                      *)
(*                                                                         *)
(* The Workflow is one goroutine.  It runs from one blocking call to the   *)
(* next without interruption, and Update handlers run only while it is     *)
(* blocked.  pc names the blocking call it is in, or, for "stageTop" and   *)
(* "holdTop", the head of the loop it is about to evaluate: no Update is   *)
(* accepted and no time passes there.                                      *)
(*                                                                         *)
(* Time is counted in ticks.  left is the deadline of the hold minus the   *)
(* current time, which is all that the code ever compares.                 *)
(***************************************************************************)
EXTENDS Routing

CONSTANTS
  Target,          (* The version the rollout moves traffic onto.          *)
  Inputs,          (* What rollouts are started with.                      *)
  Probes,          (* The canary orders of the gate.                       *)
  ManualPcts,      (* Percentages an operator may set by hand.             *)
  StartRoutings,   (* What the routing may be when a rollout starts.       *)
  EvalInterval,    (* Ticks between two health samples.                    *)
  RoutingAttempts, (* Attempts an ordinary routing Activity gets.          *)
  RestoreAttempts, (* Attempts RestoreRouting gets.                        *)
  NoJump,          (* No manual ramp is pending.                           *)
  OtherCalls,      (* Routing calls made behind the coordinator's back.    *)
  MaxPause         (* Bound: ticks a pause is followed for.                *)

Stage == [pct : Pct, hold : Nat]

(* rollout.Input after WithDefaults, which leaves no plan empty.  It has no *)
(* health policy: whether a sample breaches it is chosen when it is read.  *)
Input ==
  [stages : Seq(Stage) \ {<<>>}, gated : BOOLEAN, autoPromote : BOOLEAN, rollbackOnFailure : BOOLEAN]

ASSUME TargetAssumption == Target \in Versions
ASSUME InputsAssumption == Inputs \subseteq Input
ASSUME ManualAssumption == ManualPcts \subseteq Pct /\ NoJump \notin Pct
ASSUME RoutingsAssumption == StartRoutings \subseteq RoutingState
ASSUME CallsAssumption == OtherCalls \subseteq Calls
ASSUME TicksAssumption == EvalInterval \in Nat \ {0} /\ MaxPause \in Nat
ASSUME AttemptsAssumption ==
         RoutingAttempts \in Nat \ {0} /\ RestoreAttempts \in Nat \ {0}

LivePhases     == {"pending", "gating", "ramping", "paused", "promoting"}
TerminalPhases == {"completed", "rolledBack", "aborted", "gateFailed"}

(* control: the operator's intent.                                         *)
Control ==
  [paused : BOOLEAN, advance : BOOLEAN, abort : BOOLEAN, rollbackOnAbort : BOOLEAN,
   jumpPct : Pct \cup {NoJump}]

VARIABLES
  in,             (* The rollout's Input.                                  *)
  pc,             (* Where the Workflow goroutine is.                      *)
  phase,          (* state.Phase                                           *)
  stageIndex,     (* state.StageIndex, counted from 0 as the code does.    *)
  currentPct,     (* state.CurrentPct                                      *)
  manualControl,  (* state.ManualControl                                   *)
  previous,       (* The routing a rollback restores.                      *)
  target,         (* The loop's target percentage.                         *)
  manual,         (* The loop's manual flag.                               *)
  left,           (* Ticks until the hold's deadline.                      *)
  timer,          (* Ticks until AwaitWithTimeout times out.               *)
  pausedFor,      (* Ticks since pausedAt.                                 *)
  ctrl,           (* The control record.                                   *)
  probes,         (* The canary orders' outcomes.                          *)
  attempt,        (* The attempt a routing Activity is on.                 *)
  landed,         (* How many of its requests the server has executed.     *)
  routing,        (* The server's traffic split.                           *)
  orphan,         (* What a closed rollout's last attempt still has to do. *)
  meddled,        (* History: has someone else changed it since the start? *)
  dwell,          (* History: unpaused ticks served in this hold.          *)
  overrun         (* History: ticks its samples ran on in under a pause.   *)

progress == <<phase, stageIndex, currentPct, manualControl>>
stageVars == <<target, manual>>
clock == <<left, timer, pausedFor, dwell, overrun>>
activity == <<attempt, landed>>
server == <<routing, meddled, orphan>>
vars == <<in, pc, progress, previous, stageVars, clock, ctrl, probes, activity, server>>

-----------------------------------------------------------------------------
(* Where the goroutine can be.                                             *)

Holding   == {"holdTop", "sampling", "waiting", "paused"}
RoutingPCs == {"settingRamp", "promoting", "clearingRamp", "restoring"}
Blocked   == {"resolving", "snapshotting", "gating", "sampling", "waiting", "paused"}
               \cup RoutingPCs
Running   == {"stageTop", "holdTop"}
EndedPCs  == {"done", "timedOut"}
Ended     == pc \in EndedPCs

(* Mutant: the index is counted from 1.                                    *)
FirstStageAboveFromOne(stages, pct) ==
  LET above == {i \in DOMAIN stages : stages[i].pct > pct}
  IN  IF above = {} THEN Len(stages) + 1
      ELSE CHOOSE i \in above : \A j \in above : i <= j

(* The index, from 0, of the first stage that asks for more than pct.      *)
FirstStageAbove(stages, pct) ==
  LET above == {i \in 0 .. Len(stages) - 1 : stages[i + 1].pct > pct}
  IN  IF above = {} THEN Len(stages)
      ELSE CHOOSE i \in above : \A j \in above : i <= j

(* The hold of the stage in force: a manual ramp holds indefinitely, and   *)
(* so does a planned stage whose hold is zero.                             *)
Hold == IF manual \/ stageIndex >= Len(in.stages) THEN 0 ELSE in.stages[stageIndex + 1].hold
Timed == Hold > 0
Expired == Timed /\ left <= 0

Interrupted == ctrl.abort \/ ctrl.advance \/ ctrl.paused \/ ctrl.jumpPct # NoJump

(* Mutant: only a resume ends a pause.                                     *)
UnpausedByResume == ~ctrl.paused
Unpaused == ~ctrl.paused \/ ctrl.abort \/ ctrl.jumpPct # NoJump

AtLeast(x, y) == IF x >= y THEN x ELSE y
AtMost(x, y)  == IF x <= y THEN x ELSE y

-----------------------------------------------------------------------------
Init ==
  /\ in \in Inputs
  /\ routing \in StartRoutings
  /\ pc = "resolving" /\ phase = "pending"
  /\ stageIndex = 0 /\ currentPct = 0 /\ manualControl = FALSE
  /\ previous = NoRouting
  /\ target = 0 /\ manual = FALSE
  /\ left = 0 /\ timer = 0 /\ pausedFor = 0 /\ dwell = 0 /\ overrun = 0
  /\ ctrl = [paused |-> FALSE, advance |-> FALSE, abort |-> FALSE,
             rollbackOnAbort |-> FALSE, jumpPct |-> NoJump]
  /\ probes = [p \in Probes |-> "running"]
  /\ attempt = 1 /\ landed = 0
  /\ meddled = FALSE /\ orphan = <<>>

(* finish: record a terminal phase and return.                             *)
Finish(p) == pc' = "done" /\ phase' = p

(* Block on a routing Activity.                                            *)
Execute(a) == pc' = a /\ attempt' = 1 /\ landed' = 0

(* rollback: restore the routing, unless the input says to leave it.       *)
Rollback ==
  IF in.rollbackOnFailure
    THEN Execute("restoring") /\ UNCHANGED phase
    ELSE Finish("aborted") /\ UNCHANGED activity

-----------------------------------------------------------------------------
(* Before the ramp: resolve the label, snapshot the routing, run the gate. *)

Resolve ==
  /\ pc = "resolving"
  /\ \/ pc' = "snapshotting" /\ UNCHANGED phase
     \/ Finish("aborted")
  /\ UNCHANGED <<in, stageIndex, currentPct, manualControl, previous, stageVars, clock,
                 ctrl, probes, activity, server>>

Snapshot ==
  /\ pc = "snapshotting"
  /\ \/ /\ previous' = routing
        /\ IF in.gated
             THEN pc' = "gating" /\ phase' = "gating"
             ELSE pc' = "stageTop" /\ UNCHANGED phase
     \/ Finish("aborted") /\ UNCHANGED previous
  /\ UNCHANGED <<in, stageIndex, currentPct, manualControl, stageVars, clock, ctrl,
                 probes, activity, server>>

(* A probe's child Workflow closes: its canary order completed, or failed, *)
(* or could not be started, or ran out of time.                            *)
ProbeEnds(p, verdict) ==
  /\ pc = "gating"
  /\ probes[p] = "running"
  /\ probes' = [probes EXCEPT ![p] = verdict]
  /\ UNCHANGED <<in, pc, progress, previous, stageVars, clock, ctrl, activity, server>>

(* Mutant: the gate passes unless every probe failed.                      *)
GatePassedByAny == \E p \in Probes : probes[p] = "passed"
(* One failure is enough for the gate to fail.                             *)
GatePassed == \A p \in Probes : probes[p] = "passed"

(* Mutant: a probe's future that is not ready is not read.                 *)
GateVerdictUnread ==
  /\ pc = "gating"
  /\ IF \A p \in Probes : probes[p] # "failed"
       THEN pc' = "stageTop" /\ UNCHANGED phase
       ELSE Finish("gateFailed")
  /\ UNCHANGED <<in, stageIndex, currentPct, manualControl, previous, stageVars, clock,
                 ctrl, probes, activity, server>>

(* runGate returns once every future has been read.                        *)
GateVerdict ==
  /\ pc = "gating"
  /\ \A p \in Probes : probes[p] # "running"
  /\ IF GatePassed
       THEN pc' = "stageTop" /\ UNCHANGED phase
       ELSE Finish("gateFailed")
  /\ UNCHANGED <<in, stageIndex, currentPct, manualControl, previous, stageVars, clock,
                 ctrl, probes, activity, server>>

-----------------------------------------------------------------------------
(* The head of the loop over the stages.                                   *)

PlannedStage ==
  /\ pc = "stageTop"
  /\ stageIndex < Len(in.stages)
  /\ ctrl.jumpPct = NoJump
  /\ target' = in.stages[stageIndex + 1].pct
  /\ manual' = FALSE
  /\ Execute("settingRamp")
  /\ UNCHANGED <<in, progress, previous, clock, ctrl, probes, server>>

(* takeJump: the operator's percentage overrides the plan.                 *)
ManualStage ==
  /\ pc = "stageTop"
  /\ stageIndex < Len(in.stages)
  /\ ctrl.jumpPct # NoJump
  /\ target' = ctrl.jumpPct
  /\ manual' = TRUE
  /\ ctrl' = [ctrl EXCEPT !.jumpPct = NoJump]
  /\ manualControl' = TRUE
  /\ stageIndex' = FirstStageAbove(in.stages, ctrl.jumpPct)
  /\ Execute("settingRamp")
  /\ UNCHANGED <<in, phase, currentPct, previous, clock, probes, server>>

PlanDone ==
  /\ pc = "stageTop"
  /\ stageIndex >= Len(in.stages)
  /\ IF in.autoPromote
       THEN Execute("promoting") /\ phase' = "promoting"
       ELSE Finish("completed") /\ UNCHANGED activity
  /\ UNCHANGED <<in, stageIndex, currentPct, manualControl, previous, stageVars, clock,
                 ctrl, probes, server>>

-----------------------------------------------------------------------------
(* A routing Activity: its requests reach the server one by one; an        *)
(* attempt may fail at any point, also after the server has executed a     *)
(* request; the next attempt starts over.                                  *)

Requests ==
  CASE pc = "settingRamp"  -> <<SetRamp(Target, target)>>
    [] pc = "promoting"    -> <<SetCurrent(Target)>>
    [] pc = "clearingRamp" -> <<ClearRamp>>
    [] pc = "restoring"    -> RestoreCalls(previous)

Attempts == IF pc = "restoring" THEN RestoreAttempts ELSE RoutingAttempts

RequestLands ==
  /\ pc \in RoutingPCs
  /\ landed < Len(Requests)
  /\ Accepts(routing, Requests[landed + 1])
  /\ routing' = Apply(routing, Requests[landed + 1])
  /\ landed' = landed + 1
  /\ UNCHANGED <<in, pc, progress, previous, stageVars, clock, ctrl, probes, attempt, meddled, orphan>>

AttemptFails ==
  /\ pc \in RoutingPCs
  /\ attempt < Attempts
  /\ attempt' = attempt + 1
  /\ landed' = 0
  /\ UNCHANGED <<in, pc, progress, previous, stageVars, clock, ctrl, probes, server>>

(* Mutant: the Activity's future is not waited for.                        *)
SucceedsUnread(a) == pc = a
(* The Activity's future is ready: with a result, or with its last error.  *)
Succeeds(a) == pc = a /\ landed = Len(Requests)
GivesUp(a)  == pc = a /\ attempt = Attempts

(* SetRamp returned: holdStage starts the clock.                           *)
RampSet ==
  /\ Succeeds("settingRamp")
  /\ currentPct' = target
  /\ phase' = "ramping"
  /\ pc' = "holdTop"
  /\ left' = Hold
  /\ dwell' = 0 /\ overrun' = 0
  /\ UNCHANGED <<in, stageIndex, manualControl, previous, stageVars, timer, pausedFor,
                 ctrl, probes, activity, server>>

Promoted ==
  /\ Succeeds("promoting")
  /\ Execute("clearingRamp")
  /\ UNCHANGED <<in, progress, previous, stageVars, clock, ctrl, probes, server>>

(* Neither a failed SetRamp nor a failed SetCurrent ends in the state the  *)
(* rollout asked for, so both roll back.                                   *)
RoutingFails ==
  /\ GivesUp("settingRamp") \/ GivesUp("promoting")
  /\ Rollback
  /\ UNCHANGED <<in, stageIndex, currentPct, manualControl, previous, stageVars, clock,
                 ctrl, probes, server>>

(* The outcome of the explicit ClearRamp is ignored.                       *)
RampCleared ==
  /\ Succeeds("clearingRamp") \/ GivesUp("clearingRamp")
  /\ currentPct' = 100
  /\ Finish("completed")
  /\ UNCHANGED <<in, stageIndex, manualControl, previous, stageVars, clock, ctrl,
                 probes, activity, server>>

Restored ==
  /\ \/ Succeeds("restoring") /\ Finish("rolledBack") /\ currentPct' = 0
     \/ GivesUp("restoring") /\ Finish("aborted") /\ UNCHANGED currentPct
  /\ UNCHANGED <<in, stageIndex, manualControl, previous, stageVars, clock, ctrl,
                 probes, activity, server>>

-----------------------------------------------------------------------------
(* holdStage: the head of its loop looks at the operator's intent in a     *)
(* fixed order, then at the clock, and only then samples health.           *)

(* Mutants: a manual ramp's stage is stepped over; the test is inverted.   *)
EndStageStepping ==
  pc' = "stageTop" /\ manualControl' = FALSE /\ stageIndex' = stageIndex + 1
EndStageInverted ==
  pc' = "stageTop" /\ manualControl' = FALSE
    /\ stageIndex' = IF manual THEN stageIndex + 1 ELSE stageIndex

(* outcomeAdvance: a manual ramp has already moved stageIndex.             *)
EndStage ==
  /\ pc' = "stageTop"
  /\ manualControl' = FALSE
  /\ stageIndex' = IF manual THEN stageIndex ELSE stageIndex + 1

(* outcomeAbort.                                                           *)
HoldAbort ==
  /\ pc = "holdTop"
  /\ ctrl.abort
  /\ IF ctrl.rollbackOnAbort THEN Rollback ELSE Finish("aborted") /\ UNCHANGED activity
  /\ UNCHANGED <<in, stageIndex, currentPct, manualControl, previous, stageVars, clock,
                 ctrl, probes, server>>

(* outcomeManual: back to the loop over the stages, which takes the jump.  *)
HoldJump ==
  /\ pc = "holdTop"
  /\ ~ctrl.abort /\ ctrl.jumpPct # NoJump
  /\ pc' = "stageTop"
  /\ UNCHANGED <<in, progress, previous, stageVars, clock, ctrl, probes, activity, server>>

HoldAdvance ==
  /\ pc = "holdTop"
  /\ ~ctrl.abort /\ ctrl.jumpPct = NoJump /\ ctrl.advance
  /\ ctrl' = [ctrl EXCEPT !.advance = FALSE]
  /\ EndStage
  /\ UNCHANGED <<in, phase, currentPct, previous, stageVars, clock, probes, activity, server>>

HoldPause ==
  /\ pc = "holdTop"
  /\ ~ctrl.abort /\ ctrl.jumpPct = NoJump /\ ~ctrl.advance /\ ctrl.paused
  /\ pc' = "paused" /\ phase' = "paused"
  /\ pausedFor' = 0
  /\ UNCHANGED <<in, stageIndex, currentPct, manualControl, previous, stageVars, left,
                 timer, dwell, overrun, ctrl, probes, activity, server>>

HoldExpires ==
  /\ pc = "holdTop"
  /\ ~Interrupted
  /\ Expired
  /\ EndStage
  /\ UNCHANGED <<in, phase, currentPct, previous, stageVars, clock, ctrl, probes,
                 activity, server>>

HoldSample ==
  /\ pc = "holdTop"
  /\ ~Interrupted
  /\ ~Expired
  /\ pc' = "sampling"
  /\ UNCHANGED <<in, progress, previous, stageVars, clock, ctrl, probes, activity, server>>

(* Mutant: the deadline stays where it was when the pause began.           *)
LeftAfterPauseRunning == left
(* The pause is over: the deadline moves by the time it took.              *)
LeftAfterPause == IF Timed THEN left + pausedFor ELSE left

Unpause ==
  /\ pc = "paused"
  /\ Unpaused
  /\ pc' = "holdTop" /\ phase' = "ramping"
  /\ left' = LeftAfterPause
  /\ pausedFor' = 0
  /\ UNCHANGED <<in, stageIndex, currentPct, manualControl, previous, stageVars, timer,
                 dwell, overrun, ctrl, probes, activity, server>>

(* The health sample breaches the policy.                                  *)
SampleBreaches ==
  /\ pc = "sampling"
  /\ Rollback
  /\ UNCHANGED <<in, stageIndex, currentPct, manualControl, previous, stageVars, clock,
                 ctrl, probes, server>>

(* It does not, or it could not be read, which counts for nothing.         *)
SamplePasses ==
  /\ pc = "sampling"
  /\ IF Expired
       THEN EndStage /\ UNCHANGED timer
       ELSE /\ pc' = "waiting"
            /\ timer' = IF Timed THEN AtMost(left, EvalInterval) ELSE EvalInterval
            /\ UNCHANGED <<stageIndex, manualControl>>
  /\ UNCHANGED <<in, phase, currentPct, previous, stageVars, left, pausedFor, dwell,
                 overrun, ctrl, probes, activity, server>>

(* AwaitWithTimeout returns, and its timer is gone.                        *)
Wake ==
  /\ pc = "waiting"
  /\ timer = 0 \/ Interrupted
  /\ pc' = "holdTop"
  /\ timer' = 0
  /\ UNCHANGED <<in, progress, previous, stageVars, left, pausedFor, dwell, overrun,
                 ctrl, probes, activity, server>>

(* Time passes while the hold is blocked.  The deadline does not move for  *)
(* a pause that is accepted while a sample is in flight, until the head of *)
(* the loop has seen it: those ticks are counted apart.                    *)
Tick ==
  /\ \/ /\ pc \in {"sampling", "waiting"}
        /\ pc = "waiting" => timer > 0 /\ ~Interrupted
        /\ left' = AtLeast(left - 1, 0)
        /\ timer' = AtLeast(timer - 1, 0)
        /\ dwell' = IF ctrl.paused THEN dwell ELSE AtMost(dwell + 1, Hold)
        /\ overrun' = IF ctrl.paused THEN AtMost(overrun + 1, Hold) ELSE overrun
        /\ UNCHANGED pausedFor
     \/ /\ pc = "paused"
        /\ ~Unpaused
        /\ pausedFor < MaxPause
        /\ pausedFor' = pausedFor + 1
        /\ left' = IF Timed THEN left - 1 ELSE left
        /\ UNCHANGED <<timer, dwell, overrun>>
  /\ UNCHANGED <<in, pc, progress, previous, stageVars, ctrl, probes, activity, server>>

-----------------------------------------------------------------------------
(* The operator's Updates.  liveOnly refuses them once the phase is        *)
(* terminal; they are accepted whatever the goroutine is blocked on.       *)

Steer(newCtrl) ==
  /\ pc \in Blocked
  /\ phase \notin TerminalPhases
  /\ ctrl' = newCtrl
  /\ UNCHANGED <<in, pc, progress, previous, stageVars, clock, probes, activity, server>>

Pause  == ~ctrl.paused /\ Steer([ctrl EXCEPT !.paused = TRUE])
Resume == ctrl.paused /\ Steer([ctrl EXCEPT !.paused = FALSE])
Advance == Steer([ctrl EXCEPT !.advance = TRUE, !.paused = FALSE])
Abort(rollback) ==
  Steer([ctrl EXCEPT !.abort = TRUE, !.rollbackOnAbort = rollback, !.paused = FALSE])
SetRampTo(pct) == Steer([ctrl EXCEPT !.jumpPct = pct, !.paused = FALSE])

(* Somebody else moves the traffic: the dashboard's manual promote, ramp   *)
(* and rollback buttons go to the server without asking the coordinator.   *)
Meddle(call) ==
  /\ ~meddled
  /\ pc \in Blocked \ {"resolving", "snapshotting"}
  /\ Accepts(routing, call)
  /\ routing' = Apply(routing, call)
  /\ routing' # routing
  /\ meddled' = TRUE
  /\ UNCHANGED <<in, pc, progress, previous, stageVars, clock, ctrl, probes, activity, orphan>>

(* The execution timeout closes the Workflow where it stands.  An attempt  *)
(* of a routing Activity that has started is not stopped by it: nothing    *)
(* tells it, for it has no heartbeat.                                      *)
ExecutionTimeout ==
  /\ pc \in Blocked
  /\ pc' = "timedOut"
  /\ orphan' = IF pc \in RoutingPCs THEN SubSeq(Requests, landed + 1, Len(Requests)) ELSE <<>>
  /\ UNCHANGED <<in, progress, previous, stageVars, clock, ctrl, probes, activity, routing, meddled>>

(* What that attempt had still to request reaches the server after the     *)
(* close, RestoreRouting's second request included, or is never made.  It  *)
(* is not retried: the close ended the Activity's retries.                 *)
OrphanLands ==
  /\ orphan # <<>>
  /\ Accepts(routing, Head(orphan))
  /\ routing' = Apply(routing, Head(orphan))
  /\ orphan' = Tail(orphan)
  /\ UNCHANGED <<in, pc, progress, previous, stageVars, clock, ctrl, probes, activity, meddled>>

-----------------------------------------------------------------------------
Coordinator ==
  \/ Resolve \/ Snapshot \/ GateVerdict
  \/ PlannedStage \/ ManualStage \/ PlanDone
  \/ RampSet \/ Promoted \/ RoutingFails \/ RampCleared \/ Restored
  \/ HoldAbort \/ HoldJump \/ HoldAdvance \/ HoldPause \/ HoldExpires \/ HoldSample
  \/ Unpause \/ SampleBreaches \/ SamplePasses \/ Wake

Worker == RequestLands \/ AttemptFails \/ \E p \in Probes, v \in {"passed", "failed"} : ProbeEnds(p, v)

Operator ==
  \/ Pause \/ Resume \/ Advance
  \/ \E rollback \in BOOLEAN : Abort(rollback)
  \/ \E pct \in ManualPcts : SetRampTo(pct)

Others ==
  \/ \E call \in OtherCalls : Meddle(call)
  \/ ExecutionTimeout \/ OrphanLands

Next == Coordinator \/ Worker \/ Tick \/ Operator \/ Others

(* A worker polls the coordinator's task queue, Activities time out, and   *)
(* clocks run.  Nothing is assumed of operators.                           *)
Fairness ==
  /\ WF_vars(Coordinator)
  /\ WF_vars(Worker)
  /\ WF_vars(Tick)

Spec == Init /\ [][Next]_vars
FairSpec == Spec /\ Fairness

-----------------------------------------------------------------------------
(* What a rollout promises.                                                *)

TypeOK ==
  /\ in \in Inputs
  /\ pc \in Blocked \cup Running \cup EndedPCs
  /\ phase \in LivePhases \cup TerminalPhases
  /\ stageIndex \in 0 .. Len(in.stages)
  /\ currentPct \in Pct /\ target \in Pct
  /\ manualControl \in BOOLEAN /\ manual \in BOOLEAN
  /\ previous \in RoutingState /\ routing \in RoutingState
  /\ left \in Int /\ timer \in Nat /\ pausedFor \in Nat
  /\ dwell \in Nat /\ overrun \in Nat
  /\ ctrl \in Control
  /\ probes \in [Probes -> {"running", "passed", "failed"}]
  /\ attempt \in Nat /\ landed \in 0 .. 2
  /\ meddled \in BOOLEAN /\ orphan \in Seq(Calls)

Rising(stages) == \A i, j \in DOMAIN stages : i < j => stages[i].pct < stages[j].pct

(* The coordinator moves no traffic while a canary order of its gate has   *)
(* not passed: not while the gate runs, not after it failed, and not while *)
(* a probe nobody waited for is still running (runGate).                   *)
GateBeforeTraffic ==
  [][in.gated /\ (\E p \in Probes : probes[p] # "passed")
       => routing' = routing \/ meddled' # meddled]_vars

(* A rollout that reports rolledBack has given every version exactly the   *)
(* share it had before, whatever its own failed or half-done routing calls *)
(* left behind: an ambiguous promote, a lost reply, a ramp of another      *)
(* version that the rollout displaced (RestoreRouting).                    *)
RollbackRestores ==
  phase = "rolledBack" /\ ~meddled /\ previous.current # NoVersion
    => \A v \in Versions : Share(routing, v) = Share(previous, v)

(* The percentage on the dashboard is the share the candidate really has,  *)
(* all through a hold and once the rollout has completed.                  *)
ShownShareIsReal ==
  (pc \in Holding \/ phase = "completed") /\ ~meddled => Share(routing, Target) = currentPct

(* The plan hands out its percentages in order: a planned ramp neither     *)
(* takes traffic back nor passes over a percentage of the plan, also when  *)
(* the plan resumes after manual ramps up and down (firstStageAbove).      *)
NextRung ==
  Rising(in.stages) /\ pc = "settingRamp" /\ ~manual
    => /\ target >= currentPct
       /\ \A i \in DOMAIN in.stages : in.stages[i].pct < target => in.stages[i].pct <= currentPct

(* A rollout promotes, or completes, only with every percentage of its     *)
(* plan reached; one that completes with AutoPromote has made the          *)
(* candidate Current.                                                      *)
CompletedClimbedPlan ==
  /\ Rising(in.stages) /\ (pc = "promoting" \/ phase = "completed")
       => \A i \in DOMAIN in.stages : in.stages[i].pct <= currentPct
  /\ phase = "completed" /\ in.autoPromote /\ ~meddled => routing.current = Target

(* A hold ends in the next stage only for an accepted advance, or when a   *)
(* timed hold was served in full.  Pauses do not count as service, with    *)
(* one exemption: while a sample is in flight the clock runs on under an   *)
(* accepted pause (overrun; PausedStageStays shows what comes of it).  A   *)
(* manual ramp is never left by the clock.  Which hold an advance was      *)
(* meant for is not asked: one accepted before the hold began ends it too, *)
(* where control.go:71 speaks of the current hold.                         *)
AdvanceIsEarned ==
  [][pc' = "stageTop" /\ (pc = "sampling" \/ (pc = "holdTop" /\ ctrl.jumpPct = NoJump))
       => \/ ctrl.advance /\ ~ctrl'.advance
          \/ ~manual /\ Timed /\ dwell + overrun >= Hold]_vars

(* An accepted abort ends the rollout, whatever it was doing and whatever  *)
(* the operator does next.                                                 *)
AbortEnds == ctrl.abort ~> Ended

(* An accepted manual ramp is taken up, or the rollout ends: it does not   *)
(* stay pending behind a pause.                                            *)
JumpIsTaken == ctrl.jumpPct # NoJump ~> ctrl.jumpPct = NoJump \/ Ended

(* A rollout finishes unless it is left paused or in an indefinite hold.   *)
Finishes == <>[](pc \in Holding => ~ctrl.paused /\ Timed) => <>Ended

(* The coordinator keeps the contract of RolloutContract.                  *)
Life ==
  CASE pc \in {"resolving", "snapshotting", "gating"} -> "proving"
    [] pc \in {"promoting", "clearingRamp"} -> "promoting"
    [] pc = "restoring" -> "restoring"
    [] pc \in EndedPCs -> "over"
    [] OTHER -> "exposing"

Contract ==
  INSTANCE RolloutContract
    WITH Candidate <- Target, life <- Life, fit <- ~in.gated \/ GatePassed, saved <- previous,
         loose <- orphan

(* The detailed coordinator implements the contract: it exposes the        *)
(* candidate only when it is fit, sends only the routing calls of the life *)
(* it is in, and neither exposes nor promotes again once it restores; once *)
(* closed it lands at most what its last attempt still had to request.     *)
KeepsContract == Contract!Spec

(* "Jump straight to any percentage [...] at any time": a promotion is     *)
(* never begun over a manual ramp that was accepted and not applied.       *)
JumpNotLost == [][pc # "promoting" /\ pc' = "promoting" => ctrl.jumpPct = NoJump]_vars

(* "Abort stops the rollout": no promotion is begun after an abort was     *)
(* accepted.                                                               *)
AbortStops == [][pc # "promoting" /\ pc' = "promoting" => ~ctrl.abort]_vars

(* "Paused freezes the clock: the ramp stays where it is and the stage     *)
(* does not progress": a stage is not left under an accepted pause, unless *)
(* the operator has asked for that too.                                    *)
PausedStageStays ==
  [][ctrl.paused /\ ~ctrl.advance /\ ctrl.jumpPct = NoJump
       => ~(pc \in Holding /\ pc' = "stageTop")]_vars
=============================================================================
