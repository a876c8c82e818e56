# Serverless rainbow demo: specifications, checks and proofs

The repository is a control plane for *rainbow deployments* on Temporal: several
versions (v1..v5) of an order-processing Worker run side by side, a coordinator
moves new orders from one version to another in steps while it watches their
health, a traffic director produces the orders, and a backend lets a dashboard
steer all of it. This directory holds TLA+ models of that system, the TLC
configurations that check them and the TLAPS proofs about them. Paths below are
relative to `src/`.

## 1. The system

| Component | State it keeps | Operations | What makes it correct |
|---|---|---|---|
| **Rollout coordinator** (`internal/rollout`): the singleton Workflow `VersionRollout`, its Updates, its canary gate, its Activities | phase, stage index, current percentage, manual flag, the saved routing, the operator's flags (`control`), the hold's deadline, one future per probe | resolve, snapshot, gate, set ramp, hold (sample, wait, pause), advance, promote, clear ramp, restore; Updates pause, resume, advance, abort, setRamp | no traffic before the gate passed; percentages in plan order; a hold is served in full; a rollback gives every version back its share; aborts and manual ramps are acted on; the rollout ends |
| **Deployment client** (`internal/deploy`): labels, the routing record of the Worker Deployment, pinned starts | label cache; the routing itself lives in the Temporal server | Describe, SetRamp, ClearRamp, SetCurrent, StartPinned, PublishLabel | shares add up; a cleared ramp leaves everything on Current |
| **Order pipeline** (`internal/orders`): Workflow `Order` of each version, and `Gate` for probes | current step, degraded, faultCleared, the buffered clearFault signals | run a step (three attempts), park it on an endless retry, release it, finish | each step of the pinned version's pipeline once and in order; a probe never parks; a released order redoes only the failed step; degraded exactly while stuck |
| **Traffic director** (`internal/traffic`): the singleton Workflow that starts orders at a rate, and the client-started bursts | rate, chaos, split, next sequence number, started, carry, stop time, the pending changes channel | setRate, setChaos, setSplit, stop, touch; one window of StartOrders chunks; Continue-As-New; burst batches | order IDs unique, the count right, the rate kept, changes noticed, auto-stop |
| **Backend API** (`internal/api`): HTTP handlers, the controllers of the two singletons, recovery, bootstrap, the snapshot poller and the SSE hub | cached states of the singletons, the last snapshot, health cache, counters' start time, watchers | start/steer rollout and traffic, promote, ramp, rollback, split, chaos, recover, reset counters, poll, broadcast | one rollout at a time; a split never fights a rollout; no order stays parked on a fault that is gone; a reset is not undone by a late read; slow viewers cannot block |
| **Metrics reader** (`internal/metrics`) | rate samples | VersionHealth and other visibility counts | a version is judged by its own orders since the rollout's start |
| `internal/lambdatune`, `internal/config`, `internal/awssecret`, `cmd/*` | none | parsing and wiring at start-up | not modelled |
| `frontend/`, `deploy/` | the page's view | renders snapshots, posts requests | not modelled: the requests are the operator actions of the modules |

How they meet: the dashboard's requests become Workflow Updates (synchronous
accept or reject) or direct calls of the deployment client. The coordinator
changes the routing through Activities that the server retries. The routing
decides which version a new order is pinned to. The coordinator reads the health
of those orders back through the metrics reader. The traffic director stamps an
injected fault into the orders it starts; the backend's recovery and repair
reach those orders again through server-side batches (a Reset, or the clearFault
Signal). All of these run concurrently and none shares a lock with another.

### What is hard here

* Operators' Updates land while the coordinator is blocked in an Activity, and
  are looked at only at the head of the hold's loop.
* A routing call may take effect and be reported as failed, be retried, or fail
  between the two requests of a restore; and the dashboard's own promote, ramp
  and rollback buttons change the same routing without asking the coordinator.
* The stage index means one thing after a planned stage and another after a
  manual ramp.
* The deadline of a hold is moved by pauses.
* Chunks, windows, Continue-As-New and retries of StartOrders share one
  sequence of order IDs.
* Clear-fault batches are snapshots of the orders running when they are made,
  and the repair is driven by a cached view.

`PROJECT.json` lists each of these under `hazards`, with the line where it bites.

## 2. What is modelled

| Module | Models | Extends |
|---|---|---|
| `Routing` | the routing record, the share of each version, the three routing calls and RestoreRouting's sequence of them; what the server accepts and does (external) | - |
| `Rollout` | the coordinator, complete | `Routing` |
| `RolloutContract` | abstract specification: what a rollout promises about the traffic | `Routing` |
| `MCRollout` | the instance TLC checks | `Rollout` |
| `RolloutProofs` | theorems and proofs: types, gate, refinement | `Rollout`, `TLAPS` |
| `LadderProofs` | theorems and proofs: the holds and the plan's percentages | `RolloutProofs` |
| `ShareProofs` | theorems and proofs: the share shown, promotion, rollback | `LadderProofs` |
| `Orders` | one order, or canary probe, of any version | - |
| `OrderContract` | abstract specification: the steps an order is owed | - |
| `FaultContract` | abstract specification: what an order makes of a fault | - |
| `MCOrders` | the instance TLC checks | `Orders` |
| `OrderProofs` | theorems and proofs | `Orders`, `TLAPS` |
| `StartOrders` | a batch of orders and the Activity that starts them | - |
| `Traffic` | the director, complete, and the bursts beside it | `StartOrders` |
| `TrafficContract` | abstract specification: what the generator promises its operators | - |
| `MCTraffic`, `TrafficProofs` | the instance TLC checks; theorems and proofs | `Traffic` (`TLAPS`) |
| `FaultRepair` | one injected fault across director, orders, backend and poller | - |
| `MCFaultRepair`, `RepairProofs` | the instance; theorems and proofs | `FaultRepair` (`TLAPS`) |
| `Hub` | the SSE hub and the `/events` handlers | - |
| `Backend` | the poll goroutine, the stored snapshot, its readers, counters and cache | `Hub` |
| `MCBackend`, `BackendProofs` | the instances; theorems and proofs | `Backend` (`TLAPS`) |

### The coordinator (`Rollout`)

A Workflow is a single goroutine that runs from one blocking call to the next,
and Update handlers run only while it is blocked. `pc` therefore names the
blocking call: `resolving`, `snapshotting`, `gating`, `settingRamp`, `sampling`,
`waiting`, `paused`, `promoting`, `clearingRamp`, `restoring`. The two heads of
loops, `stageTop` and `holdTop`, are positions too, because what is decided there
in which order is the point of several properties; no Update is accepted there
and no time passes. `done` is a return, `timedOut` the execution timeout.

* The other variables are the code's: `phase`, `stageIndex`, `currentPct`,
  `manualControl` (`State`), `ctrl` (`control`), `previous`, the loop's `target`
  and `manual`. `left` is `deadline - now` in ticks, the only form in which the
  deadline is ever used; `pausedFor` is `now - pausedAt`.
* One action per blocking call that returns and per branch after it:
  `Resolve`, `Snapshot`, `GateVerdict`, `PlannedStage`/`ManualStage`/`PlanDone`
  (the head of the stage loop), `RampSet`, `Promoted`, `RoutingFails`,
  `RampCleared`, `Restored`, and for `holdStage` its switch in the code's order:
  `HoldAbort`, `HoldJump`, `HoldAdvance`, `HoldPause`, `HoldExpires`,
  `HoldSample`, then `Unpause`, `SampleBreaches`, `SamplePasses`, `Wake`.
* A routing Activity is a sequence of requests (`Requests`). `RequestLands` is
  the server executing the next one; `AttemptFails` is an attempt ending in an
  error, *after any number of its requests*, and the retry from the first one;
  the Activity's future is ready with a result (`Succeeds`) or, on the last
  attempt, with its error (`GivesUp`), again after any number of requests. Lost
  replies and half-done restores are these.
* The gate: one outcome per probe, in any order (`ProbeEnds`); a probe that
  cannot be started, or times out, is a failed one.
* `Pause`, `Resume`, `Advance`, `Abort`, `SetRampTo` are the Update handlers with
  their validators.
* `Meddle` is another routing call by somebody else (`api/handlers.go` promote,
  ramp, rollback); `meddled` remembers it, because the properties about what the
  routing *is* can only be about rollouts that had it to themselves.
* `ExecutionTimeout` closes the Workflow wherever it is blocked. An attempt of a
  routing Activity that has started is not stopped by that (it has no heartbeat to
  learn of it): `orphan` is what the attempt has still to request, and `OrphanLands`
  the server executing the next of it after the close. The retries end with the
  Workflow.
* `dwell` and `overrun` are history variables: the ticks of this hold served while no
  pause was in force, and the ticks its samples ran on under an accepted pause (the
  code moves its deadline for the time in the pause's own wait only). They saturate
  at the hold.

Simplifications, and why they lose nothing here:

* A request of an attempt that has *ended* (its reply lost, its time out) took
  effect before the end, or never does. One that takes effect later would be a
  server that executes a call after the 30 s its caller waited for it. The attempt
  in flight at the execution timeout has not ended: its requests may land later.
* Reading the routing for the snapshot is one step, with the retries of the two
  read-only Activities inside "succeeds or finally fails".
* Whether a health sample breaches the policy is chosen when the sample is read:
  the properties hold for every sequence of samples. A sample that cannot be read
  counts as one that does not breach, as in the code.
* Percentages are whole numbers in 0..100 (`float32` in the code; every
  percentage of the demo is whole). A hold is a number of ticks.
* Cancelling the coordinator is left out: nothing in `src/` cancels or
  terminates it.
* Messages, timestamps, health figures and labels are left out: nothing decides
  on them.

### The contract (`RolloutContract`)

A rollout is *proving*, *exposing*, *promoting*, *restoring* or *over*. It enters
*exposing* only when the candidate is fit, may send only the requests that
belong to where it is (ramps of the candidate while exposing; promote and
clear while promoting; the calls that restore the saved routing while
restoring), and never goes back. Once it is over it asks for nothing more; what
may still land is `loose`, the rest of one attempt of a call of the life that
ended, once and in its order (`Late`). `Rollout!KeepsContract` is the refinement,
with `life` read off `pc`, `fit` being "not gated, or every probe passed",
`saved` being `previous` and `loose` being `orphan`.

### An order (`Orders`)

Orders share nothing, so the module has one, of either kind: `retryForever`
tells a customer's order from a canary probe, as in `runOptions`.

* `version`, `current`, `degraded` and `faultCleared` are `OrderState`; `mode` says
  which of the two contexts of `stepRunner` the Activity in force was scheduled
  in (`probing` with bounded attempts, `parked` with unbounded ones); `faulted` is
  the `Fail`/`Slow` of its `StepInput`, fixed when it is scheduled. `pending` counts
  the clearFault Signals in the channel.
* `StepDone` is the return of `run(step)` or `parkUntilFixed` without error with
  the scheduling of the next step; `AttemptFails` an attempt of the probe that the
  server will retry; `ProbeExhausted` its last one: stuck and parked, or the end of
  a canary probe; `Release` the receive in `parkUntilFixed`, the cancelled attempt
  and the new one; `ClearFault` the release batch (`recover.go`) reaching the order;
  `RunTimesOut` the run timeout of probes and of the orders a traffic split starts.
* Recovery is two actions, because the batch is one call that matches the orders
  running at that moment and then resets them at 50 a second. `RecoverMatches` is
  the query finding the order (`recovering` is the version it is to be pinned to);
  `Recover` is the reset, some time later and whatever has become of the order by
  then, with its Signals applied again. An order that completed or ran out of time
  in between is running again afterwards, and is served a second time. One batch
  at a time has the order to reset.
* A slow step is a failing one: it sleeps 45 s and its time to close is 30 s. Any
  attempt may fail for other reasons too (a lost worker). Failed attempts of a
  parked Activity change nothing and are left out.
* When the parked Activity's result and a Signal are both ready, either is taken.

`OrderContract` is what an order is owed: its version's steps, each once and in
order; or from the top of another version's, once for every recovery batch that
found it running (`recalled`), also when it is over by the time it is reset.
`Orders!KeepsPipeline` is the refinement.

`FaultContract` is the same order seen from the fault alone: it carries one or not,
parks on it, lets go of it, is over. A customer's order lets go of its fault only
by reading a clearFault Signal or by a restart, does not meet it again until it is
restarted, loses no Signal in a restart, and completes only without a fault. A
restart is announced while the order is alive (`recalled`) and may come when it is
over.
`Orders!KeepsFaultContract` is the refinement: an order carries a fault when its
attempt in force was told of it, or when it has not been released and a step it
has yet to take is broken (`Carries`).

### The traffic director (`StartOrders`, `Traffic`)

`StartOrders` is one Activity, attempt by attempt and order by order. A batch is
its request (`prefix`, `first`, `count`, `fault`, `split`), the orders it has yet to
try (`todo`), the count it would report (`ok`), the pause before its next order
(`wait`) and its `status`; `orders` are the IDs in use and `rerun` the IDs under
which a finished order was started a second time.

* `Starts`, `StartsAgain`, `FindsRunning` and `StartFails` are what a start of an ID
  may be answered: an ID still running passes for a start (`ExecuteWorkflow`) or is
  refused (the pinned start), one that has finished is run again. Whether the
  order of a used ID has finished is a choice. `BatchEnds` is the return, `AttemptFails` an
  attempt lost with its worker and the next one at the *whole* batch, or the end
  of the retries; `Notices` a cancelled attempt learning of it.
* Only a paced batch (`NextOut`, `Gap`) goes out in order and with pauses. A batch
  of one order takes no time at all (`activities.go:81`).

`Traffic` is the Workflow: one action from one wait to the next. `LoopStops`,
`LoopExpires`, `LoopIdles`, `LoopContinues` and `WindowBegins` are the head of the
loop, in the code's order; `WindowEnds`, `WindowFails`, `WindowChanged` the ready cases of
`runWindow`'s selector (it returns on the *first* batch that ends and cancels the
rest); `IdleChanged` the end of `waitForChange`. `SetRate`, `SetSplit`, `SetChaos`
and `Stop` are the Updates, each leaving a note in the buffered `changes` channel or
finding it full. `LoopContinues` keeps exactly what the new run's `Input` has.
`Ensure` is `trafficController.ensure`: a new director numbers its orders from the
beginning again (`base` remembers which batches are older). `QueueBurst` names a burst
after the millisecond it is asked for in, one of `Millis`, which may be another
burst's; a batch of it is `Refused` while one of the same name and number still
runs, and queuing may stop after any batch.

Simplifications:

* A minute is two windows, so that `ordersDue` carries a half; the code's minute
  has more. The carry is counted in half orders, a whole number.
* A burst's calls may reach the server at any time after its millisecond: in the
  code they are made at once, but nothing bounds how long they take.
* A start takes no time, so the orders of a paced batch are started in the order
  of their numbers; in the code each has a goroutine of its own, and a slow start
  may be overtaken. No property depends on that order.
* An attempt that the server has given up on starts nothing more; what it could
  still start, its retry starts as well.
* When the history is full is a choice: continue-as-new may happen at any head
  of the loop. Which version a split draws (`pickBuild`) and whether an order draws
  the fault are left out: nothing here depends on them.
* The touch of an operator who changes nothing is `SetRate` to the rate in force.

`TrafficContract` says what an operator may rely on: the settings are his, except
that the rate falls to zero past the deadline; every accepted change moves the
deadline and nothing else does; numbers are given out only while there is a rate
and before the deadline, and neither they nor the count go back. Continue-as-new,
interrupted windows and failed batches are stutters or steps of it.

### A fault's life (`FaultRepair`)

This module composes the four parts an injected fault passes through, each
reduced to what the fault can tell apart: the director is its setting (`chaos`)
and whether a batch with the fault is still being started (`stamped`), an order is
where it stands with the broken step (`carrying`, `parked`, `released`, `fine`). It
keeps in full what is peculiar to the composition:

* `Aim`, `Clear` and `ClearReleases` are `handleChaos`: the setting and the release
  batch are two calls, the second may fail and is only logged. `StopDirector` and
  `StartDirector`: a closed director still answers `getState` with the fault it had.
* A release batch is the set of orders running when it is made (`Matched`), and
  is delivered one order at a time (`Deliver`); orders started later are not in it.
* `PollBegins`, `ReadTraffic`, `ReadTotals` and `ReadFails` are a build: the director is
  asked only when somebody watches, a failed read leaves the last value, and the
  degraded count covers only orders since the counters' start. `Repairs` is
  `reconcileFaults`, with its interval (`due`) consumed also when the batch fails.
* `fresh` and `clear` are history variables for the property about them.

Its orders are not those of `Orders` but smaller ones. What ties the two together is
`FaultContract`: `FaultRepair!KeepsFaultContract` says that each of the orders here
keeps the contract that the order of `Orders` keeps. The contract allows more than
this module has of it: orders with a time to run, canary probes, restarts by
recovery, an order that is restarted with its fault. These are in `Orders` only
(`recalled` is false here).

### The backend's process (`Hub`, `Backend`)

`Hub` is `sse.go` and the handler of `/events`: subscribe and unsubscribe under the
write lock, a broadcast under the read lock with one non-blocking send per
channel, a channel closed outside the lock after it has left the map. A channel
is the number of payloads it buffers.

`Backend` adds the poll goroutine (`poll` is where it is in `build`, `refresh` and
`broadcast`), the snapshot being built and the one stored, and its readers.

* A snapshot is a record of what its parts were *read from*: the rollout as the
  controller answered, the counters' start with which totals and health were
  counted, and whether its array of versions is its `own` or `shared` with the
  previous snapshot (`ReadDeployment` failing). One part stands for those read in the same way.
* `HealthIsCached`, `HealthIsAsked`, `HealthIsRead` are the cache around
  VersionHealth: looked up, asked with the start of that moment, and stored
  whatever happened in between. `ResetSince` and `ResetCache` are the two halves of
  `resetCounters`, under two locks.
* `Attach` and `Sample` are the two places that write into data another snapshot
  may share; `held` says which array a handler is encoding from.
* `Restart` is the process ending anywhere and starting with nothing. The first
  snapshot is built and stored before HTTP is served.

`reconcileFaults`, at the end of a poll, is in `FaultRepair`. The throughput meter
and the contents of the sparklines are left out.

## 3. What is checked

| Run | Question | Result |
|---|---|---|
| `rollout` (`MCRollout.cfg`, `FairSpec`) | all safety, action and liveness properties of the coordinator, and the refinement | holds; 652 884 states |
| `rollout_jump` | is an accepted manual ramp ever lost to the promotion? | violated: a real bug |
| `rollout_abort` | can a promotion begin after an accepted abort? | violated: a real bug |
| `rollout_pause` | can a stage be left under an accepted pause? | violated: a real bug |
| `orders` (`MCOrders.cfg`, `FairSpec`) | safety, liveness and refinement of an order and a canary probe | holds; 109 423 states |
| `orders_clear` | does a cleared fault reach the next attempt? | violated: docs and code disagree |
| `traffic` (`MCTraffic.cfg`, `FairSpec`) | safety, liveness and refinement of the director, its batches and bursts | holds; 515 721 states |
| `traffic_stall` | does traffic nobody touches stop, at a rate below one order a window too? | violated: a real bug |
| `repair` (`MCFaultRepair.cfg`, `FairSpec`) | is every order parked on a fault that is gone found and released, and does a repair from freshly read traffic spare what the operator is breaking? | holds; 650 806 states |
| `backend` (`MCBackend.cfg`, `FairSpec`) | safety and liveness of poller, hub, cache and counters, through restarts and failed reads | holds; 697 068 states |
| `backend_stopped` | does a stopped rollout leave the dashboard? | violated: a real bug |
| `backend_shared` | does a reader ever encode what the poller is writing? | violated: a real bug |

The properties of `rollout`, each aimed at something in section 1:

* `GateBeforeTraffic`: no routing request of the coordinator takes effect while a
  probe has not passed.
* `RollbackRestores`: a rollout that reports `rolledBack` leaves every version
  the share it had, ambiguous promotes and half-done restores included. Two
  exemptions, both real: somebody else changed the routing, or there was no
  Current version to go back to (then the code cannot undo a promotion).
* `ShownShareIsReal`: `currentPct` is the candidate's real share during a hold
  and on completion.
* `NextRung`, `CompletedClimbedPlan`: the plan's percentages come in order, also
  after manual ramps up and down; nothing is promoted or completed with a
  percentage of the plan above the one reached.
* `AdvanceIsEarned`: a hold is left for the next stage only on `advance` or after
  the whole hold was served, pauses not counted; a tick that a sample in flight ran
  on under an accepted pause does count, as it does in the code (`rollout_pause` is
  what comes of it). Which hold an advance was meant for is not asked: one accepted
  before the hold began ends it, where `control.go:71` says "the current hold".
* `AbortEnds`, `JumpIsTaken`, `Finishes`: liveness of the operator's intent and
  of the rollout itself.
* `KeepsContract`: the refinement of the contract, late requests included.

`ShownShareIsReal` and `GateBeforeTraffic` say nothing of a rollout closed by its
execution timeout: its ramp stays, or moves by the one call still in flight, and
nobody watches it. That is `KeepsContract`'s to bound, and no property condemns it.

The properties of `orders`:

* `KeepsPipeline`: the refinement; nothing is skipped or served twice by retries,
  cancellation or release, and no step fails a customer's order. A reset serves it
  again from the top, also when it had completed: once for each recovery batch that
  found it running.
* `DegradedIffParked`: the mark that the stuck counts, the health samples, recovery
  and the repair read is on an order exactly while it is parked.
* `PoisonedProbeFails`, `ProbeEnds`: a probe never completes over a fault it
  carries, and always ends, without waiting for its run timeout.
* `ReleasedOrderFinishes`: one clearFault Signal is enough, whenever it arrives.
* `StuckOrderIsHeard`: the safety half of `ReleasedOrderFinishes`; an order stuck on its
  fault has every Signal it was sent still to read, those that came before it
  was stuck or before a reset included.
* `KeepsFaultContract`: the refinement of `FaultContract`; a fault that was lifted does
  not come back with a later step, a retry or a cancelled attempt.

The properties of `traffic`:

* `IdsAreUnique`: no two batches of a director share an order ID, through interrupted
  windows, several batches to a window and continue-as-new. Two batches of bursts
  do only if they are of the same millisecond and have the same number, and then
  never while both run. An order runs twice only if its batch was retried, if an
  earlier director numbered it, or if two bursts were asked for in one millisecond.
  All three happen, and the exemptions are exactly these; the property says less
  than the comments at `burst.go:75` and `burst.go:97`, see below.
* `WindowIsCurrent`: whatever is still being started and was not told to stop was made
  under the settings in force, or the loop has a note to leave the window. A
  full channel is no lost wake-up.
* `IdleIsMeant`: a director that waits with no note in its channel has no rate to serve
  and no stop to obey. With `WindowIsCurrent`, which says the same of a window, this is
  the safety half of `StopEnds`.
* `CountedOrdersExist`, `StartedIsReal`: a batch's report, and the count on the
  dashboard, never exceed the orders there are, however often a batch was retried.
* `StopEnds`, `AbandonedTrafficStops`, `WindowsEnd`: an accepted stop ends the
  director; an unattended one stops its traffic or stalls in a window that came out
  without orders, which takes a rate below one order a window (`traffic_stall` asks
  for the stop and does not get it); and a window is left whatever becomes of its
  batches, if the rate has an order for every window.
* `KeepsContract`: the refinement of `TrafficContract`.

The properties of `repair`:

* `NothingStaysParked`: an order parked while no fault is aimed leaves that state, or the
  fault returns, nobody watches, or the counters do not reach back to it. The
  last two exemptions are the code's limits, see below.
* `RepairFollowsClear`: a repair made from traffic that was read for its snapshot
  comes after a moment of that poll at which no fault was aimed.
* `KeepsFaultContract`: each order keeps `FaultContract`, as the order of `Orders` does.

The properties of `backend`:

* `ChannelsAreOpen`: no send to a closed channel, which would end the process.
* `PollsGoOn`: a tab that never receives cannot hold up the poller.
* `CountsFollowReset`: totals and health shown settle on the counters' start last asked
  for, although an answer to the question before may be cached after the reset.
* `LiveRolloutIsKept`: failed reads and viewers leaving do not make a live
  rollout vanish.
* `ScalesToZero`: with nobody looking, the reads that wake the control worker end.

Bounds (`MCRollout.cfg`). Three versions: the candidate, the one that is Current
and one with a ramp of its own. Three inputs: a gated two-stage plan with a
timed hold of two ticks, so that a sample, a wait and a pause fit in every order;
the same plan ungated, without promotion and without rollback; and a one-stage
plan that stays below 100 with an indefinite hold. Three starting routings,
including the candidate already ramping and already Current (whose ramp the
server refuses). Two probes: enough for "all" to differ from "any". Manual ramps
to 0 and 100: below the first stage and at the last. Two attempts per Activity
instead of three and five: one failure and one last failure; more only repeat.
`MaxPause` cuts a pause at one tick of followed time (longer pauses move `left`
and the deadline by the same amount), and the routing is meddled with once.
`CHECK_DEADLOCK FALSE` because a finished rollout stops for good.

Bounds (`MCOrders.cfg`): all five versions; faults on a first, a middle and a last
step and on one only its version has, and none; three attempts, as in the code;
two Signals (one left over after the first released the order) and two recoveries
(so that an order can come back to the version that broke it).

Bounds (`MCTraffic.cfg`): two orders to a batch and rates of one, three and six a minute,
so that a window has no order, one order, one full batch with the carry, or two
concurrent batches of which one outlives the other; the clock goes to three with a deadline
two ticks off, so that the deadline passes with and without being moved; a
channel for one note, so that the second finds it full; two attempts at a paced
batch; bursts of two orders, all of one millisecond, so that a second burst shares
the names of the first. `MaxBatches` = 2 allows one window of two batches, two
successive windows, a window and a burst, or two bursts. `MaxEvents` = 4 is shared by operators'
requests, failures and continue-as-new: enough for a start, a rate, a change and
a failure. No fault value is needed beside a split: both settings take the same way.
`MCTrafficStall.cfg` has the rate of one order a minute alone.

Bounds (`MCFaultRepair.cfg`): two orders, one started before and one after a clear or
a batch; four events: aim, clear, a viewer who comes to watch, and one failed batch
or read, reset or restart more.

Bounds (`MCBackend.cfg`): one tab with a channel for one payload (the second send
finds it full), one script; a health reading is reused for two ticks, so that it
can be reused and then expire; three events, such as a reset with a failed read
before and after it, or a restart between. These are also the bounds of the two
violated runs.

Fairness in `Traffic`: weak fairness of the director's Workflow tasks (`Direct`), of the
clock, and of the Activities (`Activity`: a worker polls, and an attempt ends in one of
its ways); none of operators. Operators' acts and failures are bounded by
`MaxEvents`, so "in the end" means after the last of them.

Fairness in `FaultRepair`: the poller, the interval, the clear handler's second call,
the batches in flight, the server's delivery, and each step of an order (a worker
takes it). None of operators, viewers, or of the start of an order.

Fairness in `Backend`: weak fairness of the poll goroutine, of time, of a handler
that is encoding, of the second half of a reset and of closing a channel. Strong
fairness of `Unsubscribe`: it needs the write lock, free only between broadcasts,
and Go's RWMutex lets no reader pass a waiting writer. None of a tab's
receiving or leaving.

Fairness in `Orders`: of the Activity in force (a worker takes each attempt in the
end and it ends) and of the reading of a Signal by a parked order; none of
operators and of the run timeout.

Fairness in `Rollout`: weak fairness of the coordinator (a worker polls its task queue, and a
ready blocking call stays ready), of the server and the Activities' timeouts
(`Worker`), and of time (`Tick`). None of operators, of the manual calls or of the
execution timeout. `Finishes` is conditional: a rollout left paused or in an
indefinite hold may wait for ever, by design.

### What the violated runs show

* **A second manual ramp can promote.** `setRamp 100` moves `StageIndex` to the
  end of the plan. A further `setRamp 10`, acknowledged during that hold, ends the
  hold with `outcomeManual`; the loop guard (`workflow.go:83`) is tested before
  the jump is looked at, fails, and the candidate becomes Current. The comment at
  `control.go:99` promises the rollout "holds there".
* **An abort can be followed by a promotion.** After a sample, the end of the
  hold (`workflow.go:246`) is taken without looking at the flags again. An abort
  accepted while the last stage's last sample was in flight is overtaken. In every
  earlier stage it is only delayed (`AbortEnds` holds).
* **A stage can be left while paused.** The same line, and the deadline: it is moved
  for the time spent in the pause's wait, which begins when the head of the loop
  sees the pause. A pause accepted while a sample is in flight lets the clock run
  until the sample returns, and if the hold is over by then the next ramp is set.
  `control.go:45` ("freezes the stage clock") and `workflow.go:200` ("the stage does
  not progress") promise otherwise.
* **A cleared fault does not reach the retries of a probe.** The Activity's input
  is built once per step, and the Signal is read only by parked orders; the comments
  at `types.go:117` and `workflow.go:179` promise the next attempt.
* **Slow traffic never stops itself.** A window without an order starts no Activity,
  and the selector of `runWindow` has nothing to wait for but an operator's change. At
  one order a minute the director waits there past its deadline with the rate
  still set, and starts no order either; `types.go:60` promises an end to traffic
  nobody touches, and `workflow.go:84` that such rates average out.
* **A stopped rollout is shown as running for ever.** `rolloutController.state` answers
  nil for a coordinator that was closed without completing, "which is also the
  honest answer" (`controllers.go:153`); `build` takes any nil for a failed read and
  carries the previous snapshot's rollout forward (`snapshot.go:319`). After the
  coordinator is terminated, fails or times out while a snapshot shows it, the
  page presents it as live until the backend restarts.
* **Readers share data with the poller.** The snapshot is replaced as a whole, but
  `WorkersByVersion` of its history is one map for all snapshots
  (`snapshot.go:342`), and after a failed Describe the array of versions is the
  previous snapshot's, and both are written in place while handlers encode
  the stored snapshot. A map iterated and written at once ends a Go process.

### Also seen while modelling

Behaviour the models have and no property condemns, because nothing in the
source promises otherwise or the exemption is written into the property:

* An abort with `rollback: true` leaves the routing as it is in a rollout started
  without `RollbackOnFailure`: `rollback()` asks for that flag of operators' aborts
  as well (`workflow.go:282`), although `control.go:32` says it restores the routing
  and `types.go:115` speaks of failures. One flag against another; no run is spent
  on it.
* An advance is a flag that stays set until a hold reads it: accepted during the
  gate, a SetRamp or a hold's last sample, it ends the *next* hold, although
  `control.go:71` says "the current hold".
* A rollout closed by its execution timeout may still have one routing call land, and
  leaves its ramp to itself (`controllers.go:262`).
* A recovery batch serves an order again that completed after it was matched
  (`recover.go:118`).
* Orders started by a traffic split have a run timeout of two hours
  (`activities.go:230`), which closes a parked order too; the comment at
  `orders/workflow.go:131` has it that a stuck order is not lost, the one at
  `activities.go:229` that it shall not live forever.
* Every Signal of the repair cancels the attempt in force, also a clean one still
  waiting for a worker (`orders/workflow.go:236`): with a backlog longer than the
  repair's interval an order may not get past its step.
* Two bursts of one millisecond have the same order and batch IDs (`burst.go:78`),
  against the comment at `burst.go:75`: the second is refused while a batch of the
  first of the same number runs, and afterwards runs the first one's orders again.
* Batches of one order take no time, so the director goes on to the next
  window at once; *n* orders take *n* - 1 pauses (`activities.go:81`). Neither is
  the rate asked for.
* A retried batch of the stream or of a burst starts all its orders again: those that have completed run a
  second time (`activities.go:60`), against the comment at `burst.go:97`.
* A director started anew numbers its orders from the beginning
  (`controllers.go:83`).
* With nobody watching, or after a failed read, the repair decides on an old
  fault setting, and may release orders of a fault that is aimed (`recover.go:281`).
* A counter reset hides the orders parked before it from the repair
  (`recover.go:261`).
* A closed director that had a fault answers with it for ever, so nothing parked
  is repaired until another is started.
* A split is refused while a rollout runs and a rollout while a split is set, by a
  check before the call (`handlers.go:112`): two requests at once pass both. The
  bootstrap's look and promote are two steps too (`bootstrap.go:23`).

## 4. What is proved

`RolloutProofs`, for every plan, set of probes, starting routing, retry limit and
interval, from the named assumptions in `Routing` and `Rollout` (what a plan, a
routing record and a percentage are; nothing about sizes):

* `TypeCorrect`: `Spec => []TypeOK`. `TypeOK` is not inductive: a hold that ends
  adds one to `stageIndex`, which stays within the plan only because a *planned*
  stage being applied or held is a stage of the plan (`StageBound`), while a
  manual ramp may stand at the end of it. The lemma `FirstStageAboveSplits` says
  what `firstStageAbove` returns; it rests on `LeastElement` (every finite
  nonempty set of integers has a least element), proved by counting, since the
  library's induction theorems cannot be used.
* `GateFirst`: `Spec => GateBeforeTraffic`, from `GateInv` (past the gate, every
  probe has passed); `LeavingProving` says how the goroutine gets past the gate.
* `Implements`: `Spec => KeepsContract`: initial states map to initial states,
  and each action to an action of the contract or to a stutter, with `GateInv` for
  the step into *exposing*, `RequestsType` for the routing calls and `OrphanInv`
  (nothing is left to land before the close) for the late ones.

`LadderProofs` and `ShareProofs` go on from the same assumptions; with them every
safety and action property of the run `rollout` is a theorem.

* `HoldsAreServed`: `Spec => AdvanceIsEarned`. The property compares `dwell` with the
  hold at the one moment the hold ends, so the invariant has to carry it through:
  in a timed hold, `left + pausedFor + dwell + overrun >= Hold` (`DwellInv`). A tick
  moves one from `left` to `dwell`, or to `overrun` if a pause was accepted that the
  loop has not seen yet; a tick of a pause goes to `pausedFor`, and `Unpause` gives
  it back to `left`, as the code moves its deadline.
* `RungsInOrder`: `Spec => []NextRung`, from `LadderInv`: the percentage shown *splits*
  a rising plan at `stageIndex`, stages up to it asking for at most that much and
  later ones for at least that much. While a manual ramp is being set, the
  percentage asked for is the one that splits. `ManualSplits` is what
  `FirstStageAboveSplits` gives for a manual ramp, `EndStageSplits` what the end of a
  hold does. The property alone is not inductive: it says nothing between two ramps.
* `CompletionIsEarned` (`CompletedClimbedPlan`) is `LadderInv` at the end of the plan,
  with `ShareInv` for who is Current.
* `ShownIsReal`: `Spec => []ShownShareIsReal`, from `ShareInv`: from the moment SetRamp has
  been executed the candidate ramps at the percentage shown; a promotion that was
  executed and reported as failed is either not there or complete, which is why
  the promotion's own retries and the ClearRamp after it do no harm.
* `RollbackIsExact`: `Spec => []RollbackRestores`, from `RestoreInv`: how far the second
  attempt or the hundredth has come in RestoreRouting's two requests, the first
  leaves the saved version Current and the second the saved ramp or none
  (`RestoreFirst`, `RestoreSecond`), whatever the routing was before.

`OrderProofs`, for any set of faults, served versions and bounds:

* `TypeCorrect`, `MarkIsTrue` (`DegradedIffParked`), `PoisonIsCaught`
  (`PoisonedProbeFails`) and `Implements` (`KeepsPipeline`), all from `OrderInv`: the
  step in force is as many steps down the pipeline as have been served; a canary
  probe never parks and never drops its fault; it was told of the fault of the step
  in force, and no step before that one has it. None of the four is inductive
  alone: the refinement needs the count of the steps served, the mark needs that
  no probe parks, and the poisoned probe needs both its attempt and its past. The
  refinements are of an order that a late reset may start again after its end.
* `FaultStaysLifted`: `Spec => KeepsFaultContract`, from `ToldTheTruth` as well: the attempt
  in force was told exactly of the fault that its step has, and of none once the
  order was released.
* `SignalsAreKept` (`StuckOrderIsHeard`), from that and `UnreadUntilCleared`: an order that
  has not set its fault aside has read no Signal since it began or was reset.

`TrafficProofs`, for every rate, window, batch size, channel and bound, from
`BatchAssumption` and `TrafficAssumption`:

* `IdleMeant` (`IdleIsMeant`): the property is inductive with the size of the channel.
* `TypeCorrect` and `WindowCurrent` (`WindowIsCurrent`), from `TypeInv`, which says of each
  batch that it is a request with its attempt. The lemmas `ChunksFollow` and
  `ChunksApart` say that the batches made of *n* orders hold consecutive,
  disjoint ranges within *n*.
* `UniqueIds` (`IdsAreUnique`) needs more: `Named` (only the director's batches have
  the stream's name), `Numbered` (a director's numbers lie below `nextSeq`) and
  `Apart` (the stream's batches of one director are disjoint), together `NumbersInv`.
  Bursts may share their names, so there the proof is about how they are cut:
  every burst is cut into batches from its first order on (`Cut`), so two batches of
  one name overlap only where they begin (`CutAlike`), and the server refuses the
  second while the first runs (`Alone`); together `BurstsInv`. For the reruns
  `OrdersInv`: every ID in use traces to a batch that has tried it (`Traced`), a
  rerun has its excuse (`Excused`).
* `CountedExist` (`CountedOrdersExist`) and `CountReal` (`StartedIsReal`) count
  sets: of the orders a batch has tried, as many exist as it counts, and the
  director's count is covered by the stream's orders outside the window in force,
  to which a window adds its own when it is left (`CountsInv`, `Past`). Cardinalities come from the library's theorems.
* `Implements` (`KeepsContract`): each action is one of the contract's or a stutter.

`RepairProofs`, for any set of orders: `TypeCorrect` and `RepairSparesAimed`
(`RepairFollowsClear`), from `ClearInv`: if no fault is aimed, or a fresh snapshot says so,
there was such a moment in this poll. `OrdersKeepFaultContract`: a step of the
composition is, for each order, a step of `FaultContract` or a stutter. With
`FaultStaysLifted` this is what entitles `FaultRepair` to its smaller orders.

`BackendProofs`, for any tabs, buffers and lifetimes: `TypeCorrect`; `NoSendOnClosed`
(`ChannelsAreOpen`) from `HubInv`: the lock is held as long as anything is left to
send to, what is left is in the hub, and a tab leaves it only under the lock; and
`RolloutStaysShown` (`LiveRolloutIsKept`): what a build has of the rollout, once the
stored snapshot has one, is never nil.

Only model-checked: all liveness properties (`AbortEnds`, `JumpIsTaken`, `Finishes`,
`ProbeEnds`, `ReleasedOrderFinishes`, `StopEnds`, `AbandonedTrafficStops`, `WindowsEnd`,
`NothingStaysParked`, `PollsGoOn`, `CountsFollowReset`, `ScalesToZero`), because fairness
and ENABLED are out of the prover's reach. Every invariant and action property of
every passing run, and every refinement, is stated by a theorem.

## 5. Plan

In this order; each item with its MC module, its properties and its mutants.

1. **Done**: `Routing`, `Rollout`, `RolloutContract`, `RolloutProofs`.
2. **Done**: `Orders`, `OrderContract`, `OrderProofs`.
3. **Done**: `FaultRepair`, `RepairProofs`: director, orders, release batches and
   reconciler composed around one fault.
4. **Done**: `StartOrders`, `Traffic`, `TrafficContract`, `TrafficProofs`.
5. **Done**: `Hub`, `Backend`, `BackendProofs`: snapshots, hub, cache and counters.
6. **Done**: `LadderProofs`, `ShareProofs`: every safety property of the coordinator;
   `FaultContract` and its two refinements: the safety part of the release protocol.
   Also `StuckOrderIsHeard` and `IdleIsMeant`, the safety that two liveness properties rest
   on. Left of the proofs: the same for the other liveness properties, such as that
   a parked order counted as degraded is matched by every release batch made while
   it is parked.
7. A small module of the control requests: the start of a rollout against a
   split and against another rollout, and the bootstrap, if the source comes to
   promise something of their races.

Not modelled, and why:

* the metrics reader's queries: read-only figures. Their verdict is a choice in
  `Rollout`; the totals are counted in `FaultRepair`;
* the label cache and `PublishLabel` of the deployment client: names for display;
* the bootstrap and the check of a split against a rollout: single reads followed
  by a call, whose races nothing in the source excludes (above);
* the throughput meter and the sparklines: arithmetic on displayed figures;
* `syncmatch`, Lambda tuning, configuration, secrets, `cmd/*`: parsing and wiring at
  start-up, no behaviour over time;
* the page and the deployment files.

## 6. Running

    tlc -workers 2 -config MCRollout.cfg MCRollout
    tlc -workers 2 -config MCOrders.cfg MCOrders
    tlc -workers 2 -config MCTraffic.cfg MCTraffic
    tlc -workers 2 -config MCFaultRepair.cfg MCFaultRepair
    tlc -workers 2 -config MCBackend.cfg MCBackend

The runs that are violated: `MCRolloutJump.cfg`, `MCRolloutAbort.cfg` and
`MCRolloutPause.cfg` with `MCRollout`, `MCOrdersClear.cfg` with `MCOrders`,
`MCTrafficStall.cfg` with `MCTraffic`, `MCBackendStopped.cfg` and
`MCBackendShared.cfg` with `MCBackend`. The proofs:

    tlapm RolloutProofs.tla
    tlapm LadderProofs.tla
    tlapm ShareProofs.tla
    tlapm OrderProofs.tla
    tlapm TrafficProofs.tla
    tlapm RepairProofs.tla
    tlapm BackendProofs.tla
