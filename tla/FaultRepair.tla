------------------------------ MODULE FaultRepair ------------------------------
(***************************************************************************)
(* The life of an injected fault across the system.  The director keeps    *)
(* the setting and stamps it into the batches it makes; orders carry it in *)
(* their input and park on it; the backend clears it, releases the orders  *)
(* that run with a batch of Signals, and from each snapshot it polls       *)
(* decides whether orders are left parked on a fault that is gone.         *)
(*                                                                         *)
(* Traffic and Orders model the director and an order in full.  Here the   *)
(* director is its setting and whether a batch with the fault is in        *)
(* flight, and an order is where it stands with the step that is broken.   *)
(* The snapshot under construction is not told apart from the one stored.  *)
(***************************************************************************)
EXTENDS Naturals, FiniteSets

CONSTANTS
  OrderIds,    (* Orders that may be started.                              *)
  MaxEvents    (* Bound: what operators and viewers do, and calls failing. *)

ASSUME RepairAssumption == IsFiniteSet(OrderIds) /\ MaxEvents \in Nat

VARIABLES
  director,   (* never, running or closed                                  *)
  chaos,      (* Its answer to getState: is a fault aimed?                 *)
  stamped,    (* A batch that carries the fault is being started.          *)
  order,      (* Where each order stands with the broken step.             *)
  signalled,  (* It has a clearFault Signal it has not read.               *)
  counted,    (* It was started after the counters' start.                 *)
  batch,      (* Orders release batches have matched and not signalled.    *)
  clearing,   (* The clear handler has the setting changed, no more yet.   *)
  watched,    (* Somebody looks at the dashboard.                          *)
  poll,       (* Is the poller idle, or busy with a snapshot?              *)
  reads,      (* Reads it waits for.                                       *)
  snap,       (* What the snapshot says of the fault and of parked orders. *)
  due,        (* reconcileInterval has passed since the last repair.       *)
  fresh,      (* History: this snapshot's traffic was read for it.         *)
  clear,      (* History: no fault was aimed at some time of this poll.    *)
  events      (* What has been done and has failed.                        *)

injection == <<director, chaos, stamped>>
orders == <<order, signalled, counted>>
release == <<batch, clearing>>
poller == <<poll, reads, snap, due, fresh>>
vars == <<injection, orders, release, watched, poller, clear, events>>

OrderStates == {"none", "carrying", "parked", "released", "fine", "done"}

(* Being released does not undo the degraded mark, passing the step does.  *)
Running(o) == order[o] \notin {"none", "done"}
Degraded(o) == order[o] \in {"parked", "released"}

Event == events < MaxEvents /\ events' = events + 1

Init ==
  /\ director = "never" /\ chaos = FALSE /\ stamped = FALSE
  /\ order = [o \in OrderIds |-> "none"]
  /\ signalled = [o \in OrderIds |-> FALSE] /\ counted = [o \in OrderIds |-> FALSE]
  /\ batch = {} /\ clearing = FALSE
  /\ watched = FALSE
  /\ poll = "idle" /\ reads = {} /\ snap = [chaos |-> "unknown", degraded |-> FALSE]
  /\ due = TRUE /\ fresh = FALSE /\ clear = TRUE /\ events = 0

-----------------------------------------------------------------------------
(* Mutant: the director is not started first.                              *)
AimUnstarted ==
  /\ Event
  /\ chaos' = TRUE
  /\ UNCHANGED <<director, stamped, orders, release, watched, poller, clear>>
(* Aiming starts a director if there is none; the fault is in the orders   *)
(* of every window from now on.                                            *)
Aim ==
  /\ Event
  /\ director' = "running" /\ chaos' = TRUE
  /\ UNCHANGED <<stamped, orders, release, watched, poller, clear>>

(* Clearing changes the setting first, which ends the window in force ...  *)
Clear ==
  /\ Event /\ ~clearing
  /\ director' = "running" /\ chaos' = FALSE
  /\ clearing' = TRUE /\ clear' = TRUE
  /\ UNCHANGED <<stamped, orders, batch, watched, poller>>

(* releaseStuckOrders: a batch matches every order that runs at the time.  *)
Matched == batch \cup {o \in OrderIds : Running(o)}

(* ... and releases orders second; a batch that cannot be started is only  *)
(* logged.                                                                 *)
ClearReleases ==
  /\ clearing
  /\ clearing' = FALSE
  /\ \/ batch' = Matched /\ UNCHANGED events
     \/ batch' = batch /\ Event
  /\ UNCHANGED <<injection, orders, watched, poller, clear>>

(* A director that is stopped still answers with the fault it had; a new   *)
(* one has none.                                                           *)
StopDirector ==
  /\ Event /\ director = "running"
  /\ director' = "closed"
  /\ UNCHANGED <<chaos, stamped, orders, release, watched, poller, clear>>

StartDirector ==
  /\ Event /\ director # "running"
  /\ director' = "running" /\ chaos' = FALSE /\ clear' = TRUE
  /\ UNCHANGED <<stamped, orders, release, watched, poller>>

(* The director makes a window with the fault in force.                    *)
Stamp ==
  /\ director = "running" /\ chaos /\ ~stamped
  /\ stamped' = TRUE
  /\ UNCHANGED <<director, chaos, orders, release, watched, poller, clear, events>>

(* A burst is stamped with the fault the last snapshot knows of.           *)
QueueBurst ==
  /\ Event /\ snap.chaos = "aimed" /\ ~stamped
  /\ stamped' = TRUE
  /\ UNCHANGED <<director, chaos, orders, release, watched, poller, clear>>

(* The last batch with the fault ends, or learns that it was cancelled.    *)
Unstamp ==
  /\ stamped
  /\ stamped' = FALSE
  /\ UNCHANGED <<director, chaos, orders, release, watched, poller, clear, events>>

-----------------------------------------------------------------------------
(* An order is started, with the fault if its batch has it and it is drawn.*)
StartOrder(o) ==
  /\ order[o] = "none"
  /\ \/ order' = [order EXCEPT ![o] = "fine"]
     \/ stamped /\ order' = [order EXCEPT ![o] = "carrying"]
  /\ counted' = [counted EXCEPT ![o] = TRUE]
  /\ UNCHANGED <<injection, signalled, release, watched, poller, clear, events>>

(* Mutant: a step whose attempt was cancelled parks on the fault again.    *)
ParkAgain(o) ==
  /\ order[o] \in {"carrying", "released"}
  /\ order' = [order EXCEPT ![o] = "parked"]
  /\ UNCHANGED <<injection, signalled, counted, release, watched, poller, clear, events>>

(* The broken step has used up its attempts.                               *)
Park(o) ==
  /\ order[o] = "carrying"
  /\ order' = [order EXCEPT ![o] = "parked"]
  /\ UNCHANGED <<injection, signalled, counted, release, watched, poller, clear, events>>

(* A Signal is read while the step is parked: the fault is set aside and   *)
(* the attempt in force cancelled, also when it is one without the fault.  *)
Unpark(o) ==
  /\ order[o] \in {"parked", "released"} /\ signalled[o]
  /\ order' = [order EXCEPT ![o] = "released"]
  /\ signalled' = [signalled EXCEPT ![o] = FALSE]
  /\ UNCHANGED <<injection, counted, release, watched, poller, clear, events>>

(* A worker takes the step without the fault, and it passes.              *)
Pass(o) ==
  /\ order[o] = "released"
  /\ order' = [order EXCEPT ![o] = "fine"]
  /\ UNCHANGED <<injection, signalled, counted, release, watched, poller, clear, events>>

Complete(o) ==
  /\ order[o] = "fine"
  /\ order' = [order EXCEPT ![o] = "done"]
  /\ signalled' = [signalled EXCEPT ![o] = FALSE]
  /\ UNCHANGED <<injection, counted, release, watched, poller, clear, events>>

(* The server signals the orders of a batch one by one.                    *)
Deliver(o) ==
  /\ o \in batch
  /\ batch' = batch \ {o}
  /\ signalled' = [signalled EXCEPT ![o] = Running(o)]
  /\ UNCHANGED <<injection, order, counted, clearing, watched, poller, clear, events>>

OrderStep(o) ==
  StartOrder(o) \/ Park(o) \/ Unpark(o) \/ Pass(o) \/ Complete(o) \/ Deliver(o)

-----------------------------------------------------------------------------
(* Viewers come and go.                                                    *)
Watch ==
  /\ Event
  /\ watched' = ~watched
  /\ UNCHANGED <<injection, orders, release, poller, clear>>

(* The counters are narrowed to orders started from now on, or widened.    *)
ResetCounters ==
  /\ Event
  /\ \E all \in BOOLEAN : counted' = [o \in OrderIds |-> all /\ order[o] # "none"]
  /\ UNCHANGED <<injection, order, signalled, release, watched, poller, clear>>

(* A snapshot is begun.  The director is only asked if somebody watches.   *)
PollBegins ==
  /\ poll = "idle"
  /\ poll' = "busy"
  /\ reads' = IF watched THEN {"traffic", "totals"} ELSE {"totals"}
  /\ fresh' = FALSE /\ clear' = ~chaos
  /\ UNCHANGED <<injection, orders, release, watched, snap, due, events>>

ReadTraffic ==
  /\ "traffic" \in reads /\ director # "never"
  /\ reads' = reads \ {"traffic"}
  /\ snap' = [snap EXCEPT !.chaos = IF chaos THEN "aimed" ELSE "none"]
  /\ fresh' = TRUE
  /\ UNCHANGED <<injection, orders, release, watched, poll, due, clear, events>>

(* Mutant: a single order is overlooked.                                   *)
ReadTotalsOfSeveral ==
  /\ "totals" \in reads
  /\ reads' = reads \ {"totals"}
  /\ snap' = [snap EXCEPT !.degraded =
                \E o, p \in OrderIds : o # p /\ Degraded(o) /\ Degraded(p) /\ counted[o] /\ counted[p]]
  /\ UNCHANGED <<injection, orders, release, watched, poll, due, fresh, clear, events>>
(* Totals counts the degraded orders started since the counters' start.    *)
ReadTotals ==
  /\ "totals" \in reads
  /\ reads' = reads \ {"totals"}
  /\ snap' = [snap EXCEPT !.degraded = \E o \in OrderIds : Degraded(o) /\ counted[o]]
  /\ UNCHANGED <<injection, orders, release, watched, poll, due, fresh, clear, events>>

(* A read that fails leaves what the previous snapshot had.                *)
ReadFails ==
  /\ \E r \in reads :
       /\ reads' = reads \ {r}
       /\ IF r = "traffic" /\ director = "never" THEN UNCHANGED events ELSE Event
  /\ UNCHANGED <<injection, orders, release, watched, poll, snap, due, fresh, clear>>

(* Mutant: the fault setting is not looked at.                             *)
NeedsFaultRepairAlways == snap.chaos # "unknown" /\ snap.degraded
NeedsFaultRepair == snap.chaos = "none" /\ snap.degraded

(* reconcileFaults, at the end of every poll.  The interval starts anew    *)
(* also when the batch cannot be started.                                  *)
Repairs ==
  /\ poll = "busy" /\ reads = {}
  /\ NeedsFaultRepair /\ due
  /\ poll' = "idle" /\ due' = FALSE
  /\ \/ batch' = Matched /\ UNCHANGED events
     \/ batch' = batch /\ Event
  /\ UNCHANGED <<injection, orders, clearing, watched, reads, snap, fresh, clear>>

LeavesAlone ==
  /\ poll = "busy" /\ reads = {}
  /\ ~(NeedsFaultRepair /\ due)
  /\ poll' = "idle"
  /\ UNCHANGED <<injection, orders, release, watched, reads, snap, due, fresh, clear, events>>

IntervalPasses ==
  /\ ~due
  /\ due' = TRUE
  /\ UNCHANGED <<injection, orders, release, watched, poll, reads, snap, fresh, clear, events>>

Poller ==
  PollBegins \/ ReadTraffic \/ ReadTotals \/ ReadFails \/ Repairs \/ LeavesAlone

Operator ==
  Aim \/ Clear \/ StopDirector \/ StartDirector \/ QueueBurst \/ Watch \/ ResetCounters

Next ==
  \/ Operator \/ ClearReleases \/ Stamp \/ Unstamp
  \/ Poller \/ IntervalPasses
  \/ \E o \in OrderIds : OrderStep(o)

Spec == Init /\ [][Next]_vars

(* The poller, the handler and the server go on, and calls fail a bounded  *)
(* number of times.  Nothing obliges an operator, or an order to start.    *)
(* The interval is long compared with a step: Signals do not keep an order *)
(* from passing one.                                                       *)
Fairness ==
  /\ WF_vars(Poller) /\ WF_vars(IntervalPasses) /\ WF_vars(ClearReleases) /\ WF_vars(Unstamp)
  /\ \A o \in OrderIds :
       WF_vars(Park(o)) /\ WF_vars(Unpark(o)) /\ WF_vars(Pass(o)) /\ WF_vars(Complete(o))
       /\ WF_vars(Deliver(o))

FairSpec == Spec /\ Fairness

-----------------------------------------------------------------------------
(* Types.  A snapshot waits for reads only while it is being made, and has *)
(* fresh traffic only if the director could be asked.                      *)
TypeOK ==
  /\ director \in {"never", "running", "closed"} /\ chaos \in BOOLEAN /\ stamped \in BOOLEAN
  /\ (director = "never" => ~chaos)
  /\ order \in [OrderIds -> OrderStates]
  /\ signalled \in [OrderIds -> BOOLEAN] /\ counted \in [OrderIds -> BOOLEAN]
  /\ \A o \in OrderIds : signalled[o] => Running(o)
  /\ batch \subseteq OrderIds /\ clearing \in BOOLEAN /\ watched \in BOOLEAN
  /\ poll \in {"idle", "busy"} /\ reads \subseteq {"traffic", "totals"}
  /\ (poll = "idle" => reads = {})
  /\ snap \in [chaos : {"unknown", "none", "aimed"}, degraded : BOOLEAN]
  /\ due \in BOOLEAN /\ fresh \in BOOLEAN /\ clear \in BOOLEAN
  /\ (fresh => snap.chaos # "unknown")

(* The reconciler's own statement: no order stays parked on a fault that   *)
(* is no longer configured, also when it was started after the clear by a  *)
(* window planned before, or parked after the release batch had passed.    *)
(* It needs somebody watching, or the setting is not read, and counters    *)
(* that reach back to the order.                                           *)
NothingStaysParked ==
  \A o \in OrderIds :
    (order[o] = "parked" /\ ~chaos)
      ~> (order[o] # "parked" \/ chaos \/ ~watched \/ ~counted[o])

Stand(o) ==
  CASE order[o] = "none" -> "none"
    [] order[o] = "carrying" -> "carried"
    [] order[o] = "parked" -> "parked"
    [] order[o] \in {"released", "fine"} -> "gone"
    [] order[o] = "done" -> "over"

FaultLife(o) == INSTANCE FaultContract WITH
  customer <- TRUE, limited <- FALSE, fault <- Stand(o), recalled <- FALSE,
  signal <- signalled[o]

(* Each of the customers' orders of this module does with the fault what   *)
(* the order of module Orders does: both keep FaultContract.               *)
KeepsFaultContract ==
  /\ \A o \in OrderIds : FaultLife(o)!Init
  /\ [][\A o \in OrderIds : [FaultLife(o)!Next]_(FaultLife(o)!faultVars)]_vars

(* A repair of orders from a snapshot whose traffic was read for it spares *)
(* what the operator is breaking on purpose: the fault was off at some     *)
(* time since the snapshot was begun.                                      *)
RepairFollowsClear == [][due /\ ~due' /\ fresh => clear]_vars
=============================================================================
