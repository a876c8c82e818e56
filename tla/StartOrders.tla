------------------------------ MODULE StartOrders ------------------------------
(***************************************************************************)
(* internal/traffic: a batch of customer orders and the StartOrders        *)
(* Activity that starts them, in attempts, one Workflow start per order.   *)
(* The director's batches are paced over a window and can be cancelled;    *)
(* a burst's go out at once and are left to the server.                    *)
(*                                                                         *)
(* What becomes of an order once it runs is module Orders.  Here a start   *)
(* of an ID that was used before finds that order running or finished, as  *)
(* it happens.  An attempt the server has given up on starts nothing more: *)
(* what it could still start, the next attempt starts as well.             *)
(***************************************************************************)
EXTENDS Integers, FiniteSets

CONSTANTS
  OrdersPerActivity,  (* Most orders of one batch.                         *)
  Window,             (* Ticks one window covers.                          *)
  PacedAttempts,      (* Attempts at a batch of the director ...           *)
  BurstAttempts,      (* ... and at one of a burst.                        *)
  Faults,             (* Faults an operator may inject.                    *)
  NoFault,            (* None is injected.                                 *)
  Splits,             (* Traffic splits an operator may ask for.           *)
  NoSplit,            (* Orders are left to the deployment's routing.      *)
  MaxBatches,         (* Bound: batches ever made.                         *)
  MaxEvents,          (* Bound: what operators ask for and what fails.     *)
  MaxNow              (* Bound: ticks of the clock.                        *)

ASSUME BatchAssumption ==
         /\ OrdersPerActivity \in Nat \ {0} /\ Window \in Nat \ {0}
         /\ PacedAttempts \in Nat \ {0} /\ BurstAttempts \in Nat \ {0}
         /\ NoSplit \notin Splits /\ NoFault \notin Faults
         /\ MaxBatches \in Nat /\ MaxEvents \in Nat /\ MaxNow \in Nat

VARIABLES
  now,       (* The clock.                                                 *)
  made,      (* How many batches have been made, ...                       *)
  batches,   (* ... and each of them.                                      *)
  orders,    (* IDs under which an order has been started ...              *)
  rerun,     (* ... and under which a finished order was started again.    *)
  events     (* How much has been asked for and has failed.                *)

BatchIds == 1..MaxBatches

(* The director's orders are called ord-, a burst's after its millisecond. *)
Stream == 0

(* A StartOrders request and how far the attempt at it has come.           *)
Request(prefix, first, count, paced, fault, split) ==
  [prefix |-> prefix, first |-> first, count |-> count, paced |-> paced,
   fault |-> fault, split |-> split, todo |-> first..(first + count - 1),
   ok |-> 0, attempt |-> 1, wait |-> 0, status |-> "running"]

Unused == [Request(Stream, 0, 0, FALSE, NoFault, NoSplit) EXCEPT !.status = "unused"]

Seqs(b) == batches[b].first..(batches[b].first + batches[b].count - 1)
OrderID(b, s) == <<batches[b].prefix, s>>
Live(b) == batches[b].status \in {"running", "cancelled"}
Attempts(b) == IF batches[b].paced THEN PacedAttempts ELSE BurstAttempts

(* Mutant: rounded down.                                                   *)
ChunkCountDown(n) == n \div OrdersPerActivity
(* How many batches hold n orders, and what the i-th of them holds.        *)
ChunkCount(n) == (n + OrdersPerActivity - 1) \div OrdersPerActivity
ChunkFirst(first, i) == first + (i - 1) * OrdersPerActivity
ChunkSize(n, i) ==
  IF i * OrdersPerActivity <= n THEN OrdersPerActivity ELSE n - (i - 1) * OrdersPerActivity

Chunk(prefix, first, n, i, paced, fault, split) ==
  Request(prefix, ChunkFirst(first, i), ChunkSize(n, i), paced, fault, split)

(* The first k of the batches that n orders make.                          *)
Enqueue(k, prefix, first, n, paced, fault, split) ==
  /\ made + k <= MaxBatches
  /\ made' = made + k
  /\ batches' = [b \in BatchIds |->
                   IF b \in (made + 1)..(made + k)
                     THEN Chunk(prefix, first, n, b - made, paced, fault, split)
                     ELSE batches[b]]

-----------------------------------------------------------------------------
(* The pause between two orders.  A single order needs no pacing.          *)
Gap(b) ==
  IF batches[b].paced /\ batches[b].count > 1 THEN Window \div batches[b].count ELSE 0

(* A paced batch goes out in order; the others by some fifty at a time.    *)
NextOut(b) ==
  IF batches[b].paced THEN {s \in batches[b].todo : \A t \in batches[b].todo : s <= t}
                      ELSE batches[b].todo

(* Something nobody can count on to happen.                                *)
Event == events < MaxEvents /\ events' = events + 1

(* Order s of batch b is tried, and counted if the start is accepted.      *)
Try(b, s, accepted) ==
  /\ Live(b) /\ s \in NextOut(b) /\ batches[b].wait = 0
  /\ batches' = [batches EXCEPT ![b].todo = @ \ {s},
                                ![b].ok = IF accepted THEN @ + 1 ELSE @,
                                ![b].wait = Gap(b)]

(* An order that was not there is started.                                 *)
Starts(b, s) ==
  /\ Try(b, s, TRUE)
  /\ OrderID(b, s) \notin orders
  /\ orders' = orders \cup {OrderID(b, s)}
  /\ UNCHANGED <<now, made, rerun, events>>

(* The ID belongs to an order that has finished: it is run again.          *)
StartsAgain(b, s) ==
  /\ Try(b, s, TRUE)
  /\ OrderID(b, s) \in orders
  /\ rerun' = rerun \cup {OrderID(b, s)}
  /\ UNCHANGED <<now, made, orders, events>>

(* The ID belongs to an order still running.  A plain start is answered    *)
(* with that order and passes for a start, a pinned one is refused.        *)
FindsRunning(b, s) ==
  /\ Try(b, s, batches[b].split = NoSplit)
  /\ OrderID(b, s) \in orders
  /\ UNCHANGED <<now, made, orders, rerun, events>>

(* The start fails, and is counted as failed.                              *)
StartFails(b, s) ==
  /\ Try(b, s, FALSE)
  /\ Event
  /\ UNCHANGED <<now, made, orders, rerun>>

(* Every order has been tried: the attempt reports its counts.             *)
BatchEnds(b) ==
  /\ batches[b].status = "running" /\ batches[b].todo = {}
  /\ batches' = [batches EXCEPT ![b].status = "done", ![b].wait = 0]
  /\ UNCHANGED <<now, made, orders, rerun, events>>

(* Mutant: the next attempt skips as many orders as were counted.          *)
RetryFromCount(b) ==
  [batches[b] EXCEPT !.todo = {s \in Seqs(b) : s >= batches[b].first + batches[b].ok},
                     !.attempt = @ + 1, !.wait = 0]
(* The next attempt at the whole batch.                                    *)
Retry(b) ==
  [batches[b] EXCEPT !.todo = Seqs(b), !.ok = 0, !.attempt = @ + 1, !.wait = 0]

(* The attempt is lost with its worker, or its split names a version that  *)
(* is not registered.                                                      *)
AttemptFails(b) ==
  /\ batches[b].status = "running"
  /\ batches' = [batches EXCEPT ![b] = IF @.attempt < Attempts(b) THEN Retry(b)
                                       ELSE [@ EXCEPT !.status = "failed", !.todo = {}, !.wait = 0]]
  /\ Event
  /\ UNCHANGED <<now, made, orders, rerun>>

(* A cancelled attempt learns of it from a heartbeat, or is over before.   *)
Notices(b) ==
  /\ batches[b].status = "cancelled"
  /\ batches' = [batches EXCEPT ![b].status = "abandoned", ![b].todo = {},
                                ![b].wait = 0]
  /\ UNCHANGED <<now, made, orders, rerun, events>>

StartNext(b) ==
  \E s \in NextOut(b) : Starts(b, s) \/ StartsAgain(b, s) \/ FindsRunning(b, s) \/ StartFails(b, s)

BatchStep(b) == StartNext(b) \/ BatchEnds(b) \/ AttemptFails(b) \/ Notices(b)

(* Time passes, for the pauses too.  They still run out when the clock has *)
(* come to its bound.                                                      *)
Tick ==
  /\ now' = IF now < MaxNow THEN now + 1 ELSE now
  /\ batches' = [b \in BatchIds |->
                   [batches[b] EXCEPT !.wait = IF @ > 0 THEN @ - 1 ELSE 0]]
  /\ UNCHANGED <<made, orders, rerun, events>>
=============================================================================
