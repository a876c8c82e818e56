----------------------------- MODULE RepairProofs ------------------------------
(***************************************************************************)
(* What TLAPS proves of the repair of faults, for any orders and any bound *)
(* on what operators and failing calls do.                                 *)
(***************************************************************************)
EXTENDS FaultRepair, TLAPS

(* The release batches are the poller's and the handler's; Matched is what *)
(* either finds.                                                           *)
LEMMA MatchedOrders == batch \subseteq OrderIds => Matched \subseteq OrderIds
  BY DEF Matched

(* TypeOK in parts, most of which a step leaves alone.                     *)
InjectionOK ==
  /\ director \in {"never", "running", "closed"} /\ chaos \in BOOLEAN /\ stamped \in BOOLEAN
  /\ (director = "never" => ~chaos)

OrdersOK ==
  /\ order \in [OrderIds -> OrderStates]
  /\ signalled \in [OrderIds -> BOOLEAN] /\ counted \in [OrderIds -> BOOLEAN]
  /\ \A o \in OrderIds : signalled[o] => Running(o)

PollerOK ==
  /\ poll \in {"idle", "busy"} /\ reads \subseteq {"traffic", "totals"}
  /\ (poll = "idle" => reads = {})
  /\ snap \in [chaos : {"unknown", "none", "aimed"}, degraded : BOOLEAN]
  /\ due \in BOOLEAN /\ fresh \in BOOLEAN
  /\ (fresh => snap.chaos # "unknown")

OtherOK == batch \subseteq OrderIds /\ clearing \in BOOLEAN /\ watched \in BOOLEAN /\ clear \in BOOLEAN

LEMMA Parts ==
  /\ TypeOK <=> InjectionOK /\ OrdersOK /\ PollerOK /\ OtherOK
  /\ TypeOK' <=> InjectionOK' /\ OrdersOK' /\ PollerOK' /\ OtherOK'
<1>1. TypeOK <=> InjectionOK /\ OrdersOK /\ PollerOK /\ OtherOK
  BY DEF TypeOK, InjectionOK, OrdersOK, PollerOK, OtherOK
<1>2. TypeOK' <=> InjectionOK' /\ OrdersOK' /\ PollerOK' /\ OtherOK'
  BY DEF TypeOK, InjectionOK, OrdersOK, PollerOK, OtherOK
<1> QED
  BY <1>1, <1>2

LEMMA PartsKept ==
  /\ InjectionOK /\ UNCHANGED injection => InjectionOK'
  /\ OrdersOK /\ UNCHANGED orders => OrdersOK'
  /\ PollerOK /\ UNCHANGED poller => PollerOK'
<1>1. InjectionOK /\ UNCHANGED injection => InjectionOK'
  BY DEF InjectionOK, injection
<1>2. OrdersOK /\ UNCHANGED orders => OrdersOK'
  BY DEF OrdersOK, orders, Running
<1>3. PollerOK /\ UNCHANGED poller => PollerOK'
  BY DEF PollerOK, poller
<1> QED
  BY <1>1, <1>2, <1>3

LEMMA TypeInit == Init => TypeOK
<1> SUFFICES ASSUME Init PROVE TypeOK
  OBVIOUS
<1>1. /\ snap \in [chaos : {"unknown", "none", "aimed"}, degraded : BOOLEAN]
      /\ fresh = FALSE
  BY DEF Init
<1>2. /\ order \in [OrderIds -> OrderStates] /\ signalled \in [OrderIds -> BOOLEAN]
      /\ counted \in [OrderIds -> BOOLEAN] /\ \A o \in OrderIds : ~signalled[o]
  BY DEF Init, OrderStates
<1>3. /\ director = "never" /\ chaos = FALSE /\ stamped = FALSE /\ batch = {} /\ clearing = FALSE
      /\ watched = FALSE /\ poll = "idle" /\ reads = {} /\ due = TRUE /\ clear = TRUE
  BY DEF Init
<1> QED
  BY <1>1, <1>2, <1>3 DEF TypeOK

(* What a step of an order does keeps its mailbox empty when it is over.   *)
LEMMA OrderTypes ==
  ASSUME TypeOK, NEW o \in OrderIds, OrderStep(o)
  PROVE  TypeOK'
<1> USE DEF TypeOK, OrderStates, Running, injection, release, poller
<1>1. CASE StartOrder(o)
  BY <1>1 DEF StartOrder
<1>2. CASE Park(o)
  BY <1>2 DEF Park
<1>3. CASE Unpark(o)
  BY <1>3 DEF Unpark
<1>4. CASE Pass(o)
  BY <1>4 DEF Pass
<1>5. CASE Complete(o)
  BY <1>5 DEF Complete
<1>6. CASE Deliver(o)
  BY <1>6 DEF Deliver
<1> QED
  BY <1>1, <1>2, <1>3, <1>4, <1>5, <1>6 DEF OrderStep

LEMMA PollerTypes ==
  ASSUME TypeOK, Poller
  PROVE  TypeOK'
<1> USE DEF TypeOK, injection, orders, release, Running
<1>1. CASE PollBegins
  BY <1>1 DEF PollBegins
<1>2. CASE ReadTraffic
  <2>1. snap' \in [chaos : {"unknown", "none", "aimed"}, degraded : BOOLEAN]
        /\ snap'.chaos # "unknown"
    BY <1>2 DEF ReadTraffic
  <2> QED
    BY <1>2, <2>1 DEF ReadTraffic
<1>3. CASE ReadTotals
  <2>1. snap' \in [chaos : {"unknown", "none", "aimed"}, degraded : BOOLEAN]
        /\ snap'.chaos = snap.chaos
    BY <1>3 DEF ReadTotals
  <2> QED
    BY <1>3, <2>1 DEF ReadTotals
<1>4. CASE ReadFails
  BY <1>4 DEF ReadFails
<1>5. CASE Repairs
  BY <1>5, MatchedOrders DEF Repairs
<1>6. CASE LeavesAlone
  BY <1>6 DEF LeavesAlone
<1> QED
  BY <1>1, <1>2, <1>3, <1>4, <1>5, <1>6 DEF Poller

LEMMA OperatorTypes ==
  ASSUME TypeOK, Operator
  PROVE  TypeOK'
<1> USE Parts, PartsKept
<1>1. CASE Aim \/ Clear
  <2>1. InjectionOK' /\ OtherOK' /\ UNCHANGED orders /\ UNCHANGED poller
    BY <1>1 DEF Aim, Clear, InjectionOK, OtherOK, release
  <2> QED
    BY <2>1
<1>2. CASE StopDirector \/ StartDirector
  <2>1. InjectionOK' /\ OtherOK' /\ UNCHANGED orders /\ UNCHANGED poller
    BY <1>2 DEF StopDirector, StartDirector, InjectionOK, OtherOK, release
  <2> QED
    BY <2>1
<1>3. CASE QueueBurst \/ Watch
  <2>1. InjectionOK' /\ OtherOK' /\ UNCHANGED orders /\ UNCHANGED poller
    BY <1>3 DEF QueueBurst, Watch, InjectionOK, OtherOK, injection, release
  <2> QED
    BY <2>1
<1>4. CASE ResetCounters
  <2>1. OrdersOK'
    BY <1>4 DEF ResetCounters, OrdersOK, Running
  <2>2. OtherOK' /\ UNCHANGED injection /\ UNCHANGED poller
    BY <1>4 DEF ResetCounters, OtherOK, release
  <2> QED
    BY <2>1, <2>2
<1> QED
  BY <1>1, <1>2, <1>3, <1>4 DEF Operator

LEMMA TypeStep == TypeOK /\ [Next]_vars => TypeOK'
<1> SUFFICES ASSUME TypeOK, [Next]_vars PROVE TypeOK'
  OBVIOUS
<1>1. CASE ClearReleases
  <2>1. OtherOK' /\ UNCHANGED injection /\ UNCHANGED orders /\ UNCHANGED poller
    BY <1>1, Parts, MatchedOrders DEF ClearReleases, OtherOK
  <2> QED
    BY <2>1, Parts, PartsKept
<1>2. CASE Stamp \/ Unstamp
  <2>1. /\ stamped' \in BOOLEAN /\ UNCHANGED <<director, chaos>>
        /\ UNCHANGED orders /\ UNCHANGED poller /\ UNCHANGED <<release, watched, clear>>
    BY <1>2 DEF Stamp, Unstamp
  <2>2. InjectionOK' /\ OtherOK'
    BY <2>1, Parts DEF InjectionOK, OtherOK, release
  <2> QED
    BY <2>1, <2>2, Parts, PartsKept
<1>3. CASE IntervalPasses
  <2>1. PollerOK' /\ OtherOK' /\ UNCHANGED injection /\ UNCHANGED orders
    BY <1>3, Parts DEF IntervalPasses, PollerOK, OtherOK, release
  <2> QED
    BY <2>1, Parts, PartsKept
<1>4. CASE UNCHANGED vars
  <2>1. UNCHANGED <<injection, orders, poller>> /\ OtherOK'
    BY <1>4, Parts DEF vars, release, OtherOK
  <2> QED
    BY <2>1, Parts, PartsKept
<1> QED
  BY <1>1, <1>2, <1>3, <1>4, OrderTypes, PollerTypes, OperatorTypes DEF Next

(* The variables have their types; no director, no fault; an order that is *)
(* over holds no Signal; a poll that is idle waits for nothing.            *)
THEOREM TypeCorrect == Spec => []TypeOK
  BY TypeInit, TypeStep, PTL DEF Spec

-----------------------------------------------------------------------------
(* What is known of the fault while a snapshot is made: with none aimed,   *)
(* or none seen by this snapshot, there was a time without.                *)
ClearInv ==
  /\ ~chaos => clear
  /\ fresh /\ snap.chaos = "none" => clear

LEMMA ClearInit == Init => ClearInv
  BY DEF Init, ClearInv

LEMMA ClearStep == TypeOK /\ ClearInv /\ [Next]_vars => ClearInv'
<1> SUFFICES ASSUME TypeOK, ClearInv, [Next]_vars PROVE ClearInv'
  OBVIOUS
<1>1. CASE Operator
  BY <1>1 DEF Operator, Aim, Clear, StopDirector, StartDirector, QueueBurst, Watch, ResetCounters,
    poller, injection, ClearInv, TypeOK
<1>2. CASE ClearReleases \/ Stamp \/ Unstamp \/ IntervalPasses
  BY <1>2 DEF ClearReleases, Stamp, Unstamp, IntervalPasses, poller, injection, ClearInv
<1>3. CASE Poller
  <2>1. CASE PollBegins
    BY <2>1 DEF PollBegins, injection, ClearInv
  <2>2. CASE ReadTraffic
    <3>1. snap'.chaos = IF chaos THEN "aimed" ELSE "none"
      BY <2>2 DEF ReadTraffic, TypeOK
    <3>2. UNCHANGED <<chaos, clear>>
      BY <2>2 DEF ReadTraffic, injection
    <3> QED
      BY <3>1, <3>2 DEF ClearInv, TypeOK
  <2>3. CASE ReadTotals
    <3>1. snap'.chaos = snap.chaos
      BY <2>3 DEF ReadTotals, TypeOK
    <3>2. UNCHANGED <<chaos, clear, fresh>>
      BY <2>3 DEF ReadTotals, injection
    <3> QED
      BY <3>1, <3>2 DEF ClearInv
  <2>4. CASE ReadFails \/ Repairs \/ LeavesAlone
    BY <2>4 DEF ReadFails, Repairs, LeavesAlone, injection, ClearInv
  <2> QED
    BY <1>3, <2>1, <2>2, <2>3, <2>4 DEF Poller
<1>4. ASSUME NEW o \in OrderIds, OrderStep(o) PROVE ClearInv'
  BY <1>4 DEF OrderStep, StartOrder, Park, Unpark, Pass, Complete, Deliver, poller, injection, ClearInv
<1>5. CASE UNCHANGED vars
  BY <1>5 DEF vars, poller, injection, ClearInv
<1> QED
  BY <1>1, <1>2, <1>3, <1>4, <1>5 DEF Next

(* Only a repair spends the interval.                                      *)
LEMMA IntervalSpent == [Next]_vars /\ due /\ ~due' => Repairs
<1> SUFFICES ASSUME [Next]_vars, due, ~due' PROVE Repairs
  OBVIOUS
<1>1. CASE Operator
  BY <1>1 DEF Operator, Aim, Clear, StopDirector, StartDirector, QueueBurst, Watch, ResetCounters, poller
<1>2. CASE ClearReleases \/ Stamp \/ Unstamp \/ IntervalPasses
  BY <1>2 DEF ClearReleases, Stamp, Unstamp, IntervalPasses, poller
<1>3. CASE Poller
  BY <1>3 DEF Poller, PollBegins, ReadTraffic, ReadTotals, ReadFails, LeavesAlone
<1>4. ASSUME NEW o \in OrderIds, OrderStep(o) PROVE FALSE
  BY <1>4 DEF OrderStep, StartOrder, Park, Unpark, Pass, Complete, Deliver, poller
<1>5. CASE UNCHANGED vars
  BY <1>5 DEF vars, poller
<1> QED
  BY <1>1, <1>2, <1>3, <1>4, <1>5 DEF Next

(* A repair decided from traffic read for its snapshot never releases what *)
(* was aimed, without interruption, since the snapshot was begun.          *)
THEOREM RepairSparesAimed == Spec => RepairFollowsClear
<1>1. ClearInv /\ [Next]_vars => [due /\ ~due' /\ fresh => clear]_vars
  BY IntervalSpent DEF Repairs, NeedsFaultRepair, ClearInv
<1> QED
  BY <1>1, TypeInit, TypeStep, ClearInit, ClearStep, PTL DEF Spec, RepairFollowsClear

-----------------------------------------------------------------------------
(* The contract of an order's fault.                                       *)

(* A step that leaves where an order stands, and its Signal, alone is none *)
(* of that order's.                                                        *)
LEMMA FaultFrame ==
  ASSUME NEW o \in OrderIds, order'[o] = order[o], signalled'[o] = signalled[o]
  PROVE  UNCHANGED FaultLife(o)!faultVars
  BY DEF FaultLife!faultVars, Stand

(* One step of an order is one that its contract allows.                   *)
LEMMA FaultOwnStep ==
  ASSUME TypeOK, NEW o \in OrderIds, OrderStep(o)
  PROVE  [FaultLife(o)!Next]_(FaultLife(o)!faultVars)
<1> SUFFICES FaultLife(o)!Next \/ UNCHANGED FaultLife(o)!faultVars
  OBVIOUS
<1> USE DEF TypeOK, Stand, FaultLife!Next, FaultLife!Alive, FaultLife!faultVars
<1>1. CASE StartOrder(o)
  <2>1. order[o] = "none" /\ order'[o] \in {"fine", "carrying"} /\ signalled' = signalled
    BY <1>1 DEF StartOrder
  <2> QED
    BY <2>1 DEF FaultLife!Start
<1>2. CASE Park(o)
  <2>1. order[o] = "carrying" /\ order'[o] = "parked" /\ signalled' = signalled
    BY <1>2 DEF Park
  <2> QED
    BY <2>1 DEF FaultLife!Park
<1>3. CASE Unpark(o)
  <2>1. order[o] \in {"parked", "released"} /\ signalled[o]
          /\ order'[o] = "released" /\ signalled'[o] = FALSE
    BY <1>3 DEF Unpark, OrderStates
  <2> QED
    BY <2>1 DEF FaultLife!Read
<1>4. CASE Pass(o)
  <2>1. order[o] = "released" /\ order'[o] = "fine" /\ signalled' = signalled
    BY <1>4 DEF Pass
  <2> QED
    BY <2>1
<1>5. CASE Complete(o)
  <2>1. order[o] = "fine" /\ order'[o] = "done" /\ signalled'[o] = FALSE
    BY <1>5 DEF Complete
  <2> QED
    BY <2>1 DEF FaultLife!End
<1>6. CASE Deliver(o)
  <2>1. order' = order /\ signalled'[o] = Running(o)
    BY <1>6 DEF Deliver
  <2>2. CASE Running(o)
    <3>1. order[o] \in {"carrying", "parked", "released", "fine"}
      BY <2>2 DEF Running, OrderStates
    <3>2. Stand(o) \in {"carried", "parked", "gone"} /\ Stand(o)' = Stand(o)
      BY <2>1, <3>1
    <3>3. signalled'[o] = TRUE
      BY <2>1, <2>2
    <3> HIDE DEF Stand
    <3>4. FaultLife(o)!Receive
      BY <3>2, <3>3, Zenon DEF FaultLife!Receive
    <3> QED
      BY <3>4, Zenon
  <2>3. CASE ~Running(o)
    <3>1. signalled[o] = FALSE
      BY <2>3
    <3>2. signalled'[o] = FALSE
      BY <2>1, <2>3
    <3> QED
      BY <2>1, <3>1, <3>2, FaultFrame
  <2> QED
    BY <2>2, <2>3
<1> QED
  BY <1>1, <1>2, <1>3, <1>4, <1>5, <1>6 DEF OrderStep

(* A step of one order is none of another's.                               *)
LEMMA FaultOthersStep ==
  ASSUME TypeOK, NEW o \in OrderIds, NEW p \in OrderIds, o # p, OrderStep(p)
  PROVE  UNCHANGED FaultLife(o)!faultVars
<1>1. order'[o] = order[o] /\ signalled'[o] = signalled[o]
  BY DEF TypeOK, OrderStep, StartOrder, Park, Unpark, Pass, Complete, Deliver
<1> QED
  BY <1>1, FaultFrame

(* What is not a step of an order does nothing to any.                     *)
LEMMA FaultNoStep ==
  ASSUME [Next]_vars, ~\E p \in OrderIds : OrderStep(p)
  PROVE  UNCHANGED <<order, signalled>>
  BY DEF Next, Operator, Aim, Clear, StopDirector, StartDirector, QueueBurst, Watch, ResetCounters,
         ClearReleases, Stamp, Unstamp, Poller, PollBegins, ReadTraffic, ReadTotals, ReadFails,
         Repairs, LeavesAlone, IntervalPasses, orders, vars

(* Every order does with its fault what FaultContract says, as the order   *)
(* of module Orders does: the composition's orders are orders.             *)
THEOREM OrdersKeepFaultContract == Spec => KeepsFaultContract
<1>1. Init => \A o \in OrderIds : FaultLife(o)!Init
  BY DEF Init, FaultLife!Init, Stand
<1>2. TypeOK /\ [Next]_vars
        => [\A o \in OrderIds : [FaultLife(o)!Next]_(FaultLife(o)!faultVars)]_vars
  <2> SUFFICES ASSUME TypeOK, [Next]_vars, NEW o \in OrderIds
               PROVE  [FaultLife(o)!Next]_(FaultLife(o)!faultVars)
    OBVIOUS
  <2>1. CASE OrderStep(o)
    BY <2>1, FaultOwnStep
  <2>2. ASSUME NEW p \in OrderIds, o # p, OrderStep(p)
        PROVE  [FaultLife(o)!Next]_(FaultLife(o)!faultVars)
    BY <2>2, FaultOthersStep
  <2>3. CASE ~\E p \in OrderIds : OrderStep(p)
    <3>1. order' = order /\ signalled' = signalled
      BY <2>3, FaultNoStep
    <3> QED
      BY <3>1, FaultFrame
  <2> QED
    BY <2>1, <2>2, <2>3
<1> QED
  BY <1>1, <1>2, TypeInit, TypeStep, PTL DEF Spec, KeepsFaultContract
=============================================================================
