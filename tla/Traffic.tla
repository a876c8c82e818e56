-------------------------------- MODULE Traffic --------------------------------
(***************************************************************************)
(* The traffic director of internal/traffic, one long Workflow that starts *)
(* orders at a rate, and the bursts the backend queues beside it.          *)
(*                                                                         *)
(* The director runs from one blocking wait to the next in one step.  It   *)
(* waits, idle, for an operator's change, or it waits for its window: for  *)
(* the first of the window's batches to end, or a change.  Its Updates run *)
(* between two steps; each leaves a note in a buffered channel.  When its  *)
(* history is long it continues as new, from what its Input carries.       *)
(*                                                                         *)
(* Rates are in orders per minute, and a minute is two windows.  The clock *)
(* of the auto-stop and the pauses of the batches share their ticks.       *)
(***************************************************************************)
EXTENDS StartOrders

CONSTANTS
  Rates,           (* Rates an operator asks for.                          *)
  MaxRun,          (* Ticks traffic flows untouched.                       *)
  ChangeBuffer,    (* Notes the channel holds.                             *)
  BurstSizes,      (* Sizes of the bursts an operator asks for.            *)
  Millis           (* Milliseconds bursts are asked for in.                *)

ASSUME TrafficAssumption ==
         /\ Rates \subseteq Nat /\ 0 \in Rates
         /\ MaxRun \in Nat \ {0} /\ ChangeBuffer \in Nat \ {0}
         /\ BurstSizes \subseteq Nat \ {0} /\ Millis \subseteq Nat \ {0}

VARIABLES
  pc,           (* none, loop, idle, window or done                        *)
  rate, fault, split,   (* state.RatePerMin, Chaos and Split               *)
  stopAt,       (* state.StopAt                                            *)
  autoStopped,  (* state.AutoStopped                                       *)
  nextSeq,      (* state.NextSeq                                           *)
  started,      (* state.Started                                           *)
  carry,        (* Half orders owed: the carry of ordersDue.               *)
  stop,         (* ctrl.stop                                               *)
  changes,      (* Notes in ctrl.changes.                                  *)
  window,       (* The batches of the window in force.                     *)
  base          (* History: batches made before this director.             *)

settings == <<rate, fault, split>>
progress == <<nextSeq, started, carry>>
loop == <<stop, changes, window>>
steady == <<now, made, batches, orders, rerun>>
activities == <<now, made, batches, orders, rerun, events>>
director == <<pc, settings, stopAt, autoStopped, progress, loop>>
vars == <<director, base, activities>>

WindowsPerMinute == 2

Running == pc \in {"loop", "idle", "window"}

Init ==
  /\ now = 0 /\ made = 0 /\ batches = [b \in BatchIds |-> Unused]
  /\ orders = {} /\ rerun = {} /\ events = 0
  /\ pc = "none" /\ rate = 0 /\ fault = NoFault /\ split = NoSplit
  /\ stopAt = 0 /\ autoStopped = FALSE
  /\ nextSeq = 0 /\ started = 0 /\ carry = 0
  /\ stop = FALSE /\ changes = 0 /\ window = {}
  /\ base = 0

(* The backend starts the director when an operator wants traffic and none *)
(* is running; one that runs is used as it is.                             *)
Ensure ==
  /\ ~Running /\ Event
  /\ now + MaxRun <= MaxNow
  /\ pc' = "loop" /\ rate' = 0 /\ fault' = NoFault /\ split' = NoSplit
  /\ stopAt' = now + MaxRun /\ autoStopped' = FALSE
  /\ nextSeq' = 0 /\ started' = 0 /\ carry' = 0
  /\ stop' = FALSE /\ changes' = 0 /\ window' = {}
  /\ base' = made
  /\ UNCHANGED steady

-----------------------------------------------------------------------------
(* Sending never blocks: a full channel wakes the loop just as well.       *)
Send == changes' = IF changes < ChangeBuffer THEN changes + 1 ELSE changes

(* Mutant: a change leaves no note.                                        *)
TouchedSilently ==
  /\ stopAt' = now + MaxRun /\ autoStopped' = FALSE /\ UNCHANGED changes
(* touched: an operator is there.                                          *)
Touched == stopAt' = now + MaxRun /\ autoStopped' = FALSE /\ Send

Accept ==
  /\ Running /\ Event
  /\ now + MaxRun <= MaxNow
  /\ UNCHANGED <<pc, progress, stop, window, base, steady>>

SetRate == \E r \in Rates :
  Accept /\ Touched /\ rate' = r /\ UNCHANGED <<fault, split>>

SetSplit == \E s \in Splits \cup {NoSplit} :
  Accept /\ Touched /\ split' = s /\ UNCHANGED <<rate, fault>>

SetChaos == \E f \in Faults \cup {NoFault} :
  Accept /\ Touched /\ fault' = f /\ UNCHANGED <<rate, split>>

(* Mutant: the stop is left for the loop to find.                          *)
StopUnsent ==
  /\ Running /\ Event
  /\ stop' = TRUE /\ rate' = 0 /\ UNCHANGED changes
  /\ UNCHANGED <<pc, fault, split, stopAt, autoStopped, progress, window, base,
                 steady>>
Stop ==
  /\ Running /\ Event
  /\ stop' = TRUE /\ rate' = 0 /\ Send
  /\ UNCHANGED <<pc, fault, split, stopAt, autoStopped, progress, window, base,
                 steady>>

-----------------------------------------------------------------------------
(* ordersDue: what the window owes, with what the last one left over.      *)
Due == (carry + rate) \div WindowsPerMinute
(* Mutant: the orders are not taken off what is carried.                   *)
CarriedUnspent == carry + rate
Carried == (carry + rate) % WindowsPerMinute

(* Mutant: the deadline is looked at without traffic only.                 *)
ExpiredWhenIdle == rate = 0 /\ now >= stopAt
Expired == rate > 0 /\ now >= stopAt

(* The loop ends: nothing of the director is left running.                 *)
LoopStops ==
  /\ pc = "loop" /\ stop
  /\ pc' = "done"
  /\ UNCHANGED <<settings, stopAt, autoStopped, progress, loop, base, activities>>

(* Left untouched for too long: the rate falls to zero and the loop waits. *)
LoopExpires ==
  /\ pc = "loop" /\ ~stop /\ Expired
  /\ pc' = "idle" /\ rate' = 0 /\ autoStopped' = TRUE
  /\ UNCHANGED <<fault, split, stopAt, progress, loop, base, activities>>

LoopIdles ==
  /\ pc = "loop" /\ ~stop /\ rate = 0
  /\ pc' = "idle"
  /\ UNCHANGED <<settings, stopAt, autoStopped, progress, loop, base, activities>>

(* Mutant: the split is not carried over.                                  *)
LoopContinuesUnsplit ==
  /\ pc = "loop" /\ ~stop /\ rate > 0 /\ ~Expired
  /\ Event
  /\ autoStopped' = FALSE /\ carry' = 0 /\ split' = NoSplit
  /\ changes' = 0 /\ window' = {}
  /\ UNCHANGED <<pc, rate, fault, stopAt, nextSeq, started, stop, base, steady>>
(* Mutant: the order numbers are not carried over.                         *)
LoopContinuesFromZero ==
  /\ pc = "loop" /\ ~stop /\ rate > 0 /\ ~Expired
  /\ Event
  /\ autoStopped' = FALSE /\ carry' = 0 /\ nextSeq' = 0
  /\ changes' = 0 /\ window' = {}
  /\ UNCHANGED <<pc, settings, stopAt, started, stop, base, steady>>
(* The history is over its budget.  The Input carries the settings, the    *)
(* deadline and the counters; the rest starts afresh.                      *)
LoopContinues ==
  /\ pc = "loop" /\ ~stop /\ rate > 0 /\ ~Expired
  /\ Event
  /\ autoStopped' = FALSE /\ carry' = 0
  /\ changes' = 0 /\ window' = {}
  /\ UNCHANGED <<pc, settings, stopAt, nextSeq, started, stop, base, steady>>

(* runWindow: the window's batches are scheduled, its numbers spent.       *)
WindowBegins ==
  /\ pc = "loop" /\ ~stop /\ rate > 0 /\ ~Expired
  /\ Enqueue(ChunkCount(Due), Stream, nextSeq, Due, TRUE, fault, split)
  /\ window' = (made + 1)..made'
  /\ nextSeq' = nextSeq + Due /\ carry' = Carried
  /\ pc' = "window"
  /\ UNCHANGED <<settings, stopAt, autoStopped, started, stop, changes, base, now, orders, rerun, events>>

(* The window is left, and what is still running of it cancelled.          *)
WindowLeft ==
  /\ pc' = "loop" /\ window' = {}
  /\ batches' = [b \in BatchIds |->
                   IF b \in window /\ batches[b].status = "running"
                     THEN [batches[b] EXCEPT !.status = "cancelled"] ELSE batches[b]]

(* Mutant: what was asked for is counted.                                  *)
CountedAsAsked(b) == started + batches[b].count
Counted(b) == started + batches[b].ok

(* The first batch to end, whichever it is, ends the window; its orders    *)
(* are counted.                                                            *)
WindowEnds == \E b \in window :
  /\ pc = "window" /\ batches[b].status = "done"
  /\ started' = Counted(b)
  /\ WindowLeft
  /\ UNCHANGED <<settings, stopAt, autoStopped, nextSeq, carry, stop, changes, base,
                 now, made, orders, rerun, events>>

(* A batch that failed for good ends it too.                               *)
WindowFails == \E b \in window :
  /\ pc = "window" /\ batches[b].status = "failed"
  /\ WindowLeft
  /\ UNCHANGED <<settings, stopAt, autoStopped, progress, stop, changes, base,
                 now, made, orders, rerun, events>>

WindowChanged ==
  /\ pc = "window" /\ changes > 0
  /\ changes' = changes - 1
  /\ WindowLeft
  /\ UNCHANGED <<settings, stopAt, autoStopped, progress, stop, base,
                 now, made, orders, rerun, events>>

(* waitForChange                                                           *)
IdleChanged ==
  /\ pc = "idle" /\ changes > 0
  /\ changes' = changes - 1 /\ pc' = "loop"
  /\ UNCHANGED <<settings, stopAt, autoStopped, progress, stop, window, base, activities>>

Direct ==
  \/ LoopStops \/ LoopExpires \/ LoopIdles \/ LoopContinues \/ WindowBegins
  \/ WindowEnds \/ WindowFails \/ WindowChanged \/ IdleChanged

-----------------------------------------------------------------------------
(* The server refuses a batch whose Activity, of the same name and number, *)
(* still runs.                                                             *)
Refused(ms, i) == \E b \in 1..made :
  batches[b].prefix = ms /\ batches[b].first = ChunkFirst(1, i) /\ Live(b)

(* An operator queues a burst, with the fault last seen to be in force and *)
(* perhaps pinned to one version.  It is named after the millisecond it is *)
(* asked for in, which may be another's, and its calls may reach the       *)
(* server late.  Queuing may stop after any batch, and does at one that is *)
(* refused.                                                                *)
QueueBurst ==
  \E n \in BurstSizes, ms \in Millis, f \in Faults \cup {NoFault}, s \in Splits \cup {NoSplit} :
    /\ Event
    /\ \E k \in 1..ChunkCount(n) :
         /\ \A i \in 1..k : ~Refused(ms, i)
         /\ Enqueue(k, ms, 1, n, FALSE, f, s)
    /\ UNCHANGED <<director, base, now, orders, rerun>>

Activity == (\E b \in BatchIds : BatchStep(b)) /\ UNCHANGED <<director, base>>

Clock == Tick /\ UNCHANGED <<director, base>>

Next ==
  \/ Ensure \/ SetRate \/ SetSplit \/ SetChaos \/ Stop
  \/ Direct \/ QueueBurst \/ Activity \/ Clock

Spec == Init /\ [][Next]_vars

(* The director's Workflow tasks are run, its Activities end in one way or *)
(* another and time goes on.  Operators do as they please.                 *)
Fairness ==
  /\ WF_vars(Direct)
  /\ WF_vars(Clock)
  /\ WF_vars(Activity)

FairSpec == Spec /\ Fairness

-----------------------------------------------------------------------------
BatchOK(b) ==
  /\ b.prefix \in {Stream} \cup Millis /\ b.first \in Nat /\ b.count \in Nat
  /\ b.paced \in BOOLEAN /\ b.fault \in Faults \cup {NoFault} /\ b.split \in Splits \cup {NoSplit}
  /\ b.todo \subseteq b.first..(b.first + b.count - 1)
  /\ b.ok \in Nat /\ b.attempt \in Nat /\ b.wait \in Nat
  /\ b.status \in {"unused", "running", "cancelled", "done", "failed", "abandoned"}

(* Types.  Less than an order is carried over from window to window; the   *)
(* deadline is never further away than MaxRun, and it is why the rate is   *)
(* zero whenever the dashboard is told so.                                 *)
TypeOK ==
  /\ now \in 0..MaxNow /\ made \in 0..MaxBatches
  /\ \A b \in BatchIds : BatchOK(batches[b]) /\ (batches[b].status = "unused" <=> b > made)
  /\ pc \in {"none", "loop", "idle", "window", "done"}
  /\ rate \in Rates /\ fault \in Faults \cup {NoFault} /\ split \in Splits \cup {NoSplit}
  /\ stopAt \in 0..(now + MaxRun)
  /\ autoStopped \in BOOLEAN /\ (autoStopped => rate = 0 /\ now >= stopAt)
  /\ nextSeq \in Nat /\ started \in Nat /\ carry \in 0..(WindowsPerMinute - 1)
  /\ stop \in BOOLEAN /\ changes \in 0..ChangeBuffer
  /\ window \subseteq 1..made /\ (pc # "window" => window = {})
  /\ base \in 0..made

(* Who may start an order, through interrupted windows, several batches to *)
(* a window, continue-as-new and bursts beside the stream.  Two batches of *)
(* the stream never have an order in common, unless the director was       *)
(* started anew in between and numbers its orders from the beginning.  Two *)
(* batches of bursts have one only if they are of one millisecond and have *)
(* the same number, and then never while both run.  And an order is run a  *)
(* second time for these two reasons, or because its batch was retried.    *)
(*                                                                         *)
(* This says less than the comments in burst.go do.  Bursts of the same    *)
(* millisecond do allocate the same order IDs, against line 75, and run    *)
(* the orders of the first again; and the retry of a batch does start an   *)
(* order that has finished since, against line 97.                         *)
IdsAreUnique ==
  /\ \A b, c \in 1..made :
        b # c /\ batches[b].prefix = batches[c].prefix /\ Seqs(b) \cap Seqs(c) # {} =>
          \/ batches[b].prefix = Stream /\ (b <= base \/ c <= base)
          \/ /\ batches[b].prefix \in Millis /\ batches[b].first = batches[c].first
             /\ ~(Live(b) /\ Live(c))
  /\ \A id \in rerun :
        \/ id[1] = Stream /\ \E b \in 1..base : batches[b].paced
        \/ \E b \in 1..made : /\ id[1] = batches[b].prefix /\ id[2] \in Seqs(b)
                              /\ batches[b].attempt > 1
        \/ \E b, c \in 1..made : /\ b # c /\ id[1] \in Millis
                                 /\ id[1] = batches[b].prefix /\ id[2] \in Seqs(b)
                                 /\ id[1] = batches[c].prefix /\ id[2] \in Seqs(c)

(* Only the window in force has batches that have not been told to stop,   *)
(* and they carry the fault and the split the operators asked for, or the  *)
(* loop is about to be woken to leave the window.                          *)
WindowIsCurrent ==
  /\ \A b \in 1..made : batches[b].paced /\ batches[b].status = "running" => b \in window
  /\ pc = "window" /\ changes = 0 =>
       /\ ~stop /\ rate > 0
       /\ \A b \in window : batches[b].fault = fault /\ batches[b].split = split

(* A director that waits for a change with no note to find is meant to     *)
(* wait: no stop and no rate came while it was on its way there, behind a  *)
(* full channel, or just before a new run began with an empty one.         *)
IdleIsMeant == pc = "idle" /\ changes = 0 => ~stop /\ rate = 0

(* A batch that ended has, for every order it counted, an order of its own *)
(* that was started, however often it was retried and whatever it found.   *)
CountedOrdersExist ==
  \A b \in 1..made :
    batches[b].status = "done" =>
      Cardinality({s \in Seqs(b) : OrderID(b, s) \in orders}) >= batches[b].ok

(* The count on the dashboard never exceeds the orders there are.          *)
StartedIsReal == started <= Cardinality({id \in orders : id[1] = Stream})

Contract == INSTANCE TrafficContract WITH on <- Running

(* The director is the generator of the contract: continuing as new is not *)
(* to be noticed, and an interrupted window leaves the numbering in order. *)
KeepsContract == Contract!Spec

(* A director told to stop ends, wherever the loop is at the time.         *)
StopEnds == stop ~> pc = "done"

(* A window at a rate below an order a window may come out without a       *)
(* batch.                                                                  *)
Stalled == pc = "window" /\ window = {} /\ rate < WindowsPerMinute

(* Traffic nobody touches stops, or stalls, whatever becomes of its windows*)
(* on the way to the deadline.  Operators, who act a bounded number of     *)
(* times here, leave the director alone in the end.                        *)
AbandonedTrafficStops == (Running /\ rate > 0) ~> (~Running \/ rate = 0 \/ Stalled)

(* types.go:60 and traffic/workflow.go:84 promise more: traffic nobody     *)
(* touches stops.  The code does not keep it: a window without a batch is  *)
(* waited for until an operator changes something, whatever the deadline,  *)
(* and the rate on the dashboard stays.                                    *)
UntouchedTrafficStops == (Running /\ rate > 0) ~> (~Running \/ rate = 0)

(* A window that is waited for at a rate that has an order for every       *)
(* window ends without an operator, whatever becomes of its batches: there *)
(* is always something left to wait for.                                   *)
WindowsEnd == (pc = "window" /\ rate >= WindowsPerMinute) ~> pc # "window"
=============================================================================
