---------------------------------- MODULE Hub ----------------------------------
(***************************************************************************)
(* The SSE hub and the handlers of /events that use it.  Every browser tab *)
(* has a buffered channel; the poll goroutine broadcasts to all channels   *)
(* under the hub's read lock, a tab that comes or goes takes the write     *)
(* lock, and a channel is closed after it has left the hub, outside of it. *)
(*                                                                         *)
(* Payloads are not told apart: a channel is the number it buffers.        *)
(***************************************************************************)
EXTENDS Naturals, FiniteSets

CONSTANTS
  Tabs,        (* Browser tabs that may stream.                            *)
  BufferSize   (* What a subscriber's channel buffers.                     *)

ASSUME HubAssumption == IsFiniteSet(Tabs) /\ BufferSize \in Nat \ {0}

VARIABLES
  tab,           (* Where each tab's handler is.                           *)
  subscribers,   (* Tabs whose channels are in the hub.                    *)
  queued,        (* How much each channel buffers.                         *)
  locked,        (* The poll goroutine holds the hub's read lock.          *)
  sending        (* Channels it has not come to yet.                       *)

hub == <<tab, subscribers, queued, locked, sending>>

(* away: no handler; its channel, if it had one, is closed.                *)
TabStates == {"away", "greeting", "streaming", "leaving", "closing"}

HubInit ==
  /\ tab = [t \in Tabs |-> "away"] /\ queued = [t \in Tabs |-> 0]
  /\ subscribers = {} /\ locked = FALSE /\ sending = {}

Subscribe(t) ==
  /\ tab[t] = "away" /\ ~locked
  /\ tab' = [tab EXCEPT ![t] = "greeting"]
  /\ subscribers' = subscribers \cup {t}
  /\ queued' = [queued EXCEPT ![t] = 0]
  /\ UNCHANGED <<locked, sending>>

(* The snapshot stored now is written first, whatever the channel holds.   *)
Greeted(t) ==
  /\ tab[t] = "greeting"
  /\ tab' = [tab EXCEPT ![t] = "streaming"]
  /\ UNCHANGED <<subscribers, queued, locked, sending>>

(* A tab takes one payload, in its own time.                               *)
Receive(t) ==
  /\ tab[t] = "streaming" /\ queued[t] > 0
  /\ queued' = [queued EXCEPT ![t] = @ - 1]
  /\ UNCHANGED <<tab, subscribers, locked, sending>>

(* The request's context ends.                                             *)
Leave(t) ==
  /\ tab[t] = "streaming"
  /\ tab' = [tab EXCEPT ![t] = "leaving"]
  /\ UNCHANGED <<subscribers, queued, locked, sending>>

(* Mutant: the hub is not locked while the channel is taken out.           *)
UnsubscribeUnlocked(t) ==
  /\ tab[t] = "leaving"
  /\ tab' = [tab EXCEPT ![t] = "closing"]
  /\ subscribers' = subscribers \ {t}
  /\ UNCHANGED <<queued, locked, sending>>

(* Mutant: the channel is closed and left in the hub.                      *)
UnsubscribeForgotten(t) ==
  /\ tab[t] = "leaving" /\ ~locked
  /\ tab' = [tab EXCEPT ![t] = "closing"]
  /\ UNCHANGED <<subscribers, queued, locked, sending>>

Unsubscribe(t) ==
  /\ tab[t] = "leaving" /\ ~locked
  /\ tab' = [tab EXCEPT ![t] = "closing"]
  /\ subscribers' = subscribers \ {t}
  /\ UNCHANGED <<queued, locked, sending>>

Close(t) ==
  /\ tab[t] = "closing"
  /\ tab' = [tab EXCEPT ![t] = "away"]
  /\ queued' = [queued EXCEPT ![t] = 0]
  /\ UNCHANGED <<subscribers, locked, sending>>

BroadcastBegins ==
  /\ ~locked
  /\ locked' = TRUE /\ sending' = subscribers
  /\ UNCHANGED <<tab, subscribers, queued>>

(* Mutant: the send waits for room in the channel.                         *)
SendBlocking(t) ==
  /\ t \in sending /\ queued[t] < BufferSize
  /\ queued' = [queued EXCEPT ![t] = @ + 1]
  /\ sending' = sending \ {t}
  /\ UNCHANGED <<tab, subscribers, locked>>

(* A channel that is full is skipped.                                      *)
Send(t) ==
  /\ t \in sending
  /\ queued' = [queued EXCEPT ![t] = IF @ < BufferSize THEN @ + 1 ELSE @]
  /\ sending' = sending \ {t}
  /\ UNCHANGED <<tab, subscribers, locked>>

(* Mutant: the lock is not given back.                                     *)
BroadcastEndsLocked ==
  /\ locked /\ sending = {}
  /\ UNCHANGED <<tab, subscribers, queued, locked, sending>>

BroadcastEnds ==
  /\ locked /\ sending = {}
  /\ locked' = FALSE
  /\ UNCHANGED <<tab, subscribers, queued, sending>>

HubRestarts ==
  /\ tab' = [t \in Tabs |-> "away"] /\ queued' = [t \in Tabs |-> 0]
  /\ subscribers' = {} /\ locked' = FALSE /\ sending' = {}

-----------------------------------------------------------------------------
HubTypeOK ==
  /\ tab \in [Tabs -> TabStates]
  /\ queued \in [Tabs -> 0 .. BufferSize]
  /\ subscribers \subseteq Tabs /\ sending \subseteq Tabs /\ locked \in BOOLEAN

(* A send on a closed channel panics the process.  broadcast goes on with  *)
(* the channels the hub had when it began, while their tabs leave.         *)
ChannelsAreOpen == \A t \in sending : tab[t] # "away"

(* What makes it so: a broadcast holds the lock, and what it has yet to    *)
(* send to is in the hub all the while.                                    *)
HubInv ==
  /\ HubTypeOK
  /\ sending # {} => locked
  /\ sending \subseteq subscribers
  /\ subscribers = {t \in Tabs : tab[t] \in {"greeting", "streaming", "leaving"}}
=============================================================================
