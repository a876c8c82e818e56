----------------------------- MODULE BackendProofs -----------------------------
(***************************************************************************)
(* What TLAPS proves of the backend process, for any tabs and scripts, any *)
(* size of buffers, any times and every bound.                             *)
(***************************************************************************)
EXTENDS Backend, TLAPS

-----------------------------------------------------------------------------
(* The hub.                                                                *)

(* Every step of the hub's own keeps the lock's discipline.                *)
LEMMA HubSteps ==
  ASSUME HubInv,
         \/ \E t \in Tabs :
              \/ Subscribe(t) \/ Greeted(t) \/ Receive(t) \/ Leave(t) \/ Unsubscribe(t)
              \/ Close(t) \/ Send(t)
         \/ BroadcastBegins \/ BroadcastEnds \/ HubRestarts \/ UNCHANGED hub
  PROVE  HubInv'
<1> USE HubAssumption DEF HubInv, HubTypeOK, TabStates
<1>1. ASSUME NEW t \in Tabs, Subscribe(t) PROVE HubInv'
  BY <1>1 DEF Subscribe
<1>2. ASSUME NEW t \in Tabs, Greeted(t) PROVE HubInv'
  BY <1>2 DEF Greeted
<1>3. ASSUME NEW t \in Tabs, Receive(t) PROVE HubInv'
  BY <1>3 DEF Receive
<1>4. ASSUME NEW t \in Tabs, Leave(t) PROVE HubInv'
  BY <1>4 DEF Leave
<1>5. ASSUME NEW t \in Tabs, Unsubscribe(t) PROVE HubInv'
  BY <1>5 DEF Unsubscribe
<1>6. ASSUME NEW t \in Tabs, Close(t) PROVE HubInv'
  BY <1>6 DEF Close
<1>7. ASSUME NEW t \in Tabs, Send(t) PROVE HubInv'
  <2>1. queued' \in [Tabs -> 0 .. BufferSize]
    BY <1>7 DEF Send
  <2> QED
    BY <1>7, <2>1 DEF Send
<1>8. CASE BroadcastBegins
  BY <1>8 DEF BroadcastBegins
<1>9. CASE BroadcastEnds
  BY <1>9 DEF BroadcastEnds
<1>10. CASE HubRestarts
  <2>1. \A t \in Tabs : tab'[t] = "away"
    BY <1>10 DEF HubRestarts
  <2>2. 0 \in 0 .. BufferSize
    OBVIOUS
  <2>3. sending' = {} /\ subscribers' = {} /\ locked' = FALSE
    BY <1>10 DEF HubRestarts
  <2>4. tab' \in [Tabs -> TabStates] /\ queued' \in [Tabs -> 0 .. BufferSize]
    BY <1>10, <2>2 DEF HubRestarts
  <2> QED
    BY <2>1, <2>3, <2>4
<1>11. CASE UNCHANGED hub
  BY <1>11 DEF hub
<1> QED
  BY <1>1, <1>2, <1>3, <1>4, <1>5, <1>6, <1>7, <1>8, <1>9, <1>10, <1>11

(* Whatever the backend does, its hub takes a step of its own or none.     *)
LEMMA BackendStepsHub ==
  ASSUME [Next]_vars
  PROVE  \/ \E t \in Tabs :
              \/ Subscribe(t) \/ Greeted(t) \/ Receive(t) \/ Leave(t) \/ Unsubscribe(t)
              \/ Close(t) \/ Send(t)
         \/ BroadcastBegins \/ BroadcastEnds \/ HubRestarts \/ UNCHANGED hub
<1>1. CASE Poller
  BY <1>1 DEF Poller, BuildBegins, ReadDeployment, ReadTotals, ReadRollout, Reads, ReadsElse,
    HealthIsCached, HealthIsAsked, HealthIsRead, Attach, Sample, Store, Broadcast, hub
<1>2. ASSUME NEW t \in Tabs, Connect(t) \/ Greet(t) \/ Tab(t)
      PROVE  \/ Subscribe(t) \/ Greeted(t) \/ Receive(t) \/ Leave(t) \/ Unsubscribe(t) \/ Close(t)
  BY <1>2 DEF Connect, Greet, Tab
<1>3. ASSUME NEW c \in Scripts, GetState(c) \/ Answer(c) PROVE UNCHANGED hub
  BY <1>3 DEF GetState, Answer, hub
<1>4. CASE ResetSince \/ ResetCache \/ Coordinate \/ Tick
  BY <1>4 DEF ResetSince, ResetCache, Coordinate, Tick, hub
<1>5. CASE Restart
  BY <1>5 DEF Restart
<1>6. CASE UNCHANGED vars
  BY <1>6 DEF vars, hub
<1> QED
  BY <1>1, <1>2, <1>3, <1>4, <1>5, <1>6 DEF Next

(* The lock and the set of subscribers, in every state of the backend.     *)
LEMMA HubCorrect == Spec => []HubInv
<1>1. Init => HubInv
  <2>1. HubInit => HubInv
    <3> SUFFICES ASSUME HubInit PROVE HubInv
      OBVIOUS
    <3>1. \A t \in Tabs : tab[t] = "away"
      BY DEF HubInit
    <3>2. 0 \in 0 .. BufferSize
      BY HubAssumption
    <3>3. sending = {} /\ subscribers = {} /\ locked = FALSE
      BY DEF HubInit
    <3>4. tab \in [Tabs -> TabStates] /\ queued \in [Tabs -> 0 .. BufferSize]
      BY <3>2 DEF HubInit, TabStates
    <3> QED
      BY <3>1, <3>3, <3>4 DEF HubInv, HubTypeOK
  <2> QED
    BY <2>1 DEF Init
<1>2. HubInv /\ [Next]_vars => HubInv'
  BY HubSteps, BackendStepsHub
<1> QED
  BY <1>1, <1>2, PTL DEF Spec

(* No send ever finds its channel closed, however many tabs come and go    *)
(* while a broadcast is under way: a panic there would end the backend.    *)
THEOREM NoSendOnClosed == Spec => []ChannelsAreOpen
<1>1. HubInv => ChannelsAreOpen
  BY DEF HubInv, ChannelsAreOpen
<1> QED
  BY <1>1, HubCorrect, PTL

-----------------------------------------------------------------------------
(* Types.                                                                  *)

Snapshots == [rollout : {"nil", "running", "completed"}, versions : {"none", "own", "shared"},
              totals : {Unread} \cup 0 .. MaxEvents, health : {Unread} \cup 0 .. MaxEvents]

(* TypeOK part by part, the snapshots as records.                          *)
TypeInv ==
  /\ HubTypeOK /\ (locked => poll = "broadcast")
  /\ rollout \in {"none", "running", "completed", "stopped"}
  /\ serving \in BOOLEAN /\ poll \in PollStates
  /\ reads \subseteq {"deployment", "totals", "rollout"}
  /\ (reads # {} => poll = "reading")
  /\ stored \in Snapshots /\ building \in Snapshots
  /\ asked \in 0 .. MaxEvents /\ since \in 0 .. MaxEvents
  /\ cache \in {Unread} \cup 0 .. MaxEvents
  /\ held \in [Clients -> {"nothing", "current", "former"}]
  /\ \A c \in Clients : held[c] # "nothing" => serving
  /\ resetting \in BOOLEAN /\ sampleDue \in BOOLEAN
  /\ cacheAge \in 0 .. HealthTTL /\ seenAge \in 0 .. InterestWindow
  /\ events \in 0 .. MaxEvents

LEMMA TypeParts == TypeInv => TypeOK
  BY DEF TypeInv, TypeOK, Snapshots

(* A snapshot of which one part was read anew.                             *)
LEMMA PartsRead ==
  ASSUME NEW s \in Snapshots
  PROVE  /\ \A v \in {"none", "own", "shared"} : [s EXCEPT !.versions = v] \in Snapshots
         /\ \A r \in {"nil", "running", "completed"} : [s EXCEPT !.rollout = r] \in Snapshots
         /\ \A n \in {Unread} \cup 0 .. MaxEvents : [s EXCEPT !.totals = n] \in Snapshots
         /\ \A n \in {Unread} \cup 0 .. MaxEvents : [s EXCEPT !.health = n] \in Snapshots
  BY DEF Snapshots

LEMMA TypeInit == Init => TypeInv
<1> SUFFICES ASSUME Init PROVE TypeInv
  OBVIOUS
<1>1. HubTypeOK
  <2>1. Init => HubInit
    BY DEF Init
  <2>2. 0 \in 0 .. BufferSize
    BY HubAssumption
  <2> QED
    BY <2>1, <2>2 DEF HubInit, HubTypeOK, TabStates
<1>2. NoSnapshot \in Snapshots
  BY DEF NoSnapshot, Snapshots
<1>3. HealthTTL \in 0 .. HealthTTL /\ InterestWindow \in 0 .. InterestWindow
      /\ 0 \in 0 .. MaxEvents /\ Unread \in {Unread} \cup 0 .. MaxEvents
  BY BackendAssumption
<1>4. /\ held \in [Clients -> {"nothing", "current", "former"}]
      /\ \A c \in Clients : held[c] = "nothing"
  BY DEF Init
<1>5. locked = FALSE
  BY DEF Init, HubInit
<1>6. /\ rollout = "none" /\ serving = FALSE /\ poll = "idle" /\ reads = {}
      /\ stored = NoSnapshot /\ building = NoSnapshot /\ asked = 0 /\ since = 0
      /\ resetting = FALSE /\ cache = Unread /\ cacheAge = HealthTTL
      /\ seenAge = InterestWindow /\ sampleDue = TRUE /\ events = 0
  BY DEF Init
<1> QED
  BY <1>1, <1>2, <1>3, <1>4, <1>5, <1>6 DEF TypeInv, PollStates

(* Every step keeps the types; of the hub's variables HubSteps says it.    *)
LEMMA TypeStep == TypeInv /\ HubInv /\ [Next]_vars => TypeInv'
<1> SUFFICES ASSUME TypeInv, HubInv, [Next]_vars PROVE TypeInv'
  OBVIOUS
<1>0. HubTypeOK'
  BY HubSteps, BackendStepsHub DEF HubInv
<1> USE <1>0, BackendAssumption DEF TypeInv, PollStates, Event
<1>1. CASE BuildBegins
  <2>1. building' \in Snapshots
    BY <1>1, PartsRead DEF BuildBegins
  <2> QED
    BY <1>1, <2>1 DEF BuildBegins, hub, counters, health
<1>2. CASE ReadDeployment
  <2>1. building' \in Snapshots
    BY <1>2, PartsRead DEF ReadDeployment
  <2> QED
    BY <1>2, <2>1 DEF ReadDeployment, Reads, ReadsElse, hub, counters, health
<1>3. CASE ReadTotals
  <2>0. since \in {Unread} \cup 0 .. MaxEvents
    OBVIOUS
  <2>1. building' = building \/ building' = [building EXCEPT !.totals = since]
    BY <1>3 DEF ReadTotals
  <2>2. building' \in Snapshots
    <3>1. \A n \in {Unread} \cup 0 .. MaxEvents : [building EXCEPT !.totals = n] \in Snapshots
      BY PartsRead
    <3>2. [building EXCEPT !.totals = since] \in Snapshots
      BY <2>0, <3>1, Zenon
    <3> QED
      BY <2>1, <3>2
  <2> QED
    BY <1>3, <2>2 DEF ReadTotals, Reads, ReadsElse, hub, counters, health
<1>4. CASE ReadRollout
  <2>1. RolloutState \in {"nil", "running", "completed"}
    BY DEF RolloutState
  <2>2. building.rollout \in {"nil", "running", "completed"}
    BY DEF Snapshots
  <2>3. \/ building' = building
        \/ \E r \in {"nil", "running", "completed"} : building' = [building EXCEPT !.rollout = r]
    BY <1>4, <2>1, <2>2 DEF ReadRollout
  <2>4. building' \in Snapshots
    BY <2>3, PartsRead
  <2>5. events' \in 0 .. MaxEvents
    BY <1>4 DEF ReadRollout
  <2> QED
    BY <1>4, <2>4, <2>5 DEF ReadRollout, Reads, ReadsElse, hub, counters, health
<1>5. CASE HealthIsCached
  <2>1. building' \in Snapshots
    BY <1>5, PartsRead DEF HealthIsCached
  <2> QED
    BY <1>5, <2>1 DEF HealthIsCached, AllRead, hub, counters, health
<1>6. CASE HealthIsAsked
  BY <1>6 DEF HealthIsAsked, AllRead, hub, counters, health
<1>7. CASE HealthIsRead
  <2>1. stored.health \in {Unread} \cup 0 .. MaxEvents
    BY DEF Snapshots
  <2>2. cache' \in {Unread} \cup 0 .. MaxEvents
    BY <1>7, <2>1 DEF HealthIsRead
  <2>3. building' \in Snapshots
    BY <1>7, <2>2, PartsRead DEF HealthIsRead
  <2>4. events' \in 0 .. MaxEvents
    BY <1>7 DEF HealthIsRead
  <2>5. 0 \in 0 .. HealthTTL /\ 0 \in 0 .. MaxEvents
    OBVIOUS
  <2>6. /\ UNCHANGED <<locked, rollout, serving, reads, stored, held, since, resetting, seenAge,
                       sampleDue>>
        /\ poll = "health" /\ poll' = "attach" /\ cacheAge' = 0 /\ asked' = 0
    BY <1>7 DEF HealthIsRead, counters, hub
  <2>7. reads' = {} /\ locked' = FALSE
    BY <2>6
  <2> QED
    BY <2>2, <2>3, <2>4, <2>5, <2>6, <2>7
<1>8. CASE Attach \/ Sample
  <2>1. /\ UNCHANGED <<locked, rollout, serving, reads, building, stored, asked, held, since,
                       resetting, cache, cacheAge, seenAge, events>>
        /\ poll \in {"attach", "history"} /\ poll' \in {"history", "built"}
        /\ sampleDue' \in BOOLEAN
    BY <1>8 DEF Attach, Sample, hub, counters, health
  <2> QED
    BY <2>1
<1>9. CASE Store
  <2>1. /\ held' \in [Clients -> {"nothing", "current", "former"}]
        /\ serving' = TRUE
    BY <1>9 DEF Store
  <2> QED
    BY <1>9, <2>1 DEF Store, hub, counters, health
<1>10. CASE Broadcast
  <2>1. /\ poll' \in PollStates /\ (locked' => poll' = "broadcast")
        /\ poll \in {"stored", "broadcast"}
    BY <1>10 DEF Broadcast, BroadcastBegins, BroadcastEnds, Send
  <2>2. UNCHANGED <<rollout, serving, reads, building, stored, asked, held, since, resetting,
                    cache, cacheAge, seenAge, sampleDue, events>>
    BY <1>10 DEF Broadcast, counters, health
  <2> QED
    BY <2>1, <2>2
<1>11. ASSUME NEW t \in Tabs, Connect(t) PROVE TypeInv'
  <2>1. /\ held' \in [Clients -> {"nothing", "current", "former"}]
        /\ serving /\ locked' = locked /\ events' \in 0 .. MaxEvents
    BY <1>11 DEF Connect, Subscribe, Clients
  <2> QED
    BY <1>11, <2>1 DEF Connect, HubElse, build, counters, health
<1>12. ASSUME NEW t \in Tabs, Greet(t) PROVE TypeInv'
  <2>1. /\ held' \in [Clients -> {"nothing", "current", "former"}]
        /\ (\A c \in Clients : held'[c] # "nothing" => held[c] # "nothing")
        /\ locked' = locked
    BY <1>12 DEF Greet, Greeted
  <2> QED
    BY <1>12, <2>1 DEF Greet, HubElse, build, counters, health
<1>13. ASSUME NEW t \in Tabs, Tab(t) PROVE TypeInv'
  <2>1. locked' = locked
    BY <1>13 DEF Tab, Receive, Leave, Unsubscribe, Close
  <2> QED
    BY <1>13, <2>1 DEF Tab, HubElse, build, counters, health
<1>14. ASSUME NEW c \in Scripts, GetState(c) PROVE TypeInv'
  <2>1. /\ held' \in [Clients -> {"nothing", "current", "former"}]
        /\ serving /\ events' \in 0 .. MaxEvents /\ seenAge' \in 0 .. InterestWindow
    BY <1>14 DEF GetState, Clients
  <2> QED
    BY <1>14, <2>1 DEF GetState, hub, build, counters, health
<1>15. ASSUME NEW c \in Scripts, Answer(c) PROVE TypeInv'
  <2>1. /\ held' \in [Clients -> {"nothing", "current", "former"}]
        /\ \A d \in Clients : held'[d] # "nothing" => held[d] # "nothing"
    BY <1>15 DEF Answer
  <2>2. UNCHANGED <<locked, rollout, serving, poll, reads, building, stored, asked, since,
                    resetting, cache, cacheAge, seenAge, sampleDue, events>>
    BY <1>15 DEF Answer, HubElse, hub, build, counters, health
  <2> QED
    BY <2>1, <2>2
<1>16. CASE ResetSince \/ ResetCache
  <2>1. since' \in 0 .. MaxEvents /\ events' \in 0 .. MaxEvents
    BY <1>16 DEF ResetSince, ResetCache, counters
  <2>2. cache' \in {Unread} \cup 0 .. MaxEvents /\ cacheAge' \in 0 .. HealthTTL
    BY <1>16 DEF ResetSince, ResetCache, health
  <2>3. /\ UNCHANGED <<locked, rollout, serving, poll, reads, building, stored, asked, held,
                       seenAge, sampleDue>>
        /\ resetting' \in BOOLEAN
    BY <1>16 DEF ResetSince, ResetCache, hub, build
  <2> QED
    BY <2>1, <2>2, <2>3
<1>17. CASE Coordinate
  BY <1>17 DEF Coordinate, hub, build, counters, health
<1>18. CASE Tick
  BY <1>18 DEF Tick, hub, build, counters
<1>19. CASE Restart
  <2>1. NoSnapshot \in Snapshots
    BY DEF NoSnapshot, Snapshots
  <2>2. locked' = FALSE
    BY <1>19 DEF Restart, HubRestarts
  <2>3. /\ held' \in [Clients -> {"nothing", "current", "former"}]
        /\ \A c \in Clients : held'[c] = "nothing"
    BY <1>19 DEF Restart
  <2>4. /\ HealthTTL \in 0 .. HealthTTL /\ InterestWindow \in 0 .. InterestWindow
        /\ 0 \in 0 .. MaxEvents /\ events' \in 0 .. MaxEvents
    BY <1>19 DEF Restart
  <2>5. /\ serving' = FALSE /\ poll' = "idle" /\ reads' = {} /\ stored' = NoSnapshot
        /\ building' = NoSnapshot /\ asked' = 0 /\ since' = 0 /\ resetting' = FALSE
        /\ cache' = Unread /\ cacheAge' = HealthTTL /\ seenAge' = InterestWindow
        /\ sampleDue' = TRUE /\ rollout' = rollout
    BY <1>19 DEF Restart
  <2> QED
    BY <2>1, <2>2, <2>3, <2>4, <2>5
<1>20. CASE UNCHANGED vars
  BY <1>20 DEF vars, hub, build, counters, health
<1> QED
  BY <1>1, <1>2, <1>3, <1>4, <1>5, <1>6, <1>7, <1>8, <1>9, <1>10, <1>11, <1>12, <1>13, <1>14,
    <1>15, <1>16, <1>17, <1>18, <1>19, <1>20 DEF Next, Poller

LEMMA TypeInvCorrect == Spec => []TypeInv
  BY TypeInit, TypeStep, HubCorrect, PTL DEF Spec

(* The variables have their types, a build waits for reads only while it   *)
(* reads, the hub is locked during a broadcast only, and nobody is served  *)
(* before there is a snapshot.                                             *)
THEOREM TypeCorrect == Spec => []TypeOK
<1> QED
  BY TypeParts, TypeInvCorrect, PTL

-----------------------------------------------------------------------------
(* Carrying forward.                                                       *)

(* A build that goes on has a rollout if the snapshot before it had one.   *)
CarriesRollout ==
  poll # "idle" => (stored.rollout # "nil" => building.rollout # "nil")

LEMMA CarriesInit == Init => CarriesRollout
  BY DEF Init, CarriesRollout

LEMMA CarriesStep == TypeInv /\ CarriesRollout /\ [Next]_vars => CarriesRollout'
<1> SUFFICES ASSUME TypeInv, CarriesRollout, [Next]_vars PROVE CarriesRollout'
  OBVIOUS
<1> USE DEF CarriesRollout
<1>1. CASE BuildBegins
  BY <1>1 DEF BuildBegins
<1>2. CASE ReadDeployment \/ ReadTotals
  BY <1>2 DEF ReadDeployment, ReadTotals, Reads, ReadsElse, TypeInv, Snapshots
<1>3. CASE ReadRollout
  <2>1. stored' = stored /\ poll = "reading"
    BY <1>3 DEF ReadRollout, Reads, ReadsElse
  <2>2. building'.rollout = building.rollout \/ building'.rollout # "nil"
    BY <1>3 DEF ReadRollout, TypeInv, Snapshots
  <2>3. stored.rollout # "nil" => building.rollout # "nil"
    BY <2>1
  <2>4. stored'.rollout = stored.rollout
    BY <2>1
  <2> QED
    BY <2>2, <2>3, <2>4
<1>4. CASE HealthIsCached \/ HealthIsAsked
  BY <1>4 DEF HealthIsCached, HealthIsAsked, AllRead, TypeInv, Snapshots
<1>5. CASE HealthIsRead
  BY <1>5 DEF HealthIsRead, TypeInv, Snapshots
<1>6. CASE Attach \/ Sample
  BY <1>6 DEF Attach, Sample
<1>7. CASE Store
  BY <1>7 DEF Store
<1>8. CASE Broadcast
  BY <1>8 DEF Broadcast
<1>9. ASSUME NEW t \in Tabs, Connect(t) \/ Greet(t) \/ Tab(t) PROVE CarriesRollout'
  BY <1>9 DEF Connect, Greet, Tab, HubElse, build
<1>10. ASSUME NEW c \in Scripts, GetState(c) \/ Answer(c) PROVE CarriesRollout'
  BY <1>10 DEF GetState, Answer, HubElse, build
<1>11. CASE ResetSince \/ ResetCache \/ Coordinate \/ Tick
  BY <1>11 DEF ResetSince, ResetCache, Coordinate, Tick, build
<1>12. CASE Restart
  BY <1>12 DEF Restart
<1>13. CASE UNCHANGED vars
  BY <1>13 DEF vars, build
<1> QED
  BY <1>1, <1>2, <1>3, <1>4, <1>5, <1>6, <1>7, <1>8, <1>9, <1>10, <1>11, <1>12, <1>13
    DEF Next, Poller

(* A snapshot is replaced only by one that carries its rollout on.         *)
LEMMA StoredIsKept ==
  ASSUME TypeInv, CarriesRollout, [Next]_vars,
         rollout = "running", stored.rollout = "running", serving'
  PROVE  stored'.rollout # "nil"
<1>1. CASE Store
  BY <1>1 DEF Store, CarriesRollout
<1>2. CASE Restart
  BY <1>2 DEF Restart
<1>3. CASE UNCHANGED stored
  BY <1>3
<1>4. Store \/ Restart \/ UNCHANGED stored
  <2>1. CASE Poller
    BY <2>1 DEF Poller, BuildBegins, ReadDeployment, ReadTotals, ReadRollout, Reads, ReadsElse,
      HealthIsCached, HealthIsAsked, HealthIsRead, Attach, Sample, Broadcast
  <2>2. ASSUME NEW t \in Tabs, Connect(t) \/ Greet(t) \/ Tab(t) PROVE UNCHANGED stored
    BY <2>2 DEF Connect, Greet, Tab, HubElse
  <2>3. ASSUME NEW c \in Scripts, GetState(c) \/ Answer(c) PROVE UNCHANGED stored
    BY <2>3 DEF GetState, Answer, HubElse
  <2>4. CASE ResetSince \/ ResetCache \/ Coordinate \/ Tick
    BY <2>4 DEF ResetSince, ResetCache, Coordinate, Tick
  <2>5. CASE UNCHANGED vars
    BY <2>5 DEF vars
  <2> QED
    BY <2>1, <2>2, <2>3, <2>4, <2>5 DEF Next
<1> QED
  BY <1>1, <1>2, <1>3, <1>4

(* A live rollout does not vanish from the dashboard through failing reads *)
(* or while nobody looks.                                                  *)
THEOREM RolloutStaysShown == Spec => LiveRolloutIsKept
<1>1. TypeInv /\ CarriesRollout /\ [Next]_vars
        => [rollout = "running" /\ stored.rollout = "running" /\ serving'
              => stored'.rollout # "nil"]_vars
  BY StoredIsKept
<1> QED
  BY <1>1, CarriesInit, CarriesStep, TypeInvCorrect, PTL DEF Spec, LiveRolloutIsKept
=============================================================================
