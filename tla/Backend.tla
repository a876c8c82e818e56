-------------------------------- MODULE Backend --------------------------------
(***************************************************************************)
(* The backend process: the poll goroutine that builds a snapshot at a     *)
(* time and broadcasts it, the handlers that encode the stored one, the    *)
(* counters' start and the health cache, and the reads that only happen    *)
(* while somebody looks.  It keeps nothing when it restarts.               *)
(*                                                                         *)
(* A snapshot is what its parts were read from.  Of the parts that are     *)
(* read alike one stands for all: the rollout for both control-plane       *)
(* values, totals and health of one version for counts, the deployment for *)
(* every value that is carried forward.  reconcileFaults, called at the    *)
(* end of a poll, is FaultRepair.                                          *)
(***************************************************************************)
EXTENDS Hub, Integers

CONSTANTS
  Scripts,          (* Clients of GET /api/state.                          *)
  HealthTTL,        (* How long a reading of the health is reused.         *)
  InterestWindow,   (* How long a request counts as somebody looking.      *)
  MaxEvents         (* Bound: failed reads, requests, restarts, rollouts.  *)

ASSUME BackendAssumption ==
  /\ HealthTTL \in Nat \ {0} /\ InterestWindow \in Nat \ {0} /\ MaxEvents \in Nat
  /\ IsFiniteSet(Scripts) /\ Scripts \cap Tabs = {}

VARIABLES
  rollout,     (* The coordinator's execution, on the server.              *)
  serving,     (* The first snapshot is stored and HTTP is up.             *)
  poll,        (* Where the poll goroutine is.                             *)
  reads,       (* Reads the build waits for.                               *)
  building,    (* The snapshot being built.                                *)
  stored,      (* The last one stored: previous, latest.                   *)
  asked,       (* The counters' start the health is being read with.       *)
  held,        (* What each handler encodes, by its array of versions.     *)
  since,       (* The counters' start: 0, or the reset that set it.        *)
  resetting,   (* A reset has set it and not dropped the cache yet.        *)
  cache,       (* Start of counting of the cached health.                  *)
  cacheAge, seenAge,   (* Time since it was read, and since a request.     *)
  sampleDue,   (* The sparklines are due a point.                          *)
  events       (* What has been done and has failed.                       *)

build == <<poll, reads, building, asked>>
counters == <<since, resetting>>
health == <<cache, cacheAge>>
vars == <<hub, rollout, serving, build, stored, held, counters, health, seenAge, sampleDue, events>>

Clients == Tabs \cup Scripts
PollStates ==
  {"idle", "reading", "health", "attach", "history", "built", "stored", "broadcast"}
Unread == -1   (* No count has been read. *)

Event == events < MaxEvents /\ events' = events + 1

Looking == subscribers # {} \/ seenAge < InterestWindow

NoSnapshot == [rollout |-> "nil", versions |-> "none", totals |-> Unread, health |-> Unread]

Init ==
  /\ HubInit
  /\ rollout = "none" /\ serving = FALSE
  /\ poll = "idle" /\ reads = {} /\ stored = NoSnapshot /\ building = NoSnapshot /\ asked = 0
  /\ held = [c \in Clients |-> "nothing"]
  /\ since = 0 /\ resetting = FALSE
  /\ cache = Unread /\ cacheAge = HealthTTL /\ seenAge = InterestWindow
  /\ sampleDue = TRUE /\ events = 0

-----------------------------------------------------------------------------
(* A build begins from the previous snapshot's values, for reads that fail *)
(* or are not made.  The first one is Start's, before anybody is served.   *)
BuildBegins ==
  /\ poll = "idle"
  /\ poll' = "reading"
  /\ reads' = {"deployment", "totals"} \cup (IF Looking THEN {"rollout"} ELSE {})
  /\ building' = [stored EXCEPT !.versions = "own"]
  /\ UNCHANGED <<hub, rollout, serving, stored, asked, held, counters, health, seenAge, sampleDue, events>>

Reads(r) == poll = "reading" /\ r \in reads /\ reads' = reads \ {r}
ReadsElse == <<hub, rollout, serving, poll, stored, asked, held, counters, health, seenAge, sampleDue>>

(* Describe makes a new array of versions; the previous snapshot's is      *)
(* taken over, not copied, when it fails.                                  *)
ReadDeployment ==
  /\ Reads("deployment")
  /\ \/ UNCHANGED <<building, events>>
     \/ Event /\ building' = [building EXCEPT
          !.versions = IF stored.versions = "none" THEN "none" ELSE "shared"]
  /\ UNCHANGED ReadsElse

ReadTotals ==
  /\ Reads("totals")
  /\ \/ building' = [building EXCEPT !.totals = since] /\ UNCHANGED events
     \/ UNCHANGED building /\ Event
  /\ UNCHANGED ReadsElse

(* What the controller answers: a closed rollout that did not complete, no *)
(* rollout and a read that failed are all nil.                             *)
RolloutState == IF rollout \in {"running", "completed"} THEN rollout ELSE "nil"

(* Mutant: nil is shown as it is.                                          *)
ReadRolloutPlainly ==
  /\ Reads("rollout")
  /\ \/ building' = [building EXCEPT !.rollout = RolloutState] /\ UNCHANGED events
     \/ building' = [building EXCEPT !.rollout = "nil"] /\ Event
  /\ UNCHANGED ReadsElse

(* The build keeps the previous value for any nil.                         *)
ReadRollout ==
  /\ Reads("rollout")
  /\ \/ /\ building' = [building EXCEPT !.rollout = IF RolloutState = "nil" THEN @ ELSE RolloutState]
        /\ UNCHANGED events
     \/ UNCHANGED building /\ Event
  /\ UNCHANGED ReadsElse

AllRead == poll = "reading" /\ reads = {}
Cached == cacheAge < HealthTTL /\ cache # Unread

(* Mutant: a reading's time is renewed when it is reused.                  *)
HealthIsRenewed ==
  /\ AllRead /\ Cached
  /\ poll' = "attach" /\ building' = [building EXCEPT !.health = cache] /\ cacheAge' = 0
  /\ UNCHANGED <<hub, rollout, serving, reads, stored, asked, held, counters, cache, seenAge, sampleDue, events>>

HealthIsCached ==
  /\ AllRead /\ Cached
  /\ poll' = "attach" /\ building' = [building EXCEPT !.health = cache]
  /\ UNCHANGED <<hub, rollout, serving, reads, stored, asked, held, counters, health, seenAge, sampleDue, events>>

HealthIsAsked ==
  /\ AllRead /\ ~Cached
  /\ poll' = "health" /\ asked' = since
  /\ UNCHANGED <<hub, rollout, serving, reads, building, stored, held, counters, health, seenAge, sampleDue, events>>

(* The answer replaces the cache, also one dropped since it was asked for. *)
(* A failed read puts the previous snapshot's health there.                *)
HealthIsRead ==
  /\ poll = "health"
  /\ \/ cache' = (IF building.versions = "none" THEN Unread ELSE asked) /\ UNCHANGED events
     \/ cache' = (IF building.versions = "none" THEN Unread ELSE stored.health) /\ Event
  /\ building' = [building EXCEPT !.health = cache']
  /\ poll' = "attach" /\ cacheAge' = 0 /\ asked' = 0
  /\ UNCHANGED <<hub, rollout, serving, reads, stored, held, counters, seenAge, sampleDue>>

(* attachWorkers and applySplit write into the array of versions; at       *)
(* "attach" they are at it.                                                *)
Attach ==
  /\ poll = "attach"
  /\ poll' = "history"
  /\ UNCHANGED <<hub, rollout, serving, reads, building, stored, asked, held, counters, health, seenAge, sampleDue, events>>

(* pushVersions writes, when a point is due, into the one map that all     *)
(* snapshots share; at "history" it is at it.                              *)
Sample ==
  /\ poll = "history"
  /\ poll' = "built" /\ sampleDue' = FALSE
  /\ UNCHANGED <<hub, rollout, serving, reads, building, stored, asked, held, counters, health, seenAge, events>>

(* Whoever encodes the snapshot that is replaced keeps it.  Start does not *)
(* broadcast its own.                                                      *)
Store ==
  /\ poll = "built"
  /\ poll' = IF serving THEN "stored" ELSE "idle"
  /\ stored' = building /\ serving' = TRUE
  /\ held' = [c \in Clients |->
       IF held[c] = "current" /\ building.versions = "own" THEN "former" ELSE held[c]]
  /\ UNCHANGED <<hub, rollout, reads, building, asked, counters, health, seenAge, sampleDue, events>>

Broadcast ==
  /\ \/ poll = "stored" /\ BroadcastBegins /\ poll' = "broadcast"
     \/ poll = "broadcast" /\ BroadcastEnds /\ poll' = "idle"
     \/ poll = "broadcast" /\ (\E t \in Tabs : Send(t)) /\ poll' = poll
  /\ UNCHANGED <<rollout, serving, reads, building, stored, asked, held, counters, health, seenAge, sampleDue, events>>

Poller ==
  \/ BuildBegins \/ ReadDeployment \/ ReadTotals \/ ReadRollout
  \/ HealthIsCached \/ HealthIsAsked \/ HealthIsRead
  \/ Attach \/ Sample \/ Store \/ Broadcast

-----------------------------------------------------------------------------
HubElse == <<rollout, serving, build, stored, counters, health, seenAge, sampleDue>>

Connect(t) ==
  /\ serving /\ Subscribe(t) /\ Event
  /\ held' = [held EXCEPT ![t] = "current"]
  /\ UNCHANGED HubElse

Greet(t) ==
  /\ Greeted(t)
  /\ held' = [held EXCEPT ![t] = "nothing"]
  /\ UNCHANGED <<HubElse, events>>

Tab(t) ==
  /\ Receive(t) \/ Leave(t) \/ Unsubscribe(t) \/ Close(t)
  /\ UNCHANGED <<HubElse, held, events>>

GetState(c) ==
  /\ serving /\ held[c] = "nothing" /\ Event
  /\ held' = [held EXCEPT ![c] = "current"] /\ seenAge' = 0
  /\ UNCHANGED <<hub, rollout, serving, build, stored, counters, health, sampleDue>>

Answer(c) ==
  /\ held[c] # "nothing"
  /\ held' = [held EXCEPT ![c] = "nothing"]
  /\ UNCHANGED <<hub, HubElse, events>>

(* resetCounters: the start, from now on or back to all time, and then the *)
(* cache, under locks of their own.                                        *)
ResetSince ==
  /\ serving /\ ~resetting /\ Event
  /\ since' \in {0, events + 1} /\ resetting' = TRUE
  /\ UNCHANGED <<hub, rollout, serving, build, stored, held, health, seenAge, sampleDue>>

ResetCache ==
  /\ resetting
  /\ resetting' = FALSE /\ cache' = Unread /\ cacheAge' = HealthTTL
  /\ UNCHANGED <<hub, rollout, serving, build, stored, held, since, seenAge, sampleDue, events>>

(* The coordinator starts, completes, or is closed without a result:       *)
(* failed, terminated, or timed out.                                       *)
Coordinate ==
  /\ \/ rollout # "running" /\ rollout' = "running" /\ Event
     \/ rollout = "running" /\ rollout' \in {"completed", "stopped"} /\ UNCHANGED events
  /\ UNCHANGED <<hub, serving, build, stored, held, counters, health, seenAge, sampleDue>>

Tick ==
  /\ cacheAge' = (IF cacheAge < HealthTTL THEN cacheAge + 1 ELSE cacheAge)
  /\ seenAge' = (IF seenAge < InterestWindow THEN seenAge + 1 ELSE seenAge)
  /\ sampleDue' = TRUE
  /\ UNCHANGED <<hub, rollout, serving, build, stored, held, counters, cache, events>>

(* The process ends, for whatever reason, and is started again.            *)
Restart ==
  /\ Event
  /\ HubRestarts
  /\ serving' = FALSE
  /\ poll' = "idle" /\ reads' = {} /\ stored' = NoSnapshot /\ building' = NoSnapshot /\ asked' = 0
  /\ held' = [c \in Clients |-> "nothing"]
  /\ since' = 0 /\ resetting' = FALSE
  /\ cache' = Unread /\ cacheAge' = HealthTTL /\ seenAge' = InterestWindow
  /\ sampleDue' = TRUE
  /\ UNCHANGED rollout

Next ==
  \/ Poller
  \/ \E t \in Tabs : Connect(t) \/ Greet(t) \/ Tab(t)
  \/ \E c \in Scripts : GetState(c) \/ Answer(c)
  \/ ResetSince \/ ResetCache \/ Coordinate \/ Tick \/ Restart

Spec == Init /\ [][Next]_vars

(* Goroutines and time go on; a write lock is had by whoever waits for it  *)
(* although broadcasts take it again and again (RWMutex lets no reader     *)
(* pass a writer).  Nothing obliges a tab to receive or to leave.          *)
Fairness ==
  /\ WF_vars(Poller) /\ WF_vars(Tick) /\ WF_vars(ResetCache)
  /\ \A t \in Tabs :
       /\ WF_vars(Greet(t))
       /\ SF_vars(Unsubscribe(t) /\ Tab(t)) /\ WF_vars(Close(t) /\ Tab(t))
  /\ \A c \in Scripts : WF_vars(Answer(c))

FairSpec == Spec /\ Fairness

-----------------------------------------------------------------------------
(* Types.  The lock is held during a broadcast only, and what a build      *)
(* waits for belongs to it.                                                *)
TypeOK ==
  /\ HubTypeOK /\ (locked => poll = "broadcast")
  /\ rollout \in {"none", "running", "completed", "stopped"}
  /\ serving \in BOOLEAN /\ poll \in PollStates
  /\ reads \subseteq {"deployment", "totals", "rollout"}
  /\ (reads # {} => poll = "reading")
  /\ \A s \in {stored, building} :
       /\ s.rollout \in {"nil", "running", "completed"}
       /\ s.versions \in {"none", "own", "shared"}
       /\ {s.totals, s.health} \subseteq {Unread} \cup 0 .. MaxEvents
  /\ {asked, since} \subseteq 0 .. MaxEvents /\ cache \in {Unread} \cup 0 .. MaxEvents
  /\ held \in [Clients -> {"nothing", "current", "former"}]
  /\ \A c \in Clients : held[c] # "nothing" => serving
  /\ resetting \in BOOLEAN /\ sampleDue \in BOOLEAN
  /\ cacheAge \in 0 .. HealthTTL /\ seenAge \in 0 .. InterestWindow
  /\ events \in 0 .. MaxEvents

(* One slow tab never stalls the poll loop: it goes round for ever.        *)
PollsGoOn == []<>(poll = "idle") /\ []<>(poll = "built")

(* What a reset of the counters asks for is what is shown in the end,      *)
(* totals and health alike, although an answer to the old question can     *)
(* still come in, and be cached, after it.                                 *)
CountsFollowReset ==
  <>[](serving /\ stored.health # Unread => stored.health = since /\ stored.totals = since)

(* A rollout that is shown and goes on is not shown as none, whatever      *)
(* reads fail and whoever stops looking.                                   *)
LiveRolloutIsKept ==
  [][rollout = "running" /\ stored.rollout = "running" /\ serving'
       => stored'.rollout # "nil"]_vars

(* With all tabs gone and no requests, the reads that keep the control     *)
(* Worker awake end.                                                       *)
ScalesToZero == <>[](\A t \in Tabs : tab[t] = "away") => <>[]("rollout" \notin reads)

(* Claimed by rolloutController.state: a rollout that was closed without   *)
(* completing is reported as nothing running.  Somebody looks.             *)
StoppedRolloutIsDropped ==
  (rollout = "stopped" /\ serving /\ subscribers # {})
    ~> (stored.rollout # "running" \/ rollout # "stopped" \/ subscribers = {})

(* Claimed by the comment on Server.snapshot: readers never see a          *)
(* half-updated picture.  Nothing that is being encoded is written to.     *)
ReadersSeeOnePicture ==
  \A c \in Clients : held[c] # "nothing" =>
    /\ ~(poll = "attach" /\ building.versions = "shared" /\ held[c] = "current")
    /\ ~(poll = "history" /\ sampleDue)
=============================================================================
