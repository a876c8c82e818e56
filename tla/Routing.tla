------------------------------- MODULE Routing -------------------------------
(***************************************************************************)
(* The traffic split of one Worker Deployment: which version is Current,   *)
(* which one is ramping, and the ramping version's percentage of new       *)
(* orders (deploy.Routing).  The operators are the three routing calls of  *)
(* internal/deploy, by their effect on that split.  The server that        *)
(* executes them is Temporal: what it accepts and what it does to the rest *)
(* of the record is external, taken from how the callers rely on it.       *)
(***************************************************************************)
EXTENDS Integers, Sequences

CONSTANTS
  Versions,    (* Build IDs registered with the deployment.                *)
  NoVersion    (* The empty Build ID.                                      *)

ASSUME NoVersionAssumption == NoVersion \notin Versions

Pct == 0 .. 100

(* Every routing record the server can report: without a ramp the          *)
(* percentage is zero, and a version never ramps against itself.           *)
RoutingState ==
  {r \in [current: Versions \cup {NoVersion},
          ramping: Versions \cup {NoVersion}, pct: Pct] :
     IF r.ramping = NoVersion THEN r.pct = 0 ELSE r.ramping # r.current}

NoRouting == [current |-> NoVersion, ramping |-> NoVersion, pct |-> 0]

(* The percentage of new orders version v is given, as Describe reports it *)
(* in TrafficPct.                                                          *)
Share(r, v) ==
  CASE v = r.current -> 100 - r.pct
    [] v = r.ramping /\ v # r.current -> r.pct
    [] OTHER -> 0

(* One request to the server: the version of a SetCurrent, the version and *)
(* percentage of a SetRamp, or a ClearRamp (empty version, percentage 0).  *)
SetCurrent(v) == [op |-> "current", version |-> v, pct |-> 0]
SetRamp(v, p) == [op |-> "ramp", version |-> v, pct |-> p]
ClearRamp     == [op |-> "ramp", version |-> NoVersion, pct |-> 0]

Calls ==
  {SetCurrent(v) : v \in Versions} \cup {ClearRamp}
    \cup {SetRamp(v, p) : v \in Versions, p \in Pct}

(* The server refuses to ramp the version that is already Current.         *)
Accepts(r, call) == call.op = "ramp" => call.version = NoVersion \/ call.version # r.current

(* Promoting the ramping version ends its ramp; any other ramp stays.      *)
Apply(r, call) ==
  IF call.op = "ramp"
    THEN [current |-> r.current, ramping |-> call.version, pct |-> call.pct]
    ELSE IF r.ramping = call.version
           THEN [current |-> call.version, ramping |-> NoVersion, pct |-> 0]
           ELSE [r EXCEPT !.current = call.version]

(* Mutant: a ramp that was already in flight is forgotten.                 *)
RestoreCallsClearing(previous) == <<SetCurrent(previous.current), ClearRamp>>
(* RestoreRouting: Current first, then whatever ramp there was before.     *)
RestoreCalls(previous) ==
  (IF previous.current = NoVersion THEN <<>> ELSE <<SetCurrent(previous.current)>>)
    \o <<IF previous.ramping = NoVersion \/ previous.pct = 0
           THEN ClearRamp
           ELSE SetRamp(previous.ramping, previous.pct)>>
=============================================================================
