-------------------------------- MODULE Smoke --------------------------------
(***************************************************************************)
(* ksp-mcp -smoke: runSmoke of cmd/ksp-mcp/main.go, which drives every     *)
(* tool once against the running game.  Its read tools only matter here    *)
(* for the connection they may drop; its two round trips place nodes with  *)
(* the tools of Planner and take them away again.                          *)
(* The pilot keeps his hands off while it runs, but may load a craft.      *)
(***************************************************************************)
EXTENDS Planner

CONSTANT Oracle  \* the smoke, the one caller there is

VARIABLES
  part,    \* what of runSmoke is running
  at,      \* the tool call of that part it is at
  before   \* history: the flight plans when it started

smokeVars == <<part, at, before>>

Parts == {"connect", "reads", "nodeTrip", "mechjebTrip", "done"}

(* runNodeRoundTrip                                                         *)
NodeTrip ==
  <<"maneuver_nodes", "node_create", "maneuver_nodes", "node_delete",
    "maneuver_nodes", "plan_circularize", "maneuver_nodes", "plan_hohmann",
    "node_clear", "maneuver_nodes">>

(* runMechJebRoundTrip: each planner, then clearIfPlaced (a look, and       *)
(* node_clear unless it saw none).  What it prints of the mod first is left *)
(* out: the tool that follows asks for the same connection.                 *)
MechJebTrip ==
  LET tried(p) == <<p, "maneuver_nodes", "node_clear">> IN
    <<"maneuver_nodes">>
      \o tried("plan_intercept") \o tried("plan_rendezvous")
      \o tried("plan_match_velocity") \o tried("plan_interplanetary")
      \o tried("plan_return") \o tried("plan_match_planes")
      \o tried("refine_closest_approach") \o <<"maneuver_nodes">>

Trip == CASE part = "nodeTrip" -> NodeTrip [] part = "mechjebTrip" -> MechJebTrip

(* The pilot may have a plan already.                                       *)
SmokeInit ==
  /\ ConnInit
  /\ active \in Vessels \cup {NoVessel}
  /\ target \in Targets
  /\ mod \in Mods
  /\ plan \in [Vessels -> {ns \in SUBSET Nodes : Cardinality(ns) <= 1}]
  /\ \A v, w \in Vessels : v # w => plan[v] \cap plan[w] = {}
  /\ fate = [n \in Nodes |-> IF n \in OnPlans THEN "known" ELSE "free"]
  /\ call = [c \in Callers |-> NoCall]
  /\ answer = NoAnswer
  /\ part = "connect"
  /\ at = 1
  /\ before = plan

(* The first conn: without it the smoke is over.                            *)
Connect ==
  /\ part = "connect"
  /\ \/ \E k \in Connections : Acquire(k) /\ part' = "reads"
     \/ DialFails /\ part' = "done"
  /\ Silent
  /\ UNCHANGED <<gameVars, call, at, before>>

(* Every read tool, in turn; any of them may fail and drop.                 *)
Reads ==
  /\ part = "reads"
  /\ UNCHANGED linkVars \/ ("transport" \in Faults /\ Drop)
  /\ part' = "nodeTrip"
  /\ Silent
  /\ UNCHANGED <<gameVars, call, at, before>>

(* Where the answer a to the call at hand leads.  An unavailable answer and *)
(* an error both carry a count of zero.                                     *)
Count(a) == IF a.kind = "nodes" THEN a.count ELSE 0
Skips(a) == a.kind = "error" \/ Count(a) # 0
GoTo(p, i) == part' = p /\ at' = i

AfterNodeTool(a) ==
  IF \/ (at = 1 /\ Skips(a))
     \/ (at = 2 /\ a.kind = "error")
     \/ at = Len(NodeTrip)
  THEN GoTo("mechjebTrip", 1)
  ELSE GoTo("nodeTrip", at + 1)

AfterMechJebTool(a) ==
  IF (at = 1 /\ Skips(a)) \/ at = Len(MechJebTrip)
  THEN GoTo("done", 1)
  ELSE IF MechJebTrip[at + 1] = "node_clear" /\ Count(a) = 0
         THEN GoTo("mechjebTrip", at + 2)
         ELSE GoTo("mechjebTrip", at + 1)

CallNext ==
  /\ part \in {"nodeTrip", "mechjebTrip"}
  /\ Begin(Oracle, Trip[at])
  /\ UNCHANGED smokeVars

(* A step of the tool being called; the answer moves the smoke on.          *)
ServeNext ==
  /\ Serve(Oracle)
  /\ IF Busy(Oracle)' THEN UNCHANGED <<part, at>>
     ELSE IF part = "nodeTrip" THEN AfterNodeTool(answer')
     ELSE AfterMechJebTool(answer')
  /\ UNCHANGED before

LoadCraft ==
  /\ active = NoVessel
  /\ PilotSwitches
  /\ Meanwhile
  /\ Silent
  /\ UNCHANGED <<linkVars, mod, smokeVars>>

SmokeNext == Connect \/ Reads \/ CallNext \/ ServeNext \/ LoadCraft

SmokeSpec == SmokeInit /\ [][SmokeNext]_<<vars, smokeVars>>

-----------------------------------------------------------------------------
(* main.go:197, 329: the smoke leaves the flight plan exactly as it was     *)
(* found.                                                                   *)
PlanRestored == part = "done" => plan = before
=============================================================================
