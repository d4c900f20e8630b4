------------------------------ MODULE Planner ------------------------------
(***************************************************************************)
(* The tools that write maneuver nodes: node_create, node_delete,          *)
(* node_clear and the native planners of cmd/ksp-mcp/plan.go, the MechJeb  *)
(* planners of mechjeb.go, and maneuver_nodes, which reads them.           *)
(*                                                                         *)
(* A tool call is a script of steps, one step for the calls of the game    *)
(* that nothing in the program or on the flight plan can come between.     *)
(* The flight plans are the game's: the pilot edits them too, switches     *)
(* vessels and targets, and another client's tool call may be in progress. *)
(* A flight plan is a set of nodes: no property uses their order.          *)
(*                                                                         *)
(* An operator named for a slip (InterceptGuardedLate, MatchOrNothing,     *)
(* RemoveUncounted) is a faulty variant of the definition after it, which  *)
(* the properties must tell from the real one.                             *)
(***************************************************************************)
EXTENDS Connection, Sequences

CONSTANTS
  Callers,   \* tool calls that can be in progress together
  Vessels,   \* the vessels the game knows
  NoVessel,  \* ErrNoVessel: the game is not in flight
  Nodes,     \* node objects (a bound: a full plan refuses a node)
  Offered,   \* the tools that each client calls
  Mods,      \* the states of the MechJeb mod to look at
  Targets    \* the states of the in-game target to look at

ModStates    == {"absent", "broken", "ok"}
TargetStates == {"none", "near", "far"}  \* near: it orbits the same body

Tools == {"node_create", "node_delete", "node_clear", "maneuver_nodes",
          "plan_circularize", "plan_hohmann", "plan_intercept",
          "plan_rendezvous", "plan_match_velocity", "plan_interplanetary",
          "plan_return", "plan_match_planes", "refine_closest_approach"}

ASSUME NoVesselAssumption == NoVessel \notin Vessels
ASSUME OfferedAssumption  == Offered \in [Callers -> SUBSET Tools]
ASSUME ModsAssumption     == Mods \subseteq ModStates
ASSUME TargetsAssumption  == Targets \subseteq TargetStates
ASSUME NodesAssumption    == IsFiniteSet(Nodes)

(* What a node object is to the crew: no node, one they know of (the pilot  *)
(* placed it, or an answer named it), one placed by a call that answered    *)
(* with an error, or lost: placed by a call that answered otherwise and did *)
(* not name it.  A node of a call in progress has that caller as its fate.  *)
Fates == {"free", "known", "unreported", "lost"}
ASSUME CallersAssumption  == Callers \cap Fates = {}

VARIABLES
  active,   \* SpaceCenter.ActiveVessel, or NoVessel
  target,   \* the in-game target
  mod,      \* the KRPC.MechJeb mod, as this installation has it
  plan,     \* the flight plan of each vessel
  fate,     \* history: who placed a node, or what was said of it
  call,     \* each caller's tool call in progress: its place and locals
  answer    \* the answer a tool call gave in the last step, if any

gameVars == <<active, target, mod, plan, fate>>
vars     == <<linkVars, gameVars, call, answer>>

Kinds == {"none", "unavailable", "note", "placed", "deleted", "cleared",
          "nodes", "error"}

-----------------------------------------------------------------------------
(* The tools as scripts.  conn and vessel are flightContext (resolveVessel  *)
(* for maneuver_nodes); guard is noExistingNodesOrNote; mechjeb is          *)
(* mechjebState; operate and match are calls of planOp.                     *)
NodeCreate      == <<"conn", "vessel", "time", "add", "readback">>
NodeDelete      == <<"conn", "vessel", "list", "remove">>
NodeClear       == <<"conn", "vessel", "list", "removeAll">>
ManeuverNodes   == <<"conn", "vessel", "list", "describe">>
PlanCircularize == <<"conn", "vessel", "apsis", "add", "readback">>
PlanHohmann     == <<"conn", "vessel", "window", "add", "readback">>

InterceptGuardedLate ==
  <<"conn", "vessel", "target", "mechjeb", "guard", "operate", "readback">>
PlanIntercept ==
  <<"conn", "vessel", "target", "guard", "mechjeb", "operate", "readback">>
PlanRendezvous ==
  <<"conn", "vessel", "target", "guard", "mechjeb", "operate", "match",
    "readback">>
PlanMatchVelocity ==
  <<"conn", "vessel", "target", "mechjeb", "operate", "readback">>
PlanInterplanetary ==
  <<"conn", "vessel", "target", "mechjeb", "guard", "operate", "readback">>
PlanReturn ==
  <<"conn", "vessel", "mechjeb", "guard", "operate", "readback">>
PlanMatchPlanes ==
  <<"conn", "vessel", "target", "mechjeb", "guard", "operate", "readback">>
RefineClosestApproach ==
  <<"conn", "vessel", "target", "mechjeb", "operate", "readback">>

Script(t) ==
  CASE t = "node_create"             -> NodeCreate
    [] t = "node_delete"             -> NodeDelete
    [] t = "node_clear"              -> NodeClear
    [] t = "maneuver_nodes"          -> ManeuverNodes
    [] t = "plan_circularize"        -> PlanCircularize
    [] t = "plan_hohmann"            -> PlanHohmann
    [] t = "plan_intercept"          -> PlanIntercept
    [] t = "plan_rendezvous"         -> PlanRendezvous
    [] t = "plan_match_velocity"     -> PlanMatchVelocity
    [] t = "plan_interplanetary"     -> PlanInterplanetary
    [] t = "plan_return"             -> PlanReturn
    [] t = "plan_match_planes"       -> PlanMatchPlanes
    [] t = "refine_closest_approach" -> RefineClosestApproach

(* The planners with a native fallback, and those that promise never to add *)
(* to a plan that has nodes already.                                        *)
WithFallback == {"plan_intercept", "plan_rendezvous"}
Guarded == WithFallback \cup {"plan_interplanetary", "plan_return",
                              "plan_match_planes"}

(* asked is the tool the client called, script the one being followed, pos  *)
(* the next step of it; vessel, found and made are the handles the code     *)
(* holds.  undisturbed is history: nothing but this call has changed a      *)
(* plan, the active vessel or the target since it began.                    *)
Call == [asked: Tools \cup {"none"}, script: Tools \cup {"none"}, pos: 1 .. 8,
         failed: BOOLEAN, handle: 0 .. MaxConns, vessel: Vessels \cup {NoVessel},
         found: SUBSET Nodes, made: SUBSET Nodes, undisturbed: BOOLEAN]

NoCall == [asked |-> "none", script |-> "none", pos |-> 1, failed |-> FALSE,
           handle |-> NoConn, vessel |-> NoVessel, found |-> {}, made |-> {},
           undisturbed |-> TRUE]

NoAnswer == [kind |-> "none", nodes |-> {}, count |-> 0]
Silent   == answer' = NoAnswer

Busy(c)     == call[c].asked # "none"
At(c, step) == /\ Busy(c)
               /\ ~call[c].failed
               /\ Script(call[c].script)[call[c].pos] = step

(* A node object that nobody has or has a handle of.                        *)
Fresh(n) == /\ fate[n] = "free"
            /\ \A c \in Callers : n \notin call[c].found \cup call[c].made

OnPlans == UNION {plan[v] : v \in Vessels}

TypeOK ==
  /\ ConnTypeOK
  /\ active \in Vessels \cup {NoVessel}
  /\ target \in Targets
  /\ mod \in Mods
  /\ plan \in [Vessels -> SUBSET Nodes]
  /\ fate \in [Nodes -> Fates \cup Callers]
  /\ call \in [Callers -> Call]
  /\ answer \in [kind: Kinds, nodes: SUBSET Nodes, count: Int]
  /\ \A c \in Callers : Busy(c) => /\ call[c].script \in Tools
                                   /\ call[c].pos <= Len(Script(call[c].script))
  /\ \A n \in Nodes : fate[n] = "free" <=> n \notin OnPlans

Init ==
  /\ ConnInit
  /\ active \in Vessels
  /\ target \in Targets
  /\ mod \in Mods
  /\ plan = [v \in Vessels |-> {}]
  /\ fate = [n \in Nodes |-> "free"]
  /\ call = [c \in Callers |-> NoCall]
  /\ answer = NoAnswer

-----------------------------------------------------------------------------
(* The moves of a call                                                      *)

(* The next step, with the locals as r.                                     *)
Proceed(c, r) == call' = [call EXCEPT ![c] = [r EXCEPT !.pos = @ + 1]]

(* An error: what follows is drop and the error as the answer.              *)
Fail(c) == call' = [call EXCEPT ![c].failed = TRUE]

(* The calls of others in progress when this one changes the game.          *)
Disturbed(c) ==
  [d \in Callers |-> IF d = c \/ ~Busy(d) THEN call[d]
                     ELSE [call[d] EXCEPT !.undisturbed = FALSE]]

(* What is known of c's nodes once it has answered with kind, naming ns.    *)
Settle(f, c, kind, ns) ==
  [n \in Nodes |-> IF f[n] # c THEN f[n]
                   ELSE IF n \in ns THEN "known"
                   ELSE IF kind = "error" THEN "unreported" ELSE "lost"]

Say(kind, ns, count) == answer' = [kind |-> kind, nodes |-> ns, count |-> count]

(* An answer that leaves the plans alone.                                   *)
Answer(c, kind, ns, count) ==
  /\ call' = [call EXCEPT ![c] = NoCall]
  /\ Say(kind, ns, count)
  /\ fate' = Settle(fate, c, kind, ns)
  /\ UNCHANGED <<active, target, mod, plan>>

Note(c) == Answer(c, "note", {}, 0)

(* Reading calls of step, and whatever follows them when they succeed.      *)
CanRead(c, step)   == At(c, step) /\ Succeeds(call[c].handle)
ReadFails(c, step) ==
  /\ At(c, step)
  /\ MayFail(call[c].handle, "tool")
  /\ Fail(c)
  /\ Silent /\ UNCHANGED gameVars
ReadOn(c, r) == Proceed(c, r) /\ Silent /\ UNCHANGED gameVars

-----------------------------------------------------------------------------
(* The steps                                                                *)

(* A client calls a tool.                                                   *)
Begin(c, t) ==
  /\ ~Busy(c)
  /\ call' = [call EXCEPT ![c].asked = t, ![c].script = t]
  /\ Silent
  /\ UNCHANGED <<linkVars, gameVars>>

(* kspServer.conn; a dial that fails is an answer.                          *)
GetConn(c) ==
  /\ At(c, "conn")
  /\ \/ \E k \in Connections :
          Acquire(k) /\ ReadOn(c, [call[c] EXCEPT !.handle = k])
     \/ DialFails /\ Answer(c, "unavailable", {}, 0)

(* ActiveVessel and the reads of flightContext: no vessel is an answer.     *)
ResolveVessel(c) ==
  /\ \/ /\ CanRead(c, "vessel")
        /\ active # NoVessel
        /\ ReadOn(c, [call[c] EXCEPT !.vessel = active])
     \/ /\ CanRead(c, "vessel")
        /\ active = NoVessel
        /\ Answer(c, "unavailable", {}, 0)
     \/ ReadFails(c, "vessel")
  /\ UNCHANGED linkVars

(* requireTarget (resolveTarget): every intercept needs a target.           *)
RequireTarget(c) ==
  /\ \/ CanRead(c, "target") /\ target # "none" /\ ReadOn(c, call[c])
     \/ CanRead(c, "target") /\ target = "none" /\ Note(c)
     \/ ReadFails(c, "target")
  /\ UNCHANGED linkVars

(* noExistingNodesOrNote: refuse a plan that has nodes.                     *)
Guard(c) ==
  /\ \/ CanRead(c, "guard") /\ plan[call[c].vessel] = {} /\ ReadOn(c, call[c])
     \/ CanRead(c, "guard") /\ plan[call[c].vessel] # {} /\ Note(c)
     \/ ReadFails(c, "guard")
  /\ UNCHANGED linkVars

(* mechjebState: any error of the probe means not functional, and no error  *)
(* drops the connection.                                                    *)
ProbeMechJeb(c) ==
  /\ CanRead(c, "mechjeb") /\ mod = "ok"
  /\ ReadOn(c, call[c])
  /\ UNCHANGED linkVars

(* Not functional: the native fallback starts planHohmann afresh, with its  *)
(* own flightContext; the other planners answer with the reason.            *)
Degrade(c) ==
  /\ At(c, "mechjeb")
  /\ mod # "ok" \/ MayFail(call[c].handle, "tool")
  /\ \/ /\ call[c].asked \in WithFallback
        /\ call' = [call EXCEPT ![c].script = "plan_hohmann", ![c].pos = 1]
        /\ Silent /\ UNCHANGED gameVars
     \/ call[c].asked \notin WithFallback /\ Note(c)
  /\ UNCHANGED linkVars

(* What the native planners read before they place a node, up to the        *)
(* control handle: a time (or neither given), a usable orbit (or not), a    *)
(* departure window (computeHohmann: only against a target around the same  *)
(* body, and not when the window never comes).                              *)
Prepare(c) ==
  /\ \E step \in {"time", "apsis", "window"} :
       \/ /\ CanRead(c, step)
          /\ step = "window" => target = "near"
          /\ ReadOn(c, call[c])
       \/ CanRead(c, step) /\ Note(c)
       \/ ReadFails(c, step)
  /\ UNCHANGED linkVars

(* Nodes ns appear on v's plan, placed by c.                                *)
Place(c, v, ns) ==
  /\ plan' = [plan EXCEPT ![v] = @ \cup ns]
  /\ fate' = [n \in Nodes |-> IF n \in ns THEN c ELSE fate[n]]
  /\ Silent
  /\ UNCHANGED <<active, target, mod>>

(* c's record after a call that placed ns and ended as o.                   *)
Placed(c, ns, o) ==
  IF o.ok THEN [call[c] EXCEPT !.made = @ \cup ns, !.pos = @ + 1]
          ELSE [call[c] EXCEPT !.failed = TRUE]

(* AddNode on the control of the vessel resolved at the start.              *)
AddNode(c) ==
  /\ At(c, "add")
  /\ \/ \E n \in Nodes, o \in CallOutcomes(call[c].handle, "tool") :
          /\ o.done /\ Fresh(n)
          /\ Place(c, call[c].vessel, {n})
          /\ call' = [Disturbed(c) EXCEPT ![c] = Placed(c, {n}, o)]
     \/ /\ \/ MayFail(call[c].handle, "tool")
           \/ \A n \in Nodes : ~Fresh(n)
        /\ Fail(c)
        /\ Silent /\ UNCHANGED gameVars
  /\ UNCHANGED linkVars

(* planOp: getter, setup, MakeNodes.  MechJeb plans for the vessel that is  *)
(* active now.  It places nodes, one or (a transfer with its capture) two,  *)
(* or refuses: an RPC error is a refusal.  A lost request or reply is an    *)
(* error, and then the code has no handle of what was placed.               *)
MakeNodes(c, step) ==
  /\ At(c, step)
  /\ active # NoVessel
  /\ \E ns \in SUBSET Nodes, o \in CallOutcomes(call[c].handle, "tool") :
       /\ o.done /\ Cardinality(ns) \in {1, 2}
       /\ \A n \in ns : Fresh(n)
       /\ Place(c, active, ns)
       /\ call' = [Disturbed(c) EXCEPT ![c] = Placed(c, ns, o)]

MechJebLost(c, step) ==
  /\ At(c, step)
  /\ call[c].handle \notin open \/ "transport" \in Faults
  /\ Fail(c)
  /\ Silent /\ UNCHANGED gameVars

(* The one operation, or the first of a rendezvous: a refusal is the answer *)
(* (finishMechJeb, planRendezvous).                                         *)
Operate(c) ==
  /\ \/ MakeNodes(c, "operate")
     \/ CanRead(c, "operate") /\ Note(c)
     \/ MechJebLost(c, "operate")
  /\ UNCHANGED linkVars

MatchOrNothing(c) ==
  /\ \/ MakeNodes(c, "match")
     \/ CanRead(c, "match") /\ Note(c)
     \/ MechJebLost(c, "match")
  /\ UNCHANGED linkVars

(* The second burn of a rendezvous: a refusal leaves the transfer alone.    *)
MatchVelocity(c) ==
  /\ \/ MakeNodes(c, "match")
     \/ CanRead(c, "match") /\ ReadOn(c, call[c])
     \/ MechJebLost(c, "match")
  /\ UNCHANGED linkVars

(* readNodeResult for every node made (readMechJebNodes): a node that is    *)
(* gone is an error.                                                        *)
ReadBack(c) ==
  /\ \/ /\ CanRead(c, "readback")
        /\ call[c].made \subseteq OnPlans
        /\ Answer(c, "placed", call[c].made, Cardinality(call[c].made))
     \/ /\ CanRead(c, "readback")
        /\ ~(call[c].made \subseteq OnPlans)
        /\ Fail(c)
        /\ Silent /\ UNCHANGED gameVars
     \/ ReadFails(c, "readback")
  /\ UNCHANGED linkVars

(* ControlNodes: none is an answer (with a count of zero).                  *)
ListNodes(c) ==
  /\ \/ /\ CanRead(c, "list")
        /\ plan[call[c].vessel] # {}
        /\ ReadOn(c, [call[c] EXCEPT !.found = plan[call[c].vessel]])
     \/ /\ CanRead(c, "list")
        /\ plan[call[c].vessel] = {}
        /\ Answer(c, IF call[c].asked = "maneuver_nodes" THEN "nodes" ELSE "note",
                  {}, 0)
     \/ ReadFails(c, "list")
  /\ UNCHANGED linkVars

(* maneuver_nodes reads each node it found.                                 *)
DescribeNodes(c) ==
  /\ \/ /\ CanRead(c, "describe")
        /\ call[c].found \subseteq OnPlans
        /\ Answer(c, "nodes", {}, Cardinality(call[c].found))
     \/ /\ CanRead(c, "describe")
        /\ ~(call[c].found \subseteq OnPlans)
        /\ Fail(c)
        /\ Silent /\ UNCHANGED gameVars
     \/ ReadFails(c, "describe")
  /\ UNCHANGED linkVars

(* Nodes ns are gone by a call of c that ended as o; kind and count are its *)
(* answer when that was well.                                               *)
Erase(c, ns, o, kind, count) ==
  /\ plan' = [v \in Vessels |-> plan[v] \ ns]
  /\ LET erased == [n \in Nodes |-> IF n \in ns THEN "free" ELSE fate[n]] IN
       IF o.ok
         THEN /\ call' = [Disturbed(c) EXCEPT ![c] = NoCall]
              /\ Say(kind, {}, count)
              /\ fate' = Settle(erased, c, kind, {})
         ELSE /\ call' = [Disturbed(c) EXCEPT ![c].failed = TRUE]
              /\ fate' = erased
              /\ Silent
  /\ UNCHANGED <<active, target, mod>>

RemoveUncounted(c) ==
  /\ At(c, "remove")
  /\ \/ \E n \in call[c].found \cap OnPlans,
           o \in CallOutcomes(call[c].handle, "tool") :
          o.done /\ Erase(c, {n}, o, "deleted", Cardinality(call[c].found))
     \/ CanRead(c, "remove") /\ Answer(c, "note", {}, Cardinality(call[c].found))
     \/ /\ \/ MayFail(call[c].handle, "tool")
           \/ ~(call[c].found \subseteq OnPlans)
        /\ Fail(c)
        /\ Silent /\ UNCHANGED gameVars
  /\ UNCHANGED linkVars

(* NodeRemove of the node chosen by its index in the list read before: the  *)
(* index may be out of range (an answer), the node gone since (an error).   *)
RemoveNode(c) ==
  /\ At(c, "remove")
  /\ \/ \E n \in call[c].found \cap OnPlans,
           o \in CallOutcomes(call[c].handle, "tool") :
          o.done /\ Erase(c, {n}, o, "deleted", Cardinality(call[c].found) - 1)
     \/ CanRead(c, "remove") /\ Answer(c, "note", {}, Cardinality(call[c].found))
     \/ /\ \/ MayFail(call[c].handle, "tool")
           \/ ~(call[c].found \subseteq OnPlans)
        /\ Fail(c)
        /\ Silent /\ UNCHANGED gameVars
  /\ UNCHANGED linkVars

(* RemoveAllNodes: whatever is on the plan now; the count is of the list.   *)
RemoveAll(c) ==
  /\ At(c, "removeAll")
  /\ \/ \E o \in CallOutcomes(call[c].handle, "tool") :
          /\ o.done
          /\ Erase(c, plan[call[c].vessel], o, "cleared",
                   Cardinality(call[c].found))
     \/ /\ MayFail(call[c].handle, "tool")
        /\ Fail(c)
        /\ Silent /\ UNCHANGED gameVars
  /\ UNCHANGED linkVars

(* drop, and the error as the answer.                                       *)
DropConn(c) ==
  /\ Busy(c) /\ call[c].failed
  /\ Drop
  /\ Answer(c, "error", {}, 0)

Serve(c) ==
  \/ GetConn(c) \/ ResolveVessel(c) \/ RequireTarget(c) \/ Guard(c)
  \/ ProbeMechJeb(c) \/ Degrade(c) \/ Prepare(c) \/ AddNode(c) \/ Operate(c)
  \/ MatchVelocity(c) \/ ReadBack(c) \/ ListNodes(c) \/ DescribeNodes(c)
  \/ RemoveNode(c) \/ RemoveAll(c) \/ DropConn(c)

-----------------------------------------------------------------------------
(* The pilot, who has the game's own controls.                              *)
Meanwhile == call' = [c \in Callers |-> IF ~Busy(c) THEN call[c]
                        ELSE [call[c] EXCEPT !.undisturbed = FALSE]]

PilotAdds ==
  /\ active # NoVessel
  /\ \E n \in Nodes :
       /\ Fresh(n)
       /\ plan' = [plan EXCEPT ![active] = @ \cup {n}]
       /\ fate' = [fate EXCEPT ![n] = "known"]
  /\ UNCHANGED <<active, target>>
PilotRemoves ==
  /\ active # NoVessel
  /\ \E n \in plan[active] :
       /\ plan' = [v \in Vessels |-> plan[v] \ {n}]
       /\ fate' = [fate EXCEPT ![n] = "free"]
  /\ UNCHANGED <<active, target>>
PilotSwitches ==
  /\ active' \in (Vessels \cup {NoVessel}) \ {active}
  /\ UNCHANGED <<target, plan, fate>>
PilotTargets ==
  /\ target' \in Targets \ {target}
  /\ UNCHANGED <<active, plan, fate>>

Pilot ==
  /\ PilotAdds \/ PilotRemoves \/ PilotSwitches \/ PilotTargets
  /\ Meanwhile
  /\ Silent
  /\ UNCHANGED <<linkVars, mod>>

Next ==
  \/ \E c \in Callers : Serve(c) \/ \E t \in Offered[c] : Begin(c, t)
  \/ Pilot

Spec == Init /\ [][Next]_vars

-----------------------------------------------------------------------------
(* Every node a tool call placed is named in its answer, unless the answer  *)
(* is an error: no "nothing was changed" or "no node placed" is a lie, the  *)
(* half of a rendezvous that MechJeb did place included (mechjeb.go:323).   *)
AnswersAccount == \A n \in Nodes : fate[n] # "lost"

(* The planners that refuse a plan with nodes (mechjeb.go:70, 162) never    *)
(* stack nodes onto one, the native fallback included, as long as nobody    *)
(* else touches the game while they plan.                                   *)
NeverStacks ==
  [][\A c \in Callers, v \in Vessels :
       /\ call[c].asked \in Guarded /\ call[c].undisturbed
       /\ \E n \in plan'[v] \ plan[v] : fate'[n] = c
       => \A n \in plan[v] : fate[n] = c]_vars

(* What a tool says of the plan is so at the moment it says it, as long as  *)
(* nobody else touches the game meanwhile: the nodes named are there, the   *)
(* remaining count is the plan's, a cleared plan is empty.                  *)
AnswersTrue ==
  [][\A c \in Callers :
       Busy(c) /\ call[c].undisturbed /\ call'[c].asked = "none" =>
         LET now == plan'[call[c].vessel]
             said == answer'
         IN /\ said.kind = "placed" => said.nodes # {} /\ said.nodes \subseteq now
            /\ said.kind \in {"nodes", "deleted"} => said.count = Cardinality(now)
            /\ said.kind = "cleared" => now = {} /\ said.count > 0]_vars
=============================================================================
