------------------------------ MODULE Preflight -----------------------------
(***************************************************************************)
(* The pure logic of cmd/ksp-mcp/preflight.go: the go/no-go checklist and  *)
(* the staging plan, over facts that were read before.  An engine is a     *)
(* record with [stage, active, thrust], a chute with [stage, deployed,     *)
(* state], a decoupler with [stage]; stage is the one that activates it,   *)
(* -1 when none does.  Thrust and weight are in one unit, and charge in    *)
(* percent.  Titles and wording are left out, and so are the lines that    *)
(* are only ever "info": crew, thrust in flight, staging, delta-v.         *)
(*                                                                         *)
(* An operator named for a slip (EarlyUnlessStowed, UnstagedDropped) is a  *)
(* faulty variant of the definition after it, which the properties must    *)
(* tell from the real one.                                                 *)
(***************************************************************************)
EXTENDS Stages

PowerLine(f) ==
  CASE f.max <= 0                             -> "note"
    [] f.max > 0 /\ f.amount <= 0             -> "no-go"
    [] f.max > 0 /\ f.amount > 0
         /\ f.amount * 100 < 15 * f.max       -> "note"
    [] OTHER                                  -> "go"

EnginesLine(f) ==
  IF \E i \in DOMAIN f.engines : f.engines[i].active THEN "go" ELSE "note"

EarlyUnlessStowed(chute) == chute.deployed \/ chute.state # "Stowed"

(* Out already, by either of its two readings.                              *)
Early(chute) == chute.deployed \/ chute.state \in {"Deployed", "SemiDeployed"}

ParachutesLine(f) ==
  CASE f.chutes = << >> -> "note"
    [] f.chutes # << >> /\ f.situation = "PreLaunch"
         /\ (\E i \in DOMAIN f.chutes : Early(f.chutes[i])) -> "no-go"
    [] OTHER -> "go"

(* firstIgnitionThrust: of the engines in the highest stage that has any.   *)
FirstIgnitionThrust(engines) ==
  LET stage == Max({-1} \cup {engines[i].stage : i \in DOMAIN engines})
      thrust == [i \in DOMAIN engines |-> engines[i].thrust]
  IN IF stage < 0 THEN 0
     ELSE SumFunctionOnSet(thrust,
                           {i \in DOMAIN engines : engines[i].stage = stage})

OnGround(f) == f.situation \in {"PreLaunch", "Landed", "Splashed"}

(* The liftoff TWR: thrust over weight (astro.TWR), against 1.0 and 1.2.    *)
LiftoffLine(f) ==
  LET thrust == FirstIgnitionThrust(f.engines) IN
  CASE thrust <= 0 \/ f.weight <= 0 \/ ~OnGround(f) -> "info"
    [] thrust > 0 /\ f.weight > 0 /\ OnGround(f) ->
         IF thrust < f.weight THEN "no-go"
         ELSE IF 10 * thrust < 12 * f.weight THEN "note" ELSE "go"

(* evaluatePreflight                                                        *)
Checklist(f) == [power |-> PowerLine(f), engines |-> EnginesLine(f),
                 parachutes |-> ParachutesLine(f), liftoff |-> LiftoffLine(f)]

Verdict(lines) ==
  LET said == {lines[item] : item \in DOMAIN lines} IN
  IF "no-go" \in said THEN "NO-GO"
  ELSE IF "note" \in said THEN "GO WITH NOTES" ELSE "GO"

-----------------------------------------------------------------------------
(* buildStagingPlan.  Parts are known by category and place in it.          *)
In(s, stages) == {i \in DOMAIN s : s[i].stage \in stages}

UnstagedDropped(engines, decouplers, chutes) == {}

(* What no stage activates.                                                 *)
NotStaged(engines, decouplers, chutes) ==
  ({"engine"} \X In(engines, {-1})) \cup ({"decoupler"} \X In(decouplers, {-1}))
    \cup ({"parachute"} \X In(chutes, {-1}))

(* The stages in the order of firing, each with what it activates.          *)
StagingSteps(engines, decouplers, chutes) ==
  LET Of(s)  == {s[i].stage : i \in DOMAIN s}
      order  == FiringOrder((Of(engines) \cup Of(decouplers) \cup Of(chutes))
                              \ {-1})
  IN [n \in DOMAIN order |->
        [stage |-> order[n],
         parts |-> ({"engine"} \X In(engines, {order[n]}))
                     \cup ({"decoupler"} \X In(decouplers, {order[n]}))
                     \cup ({"parachute"} \X In(chutes, {order[n]}))]]
=============================================================================
