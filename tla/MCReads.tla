------------------------------- MODULE MCReads ------------------------------
(* Reads for TLC: crafts to check the tools on. *)
EXTENDS Reads, TLC

CONSTANTS c1, c2

Chute(stage, out) == [stage |-> stage, deployed |-> out,
                      state |-> IF out THEN "SemiDeployed" ELSE "Stowed"]
Engine(stage, thrust) == [stage |-> stage, active |-> FALSE, thrust |-> thrust]
Motor(stage, dec, isp) == [stage |-> stage, dec |-> dec, thrust |-> 2, isp |-> isp]
Tank(dec) == [dec |-> dec, wet |-> 3, dry |-> 1]

OnPad == [situation |-> "PreLaunch", amount |-> 10, max |-> 10, weight |-> 10,
          chutes |-> <<Chute(0, FALSE)>>,
          engines |-> <<Engine(1, 6), Engine(1, 7)>>,
          decouplers |-> <<[stage |-> 0], [stage |-> -1]>>,
          tanks |-> << >>, motors |-> << >>]

(* The crafts for the checklist and the staging plan.                       *)
Checked ==
  {OnPad,
   [OnPad EXCEPT !.chutes = <<Chute(1, TRUE), Chute(-1, FALSE)>>,
                 !.engines = <<Engine(2, 11)>>],
   [OnPad EXCEPT !.amount = 0, !.chutes = << >>, !.engines = <<Engine(-1, 5)>>],
   [OnPad EXCEPT !.amount = 1, !.situation = "Flying",
                 !.chutes = <<Chute(0, TRUE)>>,
                 !.engines = <<Engine(0, 9), Engine(2, 20)>>]}

(* The crafts for the stage delta-v: every way to stage two tanks.          *)
Staged ==
  {[OnPad EXCEPT !.chutes = << >>, !.engines = << >>, !.decouplers = << >>,
                 !.tanks = <<Tank(d1), Tank(d2)>>, !.motors = ms] :
     d1 \in {-1, 0, 1}, d2 \in {-1, 1, 2},
     ms \in {<<Motor(1, 0, 3)>>, <<Motor(2, 1, 3), Motor(0, -1, 4)>>}}

MCCrafts == Checked \cup Staged

(* All tools on one craft, with another client's; on the others the tools   *)
(* that look at their parts.                                                *)
MCOffered ==
  [k \in MCCrafts |->
     c1 :> (IF k = OnPad THEN Tools \ {"stage_delta_v"}
            ELSE IF k \in Checked THEN {"preflight", "staging_plan"}
            ELSE {"stage_delta_v"})
     @@ c2 :> (IF k = OnPad THEN {"crew"} ELSE {})]
=============================================================================
