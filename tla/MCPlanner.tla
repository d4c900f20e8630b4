------------------------------ MODULE MCPlanner ------------------------------
(***************************************************************************)
(* Small instances of Planner.                                             *)
(***************************************************************************)
EXTENDS Planner, TLC

CONSTANTS c1, c2

(* One client that calls every tool, one that only clears the plan (nodes  *)
(* are drawn under the first one's call by the pilot).                     *)
MCOffered == c1 :> Tools @@ c2 :> {"node_clear"}

MCSymmetry == Permutations(Nodes) \cup Permutations(Vessels)
=============================================================================
