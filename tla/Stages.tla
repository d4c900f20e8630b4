------------------------------- MODULE Stages -------------------------------
(***************************************************************************)
(* The order in which KSP fires stages, in which both the staging plan     *)
(* (cmd/ksp-mcp/preflight.go) and the stage delta-v (astro/stagedv.go) are *)
(* told: the highest number first.                                         *)
(***************************************************************************)
EXTENDS Integers, Sequences, FiniteSetsExt

(* The n-th stage has n - 1 above it.                                       *)
FiringOrder(stages) ==
  [n \in 1 .. Cardinality(stages) |->
     CHOOSE s \in stages : Cardinality({t \in stages : t > s}) = n - 1]
=============================================================================
