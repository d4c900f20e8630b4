------------------------------- MODULE MCSmoke -------------------------------
(***************************************************************************)
(* A small instance of Smoke.                                              *)
(***************************************************************************)
EXTENDS Smoke, TLC

MCOffered == [c \in Callers |-> {}]

MCSymmetry == Permutations(Nodes) \cup Permutations(Vessels)
=============================================================================
