------------------------------ MODULE KrpcLink ------------------------------
(***************************************************************************)
(* The live-control surface that a connection gives onto the vessel        *)
(* (krpc/control.go).  The game keeps the last thing it was told: closing  *)
(* a connection changes nothing on the vessel.                             *)
(***************************************************************************)
EXTENDS Connection

CONSTANT Stages  \* how many stages the vessel has to activate

ASSUME StagesAssumption == Stages \in Nat

VARIABLE vessel  \* the vessel's controls as the game has them

Frames == {"default", "surface"}
Vessel == [throttle: 0 .. 100, sas: BOOLEAN, autopilot: BOOLEAN,
           frame: Frames, stagesLeft: 0 .. Stages]

LinkTypeOK ==
  /\ ConnTypeOK
  /\ vessel \in Vessel

LinkInit ==
  /\ ConnInit
  /\ vessel = [throttle |-> 0, sas |-> FALSE, autopilot |-> FALSE,
               frame |-> "default", stagesLeft |-> Stages]

(* How a call of a flight on connection k can end.                          *)
Outcomes(k) == CallOutcomes(k, "flight")

(* A control write whose call ended as o, leaving the controls as v.        *)
Command(o, v) == vessel' = IF o.done THEN v ELSE vessel
=============================================================================
