----------------------------- MODULE FlightGate -----------------------------
(***************************************************************************)
(* What Tier-4 flight control promises a crew that makes one call at a     *)
(* time (cmd/ksp-mcp/flight.go, lines 3 to 18): arm, read back, go, fly,   *)
(* cut.  Nothing but a flight of the armed plan puts the vessel under      *)
(* power, one flight flies at a time, and a flight that cannot show the    *)
(* engines cut ends with an error on record.                               *)
(***************************************************************************)
CONSTANTS Plans, NoPlan

VARIABLES
  plan,     \* the plan armed and read back
  flying,   \* the plans being flown: none, or the one the go was given for
  power,    \* the engines are on
  trouble   \* the last flight ended with an error on record

vars == <<plan, flying, power, trouble>>

Init ==
  /\ plan = NoPlan
  /\ flying = {}
  /\ power = FALSE
  /\ trouble = FALSE

Arm ==
  /\ flying = {}
  /\ plan' \in Plans
  /\ UNCHANGED <<flying, power, trouble>>

Go ==
  /\ flying = {}
  /\ plan # NoPlan
  /\ flying' = {plan}
  /\ trouble' = FALSE
  /\ UNCHANGED <<plan, power>>

Throttle ==
  /\ flying # {}
  /\ power' \in BOOLEAN
  /\ UNCHANGED <<plan, flying, trouble>>

Finish ==
  /\ flying # {}
  /\ flying' = {}
  /\ trouble' \in BOOLEAN
  /\ power => trouble'
  /\ UNCHANGED <<plan, power>>

Next == Arm \/ Go \/ Throttle \/ Finish

Spec == Init /\ [][Next]_vars

-----------------------------------------------------------------------------
(* An engine that runs belongs to a flight, or to one that ended in error.  *)
PowerIsOnRecord == power => flying # {} \/ trouble

(* Nothing is flown but the plan that was read back.                        *)
FlownAsArmed == flying \subseteq {plan} \ {NoPlan}
=============================================================================
