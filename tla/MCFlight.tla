------------------------------ MODULE MCFlight ------------------------------
(***************************************************************************)
(* A small instance of Flight.  Altitude and apoapsis are either short of  *)
(* the two terminal conditions of the ascent or past them.                 *)
(***************************************************************************)
EXTENDS Flight, TLC

Ascent(apo, dur) ==
  [target |-> apo, heading |-> 0, turnStart |-> 1, maxDuration |-> dur]

(* Two ascents that validate, and inputs flight_arm refuses: no target, a   *)
(* negative dead-man.                                                       *)
MCOneAscent  == {Ascent(2, 2), Ascent(0, 2), Ascent(2, -1)}
MCTwoAscents == MCOneAscent \cup {Ascent(3, 2)}

Snapshot(alt, apo, fuel) ==
  [value |-> [f \in TelemetryFields |->
                CASE f = "altitude" -> alt
                  [] f = "apoapsis" -> apo
                  [] OTHER          -> 0],
   hasFuel |-> fuel]

MCSnapshots ==
  {Snapshot(0, 0, TRUE), Snapshot(2, 0, FALSE), Snapshot(2, 4, TRUE)}

(* Every phase ends at once: for the runs with two callers.                 *)
MCFewSnapshots == {Snapshot(2, 4, TRUE)}

MCSymmetry == Permutations(Flights) \cup Permutations(Callers)
=============================================================================
