-------------------------- MODULE MCAutopilotLoop --------------------------
(***************************************************************************)
(* A small instance of AutopilotLoop: one ascent, one program that uses    *)
(* what the ascent does not (hard limits, phase clocks, prograde and held  *)
(* steering, staging on the entry of a later phase), and programs Validate *)
(* must refuse.                                                            *)
(***************************************************************************)
EXTENDS AutopilotLoop

Cond(f, o, v) == [field |-> f, op |-> o, value |-> v]

MCAscent ==
  BuildAscent([target |-> 2, heading |-> 0, turnStart |-> 1, maxDuration |-> 8])

MCCoastAndBurn ==
  [heading |-> 90, autoStage |-> TRUE, maxDuration |-> 9,
   abort |-> <<Cond("vertical_speed", "lt", 0)>>,
   phases |-> <<
     [name |-> "other", throttle |-> 50, modes |-> {"prograde"},
      stageOnEntry |-> FALSE, until |-> Cond("altitude", "gt", 1)],
     [name |-> "other", throttle |-> 0, modes |-> {},
      stageOnEntry |-> TRUE, until |-> Cond("time_in_phase", "gt", 2)],
     [name |-> "other", throttle |-> 10, modes |-> {"fixed_pitch"},
      stageOnEntry |-> FALSE, until |-> Cond("time_in_phase", "gt", 1)]>>]

(* Refused by Validate: no dead-man, and a condition on an unknown field.   *)
MCNoDeadMan == [MCCoastAndBurn EXCEPT !.maxDuration = 0]
MCBadCondition ==
  [MCAscent EXCEPT !.phases[1].until = Cond("other", "gt", 1)]

MCPrograms == {MCAscent, MCCoastAndBurn, MCNoDeadMan, MCBadCondition}

MCSnapshots ==
  {[value |-> [f \in TelemetryFields |->
                 CASE f = "altitude"       -> alt
                   [] f = "apoapsis"       -> apo
                   [] f = "vertical_speed" -> vs
                   [] OTHER                -> 0],
    hasFuel |-> fuel] :
      alt \in {0, 2}, apo \in {0, 3, NaN}, vs \in {-1, 1}, fuel \in BOOLEAN}
=============================================================================
