---------------------------- MODULE StageDeltaV -----------------------------
(***************************************************************************)
(* The per-stage delta-v model of astro/stagedv.go.  A part is a record    *)
(* [dec, wet, dry], an engine [stage, dec, thrust, isp]: dec is the stage  *)
(* at which it separates (-1: never), stage the one that ignites it (-1:   *)
(* none).  Masses are natural numbers.  The logarithm is left out: a       *)
(* delta-v is its two masses and the thrust-weighted Isp.                  *)
(*                                                                         *)
(* An operator named for a slip (BurnStageBelow, BurnsAnyFuel) is a faulty *)
(* variant of the definition after it, which the properties must tell from *)
(* the real one.                                                           *)
(***************************************************************************)
EXTENDS Stages

BurnStageBelow(dec) == IF dec < 0 THEN 0 ELSE dec

(* burnStage: where a part's propellant is consumed.                        *)
BurnStage(dec) == IF dec < 0 THEN 0 ELSE dec + 1

(* present: still attached while stage s burns.                             *)
Present(dec, s) == dec < 0 \/ dec < s

TopStage(parts, engines) ==
  Max({0} \cup {BurnStage(parts[i].dec) : i \in DOMAIN parts}
          \cup {engines[i].stage : i \in DOMAIN engines})

BurnsAnyFuel(lit, fuel, start) == lit # {} /\ start - fuel > 0

(* The stage has a delta-v: lit engines, fuel, and something left over.     *)
Burns(lit, fuel, start) == lit # {} /\ fuel > 0 /\ start - fuel > 0

(* The row of stage s.  end is 0 when the stage has no delta-v.             *)
StageRow(parts, engines, s) ==
  LET wet      == [i \in DOMAIN parts |-> parts[i].wet]
      fuel     == [i \in DOMAIN parts |-> parts[i].wet - parts[i].dry]
      thrust   == [i \in DOMAIN engines |-> engines[i].thrust]
      weighted == [i \in DOMAIN engines |-> engines[i].thrust * engines[i].isp]
      lit == {i \in DOMAIN engines : /\ engines[i].stage >= s
                                     /\ Present(engines[i].dec, s)
                                     /\ engines[i].thrust > 0}
      start  == SumFunctionOnSet(wet,
                  {i \in DOMAIN parts : Present(parts[i].dec, s)})
      burned == SumFunctionOnSet(fuel,
                  {i \in DOMAIN parts : BurnStage(parts[i].dec) = s})
      burns  == Burns(lit, burned, start)
  IN [stage |-> s, start |-> start, fuel |-> burned, hasEngine |-> lit # {},
      end      |-> IF burns THEN start - burned ELSE 0,
      thrust   |-> IF burns THEN SumFunctionOnSet(thrust, lit) ELSE 0,
      weighted |-> IF burns THEN SumFunctionOnSet(weighted, lit) ELSE 0]

(* StageDeltaVs: the stages' rows, without those that have neither a lit    *)
(* engine nor fuel, highest stage first.                                    *)
StageDeltaVs(parts, engines) ==
  LET row == [s \in 0 .. TopStage(parts, engines) |->
                StageRow(parts, engines, s)]
      told == {s \in DOMAIN row : row[s].hasEngine \/ row[s].fuel > 0}
      order == FiringOrder(told)
  IN [n \in DOMAIN order |-> row[order[n]]]

-----------------------------------------------------------------------------
(* The reference: the rocket flown.  Stages fire from the highest down; one *)
(* that fires sheds its parts, and then burns, if an engine that is not     *)
(* shed is lit, what is left in the parts that the next one will shed (the  *)
(* last: in the core).                                                      *)
Flown(parts, engines) ==
  LET top == TopStage(parts, engines)
      shed(s) == {i \in DOMAIN parts : parts[i].dec = s}
      lit(s) == \E i \in DOMAIN engines :
                  /\ engines[i].stage \in s .. top /\ engines[i].thrust > 0
                  /\ engines[i].dec < s
      mass(left) == SumFunction([i \in DOMAIN left |-> parts[i].dry + left[i]])
      after[s \in 0 .. top] ==
        LET before == IF s = top THEN [i \in DOMAIN parts |->
                                         parts[i].wet - parts[i].dry]
                      ELSE after[s + 1].left
            kept == [i \in DOMAIN before \ shed(s) |-> before[i]]
            left == [i \in DOMAIN kept |->
                       IF lit(s) /\ i \in shed(s - 1) THEN 0 ELSE kept[i]]
        IN [left |-> left, start |-> mass(kept), end |-> mass(left)]
  IN after
=============================================================================
