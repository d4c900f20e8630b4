------------------------------ MODULE Executor ------------------------------
(***************************************************************************)
(* The pure flight logic: the programs of autopilot/program.go and the     *)
(* step function of autopilot/executor.go, which turns a program, one      *)
(* telemetry snapshot and the executor's memory into the control of this   *)
(* tick and the next memory.                                               *)
(*                                                                         *)
(* Numbers are integers: times in one unit (Dt, StageCooldown and every    *)
(* duration share it), throttles in percent, telemetry in its own unit.    *)
(* Attitude angles are data no property reads; a control keeps the kind of *)
(* steering.  Phases are numbered from 1.                                  *)
(*                                                                         *)
(* An operator named for a slip (PrimedState, ThrottleUncut, ...)          *)
(* is a faulty variant of the definition after it, which the properties    *)
(* must tell from the real one.                                            *)
(***************************************************************************)
EXTENDS Integers, Sequences, FiniteSets

CONSTANTS
  StageCooldown,       \* stageCooldownS: the debounce of automatic staging
  DefaultMaxDuration,  \* the dead-man BuildAscent sets when none is given
  NaN                  \* a telemetry reading that is not a number

ASSUME CooldownAssumption == StageCooldown \in Nat
ASSUME DefaultAssumption  == DefaultMaxDuration \in Nat \ {0}
ASSUME NaNAssumption      == NaN \notin Int

-----------------------------------------------------------------------------
(* Programs                                                                *)

TelemetryFields == {"altitude", "apoapsis", "periapsis", "surface_speed",
                    "orbital_speed", "vertical_speed", "met", "pitch"}
ValidFields == TelemetryFields \cup {"time_in_phase"}

(* Fields, operators and names no code tells apart are all "other".         *)
Fields     == ValidFields \cup {"other"}
Operators  == {"gt", "lt", "other"}
PhaseNames == {"", "liftoff", "gravity turn", "other"}

SteeringModes == {"pitch_program", "fixed_pitch", "prograde"}

Condition == [field: Fields, op: Operators, value: Int]
Phase     == [name: PhaseNames, throttle: Int, modes: SUBSET SteeringModes,
              stageOnEntry: BOOLEAN, until: Condition]
Program   == [heading: Int, phases: Seq(Phase), autoStage: BOOLEAN,
              abort: Seq(Condition), maxDuration: Int]
Telemetry == [value: [TelemetryFields -> Int \cup {NaN}], hasFuel: BOOLEAN]

ValidCondition(c) == c.field \in ValidFields /\ c.op \in {"gt", "lt"}

(* Validate: the safety floor a program must pass to be armed. *)
Valid(p) ==
  /\ p.phases # << >>
  /\ p.maxDuration > 0
  /\ p.heading \in 0 .. 360
  /\ \A i \in DOMAIN p.phases :
       /\ p.phases[i].throttle \in 0 .. 100
       /\ ValidCondition(p.phases[i].until)
       /\ Cardinality(p.phases[i].modes) <= 1
  /\ \A i \in DOMAIN p.abort : ValidCondition(p.abort[i])

(* A condition on an unknown field, or on a reading that is not a number,   *)
(* never holds.                                                             *)
Reading(c, t, phaseElapsed) ==
  IF c.field = "time_in_phase" THEN phaseElapsed
  ELSE IF c.field \in TelemetryFields THEN t.value[c.field] ELSE NaN

Holds(c, t, phaseElapsed) ==
  LET v == Reading(c, t, phaseElapsed)
  IN  /\ v # NaN
      /\ \/ c.op = "gt" /\ v > c.value
         \/ c.op = "lt" /\ v < c.value

(* BuildAscent: liftoff until the turn starts, then the gravity turn until  *)
(* the apoapsis reaches the target.  A zero parameter takes its default.    *)
AscentInput == [target: Int, heading: Int, turnStart: Int, maxDuration: Int]

OrDefault(v, d) == IF v = 0 THEN d ELSE v

BuildAscent(in) ==
  [heading |-> OrDefault(in.heading, 90),
   autoStage |-> TRUE,
   maxDuration |-> OrDefault(in.maxDuration, DefaultMaxDuration),
   abort |-> << >>,
   phases |-> <<
     [name |-> "liftoff", throttle |-> 100, modes |-> {"fixed_pitch"},
      stageOnEntry |-> TRUE,
      until |-> [field |-> "altitude", op |-> "gt",
                 value |-> OrDefault(in.turnStart, 500)]],
     [name |-> "gravity turn", throttle |-> 100, modes |-> {"pitch_program"},
      stageOnEntry |-> FALSE,
      until |-> [field |-> "apoapsis", op |-> "gt", value |-> in.target]] >>]

-----------------------------------------------------------------------------
(* The step function                                                       *)

Steers  == {"hold", "pitch_heading", "prograde"}
Control == [throttle: 0 .. 100, steer: Steers, stage: BOOLEAN,
            abort: BOOLEAN, done: BOOLEAN, phase: PhaseNames]
State   == [phaseIndex: Nat \ {0}, phaseElapsed: Nat, totalElapsed: Nat,
            aborted: BOOLEAN, done: BOOLEAN, lastStageAt: Nat,
            phaseEntered: BOOLEAN]

(* The zero value of State; the variant lets automatic staging fire at once.*)
PrimedState == [phaseIndex |-> 1, phaseElapsed |-> 0, totalElapsed |-> 0,
                aborted |-> FALSE, done |-> FALSE,
                lastStageAt |-> -StageCooldown - 1, phaseEntered |-> FALSE]

InitState == [phaseIndex |-> 1, phaseElapsed |-> 0, totalElapsed |-> 0,
              aborted |-> FALSE, done |-> FALSE, lastStageAt |-> 0,
              phaseEntered |-> FALSE]

Neutral == [throttle |-> 0, steer |-> "hold", stage |-> FALSE,
            abort |-> FALSE, done |-> FALSE, phase |-> ""]
AbortControl == [Neutral EXCEPT !.abort = TRUE]
DoneControl  == [Neutral EXCEPT !.done = TRUE]

Clamp(v) == IF v < 0 THEN 0 ELSE IF v > 100 THEN 100 ELSE v

(* The dead-man and the hard limits: checked before anything is commanded.  *)
HardLimit(p, t, s) ==
  \E i \in DOMAIN p.abort : Holds(p.abort[i], t, s.phaseElapsed)

MustAbortByPhaseClock(p, t, s) ==
  s.phaseElapsed > p.maxDuration \/ HardLimit(p, t, s)

MustAbortOnLimits(p, t, s) == HardLimit(p, t, s)

MustAbort(p, t, s) ==
  \/ p.maxDuration > 0 /\ s.totalElapsed > p.maxDuration
  \/ HardLimit(p, t, s)

SteerOf(ph) ==
  IF ph.modes \cap {"pitch_program", "fixed_pitch"} # {} THEN "pitch_heading"
  ELSE IF "prograde" \in ph.modes THEN "prograde" ELSE "hold"

(* The staging a phase asks for on entry fires once and arms the cooldown.  *)
EntryStage(ph, s) == ph.stageOnEntry /\ ~s.phaseEntered

StagedAtUnarmed(ph, s) == s.lastStageAt
StagedAt(ph, s) == IF EntryStage(ph, s) THEN s.totalElapsed ELSE s.lastStageAt

(* Automatic staging: thrust is commanded, the active engines are dry, and  *)
(* the last stage command is more than the cooldown ago.                    *)
AutoStage(p, ph, t, s) ==
  /\ p.autoStage
  /\ ph.throttle > 0
  /\ ~t.hasFuel
  /\ s.totalElapsed - StagedAt(ph, s) > StageCooldown

(* The phase that is left: whether it was the last one, what throttle it is *)
(* left with, and the clock the next one starts from.                       *)
LastPhaseEarly(p, s) == s.phaseIndex >= Len(p.phases) - 1
LastPhase(p, s)      == s.phaseIndex >= Len(p.phases)

ThrottleUncut(ph, last) == Clamp(ph.throttle)
ThrottleOf(ph, last)    == IF last THEN 0 ELSE Clamp(ph.throttle)

PhaseClockKept(s, over) == s.phaseElapsed
PhaseClock(s, over)     == IF over THEN 0 ELSE s.phaseElapsed

(* One tick of the active phase; s already has this tick's elapsed time.    *)
FlyPhase(p, t, s) ==
  LET ph   == p.phases[s.phaseIndex]
      over == Holds(ph.until, t, s.phaseElapsed)
      last == over /\ LastPhase(p, s)
      auto == AutoStage(p, ph, t, s)
  IN  [ctrl |-> [throttle |-> ThrottleOf(ph, last),
                 steer    |-> IF last THEN "hold" ELSE SteerOf(ph),
                 stage    |-> EntryStage(ph, s) \/ auto,
                 abort    |-> FALSE,
                 done     |-> last,
                 phase    |-> ph.name],
       st   |-> [s EXCEPT !.lastStageAt  = IF auto THEN s.totalElapsed
                                           ELSE StagedAt(ph, s),
                          !.phaseEntered = ~over,
                          !.phaseIndex   = IF over THEN @ + 1 ELSE @,
                          !.phaseElapsed = PhaseClock(s, over),
                          !.done         = last]]

Elapse(s, dt) == [s EXCEPT !.totalElapsed = @ + dt, !.phaseElapsed = @ + dt]

StepLimitsLast(p, t, st, dt) ==
  LET s == Elapse(st, dt)
  IN  IF st.aborted THEN [ctrl |-> AbortControl, st |-> st]
      ELSE IF st.done THEN [ctrl |-> DoneControl, st |-> st]
      ELSE IF FlyPhase(p, t, s).ctrl.done THEN FlyPhase(p, t, s)
      ELSE IF MustAbort(p, t, s)
        THEN [ctrl |-> AbortControl, st |-> [s EXCEPT !.aborted = TRUE]]
      ELSE FlyPhase(p, t, s)

StepUnlatched(p, t, st, dt) ==
  LET s == Elapse(st, dt)
  IN  IF st.done THEN [ctrl |-> DoneControl, st |-> st]
      ELSE IF MustAbort(p, t, s)
        THEN [ctrl |-> AbortControl, st |-> [s EXCEPT !.aborted = TRUE]]
      ELSE FlyPhase(p, t, s)

Step(p, t, st, dt) ==
  LET s == Elapse(st, dt)
  IN  IF st.aborted THEN [ctrl |-> AbortControl, st |-> st]
      ELSE IF st.done THEN [ctrl |-> DoneControl, st |-> st]
      ELSE IF MustAbort(p, t, s)
        THEN [ctrl |-> AbortControl, st |-> [s EXCEPT !.aborted = TRUE]]
      ELSE IF s.phaseIndex > Len(p.phases)
        THEN [ctrl |-> DoneControl, st |-> [s EXCEPT !.done = TRUE]]
      ELSE FlyPhase(p, t, s)

=============================================================================
