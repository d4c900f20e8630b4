--------------------------- MODULE ExecutorProofs ---------------------------
(***************************************************************************)
(* What Step computes, for every program, telemetry and memory: the lemmas *)
(* that the proofs about the loop and about the flights rest on.           *)
(***************************************************************************)
EXTENDS Executor, TLAPS

-----------------------------------------------------------------------------
(* BuildAscent (program.go) builds a program, whatever it is given.         *)
LEMMA AscentIsProgram ==
  ASSUME NEW in \in AscentInput
  PROVE  BuildAscent(in) \in Program
<1> DEFINE heading == OrDefault(in.heading, 90)
           maximum == OrDefault(in.maxDuration, DefaultMaxDuration)
           start   == OrDefault(in.turnStart, 500)
           over(f, v)   == [field |-> f, op |-> "gt", value |-> v]
           first   == [name |-> "liftoff", throttle |-> 100,
                       modes |-> {"fixed_pitch"}, stageOnEntry |-> TRUE,
                       until |-> over("altitude", start)]
           second  == [name |-> "gravity turn", throttle |-> 100,
                       modes |-> {"pitch_program"}, stageOnEntry |-> FALSE,
                       until |-> over("apoapsis", in.target)]
<1>1. heading \in Int /\ maximum \in Int /\ start \in Int
  BY DefaultAssumption DEF AscentInput, OrDefault
<1>2. \A v \in Int : /\ over("altitude", v) \in Condition
                     /\ over("apoapsis", v) \in Condition
  BY DEF Condition, Fields, ValidFields, TelemetryFields, Operators
<1>3. BuildAscent(in)
        = [heading |-> heading, autoStage |-> TRUE, maxDuration |-> maximum,
           abort |-> << >>, phases |-> <<first, second>>]
  BY DEF BuildAscent
<1>4. in.target \in Int
  BY DEF AscentInput
<1> HIDE DEF heading, maximum, start, over
<1>5. first \in Phase
  BY <1>1, <1>2 DEF Phase, PhaseNames, SteeringModes
<1>6. second \in Phase
  BY <1>2, <1>4 DEF Phase, PhaseNames, SteeringModes
<1> HIDE DEF first, second
<1>7. <<first, second>> \in Seq(Phase)
  BY <1>5, <1>6
<1>8. << >> \in Seq(Condition)
  OBVIOUS
<1>9. QED
  BY <1>1, <1>3, <1>7, <1>8 DEF Program

(* Step (executor.go) commands a throttle between none and full, whatever   *)
(* the program asks for, and keeps a well-formed memory.                    *)
LEMMA StepIsTyped ==
  ASSUME NEW p \in Program, NEW t \in Telemetry, NEW s \in State,
         NEW dt \in Nat \ {0}
  PROVE  Step(p, t, s, dt) \in [ctrl: Control, st: State]
<1> DEFINE e == Elapse(s, dt)
<1>1. e \in State
  <2> DEFINE total   == s.totalElapsed + dt
             elapsed == s.phaseElapsed + dt
  <2>1. total \in Nat /\ elapsed \in Nat
    BY DEF State
  <2>2. e = [s EXCEPT !.totalElapsed = total, !.phaseElapsed = elapsed]
    BY DEF Elapse
  <2> HIDE DEF e, total, elapsed
  <2>3. QED
    BY <2>1, <2>2 DEF State
<1>2. AbortControl \in Control /\ DoneControl \in Control
  <2>1. Neutral \in Control
    BY DEF Neutral, Control, Steers, PhaseNames
  <2>2. QED
    BY <2>1 DEF AbortControl, DoneControl, Control
<1>3. ASSUME e.phaseIndex <= Len(p.phases)
      PROVE  FlyPhase(p, t, e) \in [ctrl: Control, st: State]
  <2> DEFINE ph   == p.phases[e.phaseIndex]
             over == Holds(ph.until, t, e.phaseElapsed)
             last == over /\ LastPhase(p, e)
             auto == AutoStage(p, ph, t, e)
  <2>1. ph \in Phase
    BY <1>1, <1>3 DEF Program, State
  <2>2. ThrottleOf(ph, last) \in 0 .. 100
    BY <2>1 DEF ThrottleOf, Clamp, Phase
  <2>3. SteerOf(ph) \in Steers
    BY DEF SteerOf, Steers
  <2>4. over \in BOOLEAN /\ last \in BOOLEAN /\ auto \in BOOLEAN
    BY DEF Holds, LastPhase, AutoStage
  <2>5. EntryStage(ph, e) \in BOOLEAN
    BY DEF EntryStage
  <2>6. StagedAt(ph, e) \in Nat
    BY <1>1 DEF StagedAt, State
  <2>7. PhaseClock(e, over) \in Nat
    BY <1>1 DEF PhaseClock, State
  <2>8. FlyPhase(p, t, e).ctrl \in Control
    <3>1. FlyPhase(p, t, e).ctrl
            = [throttle |-> ThrottleOf(ph, last),
               steer    |-> IF last THEN "hold" ELSE SteerOf(ph),
               stage    |-> EntryStage(ph, e) \/ auto,
               abort    |-> FALSE,
               done     |-> last,
               phase    |-> ph.name]
      BY DEF FlyPhase
    <3>2. ph.name \in PhaseNames
      BY <2>1 DEF Phase
    <3>3. (IF last THEN "hold" ELSE SteerOf(ph)) \in Steers
      BY <2>3 DEF Steers
    <3> HIDE DEF ph, over, last, auto
    <3>4. QED
      BY <3>1, <3>2, <3>3, <2>2, <2>4, <2>5 DEF Control
  <2>9. FlyPhase(p, t, e).st \in State
    <3> DEFINE staged == IF auto THEN e.totalElapsed ELSE StagedAt(ph, e)
               index  == IF over THEN e.phaseIndex + 1 ELSE e.phaseIndex
               clock  == PhaseClock(e, over)
               inside == ~over
    <3>1. FlyPhase(p, t, e).st
            = [e EXCEPT !.lastStageAt = staged, !.phaseEntered = inside,
                        !.phaseIndex = index, !.phaseElapsed = clock,
                        !.done = last]
      BY DEF FlyPhase
    <3>2. /\ staged \in Nat
          /\ index \in Nat \ {0}
          /\ clock \in Nat
          /\ inside \in BOOLEAN
      BY <1>1, <2>4, <2>6, <2>7 DEF State
    <3> HIDE DEF ph, over, last, auto, e, staged, index, clock, inside
    <3>3. QED
      BY <3>1, <3>2, <1>1, <2>4 DEF State
  <2>10. FlyPhase(p, t, e)
           = [ctrl |-> FlyPhase(p, t, e).ctrl, st |-> FlyPhase(p, t, e).st]
    BY DEF FlyPhase
  <2> HIDE DEF e
  <2>11. QED
    BY <2>8, <2>9, <2>10
<1>4. [e EXCEPT !.aborted = TRUE] \in State /\ [e EXCEPT !.done = TRUE] \in State
  BY <1>1 DEF State
<1>5. e.phaseIndex <= Len(p.phases) \/ e.phaseIndex > Len(p.phases)
  BY <1>1 DEF State, Program
<1> HIDE DEF e
<1>6. Step(p, t, s, dt)
        = IF s.aborted THEN [ctrl |-> AbortControl, st |-> s]
          ELSE IF s.done THEN [ctrl |-> DoneControl, st |-> s]
          ELSE IF MustAbort(p, t, e)
            THEN [ctrl |-> AbortControl, st |-> [e EXCEPT !.aborted = TRUE]]
          ELSE IF e.phaseIndex > Len(p.phases)
            THEN [ctrl |-> DoneControl, st |-> [e EXCEPT !.done = TRUE]]
          ELSE FlyPhase(p, t, e)
  BY DEF Step, e
<1>7. QED
  BY <1>2, <1>3, <1>4, <1>5, <1>6

(* A program that must abort: full cut, and the outcome is latched.         *)
LEMMA StepAborts ==
  ASSUME NEW p \in Program, NEW t \in Telemetry, NEW s \in State,
         NEW dt \in Nat \ {0},
         ~s.aborted, ~s.done, MustAbort(p, t, Elapse(s, dt))
  PROVE  LET r == Step(p, t, s, dt)
         IN  /\ r.ctrl = AbortControl
             /\ r.st.aborted /\ ~r.st.done
             /\ r.st.totalElapsed = s.totalElapsed + dt
             /\ r.st.phaseElapsed = s.phaseElapsed + dt
             /\ r.st.phaseIndex = s.phaseIndex
             /\ r.st.lastStageAt = s.lastStageAt
<1> DEFINE total == s.totalElapsed + dt
           clock == s.phaseElapsed + dt
<1>1. /\ Step(p, t, s, dt).ctrl = AbortControl
      /\ Step(p, t, s, dt).st = [s EXCEPT !.totalElapsed = total,
                                          !.phaseElapsed = clock,
                                          !.aborted = TRUE]
  BY DEF Step, Elapse
<1> HIDE DEF total, clock
<1>2. LET r == Step(p, t, s, dt)
      IN  /\ r.ctrl = AbortControl
          /\ r.st.aborted /\ ~r.st.done
          /\ r.st.totalElapsed = total
          /\ r.st.phaseElapsed = clock
          /\ r.st.phaseIndex = s.phaseIndex
          /\ r.st.lastStageAt = s.lastStageAt
  BY <1>1 DEF State
<1>3. QED
  BY <1>2 DEF total, clock

(* A program that has ended: Step repeats the control it ended on.          *)
LEMMA StepAfterEnd ==
  ASSUME NEW p, NEW t, NEW s \in State, NEW dt, s.aborted \/ s.done
  PROVE  /\ Step(p, t, s, dt).st = s
         /\ Step(p, t, s, dt).ctrl
              = IF s.aborted THEN AbortControl ELSE DoneControl
BY DEF Step

(* A program that flies on.  The phase moves on with its until condition,   *)
(* the last one completes the program with the throttle cut, and a stage    *)
(* command is the one the phase asks for on entry or comes more than the    *)
(* cooldown after the one before it.                                        *)
LEMMA StepFlies ==
  ASSUME NEW p \in Program, NEW t \in Telemetry, NEW s \in State,
         NEW dt \in Nat \ {0},
         ~s.aborted, ~s.done, s.phaseIndex <= Len(p.phases),
         ~MustAbort(p, t, Elapse(s, dt))
  PROVE  LET total == s.totalElapsed + dt
             clock == s.phaseElapsed + dt
             ph    == p.phases[s.phaseIndex]
             entry == ph.stageOnEntry /\ ~s.phaseEntered
             over  == Holds(ph.until, t, clock)
             r     == Step(p, t, s, dt)
         IN  /\ ~r.ctrl.abort /\ ~r.st.aborted
             /\ r.st.done <=> over /\ s.phaseIndex >= Len(p.phases)
             /\ r.ctrl.done <=> r.st.done
             /\ r.ctrl.done => r.ctrl.throttle = 0
             /\ r.st.totalElapsed = total
             /\ over => /\ r.st.phaseIndex = s.phaseIndex + 1
                        /\ r.st.phaseElapsed = 0
                        /\ ~r.st.phaseEntered
             /\ ~over => /\ r.st.phaseIndex = s.phaseIndex
                         /\ r.st.phaseElapsed = clock
                         /\ r.st.phaseEntered
             /\ entry => r.ctrl.stage
             /\ r.st.lastStageAt
                  = IF r.ctrl.stage THEN total ELSE s.lastStageAt
             /\ r.ctrl.stage /\ ~entry => total - s.lastStageAt > StageCooldown
<1> DEFINE total == s.totalElapsed + dt
           clock == s.phaseElapsed + dt
           e     == Elapse(s, dt)
           ph    == p.phases[e.phaseIndex]
           over  == Holds(ph.until, t, e.phaseElapsed)
           last  == over /\ LastPhase(p, e)
           auto  == AutoStage(p, ph, t, e)
           r     == FlyPhase(p, t, e)
<1>1. total \in Nat /\ clock \in Nat
  BY DEF State
<1>2. e = [s EXCEPT !.totalElapsed = total, !.phaseElapsed = clock]
  BY DEF Elapse
<1>3. r.ctrl = [throttle |-> ThrottleOf(ph, last),
                steer    |-> IF last THEN "hold" ELSE SteerOf(ph),
                stage    |-> EntryStage(ph, e) \/ auto,
                abort    |-> FALSE,
                done     |-> last,
                phase    |-> ph.name]
  BY DEF FlyPhase
<1>4. r.st = [e EXCEPT !.lastStageAt  = IF auto THEN e.totalElapsed
                                        ELSE StagedAt(ph, e),
                       !.phaseEntered = ~over,
                       !.phaseIndex   = IF over THEN @ + 1 ELSE @,
                       !.phaseElapsed = PhaseClock(e, over),
                       !.done         = last]
  BY DEF FlyPhase
<1>5. auto => e.totalElapsed - StagedAt(ph, e) > StageCooldown
  BY DEF AutoStage
<1>6. e.phaseIndex = s.phaseIndex /\ e.phaseElapsed = clock
  <2> HIDE DEF e, total, clock
  <2>1. QED
    BY <1>2 DEF State
<1>7. /\ ph = p.phases[s.phaseIndex]
      /\ over = Holds(p.phases[s.phaseIndex].until, t, clock)
  BY <1>6
<1>8. Step(p, t, s, dt) = r
  <2>1. ~(e.phaseIndex > Len(p.phases))
    BY <1>6 DEF State, Program
  <2>2. QED
    BY <2>1 DEF Step
<1>9. last \in BOOLEAN /\ auto \in BOOLEAN /\ EntryStage(ph, e) \in BOOLEAN
  BY DEF Holds, AutoStage, EntryStage
<1> HIDE DEF total, clock, e, ph, over, last, auto, r
<1>10. e \in State /\ e.totalElapsed = total /\ e.lastStageAt = s.lastStageAt
      /\ e.phaseEntered = s.phaseEntered /\ ~e.aborted
  BY <1>1, <1>2 DEF State
<1>11. /\ ~r.st.aborted
       /\ r.st.done = last
       /\ r.st.totalElapsed = total
       /\ r.st.lastStageAt = IF auto THEN total ELSE StagedAt(ph, e)
       /\ r.st.phaseEntered = ~over
       /\ r.st.phaseIndex = IF over THEN s.phaseIndex + 1 ELSE s.phaseIndex
       /\ r.st.phaseElapsed = IF over THEN 0 ELSE clock
  BY <1>4, <1>6, <1>10 DEF State, PhaseClock
<1>12. /\ EntryStage(ph, e) <=> ph.stageOnEntry /\ ~s.phaseEntered
       /\ StagedAt(ph, e) = IF EntryStage(ph, e) THEN total ELSE s.lastStageAt
       /\ last <=> over /\ s.phaseIndex >= Len(p.phases)
       /\ last => ThrottleOf(ph, last) = 0
  BY <1>6, <1>10 DEF EntryStage, StagedAt, LastPhase, ThrottleOf, last
<1>13. /\ ~r.ctrl.abort
       /\ r.ctrl.done = last
       /\ r.ctrl.done => r.ctrl.throttle = 0
       /\ r.ctrl.stage <=> EntryStage(ph, e) \/ auto
  BY <1>3, <1>12, <1>9
<1>14. /\ EntryStage(ph, e) => r.ctrl.stage
       /\ r.st.lastStageAt = IF r.ctrl.stage THEN total ELSE s.lastStageAt
       /\ r.ctrl.stage /\ ~EntryStage(ph, e)
            => total - s.lastStageAt > StageCooldown
  BY <1>5, <1>10, <1>11, <1>12, <1>13
<1>15. QED
  BY <1>7, <1>8, <1>11, <1>12, <1>13, <1>14 DEF total, clock

(* Whatever the program, Step says that it is complete only with the        *)
(* throttle cut.                                                            *)
LEMMA StepDoneIsCut ==
  ASSUME NEW p, NEW t, NEW s, NEW dt
  PROVE  LET r == Step(p, t, s, dt) IN r.ctrl.done => r.ctrl.throttle = 0
<1> DEFINE e    == Elapse(s, dt)
           ph   == p.phases[e.phaseIndex]
           last == Holds(ph.until, t, e.phaseElapsed) /\ LastPhase(p, e)
<1>1. AbortControl.throttle = 0 /\ DoneControl.throttle = 0
  BY DEF AbortControl, DoneControl, Neutral
<1>2. /\ FlyPhase(p, t, e).ctrl.done = last
      /\ FlyPhase(p, t, e).ctrl.throttle = ThrottleOf(ph, last)
  BY DEF FlyPhase
<1>3. last => ThrottleOf(ph, last) = 0
  BY DEF ThrottleOf
<1>4. LET r == Step(p, t, s, dt)
      IN  r.ctrl \in {AbortControl, DoneControl, FlyPhase(p, t, e).ctrl}
  BY DEF Step
<1> HIDE DEF e, ph, last
<1>5. QED
  BY <1>1, <1>2, <1>3, <1>4

(* A condition on anything but the phase clock holds or not whatever the    *)
(* clock shows.                                                             *)
LEMMA HoldsWithoutClock ==
  ASSUME NEW c, NEW t, NEW m, NEW n, c.field # "time_in_phase"
  PROVE  Holds(c, t, m) = Holds(c, t, n)
BY DEF Holds, Reading

(* A condition on the phase clock compares the clock.                       *)
LEMMA HoldsOnClock ==
  ASSUME NEW c, NEW t, NEW n \in Nat,
         c.field = "time_in_phase", c.op = "gt"
  PROVE  Holds(c, t, n) <=> n > c.value
BY NaNAssumption DEF Holds, Reading
=============================================================================
