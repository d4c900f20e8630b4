------------------------ MODULE AutopilotLoopProofs ------------------------
(***************************************************************************)
(* Theorems about AutopilotLoop, for every set of programs, every          *)
(* telemetry, every tick length and any time lost to dropped ticks.        *)
(***************************************************************************)
EXTENDS AutopilotLoop, ExecutorProofs

(* The executor's memory against the history: its clocks are the wall clock *)
(* and the time in the phase, and it never forgets a stage command.         *)
ClocksAgree ==
  /\ wall = st.totalElapsed + lost
  /\ st.phaseElapsed = inPhase
  /\ lastStage <= st.lastStageAt + lost

(* While the program flies the dead-man has not fired, a phase is active,   *)
(* it has been entered once it has been flown, and the phases commanded     *)
(* are those up to it.                                                      *)
FlyingInBounds ==
  ~Ended =>
    /\ st.totalElapsed <= prog.maxDuration
    /\ st.phaseIndex <= Len(prog.phases)
    /\ st.phaseEntered <=> inPhase > 0
    /\ Len(flown) = IF st.phaseEntered THEN st.phaseIndex
                    ELSE st.phaseIndex - 1

IInv ==
  /\ TypeOK
  /\ prog \in Programs
  /\ Valid(prog)
  /\ ~(st.aborted /\ st.done)
  /\ ClocksAgree
  /\ FlyingInBounds
  /\ CompletedWithinLimits
  /\ PhasesInOrder

-----------------------------------------------------------------------------
(* What is loaded is a program Validate has passed, and nothing has run.    *)
LEMMA InitIInv == Init => IInv
<1> SUFFICES ASSUME Init PROVE IInv
  OBVIOUS
<1>1. prog \in Program /\ prog \in Programs /\ Valid(prog)
  BY ProgramsAssumption DEF Init
<1>2. /\ st = InitState /\ ctrl = Neutral /\ snap = NoSnapshot
      /\ wall = 0 /\ lost = 0 /\ inPhase = 0 /\ lastStage = 0
      /\ flown = << >>
  BY DEF Init
<1>3. st \in State
  BY <1>2 DEF InitState, State
<1>4. ctrl \in Control
  <2>1. Neutral \in Control
    BY DEF Neutral, Control, Steers, PhaseNames
  <2>2. QED
    BY <1>2, <2>1
<1>5. snap \in Telemetry
  <2>1. [f \in TelemetryFields |-> 0] \in [TelemetryFields -> Int \cup {NaN}]
    OBVIOUS
  <2>2. QED
    BY <1>2, <2>1 DEF NoSnapshot, Telemetry
<1>6. TypeOK
  BY <1>1, <1>2, <1>3, <1>4, <1>5, LostAssumption DEF TypeOK
<1>7. ClocksAgree /\ ~Ended
  BY <1>2 DEF ClocksAgree, InitState, Ended
<1>8. FlyingInBounds
  <2>1. /\ Len(prog.phases) \in Nat /\ Len(prog.phases) >= 1
        /\ prog.maxDuration \in Int /\ prog.maxDuration > 0
    BY <1>1 DEF Valid, Program
  <2>2. /\ st.totalElapsed = 0 /\ st.phaseIndex = 1 /\ ~st.phaseEntered
        /\ inPhase = 0 /\ Len(flown) = 0
    BY <1>2 DEF InitState
  <2>3. QED
    BY <2>1, <2>2 DEF FlyingInBounds
<1>9. CompletedWithinLimits /\ PhasesInOrder
  BY <1>2, <1>7 DEF CompletedWithinLimits, PhasesInOrder, Ended
<1>10. QED
  BY <1>1, <1>6, <1>7, <1>8, <1>9 DEF IInv, Ended

(* A bound survives the growth of a term.                                   *)
LEMMA BoundGrows ==
  ASSUME NEW a \in Nat, NEW b \in Nat, NEW m \in Nat, NEW n \in Nat,
         a <= b + m, m <= n
  PROVE  a <= b + n
OBVIOUS

(* What a tick does to the memory and to the history, in one place.         *)
LEMMA TickEffect ==
  ASSUME IInv, NEW t \in Snapshots, NEW late \in 0 .. MaxLost, Tick(t, late)
  PROVE  /\ t \in Telemetry /\ snap' = t /\ prog' = prog
         /\ ~st.aborted /\ ~st.done
         /\ st' \in State /\ ctrl' \in Control
         /\ st'.totalElapsed = st.totalElapsed + Dt
         /\ wall' = wall + Dt + late
         /\ lost' = lost + late /\ lost' \in 0 .. MaxLost
         /\ inPhase' = IF st'.phaseIndex # st.phaseIndex THEN 0
                       ELSE inPhase + Dt
         /\ lastStage' = IF ctrl'.stage THEN wall' ELSE lastStage
         /\ flown' = IF ctrl'.abort \/ st.phaseEntered THEN flown
                     ELSE Append(flown, st.phaseIndex)
<1>1. /\ st' = Step(prog, t, st, Dt).st /\ ctrl' = Step(prog, t, st, Dt).ctrl
      /\ snap' = t /\ prog' = prog /\ ~Ended
      /\ wall' = wall + Dt + late
      /\ lost' = lost + late /\ lost + late <= MaxLost
      /\ inPhase' = IF st'.phaseIndex # st.phaseIndex THEN 0 ELSE inPhase + Dt
      /\ lastStage' = IF ctrl'.stage THEN wall' ELSE lastStage
      /\ flown' = IF ctrl'.abort
                     \/ (flown # << >> /\ flown[Len(flown)] = st.phaseIndex)
                  THEN flown ELSE Append(flown, st.phaseIndex)
  BY Zenon DEF Tick
<1>2. st \in State /\ prog \in Program /\ t \in Telemetry
  BY SnapshotsAssumption DEF IInv, TypeOK
<1>3. st' \in State /\ ctrl' \in Control
  BY <1>1, <1>2, StepIsTyped, DtAssumption
<1>4. ~st.aborted /\ ~st.done
  BY <1>1 DEF Ended
<1>5. st'.totalElapsed = st.totalElapsed + Dt
  <2>1. CASE MustAbort(prog, t, Elapse(st, Dt))
    BY <1>1, <1>2, <1>4, <2>1, StepAborts, DtAssumption
  <2>2. CASE ~MustAbort(prog, t, Elapse(st, Dt))
    BY <1>1, <1>2, <1>4, <2>2, StepFlies, DtAssumption
       DEF IInv, FlyingInBounds
  <2>3. QED
    BY <2>1, <2>2
<1>6. lost' \in 0 .. MaxLost
  BY <1>1, LostAssumption DEF IInv, TypeOK
<1>7. (flown # << >> /\ flown[Len(flown)] = st.phaseIndex) <=> st.phaseEntered
  <2>1. /\ flown \in Seq(Nat) /\ \A k \in DOMAIN flown : flown[k] = k
        /\ Len(flown) = IF st.phaseEntered THEN st.phaseIndex
                        ELSE st.phaseIndex - 1
        /\ st.phaseIndex \in Nat \ {0}
    BY <1>1, <1>2 DEF IInv, TypeOK, PhasesInOrder, FlyingInBounds, State
  <2>2. flown # << >> => flown[Len(flown)] = Len(flown)
    BY <2>1
  <2>3. QED
    BY <2>1, <2>2
<1>8. QED
  BY <1>1, <1>2, <1>3, <1>4, <1>5, <1>6, <1>7

(* A tick that aborts.                                                      *)
LEMMA AbortingTick ==
  ASSUME IInv, NEW t \in Snapshots, NEW late \in 0 .. MaxLost, Tick(t, late),
         MustAbort(prog, t, Elapse(st, Dt))
  PROVE  /\ st'.aborted /\ ~st'.done
         /\ ctrl'.abort /\ ~ctrl'.done /\ ~ctrl'.stage /\ ctrl'.throttle = 0
         /\ st'.phaseIndex = st.phaseIndex
         /\ st'.phaseElapsed = st.phaseElapsed + Dt
         /\ st'.lastStageAt = st.lastStageAt
<1>1. /\ st' = Step(prog, t, st, Dt).st /\ ctrl' = Step(prog, t, st, Dt).ctrl
  BY Zenon DEF Tick
<1>2. /\ st \in State /\ prog \in Program /\ t \in Telemetry
      /\ ~st.aborted /\ ~st.done
  BY TickEffect DEF IInv, TypeOK
<1>3. AbortControl.abort /\ ~AbortControl.done /\ ~AbortControl.stage
      /\ AbortControl.throttle = 0
  BY DEF AbortControl, Neutral
<1>4. QED
  BY <1>1, <1>2, <1>3, StepAborts, DtAssumption

(* A tick that flies on, or completes the program.                          *)
LEMMA FlyingTick ==
  ASSUME IInv, NEW t \in Snapshots, NEW late \in 0 .. MaxLost, Tick(t, late),
         ~MustAbort(prog, t, Elapse(st, Dt))
  PROVE  LET ph    == prog.phases[st.phaseIndex]
             entry == ph.stageOnEntry /\ ~st.phaseEntered
             over  == Holds(ph.until, t, st.phaseElapsed + Dt)
         IN  /\ ~st'.aborted /\ ~ctrl'.abort
             /\ st'.done <=> over /\ st.phaseIndex = Len(prog.phases)
             /\ st'.totalElapsed <= prog.maxDuration
             /\ \A i \in DOMAIN prog.abort :
                  ~Holds(prog.abort[i], t, st.phaseElapsed + Dt)
             /\ over => /\ st'.phaseIndex = st.phaseIndex + 1
                        /\ st'.phaseElapsed = 0
                        /\ ~st'.phaseEntered
             /\ ~over => /\ st'.phaseIndex = st.phaseIndex
                         /\ st'.phaseElapsed = st.phaseElapsed + Dt
                         /\ st'.phaseEntered
             /\ entry => ctrl'.stage
             /\ st'.lastStageAt
                  = IF ctrl'.stage THEN st'.totalElapsed ELSE st.lastStageAt
             /\ ctrl'.stage /\ ~entry
                  => st'.totalElapsed - st.lastStageAt > StageCooldown
<1>1. /\ st' = Step(prog, t, st, Dt).st /\ ctrl' = Step(prog, t, st, Dt).ctrl
  BY Zenon DEF Tick
<1>2. /\ st \in State /\ prog \in Program /\ t \in Telemetry
      /\ ~st.aborted /\ ~st.done /\ st.phaseIndex <= Len(prog.phases)
      /\ st'.totalElapsed = st.totalElapsed + Dt
  BY TickEffect DEF IInv, TypeOK, FlyingInBounds, Ended
<1>3. /\ Elapse(st, Dt).totalElapsed = st.totalElapsed + Dt
      /\ Elapse(st, Dt).phaseElapsed = st.phaseElapsed + Dt
  BY <1>2 DEF Elapse, State
<1>4. /\ ~(st.totalElapsed + Dt > prog.maxDuration)
      /\ \A i \in DOMAIN prog.abort :
           ~Holds(prog.abort[i], t, st.phaseElapsed + Dt)
  BY <1>3 DEF MustAbort, HardLimit, IInv, Valid
<1>5. st'.totalElapsed <= prog.maxDuration
  BY <1>2, <1>4, DtAssumption DEF State, Program
<1>6. st.phaseIndex >= Len(prog.phases) <=> st.phaseIndex = Len(prog.phases)
  BY <1>2 DEF State, Program
<1>7. QED
  BY <1>1, <1>2, <1>4, <1>5, <1>6, StepFlies, DtAssumption

(* A Step after the end answers with the control the program ended on.      *)
LEMMA EndedTick ==
  ASSUME IInv, NEW t \in Snapshots, TickAfterEnd(t)
  PROVE  /\ UNCHANGED <<prog, st, snap, wall, lost, inPhase, lastStage, flown>>
         /\ ctrl' \in Control
         /\ ctrl'.throttle = 0 /\ ~ctrl'.stage
         /\ ctrl'.abort = st.aborted /\ ctrl'.done = st.done
<1>1. /\ st' = Step(prog, t, st, Dt).st /\ ctrl' = Step(prog, t, st, Dt).ctrl
      /\ UNCHANGED <<prog, snap, wall, lost, inPhase, lastStage, flown>>
      /\ Ended
  BY Zenon DEF TickAfterEnd
<1>2. /\ st \in State /\ prog \in Program /\ t \in Telemetry
      /\ ~(st.aborted /\ st.done) /\ (st.aborted \/ st.done)
  BY <1>1, SnapshotsAssumption DEF IInv, TypeOK, Ended
<1>3. /\ st' = st
      /\ ctrl' = IF st.aborted THEN AbortControl ELSE DoneControl
  BY <1>1, <1>2, StepAfterEnd
<1>4. ctrl' \in Control
  BY <1>1, <1>2, StepIsTyped, DtAssumption
<1>5. /\ AbortControl.abort = TRUE /\ AbortControl.done = FALSE
      /\ DoneControl.abort = FALSE /\ DoneControl.done = TRUE
      /\ ~AbortControl.stage /\ ~DoneControl.stage
      /\ AbortControl.throttle = 0 /\ DoneControl.throttle = 0
  BY DEF AbortControl, DoneControl, Neutral
<1>6. st.aborted \in BOOLEAN /\ st.done \in BOOLEAN
  BY <1>2 DEF State
<1>7. QED
  BY <1>1, <1>2, <1>3, <1>4, <1>5, <1>6

(* A tick keeps the invariant: one step per conjunct.                       *)
LEMMA TickKeeps ==
  ASSUME IInv, NEW t \in Snapshots, NEW late \in 0 .. MaxLost, Tick(t, late)
  PROVE  IInv'
<1> DEFINE aborts == MustAbort(prog, t, Elapse(st, Dt))
           ph     == prog.phases[st.phaseIndex]
           over   == Holds(ph.until, t, st.phaseElapsed + Dt)
<1>1. /\ prog' = prog /\ snap' = t
      /\ ~st.aborted /\ ~st.done
      /\ st'.totalElapsed = st.totalElapsed + Dt
      /\ wall' = wall + Dt + late
      /\ lost' = lost + late /\ lost' \in 0 .. MaxLost
      /\ inPhase' = IF st'.phaseIndex # st.phaseIndex THEN 0 ELSE inPhase + Dt
      /\ lastStage' = IF ctrl'.stage THEN wall' ELSE lastStage
      /\ flown' = IF ctrl'.abort \/ st.phaseEntered THEN flown
                  ELSE Append(flown, st.phaseIndex)
  BY TickEffect
<1>2. /\ prog \in Program /\ st \in State /\ wall \in Nat /\ inPhase \in Nat
      /\ lastStage \in Nat /\ flown \in Seq(Nat) /\ lost \in Nat
      /\ st.phaseIndex \in Nat \ {0} /\ st.totalElapsed \in Nat
      /\ st.phaseElapsed \in Nat /\ st.lastStageAt \in Nat
      /\ Len(prog.phases) \in Nat /\ late \in Nat /\ Dt \in Nat \ {0}
  BY LostAssumption, DtAssumption DEF IInv, TypeOK, State, Program
<1>3. /\ wall = st.totalElapsed + lost
      /\ st.phaseElapsed = inPhase
      /\ lastStage <= st.lastStageAt + lost
  BY DEF IInv, ClocksAgree
<1>4. /\ st.totalElapsed <= prog.maxDuration
      /\ st.phaseIndex <= Len(prog.phases)
      /\ st.phaseEntered <=> inPhase > 0
      /\ Len(flown) = IF st.phaseEntered THEN st.phaseIndex
                      ELSE st.phaseIndex - 1
  BY <1>1 DEF IInv, FlyingInBounds, Ended
<1>5. aborts => /\ st'.aborted /\ ~st'.done /\ ctrl'.abort /\ ~ctrl'.stage
                /\ st'.phaseIndex = st.phaseIndex
                /\ st'.phaseElapsed = st.phaseElapsed + Dt
                /\ st'.lastStageAt = st.lastStageAt
  BY AbortingTick
<1>6. ~aborts =>
        /\ ~st'.aborted /\ ~ctrl'.abort
        /\ st'.done <=> over /\ st.phaseIndex = Len(prog.phases)
        /\ st'.totalElapsed <= prog.maxDuration
        /\ \A i \in DOMAIN prog.abort :
             ~Holds(prog.abort[i], t, st.phaseElapsed + Dt)
        /\ over => /\ st'.phaseIndex = st.phaseIndex + 1
                   /\ st'.phaseElapsed = 0
                   /\ ~st'.phaseEntered
        /\ ~over => /\ st'.phaseIndex = st.phaseIndex
                    /\ st'.phaseElapsed = st.phaseElapsed + Dt
                    /\ st'.phaseEntered
        /\ st'.lastStageAt
             = IF ctrl'.stage THEN st'.totalElapsed ELSE st.lastStageAt
  BY FlyingTick
<1> HIDE DEF aborts, ph, over
<1>7. TypeOK'
  <2>1. st' \in State /\ ctrl' \in Control /\ snap' \in Telemetry
    BY TickEffect
  <2>2. flown' \in Seq(Nat)
    BY <1>1, <1>2
  <2>3. wall' \in Nat /\ inPhase' \in Nat
    BY <1>1, <1>2
  <2>4. QED
    BY <1>1, <1>2, <2>1, <2>2, <2>3 DEF TypeOK
<1>8. /\ (prog \in Programs)' /\ Valid(prog)'
      /\ ~(st.aborted /\ st.done)'
  BY <1>1, <1>5, <1>6 DEF IInv, Valid
<1>9. ClocksAgree'
  <2>1. wall' = st'.totalElapsed + lost'
    BY <1>1, <1>2, <1>3
  <2>2. st'.phaseElapsed = inPhase'
    BY <1>1, <1>2, <1>3, <1>5, <1>6
  <2>3. lastStage' <= st'.lastStageAt + lost'
    <3>1. CASE ctrl'.stage
      <4>1. lastStage' = wall' /\ st'.lastStageAt = st'.totalElapsed
        BY <1>1, <1>5, <1>6, <3>1
      <4>2. QED
        BY <1>1, <1>2, <2>1, <4>1
    <3>2. CASE ~ctrl'.stage
      <4>1. lastStage' = lastStage /\ st'.lastStageAt = st.lastStageAt
        BY <1>1, <1>5, <1>6, <3>2
      <4>2. lost' \in Nat /\ lost <= lost'
        BY <1>1, <1>2
      <4> DEFINE at == st.lastStageAt
      <4>3. at \in Nat /\ lastStage \in Nat /\ lost \in Nat /\ lastStage <= at + lost
        BY <1>2, <1>3
      <4> HIDE DEF at
      <4>4. lastStage <= at + lost'
        BY <4>2, <4>3, BoundGrows
      <4>5. QED
        BY <4>1, <4>4 DEF at
    <3>3. QED
      BY <3>1, <3>2
  <2>4. QED
    BY <2>1, <2>2, <2>3 DEF ClocksAgree
<1>10. FlyingInBounds'
  <2>1. CASE aborts
    BY <1>5, <2>1 DEF FlyingInBounds, Ended
  <2>2. CASE ~aborts
    <3>1. CASE over /\ st.phaseIndex = Len(prog.phases)
      BY <1>6, <2>2, <3>1 DEF FlyingInBounds, Ended
    <3>2. CASE over /\ st.phaseIndex # Len(prog.phases)
      BY <1>1, <1>2, <1>4, <1>6, <2>2, <3>2 DEF FlyingInBounds
    <3>3. CASE ~over
      BY <1>1, <1>2, <1>4, <1>6, <2>2, <3>3 DEF FlyingInBounds
    <3>4. QED
      BY <3>1, <3>2, <3>3
  <2>3. QED
    BY <2>1, <2>2
<1>11. CompletedWithinLimits'
  BY <1>1, <1>5, <1>6, HoldsWithoutClock DEF CompletedWithinLimits
<1>12. PhasesInOrder'
  <2>1. \A k \in DOMAIN flown : flown[k] = k
    BY DEF IInv, PhasesInOrder
  <2>2. \A k \in DOMAIN flown' : flown'[k] = k
    BY <1>1, <1>2, <1>4, <2>1
  <2>3. st'.done => Len(flown') = Len(prog'.phases)
    BY <1>1, <1>2, <1>4, <1>5, <1>6
  <2>4. QED
    BY <2>2, <2>3 DEF PhasesInOrder
<1>13. QED
  BY <1>7, <1>8, <1>9, <1>10, <1>11, <1>12 DEF IInv

(* So does every step.                                                      *)
LEMMA StepKeeps == ASSUME IInv, [Next]_vars PROVE IInv'
<1>1. ASSUME NEW t \in Snapshots, TickAfterEnd(t) PROVE IInv'
  <2>1. /\ UNCHANGED <<prog, st, snap, wall, lost, inPhase, lastStage, flown>>
        /\ ctrl' \in Control
    BY <1>1, EndedTick
  <2>2. TypeOK'
    BY <2>1 DEF IInv, TypeOK
  <2>3. QED
    BY <2>1, <2>2 DEF IInv, ClocksAgree, FlyingInBounds, Ended,
                      CompletedWithinLimits, PhasesInOrder
<1>2. ASSUME UNCHANGED vars PROVE IInv'
  BY <1>2 DEF vars, IInv, TypeOK, ClocksAgree, FlyingInBounds, Ended,
              CompletedWithinLimits, PhasesInOrder
<1>3. QED
  BY <1>1, <1>2, TickKeeps DEF Next

(* The inductive invariant, under the actions of the loop.                  *)
THEOREM LoopInvariant == Spec => []IInv
<1>1. QED
  BY InitIInv, StepKeeps, PTL DEF Spec

-----------------------------------------------------------------------------
(* Step and the ticker loop keep their state well formed: no clock runs     *)
(* backwards past zero, and no throttle leaves its range.                   *)
THEOREM TypeCorrect == Spec => []TypeOK
<1>1. IInv => TypeOK
  BY DEF IInv
<1>2. QED
  BY <1>1, LoopInvariant, PTL

(* The dead-man of program.go: a program still flying has been flying, in   *)
(* the ticks the loop was given, for no longer than its maximum.            *)
THEOREM DeadManHolds == Spec => []DeadManOnTime
<1>1. IInv => DeadManOnTime
  <2> SUFFICES ASSUME IInv, ~Ended PROVE wall - lost <= prog.maxDuration
    BY DEF DeadManOnTime
  <2>1. wall = st.totalElapsed + lost /\ st.totalElapsed <= prog.maxDuration
    BY DEF IInv, ClocksAgree, FlyingInBounds
  <2>2. st.totalElapsed \in Nat /\ lost \in Nat /\ wall \in Nat
    BY LostAssumption DEF IInv, TypeOK, State
  <2>3. QED
    BY <2>1, <2>2
<1>2. QED
  BY <1>1, LoopInvariant, PTL

(* A completed program was within its limits on the tick that completed it. *)
THEOREM SafetyBeforeSuccess == Spec => []CompletedWithinLimits
<1>1. IInv => CompletedWithinLimits
  BY DEF IInv
<1>2. QED
  BY <1>1, LoopInvariant, PTL

(* Phases are flown in order, none is skipped, and a completed program flew *)
(* them all.                                                                *)
THEOREM PhasesAreFlown == Spec => []PhasesInOrder
<1>1. IInv => PhasesInOrder
  BY DEF IInv
<1>2. QED
  BY <1>1, LoopInvariant, PTL

(* The bound on the executor's clock never stops a loop: a flight ends by   *)
(* its dead-man before it.                                                  *)
HorizonIsFar == ~Ended => st.totalElapsed < Horizon

THEOREM HorizonNeverBinds == Spec => []HorizonIsFar
<1>1. IInv => HorizonIsFar
  <2> SUFFICES ASSUME IInv, ~Ended PROVE st.totalElapsed < Horizon
    BY DEF HorizonIsFar
  <2>1. st.totalElapsed <= prog.maxDuration /\ st.totalElapsed \in Nat
    BY DEF IInv, FlyingInBounds, TypeOK, State
  <2>2. prog.maxDuration \in Int /\ prog.maxDuration + Dt < Horizon
    BY HorizonAssumption DEF IInv, TypeOK, Program
  <2>3. QED
    BY <2>1, <2>2, HorizonAssumption, DtAssumption
<1>2. QED
  BY <1>1, LoopInvariant, PTL

-----------------------------------------------------------------------------
(* Staging discipline: the stage command a phase asks for comes on its      *)
(* first tick, and any other comes more than the cooldown of wall time      *)
(* after the one before it.                                                 *)
THEOREM StagingIsDebounced == Spec => StagingDiscipline
<1> DEFINE entry == inPhase = 0 /\ prog.phases[st.phaseIndex].stageOnEntry
           A == ~Ended /\ ~ctrl'.abort =>
                  /\ entry => ctrl'.stage
                  /\ ctrl'.stage /\ ~entry => wall' - lastStage > StageCooldown
<1>1. ASSUME IInv, [Next]_vars PROVE [A]_vars
  <2> SUFFICES ASSUME Next, ~Ended, ~ctrl'.abort
               PROVE  /\ entry => ctrl'.stage
                      /\ ctrl'.stage /\ ~entry
                           => wall' - lastStage > StageCooldown
    BY <1>1
  <2>1. PICK t \in Snapshots, late \in 0 .. MaxLost : Tick(t, late)
    BY Zenon DEF Next, TickAfterEnd
  <2>2. ~MustAbort(prog, t, Elapse(st, Dt))
    BY <1>1, <2>1, AbortingTick
  <2>3. entry <=> prog.phases[st.phaseIndex].stageOnEntry /\ ~st.phaseEntered
    BY <1>1 DEF IInv, FlyingInBounds, TypeOK
  <2>4. /\ entry => ctrl'.stage
        /\ ctrl'.stage /\ ~entry
             => st'.totalElapsed - st.lastStageAt > StageCooldown
    BY <1>1, <2>1, <2>2, <2>3, FlyingTick
  <2>5. /\ st'.totalElapsed = st.totalElapsed + Dt
        /\ wall' = wall + Dt + late
    BY <1>1, <2>1, TickEffect
  <2>6. /\ wall = st.totalElapsed + lost
        /\ lastStage <= st.lastStageAt + lost
    BY <1>1 DEF IInv, ClocksAgree
  <2>7. /\ wall \in Nat /\ lost \in Nat /\ lastStage \in Nat /\ late \in Nat
        /\ st.totalElapsed \in Nat /\ st.lastStageAt \in Nat /\ Dt \in Nat
    BY <1>1, LostAssumption, DtAssumption DEF IInv, TypeOK, State
  <2>8. wall' - lastStage >= st'.totalElapsed - st.lastStageAt
    BY <2>5, <2>6, <2>7
  <2> HIDE DEF entry
  <2>9. QED
    BY <2>4, <2>5, <2>7, <2>8, CooldownAssumption
<1>2. QED
  BY <1>1, LoopInvariant, PTL DEF Spec, StagingDiscipline

(* A phase that ends on its own clock is flown for all of that time.        *)
THEOREM PhaseClocksHonoured == Spec => TimedPhasesHonoured
<1> DEFINE A == LET u == prog.phases[st.phaseIndex].until
                IN  st'.phaseIndex # st.phaseIndex /\ u.field = "time_in_phase"
                      /\ u.op = "gt"
                        => inPhase + Dt > u.value
<1>1. ASSUME IInv, [Next]_vars PROVE [A]_vars
  <2> DEFINE u == prog.phases[st.phaseIndex].until
  <2> SUFFICES ASSUME Next, st'.phaseIndex # st.phaseIndex,
                      u.field = "time_in_phase", u.op = "gt"
               PROVE  inPhase + Dt > u.value
    BY <1>1
  <2>1. PICK t \in Snapshots, late \in 0 .. MaxLost : Tick(t, late)
    <3>1. \A t \in Snapshots : ~TickAfterEnd(t)
      BY <1>1, EndedTick
    <3>2. QED
      BY <3>1, Zenon DEF Next
  <2>2. ~MustAbort(prog, t, Elapse(st, Dt))
    BY <1>1, <2>1, AbortingTick
  <2>3. Holds(u, t, st.phaseElapsed + Dt)
    BY <1>1, <2>1, <2>2, FlyingTick
  <2>4. st.phaseElapsed + Dt \in Nat /\ st.phaseElapsed = inPhase
    BY <1>1, DtAssumption DEF IInv, ClocksAgree, TypeOK, State
  <2> HIDE DEF u
  <2>5. QED
    BY <2>3, <2>4, HoldsOnClock
<1>2. QED
  BY <1>1, LoopInvariant, PTL DEF Spec, TimedPhasesHonoured

(* Nothing is commanded once a program has ended, and its outcome stays.    *)
THEOREM EndingsAreFinal == Spec => EndIsFinal
<1> DEFINE A == Ended => /\ st' = st
                         /\ ctrl'.throttle = 0
                         /\ ~ctrl'.stage
                         /\ ctrl'.abort = st.aborted
                         /\ ctrl'.done = st.done
<1>1. ASSUME IInv, [Next]_vars PROVE [A]_vars
  <2> SUFFICES ASSUME Next, Ended PROVE A
    BY <1>1
  <2>1. PICK t \in Snapshots : TickAfterEnd(t)
    BY Zenon DEF Next, Tick
  <2>2. QED
    BY <1>1, <2>1, EndedTick
<1>2. QED
  BY <1>1, LoopInvariant, PTL DEF Spec, EndIsFinal

=============================================================================
