---------------------------- MODULE AutopilotLoop ----------------------------
(***************************************************************************)
(* A validated program flown tick by tick: autopilot.Run's calls of Step   *)
(* when neither the telemetry source nor the control sink ever fails.  The *)
(* telemetry is anything the vessel may report, so what holds here holds   *)
(* whatever the vessel does.                                               *)
(*                                                                         *)
(* The executor's clock advances by Dt on every tick it is given; the wall *)
(* clock also counts the ticks a slow loop loses (a Go ticker drops them). *)
(***************************************************************************)
EXTENDS Executor

CONSTANTS
  Programs,   \* the programs offered; only valid ones are flown
  Snapshots,  \* the telemetry the vessel may report on a tick
  Dt,         \* the tick length
  MaxLost,    \* bound on the time lost to dropped ticks in a flight
  Horizon     \* bound on the executor's clock, beyond every dead-man

ASSUME ProgramsAssumption  == Programs \subseteq Program
ASSUME SnapshotsAssumption == Snapshots \subseteq Telemetry
ASSUME DtAssumption        == Dt \in Nat \ {0}
ASSUME LostAssumption      == MaxLost \in Nat
ASSUME HorizonAssumption   ==
  /\ Horizon \in Nat
  /\ \A p \in Programs : p.maxDuration + Dt < Horizon

VARIABLES
  prog,   \* the program being flown
  st,     \* the executor's State
  ctrl,   \* the control of the last tick
  snap,   \* the telemetry of the last tick
  wall,   \* wall-clock time since the loop started
  lost,   \* history: how much of it went by in dropped ticks
  (* History: what the properties compare the executor's memory with.      *)
  inPhase,      \* time flown in the current phase, the last tick included
  lastStage,    \* wall time of the last stage command, 0 when there is none
  flown         \* numbers of the phases commanded so far, in order

vars == <<prog, st, ctrl, snap, wall, lost, inPhase, lastStage, flown>>

NoSnapshot == [value |-> [f \in TelemetryFields |-> 0], hasFuel |-> TRUE]

Ended == st.aborted \/ st.done

Init ==
  /\ prog \in {p \in Programs : Valid(p)}
  /\ st = InitState
  /\ ctrl = Neutral
  /\ snap = NoSnapshot
  /\ wall = 0
  /\ lost = 0
  /\ inPhase = 0
  /\ lastStage = 0
  /\ flown = << >>

(* One tick of a loop that is still running: late is the time the wall      *)
(* clock gained on the executor's.                                          *)
Tick(t, late) ==
  LET r   == Step(prog, t, st, Dt)
      now == wall + Dt + late
      i   == st.phaseIndex
  IN  /\ ~Ended
      /\ st.totalElapsed < Horizon
      /\ lost + late <= MaxLost
      /\ st' = r.st
      /\ ctrl' = r.ctrl
      /\ snap' = t
      /\ wall' = now
      /\ lost' = lost + late
      /\ inPhase' = IF r.st.phaseIndex # i THEN 0 ELSE inPhase + Dt
      /\ lastStage' = IF r.ctrl.stage THEN now ELSE lastStage
      /\ flown' = IF r.ctrl.abort \/ (flown # << >> /\ flown[Len(flown)] = i)
                  THEN flown ELSE Append(flown, i)
      /\ UNCHANGED prog

(* A Step after the end: the executor answers with the control it ended on  *)
(* and its memory does not move.                                            *)
TickAfterEnd(t) ==
  LET r == Step(prog, t, st, Dt)
  IN  /\ Ended
      /\ st' = r.st
      /\ ctrl' = r.ctrl
      /\ UNCHANGED <<prog, snap, wall, lost, inPhase, lastStage, flown>>

Next ==
  \/ \E t \in Snapshots, late \in 0 .. MaxLost : Tick(t, late)
  \/ \E t \in Snapshots : TickAfterEnd(t)

Spec == Init /\ [][Next]_vars

(* The ticker fires and the loop goroutine is scheduled.                    *)
FairSpec ==
  /\ Spec
  /\ WF_vars(\E t \in Snapshots, late \in 0 .. MaxLost : Tick(t, late))

-----------------------------------------------------------------------------
TypeOK ==
  /\ prog \in Program
  /\ st \in State
  /\ ctrl \in Control
  /\ snap \in Telemetry
  /\ wall \in Nat
  /\ lost \in 0 .. MaxLost
  /\ inPhase \in Nat
  /\ lastStage \in Nat
  /\ flown \in Seq(Nat)

(* The dead-man of program.go (161): a program still flying has not been    *)
(* flying for longer than its MaxDurationS, but for the time that dropped   *)
(* ticks took: the executor counts the ticks it is given, so a slow game    *)
(* puts the dead-man off by what it costs the loop, and by no more.         *)
DeadManOnTime == ~Ended => wall - lost <= prog.maxDuration

(* A program that reports itself complete was within every limit on the     *)
(* very tick that completed it: safety wins over the terminal condition.    *)
CompletedWithinLimits ==
  st.done =>
    /\ st.totalElapsed <= prog.maxDuration
    /\ \A i \in DOMAIN prog.abort :
         prog.abort[i].field # "time_in_phase"
           => ~Holds(prog.abort[i], snap, 0)

(* No phase is skipped, repeated or flown out of order, and a completed     *)
(* program flew them all.                                                   *)
PhasesInOrder ==
  /\ \A k \in DOMAIN flown : flown[k] = k
  /\ st.done => Len(flown) = Len(prog.phases)

(* Staging discipline: a phase that stages on entry does so on its first    *)
(* tick (unless that tick aborts) and every other stage command comes more  *)
(* than the cooldown after the command before it.                           *)
StagingDiscipline ==
  [][LET entry == inPhase = 0 /\ prog.phases[st.phaseIndex].stageOnEntry
     IN  ~Ended /\ ~ctrl'.abort =>
           /\ entry => ctrl'.stage
           /\ ctrl'.stage /\ ~entry => wall' - lastStage > StageCooldown]_vars

(* A phase that ends on its own clock is flown for all of that time: the    *)
(* phase clock starts again with every phase.                               *)
TimedPhasesHonoured ==
  [][LET u == prog.phases[st.phaseIndex].until
     IN  st'.phaseIndex # st.phaseIndex /\ u.field = "time_in_phase"
           /\ u.op = "gt"
             => inPhase + Dt > u.value]_vars

(* Once a program has ended nothing is commanded any more: throttle and     *)
(* staging stay off, and the outcome never changes.                         *)
EndIsFinal ==
  [][Ended => /\ st' = st
              /\ ctrl'.throttle = 0
              /\ ~ctrl'.stage
              /\ ctrl'.abort = st.aborted
              /\ ctrl'.done = st.done]_vars

(* Every validated program ends, whatever the vessel reports.               *)
Terminates == <>Ended
=============================================================================
