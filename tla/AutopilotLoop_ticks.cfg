\* Two ticks may be lost, together or apart.  Time unit 0.2 s, so the 1.0 s staging
\* cooldown is 5 ticks of Dt = 1.
CONSTANTS
  StageCooldown = 5
  DefaultMaxDuration = 8
  NaN = NaN
  Programs <- MCPrograms
  Snapshots <- MCSnapshots
  Dt = 1
  MaxLost = 2
  Horizon = 11
SPECIFICATION FairSpec
INVARIANTS
  TypeOK
  DeadManOnTime
  CompletedWithinLimits
  PhasesInOrder
PROPERTIES
  StagingDiscipline
  TimedPhasesHonoured
  EndIsFinal
  Terminates
