\* Every fault, and the fairness of the ticker, the calls and the scheduler.
CONSTANTS
  StageCooldown = 0
  DefaultMaxDuration = 2
  NaN = NaN
  MaxConns = 2
  Stages = 1
  Faults = {"tool", "flight", "transport", "panic"}
  Flights = {f1}
  Snapshots <- MCSnapshots
  Dt = 1
  Horizon = 4
  Callers = {c1}
  NoFlight = NoFlight
  AscentInputs <- MCOneAscent
SPECIFICATION FairSpec
PROPERTIES
  EveryFlightEnds
