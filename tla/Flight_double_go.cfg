\* Two clients call the go at the same time: the first flight has lost its cancel.
CONSTANTS
  StageCooldown = 0
  DefaultMaxDuration = 2
  NaN = NaN
  MaxConns = 2
  Stages = 1
  Faults = {}
  Flights = {f1, f2}
  Snapshots <- MCSnapshots
  Dt = 1
  Horizon = 4
  Callers = {c1, c2}
  NoFlight = NoFlight
  AscentInputs <- MCOneAscent
SYMMETRY MCSymmetry
SPECIFICATION Spec
INVARIANTS
  AbortReaches
