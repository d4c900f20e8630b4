\* Only the calls of the read tools are ever refused: the drop closes the
\* connection the flight must cut its engines on.
CONSTANTS
  StageCooldown = 0
  DefaultMaxDuration = 2
  NaN = NaN
  MaxConns = 2
  Stages = 1
  Faults = {"tool"}
  Flights = {f1, f2}
  Snapshots <- MCSnapshots
  Dt = 1
  Horizon = 4
  Callers = {c1}
  NoFlight = NoFlight
  AscentInputs <- MCOneAscent
SYMMETRY MCSymmetry
SPECIFICATION Spec
INVARIANTS
  NeverLeftUnderPower
