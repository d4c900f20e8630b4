\* One client that waits for each answer: two flights, two connections, two
\* ascents, every fault.
CONSTANTS
  StageCooldown = 0
  DefaultMaxDuration = 2
  NaN = NaN
  MaxConns = 2
  Stages = 1
  Faults = {"tool", "flight", "transport", "panic"}
  Flights = {f1, f2}
  Snapshots <- MCSnapshots
  Dt = 1
  Horizon = 4
  Callers = {c1}
  NoFlight = NoFlight
  AscentInputs <- MCTwoAscents
SYMMETRY MCSymmetry
SPECIFICATION Spec
INVARIANTS
  TypeOK
  AbortReaches
  
  

  
