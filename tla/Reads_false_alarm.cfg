\* The game refuses single reads, no deadline passes.
CONSTANTS
  c1 = c1
  c2 = c2
  Callers = {c1, c2}
  MaxConns = 2
  Faults = {"tool"}
  Crafts <- MCCrafts
  Offered <- MCOffered
SPECIFICATION Spec
INVARIANT NoFalseAlarm
