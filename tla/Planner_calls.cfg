\* Two clients and the pilot, every fault.  A probe that fails acts as a broken
\* mod does.
CONSTANTS
  MaxConns = 2
  Faults = {"transport"}
  Callers = {c1, c2}
  Vessels = {v1, v2}
  NoVessel = NoVessel
  Nodes = {n1, n2}
  c1 = c1
  c2 = c2
  Offered <- MCOffered
  Mods = {"ok"}
  Targets = {"none", "near"}
SYMMETRY MCSymmetry
SPECIFICATION Spec
INVARIANTS
  TypeOK
  AnswersAccount
PROPERTIES
  NeverStacks
  
