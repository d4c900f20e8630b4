\* Every tool on a craft with another client's, and the tools about parts on
\* every craft; refusals and deadlines.
CONSTANTS
  c1 = c1
  c2 = c2
  Callers = {c1, c2}
  MaxConns = 2
  Faults = {"tool", "transport"}
  Crafts <- MCCrafts
  Offered <- MCOffered
SPECIFICATION Spec
INVARIANTS
  TypeOK LateReplyIsDropped NoGoIsSo StagingComplete RowsAreFlown
  
