\* Every fault at any point.  The bound on requests stops the model.
CONSTANTS
  Clients = {c1, c2}
  NoClient = NoClient
  MaxCalls = 6
  Faults = {"refusal", "close", "timeout"}
SPECIFICATION FairSpec
CHECK_DEADLOCK FALSE
INVARIANTS
  TypeOK
  LoadedOnce
PROPERTIES
  OwnAnswerInTime
  EveryCallReturns
