\* Two users, two calls; lost calls and closing.
CONSTANTS
  Users = {u1, u2}
  Calls = {c1, c2}
  MaxIds = 2
  MaxAdds = 2
  MaxPushes = 2
  MaxWire = 2
  Faults = {"lost", "close"}
SPECIFICATION Spec
INVARIANTS TypeOK  ToldOfAValue
PROPERTIES IsAFeed Arrives
CHECK_DEADLOCK FALSE
