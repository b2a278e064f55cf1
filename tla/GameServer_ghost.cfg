SPECIFICATION Spec
CONSTANTS
  Conns = {h1, h2}
  Sectors = {k1}
  IdSpace = 8
  Bots = {0}
  MaxSnakes = 2
INVARIANTS
  ClientsForgetRemovedSnakes
CHECK_DEADLOCK FALSE
