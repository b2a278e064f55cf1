SPECIFICATION Spec
CONSTANTS
  Delays = {3, 10, 125, 512}
  MaxTime = 1200
INVARIANTS TypeOK TimeAccounting MoveStaysInMargin
