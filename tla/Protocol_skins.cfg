SPECIFICATION Spec
CONSTANTS
  Conns = {c1}
  TimeSpace = 3
  Delays = {1}
  Horizon = 1
  MaxMessage = 4
  Messages <- MCProfiles
  MaxQueue = 1
  Parts = {3}
  Counts = {1}
INVARIANT SkinsAreInRange
