SPECIFICATION Spec
CONSTANTS
  Conns = {c1, c2}
  TimeSpace = 2
  Delays = {1, 2}
  Horizon = 2
  MaxMessage = 4
  Messages <- MCMessages
  MaxQueue = 2
  Parts = {3, 50, 200}
  Counts = {0, 20, 30}
INVARIANTS TypeOK PacketsArriveWhole
PROPERTY PingsAreAnswered
