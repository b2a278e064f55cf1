SPECIFICATION FairSpec
CONSTANTS
  Conns = {h1, h2}
  Sectors = {k1}
  IdSpace = 4
  Bots = {0, 1}
  MaxSnakes = 2
INVARIANTS
  TypeOK
  SessionsOwnSnakes
  SectorsIndexWorld
  NoUndefinedBehaviour
  ChangesAreLive
  SnakesInRangeShown
  QuietWhenIdle
PROPERTIES
  DeathIsFinal
  DyingIsResolved
  ImplementsArena
CHECK_DEADLOCK FALSE
