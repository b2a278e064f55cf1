SPECIFICATION Spec
CONSTANTS
  Edge = 7
  Reach = 2
  Spawns <- MCSpawns
  Moves <- MCMoves
INVARIANTS TypeOK ClientSeesView DeltasAreExact ViewIsAroundHead
CHECK_DEADLOCK FALSE
