SPECIFICATION Spec
CONSTANTS
  Edge = 3
  Players = {p1}
  Bots = {b1}
  Spots <- MCSpots
  Visible <- MCVisible
  MaxFood = 3
  MaxDead = 4
INVARIANTS
  TypeOK
  ScanIsExact
  NoGhostFood
  ViewedFoodDrawn
