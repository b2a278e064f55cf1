SPECIFICATION FairSpec
CONSTANTS
  Clients = {owner, other}
  Owner = owner
  FoodSizes = {40, 100}
  MaxLen = 4
  MaxFood = 2
INVARIANTS TypeOK ClientsDrawEnough OwnerSeesFullness
PROPERTIES MassAccounting ClientsCatchUp
