SPECIFICATION Spec
CONSTANTS
  Slots = {k1}
  WordMod = 2
  SeedBalance = 1
  Values = {0, 1}
  Fuel = 2
  MaxOps = 3
PROPERTY SelfCallKeepsBalance
CHECK_DEADLOCK FALSE
