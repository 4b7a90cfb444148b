SPECIFICATION Spec
CONSTANTS
  Slots = {k1}
  WordMod = 2
  SeedBalance = 1
  Values = {0, 1}
  Fuel = 2
  MaxOps = 6
INVARIANTS JournalAgrees NestingBounded NoCallIntoConstruction
CHECK_DEADLOCK FALSE
