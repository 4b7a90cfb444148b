SPECIFICATION Spec
CONSTANTS
  MaxFaults = 1
  AstsAreCached = TRUE
INVARIANTS
  InconclusiveNeverQualifies
CHECK_DEADLOCK FALSE
