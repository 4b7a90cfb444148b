SPECIFICATION Spec
CONSTANTS
  MaxFaults = 2
  AstsAreCached = FALSE
INVARIANTS
  TypeOK
  EveryVerdictHasItsReason
  GapsAreReal
  NothingRunsBeforeTheGate
CHECK_DEADLOCK FALSE
