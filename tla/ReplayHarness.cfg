SPECIFICATION Spec
CONSTANTS
  Workers = {w1, w2}
  Manifests <- MCManifests
  Faults = 1
INVARIANTS VerdictsAreEarned OutputsAreApart LogsAreKept
PROPERTY ReplayEnds
CHECK_DEADLOCK FALSE
