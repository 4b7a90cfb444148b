SPECIFICATION Spec
CONSTANTS
  p1 = p1
  p2 = p2
  w1 = w1
  w2 = w2
  w3 = w3
  half = half
  huge = huge
  Procs = {p1, p2}
  Workers = {w1, w2, w3}
  ProcOf <- TwoProcs
  Inputs = {half, huge}
  SizeOf <- MCSizes
  MaxEntry = 4
  MaxEntries = 1
  Persistent = TRUE
  Calls = 3
  Upgrades = 1
  Crashes = 1
  Tears = 1
  NoKey = NoKey
  NoAnswer = NoAnswer
  Failed = Failed
  Absent = Absent
  Torn = Torn
INVARIANT MemoryIsBounded
PROPERTIES NewestSurvives GoodEntriesStay Implements CallsEnd
CHECK_DEADLOCK FALSE
