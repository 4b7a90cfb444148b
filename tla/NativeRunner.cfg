SPECIFICATION Spec
CONSTANTS
  Builders = {b1}
  Edits = 2
  Kills = 1
  Runs = 1
  Limit = 4
  Absent = Absent
  Torn = Torn
INVARIANTS RunsAreCurrent RetryWithinBudget
PROPERTY RunsEnd
CHECK_DEADLOCK FALSE
