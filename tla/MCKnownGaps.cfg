SPECIFICATION Spec
CONSTANTS
  t1 = t1
  t2 = t2
  m1 = m1
  adjudicator = adjudicator
  maintainer = maintainer
  imports = imports
  rejected = rejected
  g1 = g1
  g2 = g2
  g3 = g3
  Threads = {t1, t2, m1}
  Procs = {adjudicator, maintainer}
  Maintainers = {m1}
  Checkers = {t2}
  ProcOf <- MCProcOf
  Programs = {imports, rejected}
  Rejected = {rejected}
  Importing = {imports}
  Gaps <- MCGaps
  Open = {g1, g2}
  NoRepro = {g3}
  DeltaOf <- MCDeltaOf
  ReproOf <- MCReproOf
  Deltas = {"wrong-value", "over-accept"}
  Home = Home
  Free = Free
  None = None
  Torn = Torn
  Tasks = 3
  Edits = 1
  Faults = 1
INVARIANTS HitsAreCopies DerivationsAreApart CleanCheckIsRight
PROPERTY JobsEnd
CHECK_DEADLOCK FALSE
