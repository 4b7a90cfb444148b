SPECIFICATION Spec
CONSTANTS
  CurrentDefects = {1, 2, 3, 4, 5}
  ReferenceDefects = {2, 4, 5}
  Component <- MCComponent
  Features = {"f", "g"}
  Ids = {1, 2, 3}
  Pools <- MCPools
  Word64 = 4
  Word160 = 8
  Word256 = 16
  FoldsTo <- FoldedInt
  ValuesOf <- SolidityValues
  GatedSubmissions <- MCSubmissions
  Genesis = 3
  Addresses = {0, 1}
  Slots = {0, 1, 2}
  Tokens <- MCTokens
  Measurements <- MCMeasurements
INVARIANT OutOfDomainIsRejected
CHECK_DEADLOCK FALSE
