SPECIFICATION Spec
CONSTANTS
  Self = self
  other = other
  e1 = e1
  c1 = c1
  Addrs <- MCAddrs
  Slots = {k1}
  WordMod = 4
  Events <- MCEvents
  NoCode = NoCode
  Codes <- MCCodes
  NoAccount = NoAccount
  Keep = Keep
  NoDelta = NoDelta
  Rows <- AllRows
  NoWorld = NoWorld
  SeedKnown <- MCKnown
  SeedBalance <- MCSeedBalance
  SeedCode <- MCSeedCode
  CreatedSeeds <- MCCreatedSeeds
  Values = {0, 1}
  Precompiles <- MCPrecompiles
  CancunOrLater = TRUE
  MaxOps = 4
INVARIANTS TypeOK CleanIsExact EnvReadsAgree LogsSentOnce BalanceLedger
PROPERTY Implements
CHECK_DEADLOCK FALSE
