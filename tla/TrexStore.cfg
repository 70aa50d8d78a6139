SPECIFICATION Spec
CONSTANTS
  Threads = {p, q}
  Exchanges <- MCExchanges
  Symbols = {"BTC"}
  Hidden <- MCHidden
  Inds <- MCInds
  Batches <- MCBatches
  Databases <- MCDatabases
  Memory <- MCMemory
  Sizes = {1, 2}
  Cutoff = 2
  LastN = 2
  MaxCalls = 2
INVARIANTS CacheIsTrue ReadsAreTrue PoolIsWhole
CHECK_DEADLOCK FALSE
PROPERTY CallsReturn
