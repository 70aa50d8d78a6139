SPECIFICATION EngineSpec
CONSTANTS
  Inds <- TwoAndHigher
  Frame <- Frames
  Period <- Periods
  Snapshot = 2
  Offset = 0
  Failing = {"candle", "value", "bulk", "stats"}
  NoValue = NoValue
  MaxTime = 4
  MaxRuns = 3
  Symbols = {btc, eth}
  NoSymbol = none
  Source = m1
  Others = {m5}
  SnapshotSize = 1
  InitialBars = 1
  LastBar = 3
  MaxPushes = 2
  MaxAsked = 2
  MaxTogether = 3
INVARIANTS ValuesAreRight SeedIsComplete MemoryIsTail
            FollowsTheStore
SYMMETRY SymbolsAreAlike
CHECK_DEADLOCK FALSE
