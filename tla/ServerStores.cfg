SPECIFICATION StoresSpec
CONSTANTS
  Time <- MCTime
  Batches <- MCBatches
  Rev = {"r1", "r2"}
  MaxBars = 2
  Sizes = {1, 2, 3}
  Feeders = {f1, f2}
  NoBar = NoBar
  Threads = {t1, t2}
  Symbols <- MCSymbols
  Upper <- MCUpper
  Frames = {"1m", "5m"}
  NoStore = NoStore
INVARIANTS InSync PagesAreContiguous WritesAreFound
PROPERTIES CloseOnce ImplementsTimeSeries
