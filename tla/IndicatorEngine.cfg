SPECIFICATION EngineSpec
CONSTANTS
  Threads = {t1, t2}
  Indicators = {"ema"}
  Listeners = {"f", "g", "f2"}
  Names = {"f", "g"}
  NameOf <- FunctionNames
  MaxCalls = 2
  NoListener = NoListener
  Leaves = {"sma2", "std2", "ema2", "ema3"}
  Composites = {"bb2", "macd"}
  Fast <- FastLeaf
  Slow <- SlowLeaf
  Class <- ClassName
  Forwarding = {"macd"}
  Warm <- Period
  Removable = {"std2"}
  MaxBars = 4
INVARIANTS AttachedIsReached ReferencesAreListeners FedOncePerBar InStep
PROPERTIES UnusedGoes SpeaksWhenWarm
CHECK_DEADLOCK FALSE
