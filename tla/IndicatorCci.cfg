SPECIFICATION Spec
CONSTANTS
  Kinds = {"cci"}
  Bars <- MCBars
  Step <- MCStep
  MaxAf <- MCMaxAf
  Tiny <- MCTiny
  Period = 3
  Smooth = 2
  Long = 4
  BarsPerDay = 3
  MaxBars = 7
INVARIANT CciIsDocumented
CHECK_DEADLOCK FALSE
