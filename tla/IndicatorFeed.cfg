SPECIFICATION Spec
CONSTANTS
  Kinds <- MCKinds
  Bars <- MCBars
  Step <- MCStep
  MaxAf <- MCMaxAf
  Tiny <- MCTiny
  Period = 3
  Smooth = 2
  Long = 4
  BarsPerDay = 3
  MaxBars = 7
INVARIANTS  StopsBehind PointsAreOfTheBar
CHECK_DEADLOCK FALSE
