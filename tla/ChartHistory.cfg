SPECIFICATION Spec
CONSTANTS
  Symbols = {btc, eth}
  First <- OneFromOne
  Start = 7
  Page = 2
  MaxCache = 6
  TrimTo = 5
  MaxTime = 9
  MaxRequests = 5
  MaxSwitches = 1
INVARIANTS StrictlyIncreasing Contiguous EndIsTrue
PROPERTY AllHistory
CHECK_DEADLOCK FALSE
