SPECIFICATION Spec
CONSTANTS
  Values = {v1, v2}
  Unknown = unknown
  MaxQueue = 2
  MaxFlaps = 5
  MaxFlight = 3
INVARIANTS OneWayOn StatusIsTrue SymbolArrives
PROPERTY Reconnects
CHECK_DEADLOCK FALSE
