SPECIFICATION Spec
CONSTANTS
  Terminals = {t1, t2}
  Main = Main
  MaxBars = 2
CHECK_DEADLOCK FALSE
INVARIANTS EveryBarArrives
PROPERTIES EndsAreSeen
