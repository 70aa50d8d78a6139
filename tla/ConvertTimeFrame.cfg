SPECIFICATION Spec
CONSTANTS
  Frames = {2, 8}
  Keys = {"a", "b"}
  Wanted <- MinuteHalfDayAndWeek
  Faulty = {"b"}
  Skips = {1, 2}
  Day = 4
  Week = 8
  LastMinute = 23
  LastJoin = 3
  MaxFaults = 1
INVARIANTS BarsMatchTheClock EveryBarIsTold NoCandleTwice
CHECK_DEADLOCK FALSE
