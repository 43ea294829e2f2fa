CONSTANTS
  NumSamples = 3
  Intervals <- MCIntervals
  WorkCost = 1
  MaxStart = 1
  MaxClock = 11
SPECIFICATION FairSpec
INVARIANTS
  TypeOK
  ScheduleKept
  LostWindowsAreZero
  WorkFitsWindow
PROPERTIES
  Returns
  ImplementsSeries
