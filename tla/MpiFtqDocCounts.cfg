CONSTANTS
  Size = 2
  Requests <- MCRequests
  MaxSamples = 2
  Intervals <- MCIntervals
  HalfRange = 8
  WorkCost = 1
  MaxStart = 1
  MaxClock = 5
SPECIFICATION Spec
INVARIANT GatheredIsWork
