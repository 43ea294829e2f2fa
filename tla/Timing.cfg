CONSTANTS
  TickRange = 8
  LongRange = 64
  Rate = 2
  Second = 2
  Naps <- MCNaps
  TickOrigins <- MCTickOrigins
  TimeOrigins <- MCTimeOrigins
  Delays <- MCDelays
  Interval = 2
  NumSamples = 2
  MinPass = 1
  MaxPass = 2
  MaxCalibration = 7
  MaxClock = 16
  Horizon = 52
SPECIFICATION FairSpec
INVARIANTS
  TypeOK
  CalibrationError
  DelayNotEarly
  WrapConfined
PROPERTY Finishes
