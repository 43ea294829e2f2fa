CONSTANTS
  Size = 3
  Requests <- MCRequests
  MaxSamples = 2
  Intervals <- MCIntervals
  MaxStart = 1
  MaxClock = 5
SPECIFICATION FairSpec
INVARIANTS
  TypeOK
  LatencyCoversSlowest
  BarriersPaced
  TableMeansAllMet
PROPERTY Finishes
