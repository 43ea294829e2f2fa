CONSTANTS
  NumThreads = 2
  Requests <- MCRequests
  MaxSamples = 3
  RequestBits <- MCRequestBits
  MinBits = 1
  MaxBits = 2
  WorkCost = 1
  MaxClock = 5
SPECIFICATION FairSpec
INVARIANTS
  TypeOK
  RaceIsConfined
  OneSamplePerInterval
  PrintedIsMeasured
  FilesPaired
PROPERTY Finishes
