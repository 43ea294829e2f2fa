CONSTANTS
  MaxThreads = 3
  SampleRequests <- MCSampleRequests
  MaxSamples = 2
  CoreCounts <- MCCoreCounts
  RtFreeCores = 2
  MaxCount = 1
SPECIFICATION Spec
INVARIANTS
  TypeOK
  AccessesInside
  SlotsHoldMeasured
  ReportsFaithful
  SuccessMeansReported
  TotalOfSamples
  FractionAtMostOne
PROPERTIES
  SamplesFrozen
  ImplementsRun
