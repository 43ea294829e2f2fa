CONSTANTS
  MaxThreads = 3
  SampleRequests <- MCOneSample
  MaxSamples = 1
  CoreCounts <- MCManyCores
  RtFreeCores = 2
  MaxCount = 0
SPECIFICATION FairSpec
PROPERTY Termination
