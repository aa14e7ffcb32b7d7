CONSTANTS
  N = 2
  GstProcs = {2}
  MaxSigInts = 0
  MaxCrashes = 1
SPECIFICATION FairSpec
PROPERTY
  DeadPipelineStopsTheTest
CHECK_DEADLOCK FALSE
