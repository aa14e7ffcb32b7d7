CONSTANTS
  N = 2
  GstProcs = {2}
  MaxSigInts = 1
  MaxCrashes = 0
SPECIFICATION FairSpec
PROPERTY
  InterruptStopsTheTest
CHECK_DEADLOCK FALSE
