CONSTANTS
  N = 2
  GstProcs = {2}
  MaxSigInts = 1
  MaxCrashes = 0
SPECIFICATION FairSpec
PROPERTIES
  TestsEndTheTool
  InterruptStopsRunningPrograms
CHECK_DEADLOCK FALSE
