CONSTANTS
  N = 2
  GstProcs = {2}
  MaxSigInts = 1
  MaxCrashes = 0
SPECIFICATION Spec
INVARIANT
  OnlyTestsAreKilled
CHECK_DEADLOCK FALSE
