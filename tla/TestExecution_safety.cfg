CONSTANTS
  N = 3
  GstProcs = {2}
  MaxSigInts = 2
  MaxCrashes = 1
SPECIFICATION Spec
INVARIANTS
  TypeOK
  NobodyStartsEarly
  MeasuredPidsAreReal
  MeasuredUntilAllEnded
  PipelinesKeptUntilTheEnd
CHECK_DEADLOCK FALSE
