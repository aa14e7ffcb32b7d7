SPECIFICATION Spec
CONSTANTS
  Pipelines = {p1, p2}
  Elements = {fps, proctime}
  Ignored = Ignored
  None = None
  PipeSize = 1
  MaxTraces = 3
  MaxSamples = 2
SYMMETRY Symmetry
INVARIANTS
  TypeOK
  TracesAreConserved
  SamplesAdvance
  EveryIdNamesOneElement
  GroupsFollowTheLabels
CHECK_DEADLOCK FALSE
