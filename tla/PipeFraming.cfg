SPECIFICATION Spec
CONSTANTS
  Main = main
  Streaming = {s1, s2}
  Traces <- MCTraces
  PipeSize = 7
  PipeBuf = 4
  MaxTraces = 4
INVARIANT TypeOK
PROPERTIES
  ImplementsQueue
  WaitIsAnswered
  EndsAfterTheTool
CHECK_DEADLOCK FALSE
