SPECIFICATION Spec
CONSTANTS
  PipelineSensors <- MCPipelineSensors
  SystemSensors <- MCSystemSensors
  ProcessSensors <- MCProcessSensors
  Performance <- MCPerformance
  UserId <- MCUserId
  ProcessId <- MCProcessId
  Members <- MCMembers
  Multiplier <- MCMultiplier
  Samples <- MCSamples
  NotMeasured = NotMeasured
  MaxSamples = 3
  MinimumCorrelationSize = 2
  SteadyStateSize = 2
  Trim = 1
  MeasuredRaw <- MCMeasuredRaw
  ResourceUsage <- MCResourceUsage
  MeasureType <- MCMeasureType
  ShowInLive <- MCShowInLive
  MinimumValue <- MCMinimumValue
  MaximumValue <- MCMaximumValue
  MaxColor = 15
  ReadOnly <- MCReadOnly
  Thrown = Thrown
  Absent = Absent
  Malformed = Malformed
  Numerals = {"0", "1", "2", "3", "9"}
  CommandLines <- MCCommandLines
  Files <- MCFiles
  NoConfig = NoConfig
INVARIANTS
  TypeOK
  PairsAreSimultaneous
  CoefficientInRange
  SummaryIsOrdered
  MarkedIfAnyThresholdExceeded
  GraphsShowThisTest
  
  LiveShowsLastSeen
  EndsAsAsked
