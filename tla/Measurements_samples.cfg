SPECIFICATION Spec
CONSTANTS
  N = 2
  Config <- MCConfig
  System = System
  None = None
  Machines <- MCMachines
  Thrown = Thrown
  Unreadable = Unreadable
  Text = Text
  MaxTicks = 2
  MaxSamples = 2
INVARIANTS
  TypeOK
  EveryIdNamesOneSensor
  GroupsAreWhole
  GivenUpForever
  MeasuredSensorsAreReported
  ReadRightOrEnd
  LoadIsAShare
PROPERTIES
  ImplementsSampleLog
