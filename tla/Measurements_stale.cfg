SPECIFICATION Spec
CONSTANTS
  N = 1
  Config <- MCConfig
  System = System
  None = None
  Machines <- MCMachines
  Thrown = Thrown
  Unreadable = Unreadable
  Text = Text
  MaxTicks = 2
  MaxSamples = 2
INVARIANT ValuesAreCurrent
