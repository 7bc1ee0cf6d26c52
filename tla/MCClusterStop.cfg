SPECIFICATION Spec
CONSTANTS
  Specs <- MCSpecs
  Pipes <- MCPipes
  MaxPods = 2
  NoPlan = noplan
  NoConfig = noconfig
  StartPipes <- MCStartPipes
  MaxEdits = 2
  MaxFaults = 0
INVARIANT NoStrayTargets
CHECK_DEADLOCK FALSE
