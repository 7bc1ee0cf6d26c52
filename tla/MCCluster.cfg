SPECIFICATION FairSpec
CONSTANTS
  Specs <- MCSpecs
  Pipes <- MCPipes
  MaxPods = 2
  NoPlan = noplan
  NoConfig = noconfig
  StartPipes <- MCStartPipes
  MaxEdits = 2
  MaxFaults = 1
INVARIANTS
  TypeOK
  CertificatesFirst
  SettledIsApplied
  CleanupComplete
PROPERTIES
  DeletionCompletes
  Converges
CHECK_DEADLOCK FALSE
