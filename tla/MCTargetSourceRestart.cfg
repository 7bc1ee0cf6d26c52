SPECIFICATION FairSpec
CONSTANTS
  Slots = {s1, s2}
  NoSlot = noslot
  MaxGen = 2
  MaxUID = 1
  MaxStatus = 1
  MaxFailures = 1
  MayFail = TRUE
  MaxRestarts = 1
INVARIANTS
  RegisteredRuntimeIsCurrent
PROPERTIES
  DeletionCompletes
CHECK_DEADLOCK FALSE
