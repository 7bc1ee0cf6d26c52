SPECIFICATION Spec
CONSTANTS
  Slots = {s1, s2}
  NoSlot = noslot
  MaxGen = 3
  MaxUID = 1
  MaxStatus = 0
  MaxFailures = 0
  MaxRestarts = 0
  MayFail = FALSE
INVARIANTS
  AtMostOneRuntime
CHECK_DEADLOCK FALSE
