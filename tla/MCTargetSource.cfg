SPECIFICATION Spec
CONSTANTS
  Slots = {s1, s2}
  NoSlot = noslot
  MaxGen = 3
  MaxUID = 2
  MaxStatus = 1
  MaxFailures = 0
  MayFail = TRUE
  MaxRestarts = 0
SYMMETRY Symmetry
INVARIANTS
  TypeOK
  RegisteredRuntimeIsCurrent
  RegisteredHoldsFinalizer
  NoZombieRegistration
CHECK_DEADLOCK FALSE
