SPECIFICATION FairSpec
CONSTANTS
  Clusters = {c1}
  MaxPods = 2
  Slots = {s1, s2}
  Worker = worker
  NoEntry = noentry
  MaxAttempts = 2
  MaxSpecChanges = 1
  MaxChanges = 2
  MaxFailures = 1
INVARIANTS
  TypeOK
  OneStreamPerPod
PROPERTIES
  NoLostUpdates
  ConvergesToPods
CHECK_DEADLOCK FALSE
