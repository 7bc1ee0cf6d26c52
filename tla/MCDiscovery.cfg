SPECIFICATION Spec
CONSTANTS
  a = a
  b = b
  u1 = u1
  Names = {a, b}
  Ports = {1}
  IDs = {i1, i2}
  PushID = push
  NoID = noid
  BufferSize = 1
  URLs = {u1}
  FirstURL = u1
  NoNext = nonext
  BadNext = badnext
  Sources <- MCSources
  ChunkSize = 1
  MaxFetchErrors = 0
  TSName = ts
  TargetPort = 2
  NoTarget = notarget
  InitialTargets <- MCInitialTargets
  MaxFailures = 1
  PushBatches <- MCPushBatches
  MaxPush = 1
  MayCancel = TRUE
SYMMETRY Symmetry
INVARIANTS
  TypeOK
  SnapshotAssembled
  NoCompleteSnapshotPending
  SnapshotConverges
PROPERTIES
  DeletesJustified
CHECK_DEADLOCK FALSE
