SPECIFICATION FairSpec
CONSTANTS
  a = a
  b = b
  u1 = u1
  Names = {a, b}
  Ports = {1}
  IDs = {i1, i2}
  PushID = push
  NoID = noid
  BufferSize = 1
  URLs = {u1}
  FirstURL = u1
  NoNext = nonext
  BadNext = badnext
  Sources <- MCSourcesLive
  ChunkSize = 1
  MaxFetchErrors = 1
  TSName = ts
  TargetPort = 2
  NoTarget = notarget
  InitialTargets <- MCInitialOld
  MaxFailures = 1
  PushBatches <- MCPushBad
  MaxPush = 1
  MayCancel = TRUE
CHECK_DEADLOCK FALSE
PROPERTIES
  ImplementsLifecycle
  ConvergesToSource
