SPECIFICATION Spec
CONSTANTS
  a = a
  b = b
  u1 = u1
  Names = {a, b}
  Ports = {1}
  IDs = {i1}
  PushID = push
  NoID = noid
  BufferSize = 1
  URLs = {u1}
  FirstURL = u1
  NoNext = nonext
  BadNext = badnext
  Sources <- MCSourcesTwo
  ChunkSize = 1
  MaxFetchErrors = 0
  TSName = ts
  TargetPort = 2
  NoTarget = notarget
  InitialTargets <- MCInitialEmpty
  MaxFailures = 0
  PushBatches <- MCPushEvents
  MaxPush = 1
  MayCancel = FALSE
CHECK_DEADLOCK FALSE
PROPERTIES
  DeferredEventsApplied
