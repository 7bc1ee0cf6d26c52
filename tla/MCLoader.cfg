SPECIFICATION LoaderAloneSpec
CONSTANTS
  a = a
  b = b
  c = c
  u1 = u1
  u2 = u2
  u3 = u3
  Names = {a, b, c}
  Ports = {1}
  IDs = {i1}
  PushID = push
  NoID = noid
  BufferSize = 1
  URLs = {u1, u2, u3}
  FirstURL = u1
  NoNext = nonext
  BadNext = badnext
  Sources <- MCSources
  ChunkSize = 2
  MaxFetchErrors = 1
INVARIANTS
  LoaderAloneTypeOK
  ChunksReassemble
PROPERTIES
  PaginationTerminates
  LoaderStopsOnCancel
CHECK_DEADLOCK FALSE
