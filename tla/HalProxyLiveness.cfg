SPECIFICATION FairSpec
CONSTANTS
  n = n
  w = w
  als = als
  SubHals = {a}
  Handle <- MCHandle
  WakeUp = {w}
  WiseLight = {als}
  ZeroHandle = n
  Batches <- ShortBatches
  QueueSize = 1
  kMaxSizePendingWriteEventsQueue = 2
  MayFail = {}
  MaxEvents = 2
  MaxInits = 1
PROPERTIES WakelockReleased PendingDrains
