SPECIFICATION FairSpec
CONSTANTS
  n = n
  w = w
  als = als
  SubHals = {a}
  Handle <- MCHandle
  WakeUp = {w}
  WiseLight = {als}
  ZeroHandle = n
  Batches <- SingleBatch
  QueueSize = 1
  kMaxSizePendingWriteEventsQueue = 2
  MayFail = {}
  MaxEvents = 0
  MaxInits = 2
PROPERTY InitializeReturns
