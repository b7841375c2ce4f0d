SPECIFICATION Spec
CONSTANTS
  n = n
  w = w
  als = als
  SubHals = {a}
  Handle <- MCHandle
  WakeUp = {w}
  WiseLight = {als}
  ZeroHandle = n
  Batches <- ShortBatches
  QueueSize = 1
  kMaxSizePendingWriteEventsQueue = 2
  MayFail = {}
  MaxEvents = 3
  MaxInits = 2
INVARIANTS FrontStable LockedIffWakeup ResetIsQuiet EventsInOrder
PROPERTY ImplementsChannel
