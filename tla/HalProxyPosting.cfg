SPECIFICATION Spec
CONSTANTS
  n = n
  w = w
  als = als
  SubHals = {a, b}
  Handle <- MCHandle
  WakeUp = {w}
  WiseLight = {als}
  ZeroHandle = n
  Batches <- AlsBatches
  QueueSize = 1
  kMaxSizePendingWriteEventsQueue = 2
  MayFail = {}
  MaxEvents = 2
  MaxInits = 1
SYMMETRY SubHalSymmetry
INVARIANTS TypeOK HeldIffCounted PendingSizeExact RefCountExact
