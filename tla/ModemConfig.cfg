SPECIFICATION Spec
CONSTANTS
  Versions = {1, 2, 3}
  MaxReboots = 5
INVARIANTS
  ConfigsWhenCompleted
  CopiedUnlessInterrupted
