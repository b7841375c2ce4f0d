SPECIFICATION Spec
CONSTANTS
  Versions = {1, 2, 3}
  MaxReboots = 2
INVARIANTS
  CopiedWhenCompleted
