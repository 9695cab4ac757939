CONSTANTS
  PoolSize = 2
  Wrap = 16
  MaxIndex = 7
  MaxOverflow = 2
  None = None
SPECIFICATION Spec
INVARIANTS InvariantTwo
