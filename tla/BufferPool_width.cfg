CONSTANTS
  PoolSize = 2
  Wrap = 8
  MaxIndex = 8
  MaxOverflow = 3
  None = None
SPECIFICATION Spec
PROPERTIES WriteIndexNeverWraps
