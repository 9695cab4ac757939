CONSTANTS
  Threads = {t1}
  PoolSize = 2
  BufLen = 2
  Capacity = 0
  MaxTsc = 6
SPECIFICATION Spec
INVARIANTS IntactPersisted
