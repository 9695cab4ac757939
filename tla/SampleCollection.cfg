CONSTANTS
  Threads = {t1}
  PoolSize = 2
  BufLen = 3
  Capacity = 0
  MaxTsc = 10
SPECIFICATION Spec
INVARIANTS TypeOK CleanInOrder NoSilentLoss
