CONSTANTS
  Threads = {t1, t2}
  PoolSize = 2
  BufLen = 1
  Capacity = 2
  MaxTsc = 4
SPECIFICATION Spec
SYMMETRY ThreadSymmetry
INVARIANTS CapacityRespected NoSilentLoss
