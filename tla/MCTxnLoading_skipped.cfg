CONSTANTS
  Threads = {t1, t2}
  Sites <- MCSites
  AppProbe <- MCAppProbe
  UserProbes <- MCUserProbes
  None = None
  NoName = NoName
  NoAnchor = NoAnchor
  MaxSamples = 5
  MaxLost = 1
SPECIFICATION Spec
SYMMETRY ThreadSymmetry
INVARIANTS SkippedAreAccounted
CHECK_DEADLOCK FALSE
