CONSTANTS
  Threads = {t1, t2}
  Sites <- MCSites
  AppProbe <- MCAppProbe
  UserProbes <- MCUserProbes
  None = None
  NoName = NoName
  NoAnchor = NoAnchor
  MaxSamples = 5
  MaxLost = 2
SPECIFICATION Spec
SYMMETRY ThreadSymmetry
INVARIANTS TypeOK JoinedAsExecuted LinksClosed CurrentOfOneThread OnlyOrphansSkipped
CHECK_DEADLOCK FALSE
