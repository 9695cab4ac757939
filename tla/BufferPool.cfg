CONSTANTS
  PoolSize = 4
  Wrap = 32
  MaxIndex = 12
  MaxOverflow = 2
  None = None
SPECIFICATION FairSpec
INVARIANTS TypeOK IndexWindow IntactRead AttachAtMostTwice
PROPERTIES AttachTerminates PublishedIsRead
