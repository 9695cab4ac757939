CONSTANTS
  Databases <- MCDatabases
  Nodes <- MCNodes
  Requested <- MCRequested
  Cpus = {c0, c1}
  MaxEvents = 5
  MaxGeneric = 4
  MaxFixed = 2
  MaxOffcore = 2
  Root = "Root"
  None = None
  Other = Other
SPECIFICATION Spec
INVARIANTS RefusedOnlyIfImpossible
CHECK_DEADLOCK FALSE
