CONSTANTS
  Txns <- MCTxns
  ClassifierProbe = "a"
  TypeMapper <- MCTypeMapper
  ReportName <- MCReportName
  Filters <- MCFilters
  Routes <- MCRoutes
  Benchmarks <- MCBenchmarks
  MaxCurrent = 3
  Stored <- MCStored
  BucketCount = 3
  ChildCount = 4
  NaN = NaN
  None = None
SPECIFICATION Spec
INVARIANT EveryRouteRendered
CHECK_DEADLOCK FALSE
