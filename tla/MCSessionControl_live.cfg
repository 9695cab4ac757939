SPECIFICATION FairSpec
CONSTANTS
  None = None
  p1 = p1
  k1 = k1
  Callers = {a1}
  Clients = {c1, c2}
  Probes = {p1}
  Keys = {k1}
  Matches <- MCMatches
  Requests <- MCFewRequests
PROPERTIES RequestAnswered ClientServed
CHECK_DEADLOCK FALSE
