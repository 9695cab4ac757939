SPECIFICATION Spec
CONSTANTS
  None = None
  p1 = p1
  k1 = k1
  Callers = {a1, a2}
  Clients = {c1}
  Probes = {p1}
  Keys = {k1}
  Matches <- MCMatches
  Requests <- MCFewRequests
INVARIANT GuardKeepsProfile
CHECK_DEADLOCK FALSE
