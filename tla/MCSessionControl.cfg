SPECIFICATION Spec
CONSTANTS
  None = None
  p1 = p1
  k1 = k1
  Callers = {a1}
  Clients = {c1}
  Probes = {p1, p2}
  Keys = {k1, k2}
  Matches <- MCMatches
  Requests <- Request
INVARIANTS TypeOK SessionsExclusive ProfileHasSession GuardKeepsProfile RequestOutlivesSlot LocalLeavesNothing
PROPERTY EndRestores
CHECK_DEADLOCK FALSE
