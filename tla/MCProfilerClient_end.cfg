CONSTANTS
  p1 = p1
  p2 = p2
  k0 = k0
  k1 = k1
  k2 = k2
  None = None
  Probes = {p1, p2}
  Keys = {k0, k1, k2}
  Matches <- MCMatches
  Profiles <- MCProfiles
  Lookup <- MCLookup
  Durations <- MCDurations
  Heartbeats <- MCHeartbeats
  Leftovers <- MCLeftovers
  MaxTimeouts = 2
  MaxElapsed = 6
SPECIFICATION FairSpec
INVARIANT EndedBeforeReport
CHECK_DEADLOCK FALSE
