\* Two sessions hand one approval over, fairly served; nothing expires.
CONSTANTS
  r1 = r1  r2 = r2  k1 = k1  first = first  second = second
  c1 = c1  c2 = c2  u1 = u1  u2 = u2
  Nobody = Nobody
  Requests <- MCOneRequest
  Candidates <- MCCandidates
  Sessions <- MCSessions
  Capabilities <- MCCapabilities
  Callers <- MCCallers
  Clicks <- MCClicks
  Ttl = 1
  MaxTime = 0
  MaxRevision = 2
  MaxFaults = 2
SPECIFICATION FairSpec
CHECK_DEADLOCK FALSE
PROPERTIES RetryConverges AppliedIsConsumed
