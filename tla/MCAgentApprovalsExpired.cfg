\* Time may pass between getting the token and applying.
CONSTANTS
  r1 = r1  r2 = r2  k1 = k1  first = first  second = second
  c1 = c1  c2 = c2  u1 = u1  u2 = u2
  Nobody = Nobody
  Requests <- MCOneRequest
  Candidates <- MCCandidates
  Sessions <- MCOneSession
  Capabilities <- MCOneCapabilities
  Callers <- MCCallers
  Clicks <- MCClicks
  Ttl = 1
  MaxTime = 1
  MaxRevision = 1
  MaxFaults = 0
SPECIFICATION Spec
CHECK_DEADLOCK FALSE
PROPERTIES ExpiredNeverApplied
