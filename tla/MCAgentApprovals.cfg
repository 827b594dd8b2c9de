\* Two requests for one candidate, expiry, other commits, a crash or a store error.
CONSTANTS
  r1 = r1  r2 = r2  k1 = k1  first = first  second = second
  c1 = c1  c2 = c2  u1 = u1  u2 = u2
  Nobody = Nobody
  Requests <- MCRequests
  Candidates <- MCCandidates
  Sessions <- MCOneSession
  Capabilities <- MCOneCapabilities
  Callers <- MCCallers
  Clicks <- MCClicks
  Ttl = 1
  MaxTime = 2
  MaxRevision = 2
  MaxFaults = 1
SPECIFICATION Spec
SYMMETRY MCSymmetry
CHECK_DEADLOCK FALSE
INVARIANTS AppliedAsShown
