SPECIFICATION Spec
CONSTANTS
  p1 = p1
  p2 = p2
  r1 = r1
  r2 = r2
  r3 = r3
  Processes <- MCProcesses
  Requests <- MCRequests
  Host <- MCHost
  Ttl = 1
  MaxDuration = 1
  Files = 2
  MaxArrivals = 3
  MaxTime = 2
SYMMETRY Symmetric
INVARIANTS
  HitsAreSound
  DamageNeedsOverlap
CHECK_DEADLOCK FALSE
