SPECIFICATION Spec
CONSTANTS
  i1 = i1
  i2 = i2
  k1 = k1
  k2 = k2
  r1 = r1
  r2 = r2
  Isolates <- MCIsolates
  Keys <- MCKeys
  Requests <- MCRequests
  Limit = 2
  Window = 2
  MaxEntries = 1
  DropCount = 1
  HasBinding = TRUE
  BindingLimit = 2
  MaxTime = 2
  MaxChecks = 4
SYMMETRY Symmetric
INVARIANTS
  BurstBound
  
PROPERTIES
  DenialJustified
CHECK_DEADLOCK FALSE
