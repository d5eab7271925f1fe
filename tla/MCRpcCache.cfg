SPECIFICATION CacheSpec
CONSTANTS
  a = a
  b = b
  d = d
  c1 = c1
  c2 = c2
  Callers <- MCCallers
  Keys <- MCKeys
  Ttls <- MCTtls
  MaxEntries = 2
  MaxLoads = 3
  MaxTime = 2
SYMMETRY Symmetric
INVARIANTS
  FreshWhenAsked
PROPERTIES
  ImplementsSharedLoads
  SingleFlight
  OnlyOwnEntryDropped
CHECK_DEADLOCK FALSE
