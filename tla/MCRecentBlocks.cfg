SPECIFICATION FairSpec
CONSTANTS
  Counts <- MCCounts
  Concurrency = 3
  MaxTip = 6
  Missing = Missing
INVARIANTS
  EachIndexOnce
  WorkConserving
  WholeWindow
PROPERTIES
  ReadingEnds
CHECK_DEADLOCK FALSE
