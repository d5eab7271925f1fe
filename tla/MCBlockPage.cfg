SPECIFICATION PageSpec
CONSTANTS
  tip = tip
  old = old
  bad = bad
  Pages <- MCPages
  Valid <- MCValid
  MaxActs = 3
INVARIANTS
  
  OtherChainIsAnnounced
  SettledShowsSelection
  BlockAskedOfPickedChains
PROPERTIES
  PageComesToRest
CHECK_DEADLOCK FALSE
