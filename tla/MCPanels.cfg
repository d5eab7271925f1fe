SPECIFICATION Spec
CONSTANTS
  Kinds <- AllPanels
  Queries = {"here", "there"}
  Changes = 4
CHECK_DEADLOCK FALSE
INVARIANTS
  
  StaleOnlyAfterOverlap
  NoPageTwice
PROPERTIES
  PanelComesToRest
