SPECIFICATION WatchSpec
CONSTANTS
  home = home
  Pages <- MCPages
  Watchers <- MCWatchers
  Slots = 3
  MaxActs = 3
INVARIANTS
  SilentOnMainnet
CHECK_DEADLOCK FALSE
