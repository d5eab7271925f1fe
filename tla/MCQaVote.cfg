SPECIFICATION Spec
CONSTANTS
  Accounts <- Two
  Networks = {"testnet", "mainnet"}
  Acts = 4
CHECK_DEADLOCK FALSE
INVARIANTS
  
  OutcomeIsTrue
  SessionIsTrue
PROPERTIES
  CastEnds
