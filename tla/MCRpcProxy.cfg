SPECIFICATION FairSpec
CONSTANTS
  c1 = c1
  testnet = testnet
  mainnet = mainnet
  gateway = gateway
  extra = extra
  fly = fly
  main = main
  blank = blank
  Calls <- MCCalls
  Networks <- MCNetworks
  Origins <- MCOrigins
  Blank = blank
INVARIANTS
  FailureMeansAllFailed
  
PROPERTIES
  EveryCallSettles
CHECK_DEADLOCK FALSE
