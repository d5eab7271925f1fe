SPECIFICATION MCSpec
CONSTANTS
  Base = 10
  Switch = 5
  Wide = 300
  Amounts = {1, 2}
  Ids = {300, 301}
  Longest = 4
  Sampled = 1
  Held = 2
  Rows = 3
  LastClock = 2
  PageSize = 1
  PageCap = 2
  DeployerCap = 1
  BlockCap = 1
  CandidateCap = 1
  Absent = Absent
  Catalog <- MCCatalog
  Canonical <- MCCanonical
  Templates <- MCTemplates
  NonceCap = 2
  DocumentCap = 3
  StoredCap = 2
  HeightCap = 1
  SlotCap = 2
  IdCap = 2
  ProbeCap = 1
  BatchCap = 2
  Histories <- MCHistories
  Searches <- MCSearches
  Programs <- MCPrograms
  Surveys <- MCSurveys
  Registries <- MCRegistries
  Nil = Nil
  TipTtl = 8
  HistoricalTtl = 120
  ReceiptTtl = 10
  Lookback = 2
  RestoreCap = 1
  TextCap = 1
  Downloaders = {acc1, acc2}
  BlobNets = {net1, net2}
  Given = {pass1, pass2}
  Secret = Secret
  Unset = Unset
  ProofTtl = 0
  ProxyCap = 1
  Sites <- MCSites
  Stores <- MCStores
  Late = 1
  Gestures = 3
  acc1 = acc1
  acc2 = acc2
  net1 = net1
  net2 = net2
  pass1 = pass1
  pass2 = pass2
  tok1 = tok1
  tok2 = tok2
  Readers = {q1, q2}
  Tokens <- MCTokens
  Vault = Vault
  Unknown = Unknown
  Weathers <- MCWeathers
  Chains <- MCChains
  Asks <- MCAsks
  MaxLookups = 2
  TokenTtl = 1
  VaultTtl = 5
  VaultReread = 1
  DirectoryTtl = 2
  DirectoryRefresh = 1
  FactoryTtl = 1
  UnsupportedBackoff = 2
  TransientBackoff = 1
  CallTime = 1
  ClientTime = 1
  Horizon = 5
SYMMETRY MCSymmetry
CHECK_DEADLOCK FALSE
INVARIANTS
  TransactionsShownAsTheyAre
  
  
  FoundOnTheChain
  
  
  
  DownloadsAsPermitted
  
  
