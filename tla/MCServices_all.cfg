CONSTANTS
  a1 = a1
  a2 = a2
  i1 = i1
  p1 = p1
  p2 = p2
  k1 = k1
  k2 = k2
  g = g
  b1 = b1
  c2 = c2
  v1 = v1
  v2 = v2
  s1 = s1
  s2 = s2
  s3 = s3
  held = held
  Accounts = {a1, a2}
  Ips = {i1}
  Slots = {d1, d2}
  Settings <- MCSettings
  FaucetRequests <- MCFaucetRequests
  Decimals = 1
  ExistentialDeposit = 5
  Fee = 1
  Fundings = {60, 28}
  Horizon = 2
  RequestBudget = 3
  Nothing = Nothing
  Garbled = Garbled
  KeyOrder <- MCKeys
  Values = {1, 2}
  Queries <- MCQueries
  Anyone = Anyone
  MaxLiveScan = 3
  ScanPageSize = 2
  ChangeBudget = 2
  Keepers = {k1, k2}
  EraDuration = 2
  MaxAhead = 2
  Schedule = 7
  Amounts = {0, 7}
  LastBlock = 5
  Mixes <- MCMixes
  None = None
  Tree <- MCTree
  Genesis = g
  MaxBlockNumber = 9
  PageRows = 1
  HomeRows = 2
  AgentNames <- MCNames
  MaxDepth = 3
  PageRequests <- MCPages
  ReadTimeout = 1
  PageHorizon = 1
  PageBudget = 2
  Scripts = {s1, s2, s3}
  Plans <- MCPlans
  Alice = Alice
  Ports = {q1, q2}
  SpecBefore = 1
  TipLength = 2
  Retractions = 1
  Unknown = Unknown
  Null = Null
  Malformed = Malformed
SPECIFICATION ServicesSpec
CHECK_DEADLOCK FALSE
INVARIANTS  NobodyIsOverbilled ScanSeesStanding   ShownWasTrue RootReportsHold
PROPERTIES  ErasKeepSettling
