CONSTANTS
  other = other
  old = old
  c1 = c1
  p1 = p1
  p2 = p2
  cap = cap
  MaxRetries = 1
  MaxFaults = 1
  NonceCycle = 4
  Void = Void
  Me = Me
  Author = Author
  ThisChain = ThisChain
  Drafts <- MCDrafts
  LifeSpan = 2
  PerMs = 2
  LastMs = 2
  LastHead = 3
  MaxEnvelopes = 2
  MaxPosts = 2
  Myself = Myself
  Clients = {c1}
  Registry <- MCRegistry
  BuyerPeers = {p1, p2}
  BuyerMaxOpen = 1
  BuyerDeliverWithin = 2
  HeartbeatEvery = 2
  MinDelivery = 1
  Wallets <- MCWallets
  Jobs <- MCJobs
  LastHeight = 3
  Provider = Provider
  Hirers = {c1}
  Setups <- MCSetups
  GraceBlocks = 6
  MaxAttempts = 2
  RetryAfterBlocks = 2
  MinDeliveryBlocks = 1
  Spans = {2, 5}
  HireBudget = 1
  LastEra = 1
SPECIFICATION ClientsSpec
CHECK_DEADLOCK FALSE
INVARIANTS ReplaysAreOld OpenIsBounded AttemptsAreBounded
PROPERTIES  WorkGetsDelivered
