CONSTANTS
  b1 = b1
  p1 = p1
  treasury = treasury
  panel = panel
  Buyers <- MCBuyers
  Providers <- MCProviders
  Treasury = treasury
  Panel = panel
  Amounts <- MCAmounts
  Endowment = 2030
  MinAgreementAmount = 10
  MinDeliveryBlocks = 0
  MaxAgreementSpan = 2
  MaxAgreementsPerPair = 2
  BuyerResponseWindow = 1
  DisputeTimeoutWindow = 3
  DisputeResponseWindow = 1
  MinChallengeWindow = 0
  ExpiryGrace = 1
  DisputeBountyBps = 200
  MinDisputeBounty = 1
  CompletionFeeBps = 25
  DisputeBurnBps = 200
  MaxOpenRequests = 2
  UnstakeCooldown = 1
  MaxSeq = 2
  LastOpening = 1
  LastDispute = 3
  MaxBlock = 8
  PanelWinners <- MCWinners
  Movers <- MCProviders
  MaySlash = TRUE
SPECIFICATION Spec
CHECK_DEADLOCK FALSE
INVARIANT PaidOnce
