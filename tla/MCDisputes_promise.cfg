CONSTANTS
  b1 = b1
  p1 = p1
  treasury = treasury
  panel = panel
  Buyers <- MCBuyers
  Providers <- MCProviders
  Treasury = treasury
  Panel = panel
  Amounts <- MCAmounts
  Endowment = 2030
  MinAgreementAmount = 10
  MinDeliveryBlocks = 0
  MaxAgreementSpan = 2
  MaxAgreementsPerPair = 2
  BuyerResponseWindow = 1
  DisputeTimeoutWindow = 3
  DisputeResponseWindow = 1
  MinChallengeWindow = 0
  ExpiryGrace = 1
  DisputeBountyBps = 200
  MinDisputeBounty = 1
  CompletionFeeBps = 25
  DisputeBurnBps = 200
  MaxOpenRequests = 2
  UnstakeCooldown = 1
  MaxSeq = 2
  LastOpening = 1
  LastDispute = 2
  MaxBlock = 7
  PanelWinners <- MCWinners
  Movers <- MCProviders
  MaySlash = FALSE
  r1 = r1
  r2 = r2
  r3 = r3
  r4 = r4
  dispute = dispute
  other = other
  yes = yes
  no = no
  dunno = dunno
  winners = winners
  Posters = {b1}
  Respondents <- MCRespondents
  Winners = winners
  Scored = {r1}
  Hashes <- MCHashes
  DisputeBuyer <- MCDisputeBuyer
  AnswersTo <- MCThreeAnswer
  Answers = {yes, no}
  ProviderAnswer = yes
  Terms <- MCTerms
  DisputeBounty = 3
  DisputeSpan = 1
  PosterEndowment = 8
  MinOracleBounty = 2
  OpenRequestLimit = 2
  MinChallengeSpan = 0
  MinConsensusThreshold = 50
  MaxResponsesPerRequest = 4
  LastOracleBlock = 3
SPECIFICATION DisputesSpec
CHECK_DEADLOCK FALSE
INVARIANTS ReserveCoversPromises EarnedVolumeWasPaid
PROPERTIES LifecycleSpec AgreementsClose RequestsEnd
