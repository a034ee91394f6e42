CONSTANTS
  a1 = a1
  a2 = a2
  Accounts <- MCAccounts
  Founders <- MCFounders
  Heads <- MCHeads
  Weights <- MCWeights
  OrchestratorWeights <- MCOrchestratorWeights
  Volumes <- MCVolumes
  Overrides <- MCOverrides
  Burns <- MCBurns
  SupplyCap = 12
  InitialIssuance = 4
  TargetEmissionPerAgent = 4
  FloorEmissionPerEra = 2
  InitialEmissionsPerEra = 5
  EmissionVolumeAlphaBps = 10000
  EraDuration = 1
  MaxEmissionOverrideEras = 1
  AccScale = 6
  MaxU128 = 70
  BurnFloor = 4
  MaxBlock = 2
SPECIFICATION Spec
CHECK_DEADLOCK FALSE
INVARIANT MintedWithinEmissions
