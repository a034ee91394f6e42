CONSTANTS
  a1 = a1
  a2 = a2
  a3 = a3
  Accounts <- MCAccounts
  Declarable <- MCDeclarable
  MaxSubAgentsPerOrchestrator = 2
  LinkApprovalWindow = 1
  MaxPendingProposals = 2
  MaxBlock = 2
SPECIFICATION Spec
SYMMETRY Symmetry
INVARIANT EitherPartyMayUnlink
