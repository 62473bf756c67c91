SPECIFICATION FairSpec
CONSTANTS
  a = a
  b = b
  X = X
  Y = Y
  None = None
  Ids <- MCIds
  Identities <- MCIdentities
  Proposals <- MCProposals
  CallCosts = {1, 3}
  CostCeiling = 2
  CycleCap = 8
  MaxVerdicts = 2
  MaxCycles = 2
INVARIANTS TypeOK TrailComplete QueuedHasEntry NoSurvivorDropped CostBounded
PROPERTIES CycleReturns ImplementsReviewGate
CHECK_DEADLOCK FALSE
