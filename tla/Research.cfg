SPECIFICATION Spec
CONSTANTS
  EURUSD = EURUSD
  USDJPY = USDJPY
  None = None
  NoDiff = NoDiff
  JpyQuoted <- MCJpyQuoted
  OosFraction <- MCOosFraction
  LookbackCount = 7
  CostMultipliers = {3, 4}
  Request <- MCRequest
  Proposals <- MCProposals
  InitialMarkets <- MCInitialMarkets
  WindowConfigs <- MCWindowConfigs
  Prices = {18, 26}
  Steps = {1, 3}
  MaxChanges = 2
INVARIANTS RunsWithinLimits NoLookAhead HoldoutUnseen CurveIsOwn TestsTile
CHECK_DEADLOCK FALSE
