SPECIFICATION FairSpec
CONSTANTS
  eur = eur
  gbp = gbp
  None = None
  Pair = eur
  Pairs <- MCPairs
  CorrelationGroups <- MCGroups
  Histories <- MCHistories
  Proposals <- MCProposals
  MaxRiskPerTradePct = 30
  MaxPortfolioRiskPct = 60
  MaxExposurePerPairPct = 250
  MaxCorrelatedExposurePct = 300
  DailyLossLimitPct = 40
  MaxDrawdownPct = 50
  MaxConcurrentPositions = 2
  StartingBalance = 20
  HalfSpread = 1
  SlippagePerUnit = 1
  CommissionPerUnit = 1
  SwapLong <- MCSwapLong
  SwapShort = 1
  WeekendMultiplier = 3
  RolloverHour = 21
  CostConcern <- MCCostConcern
  CostRetire <- MCCostRetire
  DecayConcern <- MCDecayConcern
  DecayRetire <- MCDecayRetire
  MinTradeCount = 2
  InSampleReads <- MCInSampleReads
INVARIANTS TypeOK EveryTradeRecorded Reconciles BreachEndsRun LoserRetired
PROPERTIES OpensWithinLimits Terminates ImplementsGuardedBook
CHECK_DEADLOCK FALSE
