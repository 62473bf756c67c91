SPECIFICATION Spec
CONSTANTS
  eur = eur
  None = None
  gbp = gbp
  Pairs <- MCPairs
  CorrelationGroups <- MCGroups
  Orders <- MCOrders
  Quotes <- MCQuotes
  MaxRiskPerTradePct = 30
  MaxPortfolioRiskPct = 50
  MaxExposurePerPairPct = 150
  MaxCorrelatedExposurePct = 200
  DailyLossLimitPct = 30
  MaxDrawdownPct = 50
  MaxConcurrentPositions = 2
  StartingBalance = 20
  DayStartEquity = 20
  CommissionPerUnit = 1
  ExtraHalfSpread = 1
  MaxSubmissions = 3
PROPERTY FillIffBooked
CHECK_DEADLOCK FALSE
