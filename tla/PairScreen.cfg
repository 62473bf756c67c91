SPECIFICATION Spec
CONSTANTS
  None = None
  RequestFailed = RequestFailed
  Incomplete = Incomplete
  Garbled = Garbled
  Inconsistent = Inconsistent
  MarketDataError = MarketDataError
  ValueError = ValueError
  InvalidOperation = InvalidOperation
  Pairs <- MCPairs
  Canonical <- MCCanonical
  CandleAnswers <- MCCandleAnswers
  QuoteAnswers <- MCQuoteAnswers
  LookbackCount = 4
  ShortlistSize = 3
  MinCandles = 2
  MinCoverage <- MCMinCoverage
  MaxCorrelation <- MCMaxCorrelation
  MaxSpreadToAtr <- MCMaxSpreadToAtr
  Scale = 12
INVARIANTS ShortlistDiverse EveryPairAccounted
CHECK_DEADLOCK FALSE
