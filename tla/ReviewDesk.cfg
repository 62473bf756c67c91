SPECIFICATION Spec
CONSTANTS
  c1 = c1
  c2 = c2
  None = None
  Infinite = Infinite
  Ids = {c1, c2}
  Identity <- MCIdentity
  RawMetrics <- MCRawMetrics
  MinTradeCount = 10
  MaxDrawdown = 25
  MinProfitFactor = 1
  Checklist = {"out_of_sample_decay", "cost_sensitivity"}
  Universe = {EURUSD}
  Cycle = cycle
  Cost = 7
  BacktestAnswers <- MCBacktestAnswers
  CriticAnswers <- MCCriticAnswers
  Reports <- MCReports
INVARIANTS ReportFaithful QueueEarned CountsAddUp
CHECK_DEADLOCK FALSE
