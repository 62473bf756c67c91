SPECIFICATION ContextSpec
CONSTANTS
  None = None
  Failed = Failed
  NotJson = NotJson
  NotAList = NotAList
  Retries = 1
  Currencies = {"EUR", "USD", "JPY"}
  WatchedCurrencies = {"EUR", "USD"}
  Calendars <- MCCalendars
  UpcomingWindow = 5
  RecentWindow = 6
  SeriesNames <- MCSeriesNames
  FredSeries <- MCFredSeries
  SeriesAnswers <- MCSeriesAnswers
  NewsAnswers <- MCNewsAnswers
  Statuses = {404, 503}
  Reports <- MCReports
  RunId = "run"
  StartTimes = {12, 13}
  LastTime = 15
INVARIANTS BriefExact FailureContained
PROPERTY BriefReturns
CHECK_DEADLOCK FALSE
