--------------------------- MODULE MCMarketContext ---------------------------
(***************************************************************************)
(* Week 1 is days 7 to 13: the agent is run on its Friday or Saturday, and *)
(* the clock may reach week 2.  Of the two calendars the second has a row  *)
(* whose currency is refused.                                              *)
(***************************************************************************)
EXTENDS MarketContext

Row(week, date, country, title, impact, actual, forecast) ==
  [week |-> week, date |-> date, country |-> country, title |-> title, impact |-> impact,
   actual |-> actual, forecast |-> forecast]

Number(digits, suffix) == [digits |-> digits, suffix |-> suffix]

Payrolls == Row(1, 10, "USD", "payrolls", "high", Number(170, "K"), Number(160, "K"))
Prices == Row(2, 15, "USD", "prices", "high", None, Number(2, "none"))

MCCalendar ==
  << Row(0, 6, "EUR", "sentiment", "medium", Number(3, "none"), Number(4, "none")),
     Prices,
     Row(1, 13, "USD", "speech", "Tentative", None, None),
     Payrolls,
     Row(1, 13, "EUR", "output", "medium", None, None),
     Row(1, 13, "JPY", "output", "medium", None, None),
     Row(2, 14, "JPY", "rates", "high", None, None),
     Row(2, 20, "USD", "jobs", "high", None, None),
     Row(1, 12, "EUR", None, "high", None, None),
     [Payrolls EXCEPT !.week = 0] >>

MCCalendars == {MCCalendar, <<Payrolls, Row(2, 15, "EURO", "summit", "high", None, None)>>}

MCSeriesNames == <<"US_CPI", "US_GPD", "US_10Y_YIELD">>
MCFredSeries == [US_CPI |-> "CPIAUCSL", US_10Y_YIELD |-> "DGS10"]

Point(date, value) == [date |-> date, value |-> value]
MCSeriesAnswers ==
  { <<Point(1, 5), Point(2, None), Point(3, 7), Point(4, None)>>,
    <<Point(1, 5), Point(None, 6)>>,
    <<Point(2, None)>> }

Article(url, title) == [url |-> url, title |-> title, seen |-> 11]
MCNewsAnswers == { <<Article("a", "x"), Article("a", "y"), Article(None, "x"), Article("b", "x")>> }

Report == [run_id |-> "run", schema_version |-> "1.0", confidences |-> {0, 55},
           scores |-> {-40, 30}, trade_call |-> FALSE]
MCReports ==
  {Report, [Report EXCEPT !.run_id = "other"], [Report EXCEPT !.schema_version = "2.0"],
   [Report EXCEPT !.confidences = {101}], [Report EXCEPT !.scores = {-101}],
   [Report EXCEPT !.trade_call = TRUE]}
=============================================================================
