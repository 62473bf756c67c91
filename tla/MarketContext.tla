---------------------------- MODULE MarketContext ----------------------------
(***************************************************************************)
(* core/agents/market_context_agent.py: the brief the agent assembles from *)
(* the calendar, the macro series and the news, one request after another, *)
(* and the checks on the report an LLM makes of it.                        *)
(*                                                                         *)
(* The clock runs between any two steps.  upcoming and recent each read it *)
(* once, before their first request, while a weekly file is that of the    *)
(* week in which it is fetched.                                            *)
(***************************************************************************)
EXTENDS ContextData

CONSTANTS
  Calendars,         \* the releases a calendar may hold: rows, each with its week
  UpcomingWindow, RecentWindow,       \* days
  SeriesNames,       \* the series asked for, in order
  FredSeries,        \* the ids of those that are known
  SeriesAnswers,     \* observations FRED may send
  NewsAnswers,       \* articles GDELT may send
  Statuses,          \* HTTP statuses
  NotAList,          \* JSON of another shape than the adapter expects
  WatchedCurrencies, \* those of the watchlist
  Reports,           \* what the LLM may answer
  RunId,
  StartTimes,        \* when the agent may be run
  LastTime           \* bound on the clock

IsList(s) == s \in Seq(ToSet(s))

\* Days are numbers, and a row has a day unless it cannot be read.  None is no
\* answer: JSON's null is of another shape than the adapters expect.
ASSUME ContextAssumption ==
  /\ StartTimes \subseteq Nat
  /\ None \notin {"briefed", "raised", "reported", "rejected"}
  /\ None \notin {Failed, NotAList} \union SeriesAnswers \union NewsAnswers
  /\ UpcomingWindow \in Nat
  /\ RecentWindow \in Nat
  /\ IsList(SeriesNames)
  /\ \A answer \in SeriesAnswers : IsList(answer)
  /\ \A rows \in Calendars :
       /\ IsList(rows) /\ None \notin Seq(ToSet(rows))
       /\ \A k \in DOMAIN rows : rows[k].week \in Int /\ rows[k].date \in Int \union {None}

VARIABLES
  calendar,   \* the releases, fixed
  now,        \* the clock
  task,       \* which of the tasks is at work
  asked,      \* when upcoming and recent read the clock
  weeks,      \* the files the task still has to fetch
  rows,       \* the rows it has fetched
  events,     \* what upcoming and recent returned
  macro,      \* a snapshot for each known series so far
  headlines,  \* the articles, or None before the search
  outcome,    \* None, then briefed, raised, and reported or rejected
  heard       \* observed: the reply to each request for a series

contextVars == <<httpVars, calendar, now, task, asked, weeks, rows, events, macro,
          headlines, outcome, heard>>

\* The tasks in order: upcoming and recent, the series by name, and the news.
Upcomings == 1
Recents == 2
News == Len(SeriesNames) + 3
Working == outcome = None
OnCalendar == Working /\ task \in {Upcomings, Recents}
OnSeries == Working /\ task > Recents /\ task < News
OnNews == Working /\ task = News
Series == SeriesNames[task - Recents]
FilesOf(t) == IF t = Upcomings THEN Upcoming(UpcomingWindow) ELSE Recent(RecentWindow)

Medium == ImpactOrder["medium"]

-----------------------------------------------------------------------------
\* _pick_material.
Material(e) ==
  \/ e.currency \in WatchedCurrencies /\ e.impact \in {"high", "medium"}
  \/ e.currency \notin WatchedCurrencies /\ e.impact = "high"

\* _summarise_series: the two latest observations that have a value.
NoSnapshot(name) == [name |-> name, date |-> None, latest |-> None, previous |-> None]

SummariseSeries(name, points) ==
  LET present == {k \in DOMAIN points : points[k].value # None}
      n == Cardinality(present)
      last == points[Nth(present, n)]
  IN  IF n = 0 THEN NoSnapshot(name)
      ELSE [name |-> name, date |-> last.date, latest |-> last.value,
            previous |-> IF n >= 2 THEN points[Nth(present, n - 1)].value ELSE None]

\* The file of a week, as it is served at a time.
WeekFile(week) == Kept(calendar, {k \in DOMAIN calendar : calendar[k].week = week})

ContextInit ==
  /\ RequestInit
  /\ calendar \in Calendars
  /\ now \in StartTimes
  /\ task = 1
  /\ asked = << >>
  /\ weeks = << >>
  /\ rows = << >>
  /\ events = << >>
  /\ macro = << >>
  /\ headlines = None
  /\ outcome = None
  /\ heard = << >>

Tick ==
  /\ Working
  /\ now < LastTime
  /\ now' = now + 1
  /\ UNCHANGED <<httpVars, calendar, task, asked, weeks, rows, events, macro,
                 headlines, outcome, heard>>

\* upcoming and recent read the clock and choose their files.
StartCalendar ==
  /\ OnCalendar
  /\ weeks = << >>
  /\ asked' = Append(asked, now)
  /\ weeks' = FilesOf(task)
  /\ UNCHANGED <<httpVars, calendar, now, task, rows, events, macro, headlines,
                 outcome, heard>>

\* What the server of the task may send.
Bodies ==
  IF OnCalendar THEN {WeekFile(WeekOf(now) + Head(weeks)), NotAList, NotJson}
  ELSE IF OnSeries THEN SeriesAnswers \union {NotAList, NotJson}
  ELSE NewsAnswers \union {NotAList, NotJson}

\* One attempt at the request of the task.
Requesting ==
  /\ Working
  /\ OnCalendar => weeks # << >>
  /\ OnSeries => Series \in DOMAIN FredSeries

Attempt ==
  /\ Requesting
  /\ \/ TransportError
     \/ \E status \in Statuses : Answered(status, NotJson)
     \/ \E body \in Bodies : Answered(200, body)
  /\ UNCHANGED <<calendar, now, task, asked, weeks, rows, events, macro, headlines,
                 outcome, heard>>

Arrived == reply # None /\ reply \notin {Failed, NotAList}
Unusable == reply \in {Failed, NotAList}

\* A file of the calendar; after the last one the events are cut to the window.
FileArrives ==
  /\ OnCalendar
  /\ weeks # << >>
  /\ Arrived
  /\ \A k \in DOMAIN reply : ~Refused(reply[k])
  /\ NewRequest
  /\ weeks' = Tail(weeks)
  /\ IF Tail(weeks) # << >>
     THEN /\ rows' = rows \o reply
          /\ UNCHANGED <<events, task>>
     ELSE /\ \E all \in {Releases(rows \o reply)}, read \in {Last(asked)} :
               events' = Append(events,
                 IF task = Upcomings
                 THEN FilterEvents(all, read, read + UpcomingWindow, Medium)
                 ELSE FilterEvents(all, read - RecentWindow, read, Medium))
          /\ rows' = << >>
          /\ task' = task + 1
  /\ UNCHANGED <<calendar, now, asked, macro, headlines, outcome, heard>>

\* Nothing catches what the calendar raises, a typed error or the refusal of a
\* row: no brief is made, and no LLM is asked.
CalendarFails ==
  /\ OnCalendar
  /\ weeks # << >>
  /\ Unusable \/ (Arrived /\ \E k \in DOMAIN reply : Refused(reply[k]))
  /\ outcome' = "raised"
  /\ UNCHANGED <<httpVars, calendar, now, task, asked, weeks, rows, events, macro,
                 headlines, heard>>

SkipUnknownSeries ==
  /\ OnSeries
  /\ Series \notin DOMAIN FredSeries
  /\ task' = task + 1
  /\ UNCHANGED <<httpVars, calendar, now, asked, weeks, rows, events, macro,
                 headlines, outcome, heard>>

\* Faulty variant: a snapshot without values is left out.
SnapshotIfAny(name, answer) ==
  IF answer \in {Failed, NotAList} \/ MalformedSeries(answer) THEN << >>
  ELSE <<SummariseSeries(name, answer)>>

\* _fetch_macro: any error of one series leaves its snapshot empty.
SnapshotOf(name, answer) ==
  IF answer \in {Failed, NotAList} \/ MalformedSeries(answer) THEN <<NoSnapshot(name)>>
  ELSE <<SummariseSeries(name, answer)>>

\* Faulty variant: a series that fails is asked for again.
SeriesAskedAgain ==
  /\ OnSeries
  /\ reply # None
  /\ NewRequest
  /\ IF reply = Failed
     THEN UNCHANGED <<macro, heard, task>>
     ELSE /\ macro' = macro \o SnapshotOf(Series, reply)
          /\ heard' = Append(heard, [name |-> Series, reply |-> reply])
          /\ task' = task + 1
  /\ UNCHANGED <<calendar, now, asked, weeks, rows, events, headlines, outcome>>

SeriesEnds ==
  /\ OnSeries
  /\ reply # None
  /\ macro' = macro \o SnapshotOf(Series, reply)
  /\ heard' = Append(heard, [name |-> Series, reply |-> reply])
  /\ task' = task + 1
  /\ NewRequest
  /\ UNCHANGED <<calendar, now, asked, weeks, rows, events, headlines, outcome>>

\* _fetch_headlines: without an answer there are none.  The brief is complete.
NewsEnds ==
  /\ OnNews
  /\ reply # None
  /\ headlines' = IF Unusable THEN << >> ELSE Articles(reply)
  /\ outcome' = "briefed"
  /\ UNCHANGED <<httpVars, calendar, now, task, asked, weeks, rows, events, macro, heard>>

UpcomingEvents == Kept(events[1], {k \in DOMAIN events[1] : Material(events[1][k])})
RecentSurprises == Kept(events[2], {k \in DOMAIN events[2] : HasSurprise(events[2][k])})

-----------------------------------------------------------------------------
\* Tier-1 of the report.
ReportAccepted(r) ==
  /\ r.run_id = RunId
  /\ r.schema_version = "1.0"
  /\ \A c \in r.confidences : c \in 0..100
  /\ \A s \in r.scores : s \in -100..100
  /\ ~r.trade_call

Describe ==
  /\ outcome = "briefed"
  /\ \E r \in Reports :
       outcome' = IF ReportAccepted(r) THEN "reported" ELSE "rejected"
  /\ UNCHANGED <<httpVars, calendar, now, task, asked, weeks, rows, events, macro,
                 headlines, heard>>

Assemble ==
  \/ StartCalendar
  \/ Attempt
  \/ FileArrives
  \/ CalendarFails
  \/ SkipUnknownSeries
  \/ SeriesEnds
  \/ NewsEnds
  \/ Describe

ContextNext == Tick \/ Assemble

ContextSpec == ContextInit /\ [][ContextNext]_contextVars /\ WF_contextVars(Assemble)

-----------------------------------------------------------------------------
Briefed == outcome \in {"briefed", "reported", "rejected"}

\* Rows that appear once in the calendar and lie in a window, in one of these
\* weekly files.
Due(from, until, files) ==
  {k \in DOMAIN calendar :
     /\ Readable(calendar[k])
     /\ ~Refused(calendar[k])
     /\ from <= calendar[k].date
     /\ calendar[k].date <= until
     /\ calendar[k].week \in files
     /\ \A j \in DOMAIN calendar \ {k} : ~SameRelease(calendar[j], calendar[k])}

\* Each release comes from a row of the calendar in the window, once, in order.
Sound(list, from, until) ==
  /\ \A n \in DOMAIN list :
       /\ from <= list[n].when
       /\ list[n].when <= until
       /\ \E k \in DOMAIN calendar : Readable(calendar[k]) /\ list[n] = EconomicEvent(calendar[k])
  /\ \A m, n \in DOMAIN list :
       m < n => /\ list[m].when <= list[n].when
                /\ <<list[m].currency, list[m].when, list[m].name>>
                     # <<list[n].currency, list[n].when, list[n].name>>

\* The calendar's week has not turned since a task read the clock.
SameWeek(from) == WeekOf(now) = WeekOf(from)

AllUpcoming ==
  LET from == asked[1]
      week == WeekOf(from)
  IN  \A k \in Due(from, from + UpcomingWindow, {week, week + 1}) :
        LET e == EconomicEvent(calendar[k])
        IN  Material(e) => e \in ToSet(UpcomingEvents)

AllRecent ==
  LET from == asked[2]
      week == WeekOf(from)
  IN  \A k \in Due(from - RecentWindow, from, {week - 1, week}) :
        LET e == EconomicEvent(calendar[k])
        IN  (HasSurprise(e) /\ ImpactOrder[e.impact] >= Medium)
              => e \in ToSet(RecentSurprises)

\* The brief shows releases of the calendar inside the windows it is asked for,
\* once and in order; and with windows long enough for two weekly files, unless
\* the week turns while they are fetched, no release that matters is missing
\* (context_data.upcoming, recent; market_context_agent.assemble_brief).
BriefExact ==
  Briefed =>
    /\ Sound(UpcomingEvents, asked[1], asked[1] + UpcomingWindow)
    /\ Sound(RecentSurprises, asked[2] - RecentWindow, asked[2])
    /\ UpcomingWindow > FarWindow /\ SameWeek(asked[1]) => AllUpcoming
    /\ RecentWindow > FarWindow /\ SameWeek(asked[2]) => AllRecent

\* upcoming returns the events of the next window, whatever its length: so its
\* description says, and it holds only for windows of more than four days.
UpcomingComplete == Briefed /\ SameWeek(asked[1]) => AllUpcoming

\* Whatever the series and the news answer, the brief is made, with a snapshot
\* of each known series, in order: the last two values of its own answer, or
\* nothing; only the calendar can end the run (assemble_brief, _fetch_macro).
FailureContained ==
  /\ outcome = "raised" => task \in {Upcomings, Recents}
  /\ Briefed =>
       /\ [n \in DOMAIN macro |-> macro[n].name]
            = Kept(SeriesNames, {k \in DOMAIN SeriesNames : SeriesNames[k] \in DOMAIN FredSeries})
       /\ \A n \in DOMAIN macro :
            LET answer == heard[n].reply
                Has(k) == answer[k].value # None
            IN  /\ heard[n].name = macro[n].name
                /\ macro[n].latest # None =>
                     /\ answer \notin {Failed, NotAList}
                     /\ \E k \in DOMAIN answer :
                          /\ macro[n].date = answer[k].date
                          /\ macro[n].latest = answer[k].value
                          /\ \A j \in DOMAIN answer : Has(j) => j <= k
                          /\ macro[n].previous # None =>
                               \E j \in 1..(k - 1) :
                                 /\ macro[n].previous = answer[j].value
                                 /\ \A i \in (j + 1)..(k - 1) : ~Has(i)
                /\ macro[n].latest = None /\ answer \notin {Failed, NotAList} =>
                     MalformedSeries(answer) \/ \A k \in DOMAIN answer : ~Has(k)

\* A run comes to its end: every request is tried a bounded number of times,
\* every series that fails is passed over (_http_get_json, assemble_brief).
BriefReturns == <>(outcome \in {"raised", "reported", "rejected"})
=============================================================================
