----------------------------- MODULE ContextData -----------------------------
(***************************************************************************)
(* core/context_data.py: what the three adapters make of the answers they  *)
(* get.  A calendar row, an observation or an article is the record of its *)
(* fields; a field that is missing or cannot be read is None.  Times are   *)
(* days, and a week of the calendar is seven of them.                      *)
(***************************************************************************)
EXTENDS HttpRequest, Integers, Sequences, FiniteSets, SequencesExt

CONSTANT Currencies    \* codes of three letters

\* The items of a list at the positions K, in their order: what a loop that
\* leaves out the others appends.
Nth(K, n) == CHOOSE k \in K : Cardinality({j \in K : j <= k}) = n
Kept(list, K) == [n \in 1..Cardinality(K) |-> list[Nth(K, n)]]

ImpactOrder == [unknown |-> 0, holiday |-> 0, low |-> 1, medium |-> 2, high |-> 3]

\* parse_economic_value: digits with a suffix, or no number at all.
Multiplier == [none |-> 1, K |-> 1000]
ParseEconomicValue(raw) ==
  IF raw = None THEN None ELSE raw.digits * Multiplier[raw.suffix]

\* A label outside the documented set never drops a release.
ParseImpact(raw) == IF raw \in DOMAIN ImpactOrder THEN raw ELSE "unknown"

\* EconomicEvent, and its surprise.
EconomicEvent(row) ==
  [when |-> row.date, currency |-> row.country, name |-> row.title,
   impact |-> ParseImpact(row.impact), actual |-> ParseEconomicValue(row.actual),
   forecast |-> ParseEconomicValue(row.forecast)]

HasSurprise(e) == e.actual # None /\ e.forecast # None

\* _parse_ff_event drops a row without its required fields; the model it
\* builds of any other refuses a currency that is no code.
Readable(row) == None \notin {row.country, row.title, row.date}
Refused(row) == Readable(row) /\ row.country \notin Currencies

SameRelease(r, s) ==
  r.country = s.country /\ r.date = s.date /\ r.title = s.title

\* _fetch_weeks: the readable rows, the first of each release, by time; rows of
\* one time stay in the order of the files.
FirstOfRelease(rows, k) ==
  /\ Readable(rows[k])
  /\ \A j \in 1..(k - 1) : Readable(rows[j]) => ~SameRelease(rows[j], rows[k])

Sooner(rows, j, k) ==
  rows[j].date < rows[k].date \/ (rows[j].date = rows[k].date /\ j < k)

NotLater(rows, K, k) == {j \in K : j = k \/ Sooner(rows, j, k)}
NthSoonest(rows, K, n) == CHOOSE k \in K : Cardinality(NotLater(rows, K, k)) = n

Releases(rows) ==
  LET first == {k \in DOMAIN rows : FirstOfRelease(rows, k)}
  IN  [n \in 1..Cardinality(first) |-> EconomicEvent(rows[NthSoonest(rows, first, n)])]

\* Faulty variant: what lies beyond the window is kept.
FilterFrom(events, start, end, floor) ==
  Kept(events, {k \in DOMAIN events : /\ start <= events[k].when
                                      /\ ImpactOrder[events[k].impact] >= floor})

\* _filter_events, without a filter by currency.
FilterEvents(events, start, end, floor) ==
  Kept(events, {k \in DOMAIN events : /\ start <= events[k].when
                                      /\ events[k].when <= end
                                      /\ ImpactOrder[events[k].impact] >= floor})

\* The weekly files upcoming and recent read: the current one, and that of the
\* week beside it for a window of more than four days.
FarWindow == 4
Upcoming(window) == IF window > FarWindow THEN <<0, 1>> ELSE <<0>>
Recent(window) == IF window > FarWindow THEN <<0, -1>> ELSE <<0>>

WeekOf(time) == time \div 7

-----------------------------------------------------------------------------
\* get_series: an observation without a date is an error of the whole series,
\* a value that is missing or no number is none.
MalformedSeries(observations) == \E k \in DOMAIN observations : observations[k].date = None

\* search: the articles with url, title and time, the first of each url.
ReadableArticle(a) == None \notin {a.url, a.title, a.seen}
Articles(raw) ==
  Kept(raw, {k \in DOMAIN raw :
    /\ ReadableArticle(raw[k])
    /\ \A j \in 1..(k - 1) : ReadableArticle(raw[j]) => raw[j].url # raw[k].url})
=============================================================================
