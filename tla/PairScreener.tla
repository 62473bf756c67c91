----------------------------- MODULE PairScreener -----------------------------
(***************************************************************************)
(* core/analysis/pair_screener.py: one screen, pair by pair, and the       *)
(* selection of the shortlist, profile by profile.                         *)
(*                                                                         *)
(* Ratios are kept as numerator and denominator and compared by            *)
(* multiplication; a return is an integer, in units of 1/Scale.  The       *)
(* descriptive part of a profile (gaps, volatility, autocorrelations,      *)
(* variance ratio), which decides nothing, is left out.                    *)
(***************************************************************************)
EXTENDS MarketData, FiniteSets, FiniteSetsExt, SequencesExt

CONSTANTS
  Pairs,           \* the pairs of the configuration, in order, as they are spelt
  Canonical,       \* their canonical names; a spelling that is refused has none
  CandleAnswers,   \* for each spelling, what the request for candles may give
  QuoteAnswers,    \* and the request for a quote
  LookbackCount, ShortlistSize, MinCandles,
  MinCoverage,     \* <<numerator, denominator>>
  MaxCorrelation,
  MaxSpreadToAtr,  \* the same, or None
  Scale

IsRatio(r) == r \in Nat \X (Nat \ {0})

ASSUME ScreenConfigAssumption ==
  /\ LookbackCount \in Nat \ {0}
  /\ ShortlistSize \in Nat \ {0}
  /\ MinCandles \in Nat
  /\ MinCandles >= 2
  /\ IsRatio(MinCoverage)
  /\ MinCoverage[1] <= MinCoverage[2]
  /\ IsRatio(MaxCorrelation)
  /\ 0 < MaxCorrelation[1]
  /\ MaxCorrelation[1] <= MaxCorrelation[2]
  /\ MaxSpreadToAtr = None \/ IsRatio(MaxSpreadToAtr)
  /\ Pairs \in Seq(STRING)

VARIABLES
  stage,      \* screening, selecting, reported, or raised
  next,       \* the pair to be screened
  profiles,   \* one for each pair of a valid name
  returns,    \* by canonical name, then by time, for pairs with data
  left,       \* the eligible profiles still to be considered
  shortlist,  \* the profiles selected, in order
  excluded    \* pairs left out, each with its reason

vars == <<stage, next, profiles, returns, left, shortlist, excluded>>

-----------------------------------------------------------------------------
Largest(S) == CHOOSE x \in S : \A y \in S : y <= x
Distance(a, b) == IF a < b THEN b - a ELSE a - b

ByTime(candles) == SortSeq(candles, LAMBDA c, d : c.time < d.time)

\* average_true_range, times the number of candles.
TrueRange(candles, k) ==
  LET c == candles[k] IN
  IF k = 1 THEN c.high - c.low
  ELSE Largest({c.high - c.low,
                Distance(c.high, candles[k - 1].close),
                Distance(c.low, candles[k - 1].close)})

TotalRange(candles) == MapThenSumSet(LAMBDA k : TrueRange(candles, k), DOMAIN candles)

\* build_profile: of a pair without range, or without a quote, no cost is known.
BuildProfile(pair, candles, spread) ==
  LET range == TotalRange(ByTime(candles)) IN
  [pair |-> pair,
   candle_count |-> Len(candles),
   spread_to_atr |-> IF spread = None \/ range = 0 THEN None
                     ELSE <<spread * Len(candles), range>>]

\* _returns_by_time, of candles with different times.
ReturnsByTime(candles) ==
  LET ordered == ByTime(candles)
      At(t) == CHOOSE k \in 2..Len(ordered) : ordered[k].time = t
      Return(k) == ((ordered[k].close - ordered[k - 1].close) * Scale)
                     \div ordered[k - 1].close
  IN  [t \in {ordered[k].time : k \in 2..Len(ordered)} |-> Return(At(t))]

-----------------------------------------------------------------------------
\* pearson over the times two pairs have in common.
Cross(f, g, times) ==
  LET n == Cardinality(times) IN
  n * MapThenSumSet(LAMBDA t : f[t] * g[t], times)
    - MapThenSumSet(LAMBDA t : f[t], times) * MapThenSumSet(LAMBDA t : g[t], times)

CorrelationExceeds(f, g, limit) ==
  LET times == DOMAIN f \intersect DOMAIN g
      sxx == Cross(f, f, times)
      syy == Cross(g, g, times)
      sxy == Cross(f, g, times)
  IN  /\ Cardinality(times) >= 2
      /\ sxx # 0
      /\ syy # 0
      /\ sxy * sxy * limit[2] * limit[2] > limit[1] * limit[1] * sxx * syy

\* CorrelationMatrix.get: 1 with itself, 0 for a pair without data.
TooCorrelated(p, q) ==
  /\ {p, q} \subseteq DOMAIN returns
  /\ IF p = q THEN MaxCorrelation[1] < MaxCorrelation[2]
     ELSE CorrelationExceeds(returns[p], returns[q], MaxCorrelation)

-----------------------------------------------------------------------------
\* _ineligibility_reason.
Exceeds(ratio, limit) == ratio[1] * limit[2] > limit[1] * ratio[2]

Ineligibility(p) ==
  IF p.candle_count < MinCandles THEN "insufficient data"
  ELSE IF Exceeds(MinCoverage, <<p.candle_count, LookbackCount>>) THEN "coverage"
  ELSE IF /\ MaxSpreadToAtr # None
          /\ p.spread_to_atr # None
          /\ Exceeds(p.spread_to_atr, MaxSpreadToAtr) THEN "cost-to-move"
  ELSE None

\* _cost_sort_key: a measured cost before none, and the smaller one first.
NotCostlier(p, q) ==
  q.spread_to_atr # None =>
    p.spread_to_atr # None /\ ~Exceeds(p.spread_to_atr, q.spread_to_atr)

\* The sort is stable.
Precedes(j, k) ==
  /\ NotCostlier(profiles[j], profiles[k])
  /\ NotCostlier(profiles[k], profiles[j]) => j < k

Exclusion(pair, reason) == [pair |-> pair, reason |-> reason]

Init ==
  /\ stage = "screening"
  /\ next = 1
  /\ profiles = << >>
  /\ returns = << >>
  /\ left = {}
  /\ shortlist = << >>
  /\ excluded = << >>

Screening == stage = "screening" /\ next <= Len(Pairs)

RefuseName ==
  /\ Screening
  /\ Pairs[next] \notin DOMAIN Canonical
  /\ excluded' = Append(excluded, Exclusion(Pairs[next], "invalid pair format"))
  /\ next' = next + 1
  /\ UNCHANGED <<stage, profiles, returns, left, shortlist>>

\* _fetch_candles and _fetch_spread: missing history is no candles, a missing
\* quote no spread.  What they do not catch ends the screen.
Caught == {MarketDataError, ValueError}

ScreenPair ==
  /\ Screening
  /\ Pairs[next] \in DOMAIN Canonical
  /\ \E candlesAnswer \in CandleAnswers[Pairs[next]], quoteAnswer \in QuoteAnswers[Pairs[next]] :
       LET pair == Canonical[Pairs[next]]
           got == GetCandles(candlesAnswer)
           quote == GetQuote(quoteAnswer)
           candles == IF got \in Caught THEN << >> ELSE got
           spread == IF quote \in Caught THEN None ELSE Spread(quote)
       IN  /\ got # InvalidOperation
           /\ quote # InvalidOperation
           /\ profiles' = Append(profiles, BuildProfile(pair, candles, spread))
           /\ returns' = IF Len(candles) >= 2
                         THEN [p \in DOMAIN returns \union {pair} |->
                                 IF p = pair THEN ReturnsByTime(candles) ELSE returns[p]]
                         ELSE returns
  /\ next' = next + 1
  /\ UNCHANGED <<stage, left, shortlist, excluded>>

ScreenRaises ==
  /\ Screening
  /\ Pairs[next] \in DOMAIN Canonical
  /\ \/ \E answer \in CandleAnswers[Pairs[next]] : GetCandles(answer) = InvalidOperation
     \/ \E answer \in QuoteAnswers[Pairs[next]] : GetQuote(answer) = InvalidOperation
  /\ stage' = "raised"
  /\ UNCHANGED <<next, profiles, returns, left, shortlist, excluded>>

\* The first loop of _select_shortlist: the profiles that are not eligible are
\* left out, in order.
LeftOut ==
  LET upTo[k \in 0..Len(profiles)] ==
        IF k = 0 THEN excluded
        ELSE IF Ineligibility(profiles[k]) = None THEN upTo[k - 1]
        ELSE Append(upTo[k - 1], Exclusion(profiles[k].pair, Ineligibility(profiles[k])))
  IN  upTo[Len(profiles)]

Assess ==
  /\ stage = "screening"
  /\ next > Len(Pairs)
  /\ stage' = "selecting"
  /\ left' = {k \in DOMAIN profiles : Ineligibility(profiles[k]) = None}
  /\ excluded' = LeftOut
  /\ UNCHANGED <<next, profiles, returns, shortlist>>

\* Faulty variant: compared with the last pair selected only.
DiffersFromLast(k) ==
  shortlist # << >> => ~TooCorrelated(profiles[k].pair, profiles[Last(shortlist)].pair)

\* Not too correlated with any pair selected so far.
Diverse(k) ==
  \A n \in DOMAIN shortlist : ~TooCorrelated(profiles[k].pair, profiles[shortlist[n]].pair)

Full == Len(shortlist) >= ShortlistSize

\* Faulty variant: the loop ends when the shortlist is full.
StopWhenFull(k) == excluded' = excluded /\ left' = {}

LeaveOutFull(k) ==
  /\ excluded' = Append(excluded, Exclusion(profiles[k].pair, "shortlist full"))
  /\ left' = left \ {k}

\* One turn of the loop of _select_shortlist, on the cheapest profile left.
Consider(k) ==
  /\ stage = "selecting"
  /\ k \in left
  /\ \A j \in left \ {k} : Precedes(k, j)
  /\ \/ /\ Full
        /\ LeaveOutFull(k)
        /\ UNCHANGED shortlist
     \/ /\ ~Full
        /\ ~Diverse(k)
        /\ excluded' = Append(excluded, Exclusion(profiles[k].pair, "correlation"))
        /\ left' = left \ {k}
        /\ UNCHANGED shortlist
     \/ /\ ~Full
        /\ Diverse(k)
        /\ shortlist' = Append(shortlist, k)
        /\ left' = left \ {k}
        /\ UNCHANGED excluded
  /\ UNCHANGED <<stage, next, profiles, returns>>

Report ==
  /\ stage = "selecting"
  /\ left = {}
  /\ stage' = "reported"
  /\ UNCHANGED <<next, profiles, returns, left, shortlist, excluded>>

Next ==
  \/ RefuseName
  \/ ScreenPair
  \/ ScreenRaises
  \/ Assess
  \/ \E k \in left : Consider(k)
  \/ Report

Spec == Init /\ [][Next]_vars

-----------------------------------------------------------------------------
\* The shortlist has no more pairs than asked for, each eligible, each no
\* costlier than those after it, and no two of them too correlated, in either
\* order; with a limit below one, no pair is on it twice (_select_shortlist).
ShortlistDiverse ==
  /\ Len(shortlist) <= ShortlistSize
  /\ \A n \in DOMAIN shortlist : Ineligibility(profiles[shortlist[n]]) = None
  /\ \A m, n \in DOMAIN shortlist :
       m < n =>
         /\ NotCostlier(profiles[shortlist[m]], profiles[shortlist[n]])
         /\ ~TooCorrelated(profiles[shortlist[n]].pair, profiles[shortlist[m]].pair)

Named(p, list) == {n \in DOMAIN list : list[n].pair = p}
Asked(p) == {n \in DOMAIN Pairs :
               IF Pairs[n] \in DOMAIN Canonical THEN Canonical[Pairs[n]] = p ELSE Pairs[n] = p}
Selected(p) == {n \in DOMAIN shortlist : profiles[shortlist[n]].pair = p}

\* Why a profile is left out, found from the whole shortlist.
TrueReason(k, reason) ==
  LET chosen == Range(shortlist)
      Earlier == {j \in chosen : Precedes(j, k)}
  IN  CASE reason = "shortlist full" -> Cardinality(Earlier) = ShortlistSize
        [] reason = "correlation" ->
             /\ Cardinality(Earlier) < ShortlistSize
             /\ \E j \in Earlier : TooCorrelated(profiles[k].pair, profiles[j].pair)
        [] OTHER -> Ineligibility(profiles[k]) = reason

\* Each time a pair is asked for it is either selected or left out, and it is
\* left out for a reason that holds: its name, its data or cost, an equally cheap
\* or cheaper choice it moves with, or a full list of such choices (screen,
\* _select_shortlist).
EveryPairAccounted ==
  stage = "reported" =>
    /\ \A p \in {Canonical[q] : q \in DOMAIN Canonical} \union Range(Pairs) :
         Cardinality(Asked(p)) = Cardinality(Selected(p)) + Cardinality(Named(p, excluded))
    /\ \A n \in DOMAIN excluded :
         IF excluded[n].reason = "invalid pair format"
         THEN \E i \in DOMAIN Pairs : Pairs[i] = excluded[n].pair /\ Pairs[i] \notin DOMAIN Canonical
         ELSE \E k \in DOMAIN profiles \ Range(shortlist) :
                /\ profiles[k].pair = excluded[n].pair
                /\ TrueReason(k, excluded[n].reason)
===============================================================================
