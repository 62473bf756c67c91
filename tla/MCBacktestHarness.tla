-------------------------- MODULE MCBacktestHarness --------------------------
(***************************************************************************)
(* Two sound candidates, one of them quoted in yen, and one proposal for   *)
(* every way to fail a check.  Holding out a third of seven bars leaves    *)
(* five in sample, enough for one decision after the first comparison.     *)
(***************************************************************************)
EXTENDS BacktestHarness

CONSTANTS EURUSD, USDJPY

MCJpyQuoted == {USDJPY}
MCOosFraction == <<1, 3>>
MCRequest == LabRequest("now", {EURUSD, USDJPY}, {"H1"}, 2)

Params(fast, slow, stop) ==
  [fast_period |-> fast, slow_period |-> slow, size |-> 2000, stop_distance_pips |-> stop]

Ranges == [fast_period |-> ParamRange(4, 6), slow_period |-> ParamRange(6, 8),
           size |-> ParamRange(1000, 4000), stop_distance_pips |-> ParamRange(10, 14)]

Sound == StrategyCandidate("now", EURUSD, "H1", Params(4, 6, 12), Ranges, FALSE)

P(candidates) == StrategyProposal("now", candidates)

\* Ranges with one end half a unit or one whole unit outside the hard limits.
OutOfBounds ==
  { <<"fast_period", ParamRange(2, 6)>>, <<"slow_period", ParamRange(6, 802)>>,
    <<"size", ParamRange(1, 4000)>>, <<"size", ParamRange(1000, 20000001)>>,
    <<"stop_distance_pips", ParamRange(9, 14)>>,
    <<"stop_distance_pips", ParamRange(10, 1001)>> }

MCProposals ==
  { P(<<Sound, [Sound EXCEPT !.instrument = USDJPY]>>),
    P(<< >>),
    P(<<Sound, Sound, Sound>>),
    StrategyProposal("other", <<Sound>>),
    P(<<[Sound EXCEPT !.run_id = "other"]>>),
    P(<<[Sound EXCEPT !.instrument = "elsewhere"]>>),
    P(<<[Sound EXCEPT !.timeframe = "M5"]>>),
    P(<<[Sound EXCEPT !.intent = TRUE]>>),
    P(<<[Sound EXCEPT !.params = Params(6, 6, 12)]>>),
    P(<<[Sound EXCEPT !.params = Params(5, 6, 12)]>>) }
  \union {P(<<[Sound EXCEPT !.ranges[out[1]] = out[2]]>>) : out \in OutOfBounds}

\* Bars an hour apart with a weekend between them.
Market(closes, weekend) ==
  [k \in DOMAIN closes |-> [time |-> IF k > weekend THEN k + 3 ELSE k, close |-> closes[k]]]

MCInitialMarkets ==
  { Market(<<24, 22, 20, 22, 26, 24, 22>>, 9),
    Market(<<20, 22, 24, 20, 18, 22, 24>>, 2),
    Market(<<14, 12, 10, 11, 14, 12>>, 4),
    Market(<<20, 22, 24>>, 9) }

W(train, test, step) == [train |-> train, test |-> test, step |-> step]

MCWindowConfigs == {W(2, 1, 1), W(2, 2, 2), W(1, 2, 3), W(3, 2, 1), W(1, 1, 1)}
=============================================================================
