------------------------------ MODULE Strategy ------------------------------
(***************************************************************************)
(* core/strategy.py: the archetype registry, the validation and building   *)
(* of a proposed candidate, the view of the past a strategy decides on,    *)
(* and the moving-average crossover, the one registered archetype.         *)
(*                                                                         *)
(* Parameter values are counted in halves, so that values that are not     *)
(* whole exist; prices in halves of 0.0001, so that a stop in half pips    *)
(* times the pip size is a price.  A candidate's lists of parameters and   *)
(* ranges are the dictionaries they are read as.                           *)
(***************************************************************************)
EXTENDS Integers, SequencesExt

CONSTANTS
  JpyQuoted,   \* the pairs quoted in yen
  NoDiff       \* None: the averages have not been compared yet

Half == 2

\* The hard limits of the archetype ma_crossover.
ParamSpecs ==
  [fast_period        |-> [minimum |-> 2, maximum |-> 200, integer |-> TRUE],
   slow_period        |-> [minimum |-> 3, maximum |-> 400, integer |-> TRUE],
   size               |-> [minimum |-> 1, maximum |-> 10000000, integer |-> FALSE],
   stop_distance_pips |-> [minimum |-> 5, maximum |-> 500, integer |-> FALSE]]

ParamNames == DOMAIN ParamSpecs
Registered == {"ma_crossover"}

Whole(v) == v % Half = 0

\* Faulty variant: the upper end of a range is not limited.
RangeFromMinimum(name, r) ==
  /\ r.low < r.high
  /\ r.low >= Half * ParamSpecs[name].minimum
  /\ ParamSpecs[name].integer => Whole(r.low) /\ Whole(r.high)

ValidRange(name, r) ==
  /\ r.low < r.high
  /\ r.low >= Half * ParamSpecs[name].minimum
  /\ r.high <= Half * ParamSpecs[name].maximum
  /\ ParamSpecs[name].integer => Whole(r.low) /\ Whole(r.high)

ValidValue(name, v, r) ==
  /\ ParamSpecs[name].integer => Whole(v)
  /\ v >= Half * ParamSpecs[name].minimum
  /\ v <= Half * ParamSpecs[name].maximum
  /\ r.low <= v /\ v <= r.high

\* validate_candidate returns no errors.
ValidCandidate(c) ==
  /\ c.archetype \in Registered
  /\ DOMAIN c.params = ParamNames
  /\ DOMAIN c.ranges = ParamNames
  /\ \A name \in ParamNames :
       /\ ValidRange(name, c.ranges[name])
       /\ ValidValue(name, c.params[name], c.ranges[name])

-----------------------------------------------------------------------------
PipSize(pair) == IF pair \in JpyQuoted THEN 100 ELSE 1

\* int(): towards zero; the values are not negative.
Truncated(v) == v \div Half

\* build_strategy raises nothing: no parameter is missing, and the
\* constructor of the crossover accepts the values.
Constructible(c) ==
  /\ c.archetype \in Registered
  /\ ParamNames \subseteq DOMAIN c.params
  /\ 0 < Truncated(c.params.fast_period)
  /\ Truncated(c.params.fast_period) < Truncated(c.params.slow_period)
  /\ c.params.size > 0
  /\ c.params.stop_distance_pips > 0

BuildStrategy(c) ==
  [pair |-> c.instrument,
   fast |-> Truncated(c.params.fast_period),
   slow |-> Truncated(c.params.slow_period),
   size |-> c.params.size,
   stop |-> c.params.stop_distance_pips * PipSize(c.instrument),
   prev |-> NoDiff]

-----------------------------------------------------------------------------
\* Faulty variant: an off-by-one lets the bar of the fill be seen.
ViewWithNext(bars, i) == SubSeq(bars, 1, i + 1)

\* PointInTimeView: the bars up to and with bar i, and nothing later.
View(bars, i) == SubSeq(bars, 1, i)

\* Closes of the last n visible bars.
Closes(view, n) ==
  [k \in 1..n |-> view[Len(view) - n + k].close]

\* fast_ma - slow_ma, multiplied by both periods.
Diff(s, view) ==
  LET Sum(n) == FoldLeft(LAMBDA a, b : a + b, 0, Closes(view, n))
  IN  s.slow * Sum(s.fast) - s.fast * Sum(s.slow)

Crossed(prev, diff) ==
  CASE prev = NoDiff              -> "none"
    [] prev <= 0 /\ diff > 0      -> "long"
    [] prev >= 0 /\ diff < 0      -> "short"
    [] OTHER                      -> "none"

\* The order proposed at a cross; a stop that is no price makes it raise.
Signal(s, direction, close) ==
  [direction |-> direction, entry |-> close,
   stop |-> IF direction = "long" THEN close - s.stop ELSE close + s.stop]

\* One call of decide: the strategy after it, the signals, and whether it raised.
Decide(s, view) ==
  IF Len(view) < s.slow
  THEN [strategy |-> s, signals |-> << >>, raised |-> FALSE]
  ELSE LET diff   == Diff(s, view)
           way    == Crossed(s.prev, diff)
           sig    == Signal(s, way, Last(view).close)
           raises == way # "none" /\ sig.stop <= 0
       IN  [strategy |-> IF raises THEN s ELSE [s EXCEPT !.prev = diff],
            signals  |-> IF raises \/ way = "none" THEN << >> ELSE <<sig>>,
            raised   |-> raises]

\* What the strategy proposes over a run of the engine: a decision at every bar
\* but the last, which only fills, until one raises.
Replay(bars, strategy) ==
  LET upTo[i \in 0..Len(bars) - 1] ==
        IF i = 0 THEN [strategy |-> strategy, signals |-> << >>, raised |-> FALSE]
        ELSE IF upTo[i - 1].raised THEN upTo[i - 1]
        ELSE LET d == Decide(upTo[i - 1].strategy, View(bars, i))
             IN  [d EXCEPT !.signals = upTo[i - 1].signals \o
                    [k \in DOMAIN d.signals |-> [bar |-> i, order |-> d.signals[k]]]]
  IN  upTo[Len(bars) - 1]
=============================================================================
