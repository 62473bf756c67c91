--------------------------- MODULE BacktestHarness ---------------------------
(***************************************************************************)
(* core/agents/backtest_harness.py: one candidate on its way through a     *)
(* cycle.  It is proposed and checked, backtested in sample, kept or       *)
(* rejected, stressed and measured out of sample, and its curves are       *)
(* stored for the dashboard.  Each of the three stages fetches the candles *)
(* anew; between them the market goes on, the bar being formed changes,    *)
(* the provider may correct an old bar, or may fail.                       *)
(*                                                                         *)
(* Of a run of the engine the signals are computed; what it trades on them *)
(* is BacktestEngine.                                                      *)
(***************************************************************************)
EXTENDS StrategyLab, WalkForward

CONSTANTS
  LookbackCount,     \* lookback_count: candles asked for
  CostMultipliers,   \* cost_multipliers, in halves
  Request,           \* the request put to the strategy lab
  Proposals,         \* the proposals it may answer with
  InitialMarkets,    \* the candles there may be at first
  WindowConfigs,     \* walk-forward configurations
  Prices,            \* closes a later bar may have
  Steps,             \* times between two bars
  MaxChanges,        \* bound on the changes of the market
  None

MinCandles == 4
BaseCost == Half

\* Candles of one pair: one at a time, oldest first.
Candle == [time : Int, close : Int]
Candles(bars) ==
  /\ bars \in Seq(Candle) /\ bars # << >>
  /\ \A i, j \in DOMAIN bars : i < j => bars[i].time < bars[j].time

\* The values and ranges of a candidate are decimals.
Numeric(c) ==
  /\ "params" \in DOMAIN c
  /\ c.params \in [DOMAIN c.params -> Int]
  /\ \A name \in DOMAIN c.ranges : {c.ranges[name].low, c.ranges[name].high} \subseteq Int

ASSUME HarnessAssumption ==
  /\ {LookbackCount, MaxChanges} \union Prices \union CostMultipliers \subseteq Nat
  /\ Steps \subseteq Nat \ {0}
  /\ \A bars \in InitialMarkets : Candles(bars)
  /\ \A p \in Proposals : \A c \in ToSet(p.candidates) : Numeric(c)
  /\ BaseCost \notin CostMultipliers
  /\ WindowConfigs \subseteq WalkForwardConfig

VARIABLES
  market,       \* the candles of the candidate's pair, oldest first
  changes,      \* how many times the market changed
  stage,        \* how far the candidate is
  candidate,    \* the candidate followed
  evidence,     \* its BacktestEvidence in sample, or None
  robustness,   \* its RobustnessEvidence, or None
  artifacts,    \* the artifact store: the curve saved under a config_hash
  runs          \* observed: every run of the engine

vars == <<market, changes, stage, candidate, evidence, robustness, artifacts, runs>>

-----------------------------------------------------------------------------
\* Faulty variant: a run is known by what was run, not by when.
ParamsHash(bars, c, cost) == BuildStrategy(c)

\* BacktestEngine._config_hash: the parameters, and of the bars their number,
\* the first and the last.
ConfigHash(bars, c, cost) ==
  [params |-> BuildStrategy(c), cost |-> cost,
   n |-> Len(bars), first |-> bars[1], last |-> Last(bars)]

\* _run_engine, with the strategy built anew for each run.
RunEngine(bars, c, cost, segment) ==
  [at |-> stage, segment |-> segment, bars |-> bars, params |-> BuildStrategy(c),
   cost |-> cost, outcome |-> Replay(bars, BuildStrategy(c)),
   hash |-> ConfigHash(bars, c, cost)]

\* _evidence_from_result and build_artifact, down to what tells two runs apart.
Figures(run) ==
  [segment |-> run.segment, hash |-> run.hash, outcome |-> run.outcome,
   from |-> run.bars[1].time, to |-> Last(run.bars).time]

\* get_candles: the last bars of the market, the one being formed among them.
Fetched == SubSeq(market, Max({1, Len(market) - LookbackCount + 1}), Len(market))

\* _fetch and the split do not raise HarnessError.
Usable(bars) == Len(bars) >= MinCandles /\ Len(InSample(bars)) >= 2

InSampleRun(bars, c) == RunEngine(InSample(bars), c, BaseCost, "in_sample")

\* access_out_of_sample, where the holdout is long enough to run.
HoldoutRuns(bars, c) ==
  IF Len(OutOfSample(bars)) < 2 THEN {}
  ELSE {RunEngine(OutOfSample(bars), c, BaseCost, "out_of_sample")}

\* _scale_cost: the same bars at a higher cost.
StressRuns(bars, c) ==
  {RunEngine(InSample(bars), c, m, "cost_stress") : m \in CostMultipliers}

\* _neighbor: the candidate with one parameter at an end of its range.
Ends(c) == {<<name, c.ranges[name].low>> : name \in DOMAIN c.ranges}
             \union {<<name, c.ranges[name].high>> : name \in DOMAIN c.ranges}
Neighbour(c, end) == [c EXCEPT !.params[end[1]] = end[2]]

NeighbourRuns(bars, c) ==
  {RunEngine(InSample(bars), Neighbour(c, end), BaseCost, "neighbour") :
     end \in {e \in Ends(c) : Constructible(Neighbour(c, e))}}

\* _param_neighbor_result: one that cannot be built is reported as such.
NeighbourResult(bars, c, end) ==
  LET moved == Neighbour(c, end)
  IN  [name |-> end[1], value |-> end[2], constructible |-> Constructible(moved),
       outcome |-> IF Constructible(moved)
                   THEN Replay(InSample(bars), BuildStrategy(moved)) ELSE None]

RobustnessEvidence(bars, c) ==
  [in_sample     |-> Figures(InSampleRun(bars, c)),
   out_of_sample |-> {Figures(r) : r \in HoldoutRuns(bars, c)},
   cost_stress   |-> {Figures(r) : r \in StressRuns(bars, c)},
   param_sensitivity |-> {NeighbourResult(bars, c, end) : end \in Ends(c)}]

\* run_candidate_artifacts: the curves of the slices long enough to run.
Curves(bars, c) ==
  (IF Len(InSample(bars)) >= 2 THEN {InSampleRun(bars, c)} ELSE {})
    \union HoldoutRuns(bars, c)

\* BacktestArtifactStore.save of each curve: the file of its hash is replaced.
\* The two curves of one fetch end at different bars, so they have two files.
Save(store, curves) ==
  [hash \in DOMAIN store \union {r.hash : r \in curves} |->
     IF \E r \in curves : r.hash = hash
     THEN Figures(CHOOSE r \in curves : r.hash = hash) ELSE store[hash]]

-----------------------------------------------------------------------------
Init ==
  /\ market \in InitialMarkets
  /\ changes = 0
  /\ stage = "lab"
  /\ candidate = None
  /\ evidence = None
  /\ robustness = None
  /\ artifacts = << >>
  /\ runs = {}

SameMarket == UNCHANGED <<market, changes>>

\* StrategyLabAgent through the runner: a proposal that fails a check ends the
\* cycle; of an accepted one any candidate may be the one followed.
Propose(p) ==
  /\ stage = "lab"
  /\ IF ProposalAccepted(p, Request)
     THEN stage' = "proposed" /\ candidate' \in ToSet(p.candidates)
     ELSE stage' = "refused" /\ UNCHANGED candidate
  /\ UNCHANGED <<evidence, robustness, artifacts, runs>>
  /\ SameMarket

\* run_candidate: the fetch of it may be skipped for want of candles.
Backtest ==
  /\ stage = "proposed"
  /\ Usable(Fetched) /\ Constructible(candidate)
  /\ \E run \in {InSampleRun(Fetched, candidate)} :
       evidence' = Figures(run) /\ runs' = {run}
  /\ stage' = "tested"
  /\ UNCHANGED <<candidate, robustness, artifacts>>
  /\ SameMarket

\* HarnessError: the feed fails, or what it gives is too short.
Skip ==
  /\ stage \in {"proposed", "kept"}
  /\ stage' = "skipped"
  /\ UNCHANGED <<candidate, evidence, robustness, artifacts, runs>>
  /\ SameMarket

\* What the backtest agent's triage leads to.
Triage ==
  /\ stage = "tested"
  /\ stage' \in {"kept", "killed"}
  /\ UNCHANGED <<candidate, evidence, robustness, artifacts, runs>>
  /\ SameMarket

\* run_robustness.
Robustness ==
  /\ stage = "kept"
  /\ Usable(Fetched) /\ Constructible(candidate)
  /\ \E bars \in {Fetched} :
       /\ robustness' = RobustnessEvidence(bars, candidate)
       /\ runs' = runs \union {InSampleRun(bars, candidate)} \union HoldoutRuns(bars, candidate)
                       \union StressRuns(bars, candidate) \union NeighbourRuns(bars, candidate)
  /\ stage' = "stressed"
  /\ UNCHANGED <<candidate, evidence, artifacts>>
  /\ SameMarket

\* run_candidate_artifacts and the saves of it, best effort.
Persist ==
  /\ stage = "stressed"
  /\ Len(Fetched) >= MinCandles /\ Constructible(candidate)
  /\ \E bars \in {Fetched} :
     \E curves \in {Curves(bars, candidate)} :
       /\ curves # {}
       /\ artifacts' = Save(artifacts, curves)
       /\ runs' = runs \union curves
  /\ stage' = "done"
  /\ UNCHANGED <<candidate, evidence, robustness>>
  /\ SameMarket

PersistFails ==
  /\ stage = "stressed"
  /\ stage' = "done"
  /\ UNCHANGED <<candidate, evidence, robustness, artifacts, runs>>
  /\ SameMarket

-----------------------------------------------------------------------------
SameCandidate == UNCHANGED <<stage, candidate, evidence, robustness, artifacts, runs>>

\* The market: another bar, or another close of a bar there was.
NewBar ==
  /\ stage \in {"lab", "proposed", "tested", "kept", "stressed"}
  /\ changes < MaxChanges
  /\ \E gap \in Steps, close \in Prices :
       market' = Append(market, [time |-> Last(market).time + gap, close |-> close])
  /\ changes' = changes + 1
  /\ SameCandidate

Restate ==
  /\ stage \in {"proposed", "tested", "kept", "stressed"}
  /\ changes < MaxChanges
  /\ \E i \in DOMAIN market, close \in Prices :
       /\ close # market[i].close
       /\ market' = [market EXCEPT ![i].close = close]
  /\ changes' = changes + 1
  /\ SameCandidate

Next ==
  \/ \E p \in Proposals : Propose(p)
  \/ Backtest
  \/ Skip
  \/ Triage
  \/ Robustness
  \/ Persist
  \/ PersistFails
  \/ NewBar
  \/ Restate

Spec == Init /\ [][Next]_vars

Finished == stage \in {"refused", "skipped", "killed", "done"}

-----------------------------------------------------------------------------
(***************************************************************************)
(* Properties.                                                             *)
(***************************************************************************)

Earliest(bars) == bars[1].time
Latest(bars) == Last(bars).time

\* The stages in which the harness runs, in their order.
Rank == [proposed |-> 1, kept |-> 2, stressed |-> 3]

\* No run of the engine, a neighbour's included, leaves the archetype's hard
\* limits in any of the four parameters: the checks of the strategy lab fence the
\* value and both ends of its range, also when the robustness stage moves one
\* parameter by itself.
RunsWithinLimits == \A r \in runs :
  /\ r.params.fast \in ParamSpecs.fast_period.minimum..ParamSpecs.fast_period.maximum
  /\ r.params.slow \in ParamSpecs.slow_period.minimum..ParamSpecs.slow_period.maximum
  /\ r.params.fast < r.params.slow
  /\ r.params.size >= Half * ParamSpecs.size.minimum
  /\ r.params.size <= Half * ParamSpecs.size.maximum
  /\ r.params.stop >= Half * ParamSpecs.stop_distance_pips.minimum * PipSize(r.params.pair)
  /\ r.params.stop <= Half * ParamSpecs.stop_distance_pips.maximum * PipSize(r.params.pair)

\* A strategy decides on the past alone: two runs of the same parameters over
\* candles that agree up to some bar have the same signals up to that bar,
\* whatever came later and whatever was run between them.
SignalsUpTo(r, k) == {signal \in ToSet(r.outcome.signals) : signal.bar <= k}

NoLookAhead == \A r, s \in runs :
  r.params = s.params =>
    \A k \in 1..Min({Len(r.bars), Len(s.bars)}) - 1 :
      SubSeq(r.bars, 1, k) = SubSeq(s.bars, 1, k) => SignalsUpTo(r, k) = SignalsUpTo(s, k)

\* The holdout is unseen: every bar of an out-of-sample run is later than every
\* bar of the in-sample, stress and neighbour runs before it in the cycle,
\* although each stage fetches and splits anew while the market goes on.
HoldoutUnseen == \A r, s \in runs :
  /\ r.segment = "out_of_sample"
  /\ s.segment # "out_of_sample"
  /\ Rank[s.at] <= Rank[r.at]
  => Latest(s.bars) < Earliest(r.bars)

\* The holdout is the smaller slice of every window that may be fetched.
HoldoutShorter == \A n \in MinCandles..LookbackCount : 2 * OosSize(n) < n

\* The dashboard shows beside an evidence the curve stored under its hash: that
\* curve is of the same span, or there is none; and of the same segment, unless
\* what was held out at one fetch can be all of what is in sample at a later one
\* (_config_hash, run_candidate_artifacts).
CurveIsOwn ==
  robustness # None =>
    \A f \in {evidence, robustness.in_sample} \union robustness.out_of_sample :
      f.hash \in DOMAIN artifacts =>
        /\ artifacts[f.hash].from = f.from
        /\ artifacts[f.hash].to = f.to
        /\ HoldoutShorter => artifacts[f.hash].segment = f.segment

\* A walk forward over the in-sample slice trains on bars before those it tests
\* on; and when the step is the length of a test, every bar past the first
\* training window is tested exactly once, at the end of the data too, unless
\* there is no bar in the training window before it.
TestsTile ==
  LET bars == InSample(market)
  IN  \A cfg \in WindowConfigs :
        LET windows == WalkForwardWindows(bars, cfg)
            Tests(b) == {k \in DOMAIN windows : b \in windows[k].test}
            Trained(b) ==
              \E n \in 0..(b.time - Earliest(bars)) :
                LET cursor == Earliest(bars) + n * cfg.step
                IN  /\ b.time \in (cursor + cfg.train)..(cursor + cfg.train + cfg.test - 1)
                    /\ \E a \in ToSet(bars) : a.time \in cursor..(cursor + cfg.train - 1)
        IN  /\ \A k \in DOMAIN windows :
                 \A a \in windows[k].train, b \in windows[k].test : a.time < b.time
            /\ cfg.step >= cfg.test => \A b \in ToSet(bars) : Cardinality(Tests(b)) <= 1
            /\ cfg.step = cfg.test => \A b \in ToSet(bars) : Trained(b) => Tests(b) # {}
=============================================================================
