# 4XPrima: models, checks and proofs

4XPrima is a paper-trading research system for foreign exchange. It has two loops.
The **fast loop** is deterministic: prices, a strategy, a risk manager, an execution
engine, a broker. The **slow loop** is a chain of LLM agents that proposes strategies,
backtests and criticises them, and files the survivors for a human. Around them lie the
adapters that fetch data, a screener that picks the pairs, and a read-only dashboard. This directory holds
TLA+ models of the code in `src/`, the TLC runs that check them on small instances, and
the TLAPS proofs of what holds for every instance. `PROJECT.json` maps every definition to
the lines it models.

## 1. Inventory

| Component (`src/core/...`) | State | Operations | Interacts with | What can go wrong |
|---|---|---|---|---|
| Risk manager `risk_manager.py` | kill switch (cause or clear) | `evaluate`, `trip`, `reset` | asked by the engine and the backtest | order of the gates; rounding of a resized order; a cause overwritten |
| Paper broker `paper_broker.py` | cash, positions, realized result, peak | `get_account_state`, `place_order`, `close_position` | reads the price feed several times per call | the feed fails after money was booked; prices move between calls |
| Execution engine `execution.py` | none between calls | `submit` | broker, risk manager, operator | decides on a snapshot, acts later; failures must halt |
| Backtest engine `backtest/engine.py`, `costs.py`, `metrics.py` | broker, live trades, trade log, signals, equity curve | `run` | risk manager, strategy | several ledgers; stale snapshot within a bar; halts on several paths |
| Economics `analysis/economics.py` | none | the economic read of a run, its flags | evidence of the engine, dashboard | a cost counted twice; open losers unseen |
| Strategy, archetypes `strategy.py` | last difference of the averages | `decide`, `validate_candidate`, `build_strategy` | engines, lab | looking ahead; parameters outside the limits |
| Walk-forward and harness `backtest/walkforward.py`, `agents/backtest_harness.py` | count of holdout accesses | splits, windows, three stages that run the engine | engine, market data | boundaries; each stage fetches and splits anew |
| Artifact store `orchestration/artifact_store.py` | curves by hash, on disk | `save`, `get` | orchestrator, dashboard | a hash that does not name one run |
| Strategy lab, backtest, critic, reporting agents `agents/*_agent.py` | none | build a request, check an answer (Tier 1) | runner, orchestrator | what the checks let through, one after another |
| Orchestrator `orchestration/orchestrator.py` | cost and results of a cycle, in memory | `run_cycle` | four agents, harness, registry, queue | crash between two files; answers an LLM chose; budget |
| Registry `orchestration/registry.py` | one entry per strategy identity, on disk | four writes | orchestrator, dashboard | re-proposed strategies; order of verdicts |
| Approval queue `orchestration/approval_queue.py` | entries, on disk | `append` | orchestrator, the human, dashboard | duplicates; entries the registry contradicts |
| Agent runner, budget, gate `agents/runner.py`, `evaluation.py` | budget tracker, in memory | `run`, `reset_cycle` | LLM client, recorder, orchestrator | retries that pay twice; costs forgotten, repeated or not told; no latch on a breach |
| LLM client, usage accounting `llm_client.py`, `usage_accounting.py` | usage log, in a database | one call, one insert | the provider | errors told apart; an insert that fails after the call was paid |
| Context data `context_data.py`, market context agent | connections | calendar, series, news; the brief | the network, runner | retries that do not end; weekly files and windows; one failure that costs all |
| Market data `market_data.py` | connections | candles, quotes | the network; screener, harness | values that cannot be read |
| Pair screener `analysis/pair_screener.py` | report under construction | `screen` | market data | selection rules over missing figures |
| Dashboard `api/`, `web/` | none | read files | registry, queue, cycles, curves | reads that do not belong together |
| Configuration, scripts | none | wiring | all | |

The hard behaviour is of four kinds: *partial failure* (a call raises after part of its
effect, and the loops must stay safe), *stale decisions* (a snapshot, a split, a verdict or a
dictionary used after what it describes has changed), *crashes between durable writes*, and
*answers nobody controls* (an LLM's, a provider's) that pass check after check. Nothing in
the core runs on two threads: the risk manager, the budget tracker and the registry are
documented as single-threaded or single-process, and the models interleave only what the
code really interleaves: the market, the clock, the operator, the human, and crashes.
`PROJECT.json` lists every hazard at its line with the property that covers it.

## 2. Modules

```
TradingModels  Totals            models.py's records; sums and rounding
   |     \       |
   |      RiskManager            gates, resize, kill switch
   |       |         \
 PaperBroker          \      CostModel
       \   |           \        |
   ExecutionEngine      \   BacktestBroker
       |                 \      |
       |                 BacktestEngine ---> Economics
       \_______ GuardedBook _____/        abstract: what both promise

 Strategy -> StrategyLab --\
 WalkForward ---------------> BacktestHarness        one candidate, up to its stored curves

 ReviewDesk                                          from the backtests to the report

 CandidateRegistry -> ApprovalQueue -> Orchestrator   --implements-->  ReviewGate

 Totals -> LlmClient -> AgentRunner                   --implements-->  BudgetedCall

 NoValue -> HttpRequest -> ContextData -> MarketContext      one brief
        \-> MarketData -> PairScreener                       one screen
```

`MC*` modules give the constants of a run; `*_proofs` modules hold theorems.
`MarketInputs_proofs` is about both `PairScreener` and `MarketContext`, which take their `None`
from one place (`NoValue`).

**Fast loop.** `submit()` is split where the world can change: at each call it makes to the
broker. `stage` is its program counter (`idle`, `account`, `gate`, `place`), `account` the
snapshot it decides on. `ReadAccount`, `GateRejects`, `GateAccepts` and `PlaceOrder` are its
numbered stages and the `...Fails` actions its exception handlers, which trip the switch. A
broker call asks the feed for several quotes; each may be any of `Quotes` or fail (`None`).
`PlaceBooks` with a missing mark is the call that raises after it booked. `OperatorTrips`,
`OperatorResets` and `ClosePosition` act between submissions. Decimal prices, sizes and
money are integers in units of their quantum; percentages are compared by cross
multiplication; only the resize divides, and rounds as `Decimal.quantize` does.
`unitsOpened`, `phantoms` and `submissions` are observed only, as is `requested`.

**Backtest.** The broker is a record and its methods are operators from broker to broker,
because `run()` calls them in the middle of one bar. One action starts a bar (roll the day,
mark, sample, defensive check, ask the strategy), one handles one signal, one ends a bar
(swap, next bar), one finishes the run. Every exception that escapes `run()` is an action of
its own that ends in phase `raised`. The strategy returns any list of `Proposals` or raises.
Time is in hours, so that the rollover calendar is exact. `Economics` reads what this engine
leaves behind: its evidence is computed from the ledgers of the run, not chosen, so that the
question is what the figures of one module mean to the other.

**Research.** `BacktestHarness` takes one candidate from the lab's answer through the three
stages that fetch and split the candles anew: the backtest, the robustness runs with the
holdout, and the curves. Between two stages the market adds a bar (`NewBar`) or corrects one
(`Restate`), the one still being formed included. `Signals` runs the crossover bar by bar with the difference it
remembers; what an engine trades on the signals is `BacktestEngine`. Parameters are counted
in halves, so that values that are not whole exist. `WalkForward` is pure: splits of a
sequence of bars, and windows by the cursor of the loop that makes them.

**Review desk.** `ReviewDesk` is the inside of one cycle at the level of what the agents say.
The harness measures any of `RawMetrics`; each agent then gives any of the answers the
instance lists, and the whole of its Tier-1 check, rule by rule, decides whether the cycle
goes on. `RouteKill` and `RouteSurvivor` take the verdicts one by one. At the end the
reporting agent retells the cycle, and `ApprovalItem` is what the dashboard makes of the
report. The files, crashes and the budget are `Orchestrator`'s, which in turn takes any answer
with known ids: the two models meet at `_run_pipeline`.

**Slow loop.** One action per durable write (`UpsertNext`, `RecordNext`, `KillNext`,
`RouteKill`, `RouteSurvivor`, `FileSurvivor`, `MarkQueued`), one per agent call, one per
decision between them. `work` is what `_run_pipeline` holds in local variables and is lost
at a return or a `Crash`; the registry and the queue are replaced atomically and survive.
Candidate ids are what the lab chose: the models keep Python's dictionary semantics for
repeated ids. An agent call is refused by the budget, fails, exceeds its own budget, or
returns any answer the id checks of its Tier-1 gate let through: repeated and missing
verdicts included. `HumanAuthorizes` stands for the approval surface that is not built; it
acts on queued candidates between cycles, for the registry is single-process. Evidence is
represented by the identity of the strategy it was computed for.

**Agent runner.** One action per way a call of the provider can end and per decision between
two calls. `stage` is the program counter of `run()`; `call`, `attempt` and `usage` are its
locals. `Retry`, `GiveUp`, `FatalError` and `Answer` are the branches of the retry loop,
told apart by `LlmClient`'s classes of SDK outcomes; `RaiseOnPrompt`, `RaiseOnCost` and
`Settle` are `BudgetTracker.record`; `Reject`, `Accept` and the judge's actions are the two
tiers of the gate. `usageLog` is the database and survives `Restart`; `cycleCost` is the
tracker and does not. Costs are the code's prices in millionths of a dollar, rounded as
`quantize` does. `told` and `mark` are observed only. `Orchestrator` takes a run as one step
with the outcomes `BudgetedCall` lists: that it may is what the refinement shows.

**Market context.** `HttpRequest` is the loop around one GET, the same in both adapters.
`ContextData` is the parsing: rows that are dropped, raise or become events, duplicates, the
weekly files, the windows. `MarketContext` assembles a brief request by request; the clock
(`Tick`) runs between any two steps, so the file called this week may turn while `upcoming`
waits for it. Times are days; a release belongs to the week of its file. A filtered list is
`Kept`, the items at a set of positions in their order; a list sorted by time is the same with
the positions ranked by `NthSoonest`, which keeps the order of equal times as Python's sort
does. The tasks of a brief are numbered: the upcoming releases, the recent ones, each series
by name, and the news. The next-state relation is `ContextNext`; the steps of it that are the
run's own are `Assemble`.

**Screener.** `MarketData` says what `get_candles` and `get_quote` make of an answer, each
exception included. `PairScreener` screens pair by pair and then selects profile by
profile. Ratios are pairs of integers compared by multiplication; a correlation is compared
with the limit by squares, exactly, where the code rounds to six places.

**Abstract specifications.** `GuardedBook`: a bounded book that grows by one position, never
while halted. The fast loop and the backtest both implement it. `ReviewGate`: a strategy
reaches the inbox after it was tested and then survived, once per cycle; only the human
authorizes. The orchestrator implements it, crashes included. `BudgetedCall`: a run is one
step that ends; its cost is told with its result while the total is within the cap, or it
breaks the cap and is raised. The agent runner implements it.

Definitions called "Faulty variant" are used by no specification. They are the plausible
bugs against which each property is tested: with the variant in place of the definition it
varies, TLC finds the property violated.

## 3. Runs

| Run | Question | Bounds |
|---|---|---|
| `fast_loop` | Does the engine keep every cap, halt and ledger when prices move and fail at every call? | 3 submissions of 4 orders (resized, rejected, approved, degenerate stop), 3 quotes from crash to rally, book of 2 |
| `fill_iff_booked` (violated) | Is a fill reported exactly when the broker booked? | same |
| `backtest` | Do the ledgers reconcile, does every breach end the run flat, and is a losing run flagged, over every small history? | 216 histories of 4 bars with a weekday and a Wednesday rollover, 5 lists of up to 2 signals, 2 in-sample reads |
| `net_expectancy` (violated) | Is the net expectancy what the account gained per trade? | same |
| `research` | Do runs stay within the limits and in the past, is the holdout later than all that was run before it, is a curve shown with its own evidence? | 16 proposals, 4 markets of 3 to 7 bars, 2 changes of the market, a third held out, 5 window configurations |
| `review_desk` | Does the operator see what was measured and objected to, and only what earned it? | 2 candidates, 2 sets of figures, up to 2 faithful verdicts an answer or one with any one field altered |
| `slow_loop` | Do registry and queue tell one story over crashes, re-proposals and odd answers? | 2 cycles, 2 strategies, 4 proposals with clashing ids and identities, 2 verdicts an answer, 2 costs |
| `champion_kept` (violated) | Does the orchestrator leave alone what the human authorized? | same |
| `agent_runs` | Do tracker, log and caller agree on what was spent, over every failure and retry? | 3 runs, 2 attempts, 2 tiers, 3 usages, a cap the second answer may break, a sampled judge |
| `market_context` | Does the brief show what the calendar holds in its windows, and does a failure cost only its part? | 2 calendars over 3 weeks, 4 days of clock, 2 attempts, 3 series of which one is unknown, windows of 5 and 6 days |
| `upcoming_complete` (violated) | Does `upcoming` return every release of its window? | same, windows of 3 days and 1 |
| `pair_screen` | Is the shortlist diverse and cheapest first, and each pair on it or left out for a true reason? | 5 names, one spelt twice and one misspelt, 4 bars, up to 4 histories and 3 quotes each, a shortlist of 3 |

**Why the bounds are enough.** Three submissions fill a book of two and meet it full; the
quotes take the account from profit to below zero, so every gate fires. Four bars are the
fewest in which a lot is opened, held over a rollover and closed or flattened before the
last bar. Two cycles are the fewest in which a strategy comes back, two candidates the
fewest that clash; the budget of 8 with calls of 1 or 3 and a ceiling of 2 makes the
pre-check refuse, pass exactly and be overrun. Three runs are enough to spend, to breach and
to call again after the breach; tokens are counted by the dozen instead of the thousand, at
the code's own prices, so that the halves that `quantize` rounds occur. A third of seven bars
leaves five in sample, the fewest in which the crossover with its smallest periods compares
twice; two changes of the market are a new bar in each pause, or a new bar and a correction. Each
check of a desk agent looks at one field or at one pair of verdicts, so one altered field and
two verdicts reach each of them. The brief is asked for on a Friday or a Saturday, so that its
windows and its waits cross the week in both directions. A pair that moves with another,
one that moves against it, one without a time in common and one without an average are the
cases a correlation has. Every action of every specification fires.

**Deadlock** checking is off in all runs: the engine idles when its bounded submissions are
used up; a backtest, a candidate, a desk, a brief and a screen end; and the last cycle or
agent run may be followed by nothing. That nothing stops in the middle is what
`SubmissionReturns`, `Terminates`, `CycleReturns`, `BriefReturns` and the liveness part of
`BudgetedCall` check.

**Fairness.** Each specification that states it has weak fairness of the program's own steps
only: a sequential program that can go on does (`EngineStep`, `Step`, `CycleStep`, `RunStep`,
`Assemble`); every call of the LLM provider and every GET ends, for both have a timeout.
Nothing is assumed of the operator, the human, the market, the clock, or of who starts a
submission or a cycle; a cycle may crash.

### What the violated runs show

- *Fill.* `place_order` books, then re-marks the book; a quote that fails there raises, and
  the result has no fill for a position that is open. `PhantomHalts` shows that trading is
  halted then, which is why this is not worse.
- *Net expectancy.* The economics subtracts a run's cost breakdown from the profit of its
  trades, but the fill prices already contain spread and slippage: both count twice, and a
  swap that was paid counts as income. The flag to retire rests on the sign of the result.
- *Champion.* `upsert_proposed` resets any state to PROPOSED, a champion's too.
- *Upcoming.* Next week's file is read only for windows of more than four days, whatever the
  day: on a Friday a window of three days misses the Monday.

### Divergences that have no run of their own

Each is noted at its hazard in `PROJECT.json`, with the text it contradicts; the models
contain the behaviour and the properties are stated so as to hold with it.

- An account without positive equity is rejected before the drawdown gate is asked, so the
  largest loss of all leaves the switch clear (`risk_manager.py:259`).
- A lot opened at the bar after a rollover pays for it, one closed there does not
  (`engine.py:612`).
- An account flattened below zero makes the annualised return complex, and the run raises
  instead of returning its log (`metrics.py:124`).
- Two verdicts on one strategy leave a pending entry that the registry calls killed
  (`orchestrator.py:370`).
- Candidate ids are not checked to be distinct, and evidence is looked up by id
  (`orchestrator.py:308`).
- Nothing latches a breach of the cost cap: the next run is dispatched, paid for, and raises
  again (`runner.py:91`).
- The hash of a run covers the number and the ends of its candles only, so equal hashes do
  not mean equal results after a correction (`engine.py:768`).
- A failing calendar, or one row with a bad currency, ends the whole brief
  (`market_context_agent.py:386`); one price that is no number ends the whole screen
  (`pair_screener.py:497`).

## 4. Properties

*Fast loop.* `SnapshotFresh`: the book, peak and order judged are those acted on.
`PlacedWithinCaps`: the order about to be placed, resized or not, joins the real book within
every cap (up to half a quantum of the rounded division). `LedgerBalanced`, `PhantomHalts`,
`HaltFreezesExposure`, `SubmissionReturns`, `ImplementsGuardedBook`; `ConcurrencyCap` and
`FirstCauseKept` are proved and have no run.

*Backtest.* `EveryTradeRecorded`: live trades, lots, swap accumulators and log stay in step,
and a halted run ends flat. `Reconciles`: cash, cost breakdown and trade log explain each
other. `OpensWithinLimits`: the account a lot's signal is judged by counts every fill of the
bar's earlier signals and is within both loss limits; the account that opens the lot is too,
except in a reversal (`engine.py:567`): it closes the lot it faces at the next open, after its
signal was judged, and opens the new one without a second judgement. No text promises one,
and in the run the close does take the account past both limits before the lot is opened.
`BreachEndsRun`, `Terminates`, `ImplementsGuardedBook`. `LoserRetired`: a run that lost money is flagged to retire, as the only window and as the
holdout of any other, also when its closed trades won and an open one lost it.

*Research.* `RunsWithinLimits`: each run that is started, neighbours included, is of a strategy
within its archetype's limits in all four parameters. `NoLookAhead`: the signals of a bar are
those of the run over a history cut off there. `HoldoutUnseen`: however the market went on
between the fetches, the holdout is later than every bar that was run before it.
`CurveIsOwn`: the curve stored under an evidence's hash is of the same span, also after a correction, and of the same segment where
the holdout is the smaller slice (`HoldoutShorter`): with half of the candles held out, and as
many new ones before the curves are stored, the holdout of one fetch is in sample at the next.
`TestsTile`: no window trains on what it tests, and the test windows neither overlap nor skip
a bar that a training window with data precedes.

*Review desk.* `ReportFaithful`, `QueueEarned`, `CountsAddUp`: what the operator reads of the
figures, the concerns and the counts is what the harness and the critic produced, whatever
the three agents answer.

*Slow loop.* `TrailComplete`: an entry's state is backed by its evidence and verdict.
`QueuedHasEntry`: what is called queued or authorized was filed by the same run, exactly once.
`NoSurvivorDropped` (except by a crash), `CostBounded`, `CycleReturns`, `ImplementsReviewGate`.

*Agent runner.* `TrackerMatchesLog`: the tracker in memory is the sum of the logged answers it
should count, whatever was retried, rejected, raised, reset or died. `OneAnswerPerRun`: no run
is answered or judged twice. `ImplementsBudgetedCall`.

*Market context.* `BriefExact`: the brief lists releases of its windows, once and in order, and
misses none that matters unless the week turned while it was fetched. `FailureContained`: a
failing series or news search costs only its own part, and what each series shows is its own
last two values. `BriefReturns`.

*Screener.* `ShortlistDiverse`: the shortlist is eligible, within its limit, cheapest first,
and no two of it move together. `EveryPairAccounted`: each name of the configuration is on
the shortlist or left out, as often as it was asked for, for a reason that is true of it.

## 5. Proofs

What holds on the instances of section 3 is proved for every value of the constants by
TLAPS, as far as it goes. Each proof has an inductive invariant that TLC was asked for first;
`PROJECT.json` lists the theorems.

**Shared lemmas.** `Totals_proofs` proves that `Total`, defined by counting, is a sum
(`TotalType`, `TotalEmpty`, `TotalOne`, `TotalAppend`, `TotalZero`, `TotalLast`) and bounds the rounded
quotient (`RoundedQuotientBounds`). The library's induction theorems take a predicate for a
parameter, which the provers cannot instantiate; `LeastElement` and `Reached` stand for them:
a set of numbers has a least element, and a set that has the successor of each of its members
reaches the last. `NoEndlessFall`, from the first, is what a termination proof needs: no
sequence of triples of naturals falls (`Falls`, the lexicographic order) at every step. With
the other two, the loops written as recursive functions are proved to
compute what they should: the ordered ids of a dictionary (`OrderedPositions`), the replay of
a strategy (`ReplayLoop`) and the list of profiles left out (`LeftOutLoop`).

**Fast loop.** `ExecutionEngine_proofs`, for every set of orders and quotes, every configuration
the validators admit (`RiskConfigAssumption`, `PaperBrokerConfigAssumption`,
`EngineAssumption`) and any number of submissions:

1. `Typing`: `TypeOK` is inductive by itself; the lemmas before it type each operator.
2. `Safety`: `SafetyInv` is inductive relative to `TypeOK`. It joins `SnapshotFresh`,
   `PlacedWithinCaps`, `ConcurrencyCap`, `LedgerBalanced` and `PhantomHalts`, and the join is
   what makes it inductive: the caps say nothing of the broker's book unless the snapshot is
   still fresh when the order is placed, and the concurrency cap holds after a placement
   only because the gate saw the same book. `ResizeSound` and `GateSound` are the
   arithmetic: what the gates accept respects the caps, after rounding too.
3. `SnapshotAlwaysFresh`, `CapsRespected`, `BookBounded`, `LedgerAlwaysBalanced`,
   `PhantomAlwaysHalts`: its parts.
4. `FirstCauseAlwaysKept`, `HaltAlwaysFreezes`: the action properties, from `Safety`.
5. `Implementation`: `Spec` implements `GuardedBook`, step by step.

**Backtest.** `BacktestEngine_proofs`, for every history of bars in order, every strategy, every
configuration of risks and costs and any length of the run:

1. `EngineConsistent`: `EngineInv` is inductive. `Data` types the ledgers, which hold one lot at
   most; `Trading` says that a run that is trading is not halted, judges the account it has,
   and is flat once halted; `Books` that the lots, the live trades, the swap accumulators and
   the log are those of one book (`BookOK`), and at the end what the properties state; `Highs`
   that the broker's peak is that of the curve (`Peaks`), and no sample before the last
   breached the cap. The stale snapshot of a bar is harmless only because `Trading` says that
   it is the account still.
2. One lemma per ledger operation (`MarkBook`, `CloseBook`, `OpenBook`, `SwapBook`) keeps the
   book; the three sums are carried by `TotalAppend` and `TotalOne`.
3. `EngineTyped`, `TradesAlwaysRecorded`, `BooksAlwaysReconcile`, `BreachAlwaysEndsRun`: its parts
   and what follows from them.
4. `OpensAlwaysWithinLimits` is the action property: only `Accept` opens (`OnlyAcceptOpens`), by
   an account that was judged (`AcceptFacts`), and where nothing is closed first it is also
   the account that opens (`CloseNone`). `BacktestKeepsPromise` is the implementation of
   `GuardedBook`.
5. `LoserAlwaysRetired`: from `Reconciles`, the figures the economics reads are those of the
   ledgers. It needs `EconomicsAssumption`: a run whose costs eat the whole gross result
   reaches the threshold to retire, as the code's defaults have it.

**Slow loop.** `Orchestrator_proofs`, for any proposals, identities, verdicts and costs, any number
of cycles, and crashes anywhere:

1. `CycleConsistent`: `CycleInv` is inductive. It joins the three properties of the two files
   (`TrailComplete`, `QueuedHasEntry`, `NoSurvivorDropped`) with what ties the memory of the
   running cycle to them: what `work` may hold in which stage (`MemoryOK`), that the registry
   has this cycle's entry of each candidate that is no longer to be upserted
   (`RegistryWritten`) and its evidence once recorded (`EvidenceWritten`), that the survivor
   being filed is in the registry and then in the inbox (`SurvivorWritten`), and that
   nothing is filed twice (`FiledOnce`). A crash forgets the memory, and the files agree
   without it. There is one lemma per action.
2. `CycleTyped`, `TrailAlwaysComplete`, `QueuedAlwaysHasEntry`, `SurvivorNeverDropped`: its parts.
3. `CostAlwaysBounded`: by `PaidWithinBudget`, relative to `CycleInv`.
4. `ReviewGateImplemented`: `Spec` implements `ReviewGate`. Each write of an entry is a step of
   its strategy or a stutter (`EntryMoves`, `UpsertProposes`, `RecordTests`, `KillJudges`,
   `RouteJudges`, `FileFiles`, `MarkStutters`, `HumanDecides`); a crash is always a stutter.

**Agent runner.** `AgentRunner_proofs`, for every set of calls and usages, every cap (or none)
and any number of retries and runs:

1. `RunnerTyping`: `TypeOK` is inductive by itself; `CostType` types the price formula.
2. `TrackerAlwaysMatches`: the match is inductive together with `PendingLogged`, for the
   answer that is logged but not settled yet is the log's last row. One lemma per way a step
   can touch the count: `CountUntouched`, `CountAppended`, `CountSettled` (where `TotalLast`
   is needed) and `CountStarted`.
3. `OneAnswerAlways`: with `RunLogged`, which says what the log may hold of the current run.
4. `RunnerKeepsPromise`: the safety part of `BudgetedCall`, with `SettledWithinCap`.

**Review desk.** `ReviewDesk_proofs`, for any candidates, identities, figures and answers:

1. `DeskInv` is inductive. Its parts say that the stages come in order (`Before`), that
   only survivors of the triage are stressed (`StressedSurvived`), that the verdicts passed
   the critic's checks (`VerdictsChecked`), that the queue holds exactly the entries of the
   first surviving verdict of each strategy (`QueueIsFiled`), and that a report passed the
   reporting agent's checks (`ReportChecked`). `OneMoreVerdict` is how the filed verdicts grow.
2. `QueueAlwaysEarned`: from `QueueIsFiled` with the two parts before it.
3. `ReportAlwaysFaithful`: the checks compare the report with the queue, and the queue is
   known to be what the verdicts and the figures say; `ItemIsEntry`, `EntryHasItem` and
   `OneEntryEach` are the two directions and the uniqueness.
4. `CountsAlwaysAddUp`: `CountInv` adds the counts of verdicts, of strategies and of entries so
   far; `EveryCandidateOnce` and `OneVerdictEach` are the bijections behind the sums.
   `CritiqueAssumption` says that a list of verdicts is a list.

**Research.** `BacktestHarness_proofs`, for any markets, proposals, fractions, lookbacks, windows
and costs. `HarnessAssumption` is what the provider and the data classes guarantee: candles of
distinct ascending times, numeric parameters and ranges, later bars at later times.

1. `HarnessConsistent`: `HarnessInv` is inductive. A candidate on its way is legal, every run is a
   replay of its own bars within the limits, and what was tuned on lies before the split of
   the market as it is now (`TunedBeforeEdge`). `HoldoutAlwaysUnseen` needs that last part: each
   stage splits anew, and the split never moves back, because the rounded share grows by one
   bar at most for each new bar (`RoundedStep`, `OosSizeBounds`, `EdgeAdvances`).
2. `AlwaysWithinLimits`: what the lab accepts is fenced (`LegalIsFenced`), and so is every
   neighbour, which moves one parameter to an end of its own range (`NeighbourIsFenced`).
3. `NeverLooksAhead`: `PastDecides` runs two replays side by side as far as their bars agree.
4. `CurveIsAlwaysOwn`: with `CurveInv`, which says that what is shown and what is stored was
   measured by runs of their stages, and how many bars a holdout has. Equal hashes are
   equal spans; a holdout of one fetch is smaller than what is in sample at any later one
   (`InSampleGrows`), so that the segments cannot be taken for each other either.
5. `TestsAlwaysTile`: `WindowsTile` is the arithmetic of the cursors, over any candles.

**Screener.** `MarketInputs_proofs`, for any histories, quotes, names and limits:

1. `ShortlistAlwaysDiverse`: `ShortlistDiverse` alone is not inductive, for nothing in it says
   that the next profile is no cheaper than those chosen: `LeftOver` adds that every profile
   still to be considered is eligible and no cheaper than what was selected, and `NothingYet`
   that the screening leaves the shortlist empty.
2. `EveryPairAlwaysAccounted`: `AccountInv` counts, for each name, that it was asked for as often
   as it waits, is selected and is left out (`Tally`), and says of each reason what makes it
   last whatever is selected later (`Lasting`).

**Market context.** `MarketInputs_proofs`, for any calendars, windows, lists of series and answers,
any number of retries, and a clock that may move between any two steps. `ContextAssumption`
says that windows and times are numbers, lists are lists, and that no answer is `None`, the
mark of a request that is still waiting: JSON's `null` is an answer of another kind.

1. The lists. `Ranking` and `NthOf`: in a strict order each member of a finite set is the nth of
   it for exactly one n, and the nth grow with n. `KeptItems` and `NthSoonestOf` are what it
   gives for a filtered and for a sorted list, `ReleasesOnce` that duplicates are dropped,
   `FilteredReleases` what the filter of a window leaves.
2. `ContextInvariant`: `ContextInv` is inductive. `Readings` counts how often the clock was read
   and how many lists came of it; `Fetched` says what the file or files that already arrived
   hold, as seen at the reading that asked for them, which `BriefExact` says nothing of and
   everything depends on; `Idle` that nothing of one request is left for the next; `Events`
   that each list holds only releases of its window, once and in order (`Sound`) and, unless
   the week turned, all that matter (`Whole`); `Snapshots` that what is shown of the series
   is, one for one, what was heard of the known ones. `NextFile`, `ReturnedIsWhole` and
   `LastFile` are the steps where a week's file joins the list.
3. `BriefAlwaysExact`, `FailureAlwaysContained`: `BriefIsExact` follows from `Events` once the
   brief is cut to its first rows (`ReadBeside`, `KeptItem`); `FailureIsContained` from
   `Snapshots`, with `LastTwo` and `SummaryTrue` for what an adapter makes of a series.

**How runs end.** Liveness under fairness is beyond the prover, but what it rests on is not: each
step of a run must leave less to do. The measure is named in each `*_proofs` module, and the
theorem says that it is a number (or a triple of numbers) and that it falls.

- `SubmissionCountsDown` (`CallsLeft`, at most three), `RunCountsDown` (`StepsLeft`: the attempts
  and the steps after the answer), `BacktestCountsDown` (`RunLeft`: bars, parts of the bar,
  signals), `CycleCountsDown` (`CycleLeft`: stages, what the stage has to do, the steps of the
  verdict at hand), `BriefCountsDown` (`BriefLeft`: tasks, files, attempts; the clock alone
  leaves it as it is).
- With `NoEndlessFall` none of them goes on for ever: no retry, repeated verdict or refusal sends
  it back. That a step is always possible until the end, and is taken, is left to TLC.
- For the fast loop the measure has so few values that the temporal prover can follow it:
  `SubmissionReturnsIfCallsEnd` is `SubmissionReturns` itself, for every market and
  configuration, from `CallsEnd`: the fairness of `FairSpec` with "a submission is under way"
  in the place of `ENABLED`, which is the part that cannot be proved here.

**Only model-checked.** Liveness under fairness (`Terminates`, `CycleReturns`, `BriefReturns`, the
liveness part of `BudgetedCall`; of `SubmissionReturns` only that `EngineStep` is enabled while a
submission is under way): it needs `ENABLED`, and an induction over a temporal formula, which
are beyond the prover. That each hazard is reached, and the violations, which are facts about
instances.

## 6. What is left out

*Everywhere.* Decimal context precision (28 digits) and the quantum's size; log lines,
timestamps of audit records; the content of LLM prompts and prose, of which only whether a
pattern matches is kept. Market data, agents and the human are environments that may do
anything their callers tolerate.

*Backtest and research.* The statistics of `metrics.py` except how they raise, and the
metrics of the runs of `BacktestHarness`, whose signals are computed. `run_candidate_oos`,
which nothing calls. A stop wider than the price, which makes the crossover raise. The access
count of a split: it is kept per object, the holdout is opened by two stages, and nothing
reads it. The bar that is still being formed is not filtered out by the code, and so not by
the model.

*Review desk.* The tolerance of the float comparisons; two candidates of one id, which
`Orchestrator` has.

*Market context.* The length of a pause: `Retry-After` is obeyed without a limit. The filter
by currency and the date bounds of a series, which no caller uses.

*Screener and market data.* The rounding of ratios and correlations; the descriptors that
decide nothing; the parsing of times and the spelling of a pair; the stub provider.

*Not modelled.* The dashboard's readers take the registry, the queue and the cycle files at
different moments; the repository promises no common view of them, so there is nothing to
state (the hazard says what may be seen). The web client presents what the API returns.
The configuration has no behaviour over time. The scripts wire components for one run.

## 7. Plan

All of it is done.

1. Fast loop with its proofs.
2. Backtest engine, with the economics over it.
3. Slow loop: registry, queue, orchestrator.
4. Agent runner with its proofs.
5. Research, review desk, market context and screener.
6. Proofs of the review desk and of the screener.
7. Proofs of the slow loop, `ReviewGate` included.
8. Proofs of the backtest and of the research.
9. Proofs of the market context, with the lists written so that they can be reasoned about.
10. What each run leaves to do falls with every step.
