---------------------------- MODULE MCReviewDesk ----------------------------
(***************************************************************************)
(* Two candidates; the figures of one run pass every gate, those of the    *)
(* other fail all but one and have no losing trade.  Each agent copies     *)
(* faithfully, up to two verdicts in any order and with repeats, or alters *)
(* one field in the first of them.                                         *)
(***************************************************************************)
EXTENDS ReviewDesk

CONSTANTS c1, c2

Overfit == OverfittingConcern("out_of_sample_decay", "f")
Costs == OverfittingConcern("cost_sensitivity", "g")

\* Each candidate is a strategy of its own.
MCIdentity == [id \in {c1, c2} |-> id]

Good == [trade_count |-> 30, max_drawdown |-> 10, profit_factor |-> 2, halted |-> FALSE]
Odd == [trade_count |-> 2, max_drawdown |-> 40, profit_factor |-> Infinite, halted |-> TRUE]
MCRawMetrics == {Good, Odd}

Other(raw) == IF raw = Good THEN Odd ELSE Good

\* Up to two of these, in any order.
UpToTwo(S) == {<< >>} \union {<<a>> : a \in S} \union {<<a, b>> : a, b \in S}

GateList(raw) ==
  LET g == Gates(raw)
  IN  <<[name |-> "min_trade_count", passed |-> g.min_trade_count],
        [name |-> "max_drawdown", passed |-> g.max_drawdown],
        [name |-> "not_halted", passed |-> g.not_halted],
        [name |-> "in_sample_profit_factor", passed |-> g.in_sample_profit_factor]>>

TriageVerdict(id, raw, triaged) ==
  BacktestVerdict(id, RunHash(id, "in_sample", raw), MetricsView(raw), GateList(raw), triaged)

AlteredTriage(v, raw) ==
  {[v EXCEPT !.hash = None], [v EXCEPT !.metrics = MetricsView(Other(raw))],
   [v EXCEPT !.gates = GateList(Other(raw))], [v EXCEPT !.gates = Tail(@)],
   [v EXCEPT !.claims_oos = TRUE], [v EXCEPT !.intent = TRUE],
   [v EXCEPT !.id = None]}

Answer(verdicts) == [run_id |-> Cycle, verdicts |-> verdicts]
NotOurs(answer) == [answer EXCEPT !.run_id = None]

MCBacktestAnswers(ev) ==
  LET Faithful == {TriageVerdict(id, ev[id], t) : id \in DOMAIN ev,
                                                  t \in {"advance_to_critic", "reject"}}
      Altered == UNION {AlteredTriage(TriageVerdict(id, ev[id], "needs_different_params"), ev[id]) :
                          id \in DOMAIN ev}
  IN  {Answer(s) : s \in UpToTwo(Faithful) \union {<<v>> : v \in Altered}}
        \union {NotOurs(Answer(<< >>))}

\* Figures that may be absent, and the run they come from.
View(raw) == IF raw = None THEN None ELSE MetricsView(raw)
OosHash(id, raw) == IF raw = None THEN None ELSE RunHash(id, "out_of_sample", raw)

Judgement(id, r, verdict, concerns) ==
  CriticVerdict(id, RunHash(id, "in_sample", r.in_sample), MetricsView(r.in_sample),
                OosHash(id, r.out_of_sample), View(r.out_of_sample), verdict, concerns)

AlteredVerdict(v, r) ==
  {[v EXCEPT !.hash = None], [v EXCEPT !.oos_hash = None],
   [v EXCEPT !.in_sample_metrics = MetricsView(Other(r.in_sample))],
   [v EXCEPT !.out_of_sample_metrics = None],
   [v EXCEPT !.out_of_sample_metrics = MetricsView(Odd)],
   [v EXCEPT !.concerns = {[Costs EXCEPT !.item = "weather"]}],
   [v EXCEPT !.verdict = "approve"], [v EXCEPT !.intent = TRUE], [v EXCEPT !.id = None]}

MCCriticAnswers(rb) ==
  LET Survives(id, concerns) == Judgement(id, rb[id], "survive_for_now", concerns)
      Faithful == UNION {{Judgement(id, rb[id], "kill", {Overfit}),
                          Survives(id, {Overfit, Costs}), Survives(id, {})} : id \in DOMAIN rb}
      Altered == UNION {AlteredVerdict(Survives(id, {Costs}), rb[id]) : id \in DOMAIN rb}
  IN  {Answer(s) : s \in UpToTwo(Faithful) \union {<<v>> : v \in Altered}}
        \union {NotOurs(Answer(<< >>))}

ItemFor(e) ==
  QueuedCandidateReport(e.id, e.verdict, MetricsView(e.in_sample), View(e.out_of_sample),
                        e.concerns)

AlteredItem(i) ==
  {[i EXCEPT !.concerns = {}], [i EXCEPT !.concerns = {[Overfit EXCEPT !.finding = "g"], Costs}],
   [i EXCEPT !.concerns = {Overfit, Costs}],
   [i EXCEPT !.verdict = "validated"], [i EXCEPT !.recommends = TRUE],
   [i EXCEPT !.in_sample_metrics = MetricsView(Odd)],
   [i EXCEPT !.out_of_sample_metrics = MetricsView(Good)],
   [i EXCEPT !.out_of_sample_metrics = None],
   [i EXCEPT !.out_of_sample_metrics = i.in_sample_metrics]}

MCReports(res, q) ==
  LET items == [k \in DOMAIN q |-> ItemFor(q[k])]
      Report(list) == CycleReport(Cycle, SummaryOf(res), list)
      r == Report(items)
  IN  {r, Report(<< >>), Report(items \o items),
       [r EXCEPT !.cycle = None], [r EXCEPT !.summary.cycle = None],
       [r EXCEPT !.summary.outcome = "perfect"], [r EXCEPT !.summary.proposed = 9],
       [r EXCEPT !.summary.killed = 0], [r EXCEPT !.summary.queued = 0],
       [r EXCEPT !.summary.cost = 0], [r EXCEPT !.summary.pairs = {}],
       [r EXCEPT !.recommends = TRUE]}
      \union (IF q = << >> THEN {}
              ELSE {Report([items EXCEPT ![1] = i]) : i \in AlteredItem(items[1])})
=============================================================================
