----------------------------- MODULE ReviewDesk -----------------------------
(***************************************************************************)
(* core/agents: from the figures the harness measured to the report the    *)
(* operator reads.  The backtest agent, the critic and the reporting agent *)
(* each get figures to copy and a judgement to make; their Tier-1 checks   *)
(* compare every copy with what was measured, and an answer that fails one *)
(* ends the cycle, or leaves it without a report.  Between them the        *)
(* orchestrator routes the verdicts to the approval queue.                 *)
(*                                                                         *)
(* What an LLM may answer is any set of answers.  Prose is the words the   *)
(* checks look for: a claim about the holdout, an intent to execute, a     *)
(* recommendation.  Figures are compared for equality; the code allows     *)
(* floats a relative error of 1e-6, and the duration a hundredth.          *)
(***************************************************************************)
EXTENDS Integers, Sequences, FiniteSets

CONSTANTS
  Ids,                 \* candidate ids of the proposal
  Identity,            \* the strategy each of them is
  RawMetrics,          \* figures a run of the engine may have
  Infinite,            \* a profit factor without a losing trade
  MinTradeCount, MaxDrawdown, MinProfitFactor,   \* gate thresholds
  Checklist,           \* what a concern may be about
  Universe,            \* pairs of the cycle
  Cycle, Cost,         \* its id and what it cost
  BacktestAnswers(_),  \* what the backtest agent may answer to some evidence
  CriticAnswers(_),    \* what the critic may answer to the robustness evidence
  Reports(_, _),       \* what the reporting agent may answer to result and queue
  None

Segments == {"in_sample", "out_of_sample"}
Triages == {"advance_to_critic", "reject", "needs_different_params"}
VerdictKinds == {"kill", "survive_for_now"}

ASSUME ReviewDeskAssumption ==
  /\ IsFiniteSet(Ids)
  /\ None \notin RawMetrics

VARIABLES
  stage,       \* where the cycle is
  evidence,    \* in-sample figures, of the candidates that could be run
  triage,      \* the triage of the candidates the backtest agent named
  robustness,  \* figures measured anew, and out of sample, of those stressed
  critique,    \* the critic's verdicts
  routed,      \* how many of them are routed
  killed,      \* how many candidates the cycle counts as killed
  queued,      \* the identities it counts as queued
  queue,       \* this cycle's entries of the approval queue
  result,      \* the CycleResult, or None
  report       \* the report, or None

vars == <<stage, evidence, triage, robustness, critique, routed, killed, queued,
          queue, result, report>>

-----------------------------------------------------------------------------
\* metrics_view: an infinite figure is shown as none at all.
MetricsView(raw) ==
  [trade_count   |-> raw.trade_count,
   max_drawdown  |-> raw.max_drawdown,
   profit_factor |-> IF raw.profit_factor = Infinite THEN None ELSE raw.profit_factor]

\* _compute_gates.
Gates(raw) ==
  [min_trade_count |-> raw.trade_count >= MinTradeCount,
   max_drawdown    |-> raw.max_drawdown <= MaxDrawdown,
   not_halted      |-> ~raw.halted,
   in_sample_profit_factor |->
     IF raw.profit_factor = Infinite THEN TRUE ELSE raw.profit_factor >= MinProfitFactor]

\* The config_hash of a run, taken to name it.
RunHash(id, segment, raw) == <<id, segment, raw>>

\* {g.name: g.passed}: of two gates of one name the later counts.
AsDict(gates) ==
  [n \in {gates[k].name : k \in DOMAIN gates} |->
     gates[CHOOSE k \in DOMAIN gates :
             /\ gates[k].name = n
             /\ \A j \in DOMAIN gates : gates[j].name = n => j <= k].passed]

\* The answers' parts; the prose of each is what the checks look for in it.
BacktestVerdict(id, hash, metrics, gates, triaged) ==
  [id |-> id, hash |-> hash, metrics |-> metrics, gates |-> gates, triage |-> triaged,
   claims_oos |-> FALSE, intent |-> FALSE]

CriticVerdict(id, hash, in_sample, oos_hash, out_of_sample, verdict, concerns) ==
  [id |-> id, hash |-> hash, in_sample_metrics |-> in_sample, oos_hash |-> oos_hash,
   out_of_sample_metrics |-> out_of_sample, verdict |-> verdict, concerns |-> concerns,
   intent |-> FALSE]

OverfittingConcern(item, finding) == [item |-> item, finding |-> finding]

QueuedCandidateReport(id, verdict, in_sample, out_of_sample, concerns) ==
  [id |-> id, verdict |-> verdict, in_sample_metrics |-> in_sample,
   out_of_sample_metrics |-> out_of_sample, concerns |-> concerns, recommends |-> FALSE]

CycleReport(cycle, summary, items) ==
  [cycle |-> cycle, summary |-> summary, items |-> items, recommends |-> FALSE]

-----------------------------------------------------------------------------
\* Tier-1 of the backtest agent, for one verdict; ev is the evidence it saw.
ReferencesRun(v, ev) ==
  v.id \in DOMAIN ev /\ v.hash = RunHash(v.id, "in_sample", ev[v.id])
MetricsVerbatim(v, ev) == v.metrics = MetricsView(ev[v.id])
GatesVerbatim(v, ev) == AsDict(v.gates) = Gates(ev[v.id])

BacktestAccepted(a, ev) ==
  /\ a.run_id = Cycle
  /\ \A k \in DOMAIN a.verdicts :
       LET v == a.verdicts[k]
       IN  /\ ReferencesRun(v, ev)
           /\ MetricsVerbatim(v, ev)
           /\ GatesVerbatim(v, ev)
           /\ ~v.claims_oos
           /\ ~v.intent
           /\ v.triage \in Triages

\* {v.candidate_id: v.triage}: the last verdict on a candidate counts.
TriageOf(verdicts) ==
  [id \in {verdicts[k].id : k \in DOMAIN verdicts} |->
     verdicts[CHOOSE k \in DOMAIN verdicts :
                /\ verdicts[k].id = id
                /\ \A j \in DOMAIN verdicts : verdicts[j].id = id => j <= k].triage]

-----------------------------------------------------------------------------
\* Tier-1 of the critic; rb is the robustness evidence it saw.
ReferencesReal(v, rb) ==
  v.id \in DOMAIN rb /\ v.hash = RunHash(v.id, "in_sample", rb[v.id].in_sample)
InSampleVerbatim(v, rb) == v.in_sample_metrics = MetricsView(rb[v.id].in_sample)
OosVerbatimOrAbsent(v, rb) ==
  v.out_of_sample_metrics # None =>
    /\ rb[v.id].out_of_sample # None
    /\ v.out_of_sample_metrics = MetricsView(rb[v.id].out_of_sample)
    /\ v.oos_hash = RunHash(v.id, "out_of_sample", rb[v.id].out_of_sample)
ConcernsMapToChecklist(v) == \A c \in v.concerns : c.item \in Checklist

CritiqueAccepted(a, rb) ==
  /\ a.run_id = Cycle
  /\ \A k \in DOMAIN a.verdicts :
       LET v == a.verdicts[k]
       IN  /\ ReferencesReal(v, rb)
           /\ InSampleVerbatim(v, rb)
           /\ OosVerbatimOrAbsent(v, rb)
           /\ v.verdict \in VerdictKinds
           /\ ConcernsMapToChecklist(v)
           /\ ~v.intent

-----------------------------------------------------------------------------
\* Tier-1 of the reporting agent, against the result and the queue entries.
\* _queued_snapshot: what the entry of a candidate says.
EntryOf(id, q) == q[CHOOSE k \in DOMAIN q : q[k].id = id]
QueuedIds(q) == {q[k].id : k \in DOMAIN q}

SummaryOf(res) ==
  [cycle |-> Cycle, outcome |-> res.outcome, proposed |-> res.proposed,
   killed |-> res.killed, queued |-> res.queued, cost |-> res.cost, pairs |-> Universe]

CycleIdPreserved(r) == r.cycle = Cycle /\ r.summary.cycle = r.cycle
SummaryVerbatim(r, res) == r.summary = [SummaryOf(res) EXCEPT !.cycle = r.summary.cycle]

AllQueuedPresentAndReal(r, q) ==
  /\ {r.items[k].id : k \in DOMAIN r.items} = QueuedIds(q)
  /\ \A j, k \in DOMAIN r.items : r.items[j].id = r.items[k].id => j = k

\* None must match none: figures out of sample are neither dropped nor claimed.
QueuedMetricsVerbatim(item, q) ==
  LET e == EntryOf(item.id, q)
  IN  /\ item.in_sample_metrics = MetricsView(e.in_sample)
      /\ item.out_of_sample_metrics =
           IF e.out_of_sample = None THEN None ELSE MetricsView(e.out_of_sample)

VerdictIsSurvive(item, q) ==
  item.verdict = "survive_for_now" /\ item.verdict = EntryOf(item.id, q).verdict

\* Faulty variant: only that nothing is fabricated.
ConcernsNotFabricated(item, q) == item.concerns \subseteq EntryOf(item.id, q).concerns

ConcernsPresentAndComplete(item, q) == item.concerns = EntryOf(item.id, q).concerns

ReportAccepted(r, res, q) ==
  /\ CycleIdPreserved(r)
  /\ SummaryVerbatim(r, res)
  /\ AllQueuedPresentAndReal(r, q)
  /\ \A k \in DOMAIN r.items :
       /\ QueuedMetricsVerbatim(r.items[k], q)
       /\ VerdictIsSurvive(r.items[k], q)
       /\ ConcernsPresentAndComplete(r.items[k], q)
       /\ ~r.items[k].recommends
  /\ ~r.recommends

-----------------------------------------------------------------------------
\* CycleResult, with the counts of a completed cycle or none of an aborted one.
CycleResult(outcome, proposed, k, q) ==
  [outcome |-> outcome, proposed |-> proposed, killed |-> k, queued |-> q, cost |-> Cost]

Completed(k, q) == CycleResult("completed", Cardinality(Ids), k, q)
Aborted == CycleResult("aborted_failure", 0, 0, 0)

\* The candidates the backtest agent rejected, and those it did not.
Rejected(t) == {id \in DOMAIN evidence \intersect DOMAIN t : t[id] = "reject"}

\* Faulty variant: a rejected candidate is killed and stressed.
SurvivorsOfAll(t) == DOMAIN evidence

Survivors(t) == DOMAIN evidence \ Rejected(t)

\* Any figures for any of these candidates, from the same harness.
Evidence(ids) == UNION {[s -> RawMetrics] : s \in SUBSET ids}
Robustness(ids) ==
  UNION {[s -> [in_sample: RawMetrics, out_of_sample: RawMetrics \union {None}]] :
           s \in SUBSET ids}

\* The verdicts of a CriticVerdictSet are a tuple, whatever the critic answers.
ASSUME CritiqueAssumption ==
  \A rb \in Robustness(Ids) : \A a \in CriticAnswers(rb) :
    a.verdicts \in Seq({a.verdicts[k] : k \in DOMAIN a.verdicts})

Init ==
  /\ stage = "tested"
  /\ evidence \in Evidence(Ids)
  /\ triage = << >>
  /\ robustness = << >>
  /\ critique = << >>
  /\ routed = 0
  /\ killed = 0
  /\ queued = << >>
  /\ queue = << >>
  /\ result = None
  /\ report = None

Close(res) == stage' = "closed" /\ result' = res

\* No candidate could be run.
NothingTested ==
  /\ stage = "tested"
  /\ DOMAIN evidence = {}
  /\ Close(Completed(0, 0))
  /\ UNCHANGED <<evidence, triage, robustness, critique, routed, killed, queued, queue, report>>

AskBacktestAgent ==
  /\ stage = "tested"
  /\ DOMAIN evidence # {}
  /\ \E a \in BacktestAnswers(evidence) :
       IF BacktestAccepted(a, evidence)
       THEN /\ triage' = TriageOf(a.verdicts)
            /\ killed' = Cardinality(Rejected(triage'))
            /\ stage' = "triaged"
            /\ UNCHANGED result
       ELSE /\ Close(Aborted)
            /\ UNCHANGED <<triage, killed>>
  /\ UNCHANGED <<evidence, robustness, critique, routed, queued, queue, report>>

\* run_robustness on each survivor; some may fail, and figures may have changed.
Stress ==
  /\ stage = "triaged"
  /\ robustness' \in Robustness(Survivors(triage))
  /\ IF DOMAIN robustness' = {}
     THEN Close(Completed(killed, 0))
     ELSE stage' = "stressed" /\ UNCHANGED result
  /\ UNCHANGED <<evidence, triage, critique, routed, killed, queued, queue, report>>

AskCritic ==
  /\ stage = "stressed"
  /\ \E a \in CriticAnswers(robustness) :
       IF CritiqueAccepted(a, robustness)
       THEN critique' = a.verdicts /\ stage' = "routing" /\ UNCHANGED result
       ELSE Close(Aborted) /\ UNCHANGED critique
  /\ UNCHANGED <<evidence, triage, robustness, routed, killed, queued, queue, report>>

\* The entry filed for a verdict: the figures of the first backtest, those out
\* of sample, and the verdict; an entry of the same strategy is left as it is.
EntryFor(v) ==
  [id |-> v.id, identity |-> Identity[v.id], in_sample |-> evidence[v.id],
   out_of_sample |-> robustness[v.id].out_of_sample,
   verdict |-> v.verdict, concerns |-> v.concerns]

FileSurvivor(v) ==
  queue' = IF \E k \in DOMAIN queue : queue[k].identity = Identity[v.id]
           THEN queue ELSE Append(queue, EntryFor(v))

\* Faulty variant: a kill is recorded but not counted.
RouteKillUncounted ==
  /\ stage = "routing"
  /\ routed + 1 \in DOMAIN critique
  /\ critique[routed + 1].verdict = "kill"
  /\ routed' = routed + 1
  /\ UNCHANGED <<stage, evidence, triage, robustness, critique, killed, queued, queue, result, report>>

RouteKill ==
  /\ stage = "routing"
  /\ routed + 1 \in DOMAIN critique
  /\ critique[routed + 1].verdict = "kill"
  /\ killed' = killed + 1
  /\ routed' = routed + 1
  /\ UNCHANGED <<stage, evidence, triage, robustness, critique, queued, queue, result, report>>

RouteSurvivor ==
  /\ stage = "routing"
  /\ routed + 1 \in DOMAIN critique
  /\ critique[routed + 1].verdict # "kill"
  /\ FileSurvivor(critique[routed + 1])
  /\ queued' = Append(queued, Identity[critique[routed + 1].id])
  /\ routed' = routed + 1
  /\ UNCHANGED <<stage, evidence, triage, robustness, critique, killed, result, report>>

EndCycle ==
  /\ stage = "routing"
  /\ routed = Len(critique)
  /\ Close(Completed(killed, Len(queued)))
  /\ UNCHANGED <<evidence, triage, robustness, critique, routed, killed, queued, queue, report>>

\* ReportingAgent, for the result and the pending entries of the cycle.
AskReportingAgent ==
  /\ stage = "closed"
  /\ \E r \in Reports(result, queue) :
       IF ReportAccepted(r, result, queue)
       THEN report' = r /\ stage' = "reported"
       ELSE stage' = "unreported" /\ UNCHANGED report
  /\ UNCHANGED <<evidence, triage, robustness, critique, routed, killed, queued, queue, result>>

Next ==
  \/ NothingTested
  \/ AskBacktestAgent
  \/ Stress
  \/ AskCritic
  \/ RouteKill
  \/ RouteSurvivor
  \/ EndCycle
  \/ AskReportingAgent

Spec == Init /\ [][Next]_vars

-----------------------------------------------------------------------------
\* The routed verdicts that let a candidate survive, and those filed: for
\* each strategy the first.
Survivals == {k \in 1..routed : critique[k].verdict # "kill"}
Filed == {k \in Survivals :
            \A j \in Survivals :
              Identity[critique[j].id] = Identity[critique[k].id] => k <= j}

\* approval_item: what the dashboard shows beside a pending entry, the first item on
\* its candidate in the report of its cycle, where there is one.
ItemsOn(id) == {n \in DOMAIN report.items : report.items[n].id = id}
ApprovalItem(entry) ==
  IF ItemsOn(entry.id) = {} THEN None
  ELSE report.items[CHOOSE n \in ItemsOn(entry.id) :
                      \A m \in ItemsOn(entry.id) \ {n} : n < m]

\* A report that was accepted gives the counts of the cycle, and for every
\* survivor the cycle filed, once each and for no other candidate, exactly
\* what the harness measured and exactly what the critic objected to: nothing
\* dropped, nothing claimed, no recommendation; and the dashboard shows beside
\* every pending entry the item on it (reporting_agent.py, over the checks of
\* all three agents and the routing; api/serializers.py).
ReportFaithful ==
  report # None =>
    /\ report.summary = SummaryOf(result)
    /\ ~report.recommends
    /\ \A n \in DOMAIN report.items : \E k \in Filed :
         LET item == report.items[n]
             v == critique[k]
         IN  /\ item.id = v.id
             /\ item.concerns = v.concerns
             /\ item.in_sample_metrics = MetricsView(evidence[v.id])
             /\ item.out_of_sample_metrics =
                  IF robustness[v.id].out_of_sample = None THEN None
                  ELSE MetricsView(robustness[v.id].out_of_sample)
    /\ \A k \in Filed : Cardinality(ItemsOn(critique[k].id)) = 1
    /\ \A n \in DOMAIN queue :
         /\ ItemsOn(queue[n].id) # {}
         /\ ApprovalItem(queue[n]).concerns = queue[n].concerns

\* Whatever the agents answer, an entry waits for the operator only if the
\* candidate was tested, was not rejected in the end, was stressed, and has a
\* verdict of the critic that quotes the figures it was given and claims no
\* holdout that was not opened (orchestrator._run_pipeline and Tier-1).
QueueEarned ==
  \A n \in DOMAIN queue :
    LET e == queue[n]
    IN  /\ e.id \in DOMAIN evidence \intersect DOMAIN robustness
        /\ e.id \in DOMAIN triage => triage[e.id] # "reject"
        /\ \E k \in DOMAIN critique :
             LET v == critique[k]
             IN  /\ v.id = e.id
                 /\ v.verdict = "survive_for_now"
                 /\ v.concerns = e.concerns
                 /\ v.in_sample_metrics = MetricsView(robustness[v.id].in_sample)
                 /\ \/ v.out_of_sample_metrics = None
                    \/ /\ e.out_of_sample # None
                       /\ v.out_of_sample_metrics = MetricsView(e.out_of_sample)

\* The critic judged every candidate it was given, and each of them once.
JudgedOnce ==
  \A id \in DOMAIN robustness :
    Cardinality({k \in DOMAIN critique : critique[k].id = id}) = 1

\* The counts of a completed cycle account for every candidate proposed: it
\* was not tested, not stressed, killed or queued, as long as the critic judges
\* each one once; and then the queue holds an entry for each strategy counted
\* (orchestrator.run_cycle).
CountsAddUp ==
  (result # None /\ result.outcome = "completed" /\ JudgedOnce) =>
    /\ result.proposed = result.killed + result.queued
         + Cardinality(Ids \ DOMAIN evidence)
         + Cardinality(Survivors(triage) \ DOMAIN robustness)
    /\ Len(queue) = Cardinality({queued[k] : k \in DOMAIN queued})
=============================================================================
